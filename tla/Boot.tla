-------------------------------- MODULE Boot --------------------------------
(***************************************************************************)
(* RuntimeBuilder::build: a replica checks what it declares, converges its *)
(* topics, and migrates; only then are its loops started.  Replicas of one *)
(* service, of this release and of another, boot together on one broker    *)
(* and one schema.                                                         *)
(***************************************************************************)
EXTENDS Migrate

CONSTANTS
    Misdeclared,    \* the runners whose roles or configuration are refused
    Mode,           \* per runner, whether its topics are created, verified or left alone
    TopicNames, Specs, Provisioned, AutoCreated

ASSUME SpecsAssumption ==
    \A r \in Runners :
        Specs[r] \in Seq([topic : TopicNames, cleanup_policy : {"compact", "delete"},
                         partitions : Nat])
ASSUME ProvisionedAssumption ==
    Provisioned \in [TopicNames -> [cleanup_policy : {"none", "compact", "delete"},
                                    partitions : Nat]]

VARIABLES broker, stage, item

T == INSTANCE Topics WITH Replicas <- Runners

topicVars == <<broker, stage, item>>
bootVars == <<vars, topicVars>>

\* What a replica declares is checked before any I/O.
FirstStage(r) == IF r \in Misdeclared THEN "refused" ELSE "observing"

BootInit ==
    /\ Init
    /\ T!Init
    /\ stage = [r \in Runners |-> FirstStage(r)]

Converge(r) ==
    /\ r \notin Previews
    /\ T!Converge(r)
    /\ UNCHANGED vars

ConvergeFails(r) ==
    /\ r \notin Previews
    /\ T!AdminFails(r)
    /\ UNCHANGED vars

\* The changelog is built, and migrated to, once the topics have converged.
MayMigrate(r) == r \in Previews \/ stage[r] = "converged"

Migrates(r) == MayMigrate(r) /\ Run(r) /\ UNCHANGED topicVars

Interrupted(r) == MayMigrate(r) /\ Interrupt(r) /\ UNCHANGED topicVars

\* A replica whose build returned, or whose process died, boots again.
Reboot(r) ==
    /\ phase[r] \in Ended \/ stage[r] = "refused"
    /\ FirstStage(r) # "refused"
    /\ Restart(r)
    /\ stage' = [stage EXCEPT ![r] = FirstStage(r)]
    /\ item' = [item EXCEPT ![r] = 1]
    /\ UNCHANGED broker

Boots(r) == Converge(r) \/ Migrates(r)

BootNext ==
    \/ \E r \in Runners : Boots(r) \/ ConvergeFails(r) \/ Interrupted(r) \/ Reboot(r)
    \/ \E t \in TopicNames : T!AutoCreate(t) /\ UNCHANGED vars

BootSpec == BootInit /\ [][BootNext]_bootVars

\* While some replica can take a step of its own, one does; a full pool times out.
\* No fault, restart or foreign client is fair.
BootFairSpec == BootSpec /\ WF_bootVars(\E r \in Runners : Boots(r))

-----------------------------------------------------------------------------
\* Every variable has its type.
BootTypeOK == TypeOK /\ T!TopicTypeOK

\* The topics of a replica that finished its boot are as its types require.
TopicsToSpec ==
    \A r \in Runners \ Previews : phase[r] = "done" /\ Mode[r] # "off" =>
        \A i \in 1 .. Len(Specs[r]) : T!FirstFor(r, i) =>
            broker[Specs[r][i].topic].cleanup_policy = Specs[r][i].cleanup_policy

\* A boot comes to an end: neither a crashed holder of the migration lock, nor a
\* dry run, nor replicas that share a pool too small for both leave one waiting
\* for ever.
EventuallyEnds == <>[](\A r \in Runners : phase[r] \in Ended \/ stage[r] = "refused")
=============================================================================
