------------------------------- MODULE Ingest -------------------------------
(***************************************************************************)
(* The ingester: a consumer group reads the partitions of a topic, writes  *)
(* every record to the received table or to the quarantine table, and only *)
(* then commits its offset.                                                *)
(*                                                                         *)
(* The group protocol and the client library are external and modelled by  *)
(* what run_ingester can observe of them: recv() hands out records in      *)
(* offset order from a position that moves on with every call, a partition *)
(* that changes hands starts again from its committed offset, and a member *)
(* that has lost a partition may still commit the record it holds.         *)
(***************************************************************************)
EXTENDS Integers, FiniteSets

CONSTANTS
    Partitions,
    Consumers,      \* ingesters of one group
    Nobody,         \* the owner of an unassigned partition
    Keys,           \* idempotency keys
    MessageIds,     \* message ids
    Classes,        \* the classes of record on the topic, see Records
    MaxOffset,      \* bound: records per partition
    SkipLimit,      \* max_consecutive_skips
    FaultKinds,     \* which of "crash", "rebalance", "database", "broker" occur
    MaxFaults,      \* bound: how many of them
    MaxRestarts     \* bound: restarts of stopped ingesters

ASSUME MaxOffsetAssumption == MaxOffset \in Nat \ {0} /\ Partitions # {}
ASSUME SkipLimitAssumption == SkipLimit \in Nat \ {0}
ASSUME MaxFaultsAssumption == MaxFaults \in Nat
ASSUME MaxRestartsAssumption == MaxRestarts \in Nat
ASSUME ClassesAssumption == Classes \subseteq {"good", "poison", "unwritable"}
ASSUME NobodyAssumption == Nobody \notin Consumers
ASSUME ConsumersAssumption == IsFiniteSet(Consumers)

Offsets == 0 .. MaxOffset - 1
Places == Partitions \X Offsets

\* "poison" fails to decode for good (ingest_failure_kind is Some) or panics while
\* its row is built, which store turns into a quarantine as well; "unwritable"
\* decodes but the database refuses its row every time.  Neither is ever stored, so
\* they all have one key and one id.
AnyKey == CHOOSE k \in Keys : TRUE
AnyId == CHOOSE i \in MessageIds : TRUE
Records == {r \in [class : Classes, key : Keys, id : MessageIds] :
               r.class # "good" => r.key = AnyKey /\ r.id = AnyId}

VARIABLES
    log,         \* the records of the topic
    committed,   \* the committed offset of each partition
    owner,       \* the group's assignment
    pos,         \* per ingester and partition, the offset recv() hands out next
    phase,       \* where each ingester is in ingest_once
    hand,        \* the record it is working on
    skips,       \* consecutive_skips
    received,    \* the received table: place |-> row, by source offset
    quarantined, \* the received_ingest_failures table, by its primary key
    failed,      \* the records whose transaction ended in a database error
    faults,
    restarts

vars == <<log, committed, owner, pos, phase, hand, skips, received, quarantined,
          failed, faults, restarts>>

Phases == {"down", "idle", "held", "acking"}

Init ==
    /\ log \in [Places -> Records]
    /\ committed = [p \in Partitions |-> 0]
    /\ owner = [p \in Partitions |-> Nobody]
    /\ pos = [c \in Consumers |-> [p \in Partitions |-> 0]]
    /\ phase = [c \in Consumers |-> "idle"]
    /\ hand = [c \in Consumers |-> CHOOSE x \in Places : TRUE]
    /\ skips = [c \in Consumers |-> 0]
    /\ received = {}
    /\ quarantined = {}
    /\ failed = {}
    /\ faults = 0
    /\ restarts = 0

Fault(kind) == kind \in FaultKinds /\ faults < MaxFaults /\ faults' = faults + 1

-----------------------------------------------------------------------------
(* The group *)

\* A partition without an owner is given to a running ingester, which fetches
\* from the committed offset.
Assign(p, c) ==
    /\ owner[p] = Nobody
    /\ phase[c] # "down"
    /\ owner' = [owner EXCEPT ![p] = c]
    /\ pos' = [pos EXCEPT ![c][p] = committed[p]]
    /\ UNCHANGED <<log, committed, phase, hand, skips, received, quarantined,
                   failed, faults, restarts>>

\* The group takes a partition from an ingester that keeps running and may have
\* one of its records in hand.
Revoke(p) ==
    /\ owner[p] # Nobody
    /\ Fault("rebalance")
    /\ owner' = [owner EXCEPT ![p] = Nobody]
    /\ UNCHANGED <<log, committed, pos, phase, hand, skips, received, quarantined,
                   failed, restarts>>

\* What a stopping ingester leaves behind: its partitions go to others.
Freed(c) == [p \in Partitions |-> IF owner[p] = c THEN Nobody ELSE owner[p]]

-----------------------------------------------------------------------------
(* One cycle of run_ingester *)

\* recv(): the next record of an assigned partition; the position moves past it.
Recv(c) ==
    /\ phase[c] = "idle"
    /\ \E p \in Partitions :
          /\ owner[p] = c
          /\ pos[c][p] < MaxOffset
          /\ hand' = [hand EXCEPT ![c] = <<p, pos[c][p]>>]
          /\ pos' = [pos EXCEPT ![c][p] = @ + 1]
    /\ phase' = [phase EXCEPT ![c] = "held"]
    /\ UNCHANGED <<log, committed, owner, skips, received, quarantined, failed, faults,
                   restarts>>

Row(x) == [at |-> x, key |-> log[x].key, id |-> log[x].id]

\* Mutant: the message id is looked at before the idempotency key.
InsertOutcomeById(x) ==
    IF \E row \in received : row.id = log[x].id THEN "MessageIdConflict"
    ELSE IF \E row \in received : row.key = log[x].key
         THEN "DuplicateIdempotencyKey"
    ELSE "Inserted"

\* Mutant: no unique index on the idempotency key.
InsertOutcomeByIdOnly(x) ==
    IF \E row \in received : row.id = log[x].id /\ row.key # log[x].key
    THEN "MessageIdConflict" ELSE "Inserted"

\* insert_received_with_outcome: ON CONFLICT DO NOTHING on both unique columns,
\* then, if nothing was inserted, what the conflict was about.
InsertOutcome(x) ==
    IF \E row \in received : row.key = log[x].key THEN "DuplicateIdempotencyKey"
    ELSE IF \E row \in received : row.id = log[x].id THEN "MessageIdConflict"
    ELSE "Inserted"

\* Whether the record ends in the quarantine table.
Refused(x) == \/ log[x].class = "poison"
              \/ log[x].class = "good" /\ InsertOutcome(x) = "MessageIdConflict"

\* quarantine: a refused record is kept once, by its place.
Quarantine(x) == IF Refused(x) THEN quarantined \cup {x} ELSE quarantined

\* Mutant: the breaker lets one skip too many through.
TripsLate(n) == n > SkipLimit

\* count_skip fails.
Trips(n) == n >= SkipLimit

\* The database transaction of one record commits: store for a row, store or
\* quarantine for a refusal.  A refusal counts towards the breaker, anything
\* else resets it; a breaker that trips ends the ingester before the commit.
Write(c) ==
    LET x == hand[c]
        tripped == Refused(x) /\ Trips(skips[c] + 1)
    IN /\ phase[c] = "held"
       /\ log[x].class # "unwritable"
       /\ quarantined' = Quarantine(x)
       /\ received' = IF ~Refused(x) /\ InsertOutcome(x) = "Inserted"
                      THEN received \cup {Row(x)} ELSE received
       /\ skips' = [skips EXCEPT ![c] = IF Refused(x) THEN @ + 1 ELSE 0]
       /\ phase' = [phase EXCEPT ![c] = IF tripped THEN "down" ELSE "acking"]
       /\ owner' = IF tripped THEN Freed(c) ELSE owner
       /\ UNCHANGED <<log, committed, pos, hand, failed, faults, restarts>>

\* commit_record: the offset after the record in hand.  The group accepts it
\* from a member that no longer owns the partition, or refuses that member.
Ack(c) ==
    LET p == hand[c][1]
    IN /\ phase[c] = "acking"
       /\ \/ committed' = [committed EXCEPT ![p] = hand[c][2] + 1]
          \/ owner[p] # c /\ committed' = committed
       /\ phase' = [phase EXCEPT ![c] = "idle"]
       /\ UNCHANGED <<log, owner, pos, hand, skips, received, quarantined, failed, faults,
                      restarts>>

\* Mutant: the offset is committed before the row is durable.
AckFirst(c) ==
    /\ phase[c] = "held"
    /\ Fault("broker")
    /\ committed' = [committed EXCEPT ![hand[c][1]] = hand[c][2] + 1]
    /\ phase' = [phase EXCEPT ![c] = "idle"]
    /\ UNCHANGED <<log, owner, pos, hand, skips, received, quarantined, failed, restarts>>

\* The offset commit fails, or its answer is lost: an error like any other.
AckFails(c) ==
    /\ phase[c] = "acking"
    /\ Fault("broker")
    /\ \/ committed' = committed
       \/ committed' = [committed EXCEPT ![hand[c][1]] = hand[c][2] + 1]
    /\ phase' = [phase EXCEPT ![c] = "idle"]
    /\ UNCHANGED <<log, owner, pos, hand, skips, received, quarantined, failed, restarts>>

\* Any other error of ingest_once: logged, and the loop goes round to recv().
DatabaseFails(c) ==
    /\ phase[c] = "held"
    /\ Fault("database")
    /\ failed' = failed \cup {hand[c]}
    /\ phase' = [phase EXCEPT ![c] = "idle"]
    /\ UNCHANGED <<log, committed, owner, pos, hand, skips, received, quarantined,
                   restarts>>

\* A row the database refuses every time is reported as the same kind of error.
Unwritable(c) ==
    /\ phase[c] = "held"
    /\ log[hand[c]].class = "unwritable"
    /\ failed' = failed \cup {hand[c]}
    /\ phase' = [phase EXCEPT ![c] = "idle"]
    /\ UNCHANGED <<log, committed, owner, pos, hand, skips, received, quarantined,
                   faults, restarts>>

\* Shutdown drops the cycle wherever it stands, and so does a crash.
Crash(c) ==
    /\ phase[c] # "down"
    /\ Fault("crash")
    /\ phase' = [phase EXCEPT ![c] = "down"]
    /\ owner' = Freed(c)
    /\ UNCHANGED <<log, committed, pos, hand, skips, received, quarantined,
                   failed, restarts>>

\* Mutant: the skip count survives the restart.
RestartCounting(c) ==
    /\ phase[c] = "down"
    /\ restarts < MaxRestarts
    /\ restarts' = restarts + 1
    /\ phase' = [phase EXCEPT ![c] = "idle"]
    /\ UNCHANGED <<log, committed, owner, pos, hand, skips, received, quarantined,
                   failed, faults>>

\* The service is started again, with a new RdkafkaConsumer.
Restart(c) ==
    /\ phase[c] = "down"
    /\ restarts < MaxRestarts
    /\ restarts' = restarts + 1
    /\ skips' = [skips EXCEPT ![c] = 0]
    /\ phase' = [phase EXCEPT ![c] = "idle"]
    /\ UNCHANGED <<log, committed, owner, pos, hand, received, quarantined, failed, faults>>

Cycle(c) == Recv(c) \/ Write(c) \/ Unwritable(c) \/ Ack(c)

Next ==
    \/ \E p \in Partitions : Revoke(p) \/ \E c \in Consumers : Assign(p, c)
    \/ \E c \in Consumers : \/ Cycle(c) \/ AckFails(c) \/ DatabaseFails(c)
                            \/ Crash(c) \/ Restart(c)

Spec == Init /\ [][Next]_vars

\* Ingesters keep polling, the group hands out partitions, and whatever stopped
\* is started again.
Fairness ==
    /\ \A c \in Consumers : WF_vars(Cycle(c)) /\ WF_vars(Restart(c))
    /\ \A p \in Partitions : WF_vars(\E c \in Consumers : Assign(p, c))

FairSpec == Spec /\ Fairness

-----------------------------------------------------------------------------
(* Properties *)

\* Every variable has its type.
TypeOK ==
    /\ log \in [Places -> Records]
    /\ committed \in [Partitions -> 0 .. MaxOffset]
    /\ owner \in [Partitions -> Consumers \cup {Nobody}]
    /\ pos \in [Consumers -> [Partitions -> 0 .. MaxOffset]]
    /\ phase \in [Consumers -> Phases]
    /\ hand \in [Consumers -> Places]
    /\ skips \in [Consumers -> Nat]
    /\ received \subseteq [at : Places, key : Keys, id : MessageIds]
    /\ quarantined \subseteq Places
    /\ failed \subseteq Places
    /\ faults \in 0 .. MaxFaults
    /\ restarts \in 0 .. MaxRestarts

\* A row with the record's idempotency key, or its quarantine row, is durable.
Durable(x) ==
    \/ x \in quarantined
    \/ log[x].class = "good" /\ \E row \in received : row.key = log[x].key

\* It is durable, or an error of the database was reported for it.
Accounted(x) == Durable(x) \/ x \in failed

\* The group never commits past a record that is neither stored, nor a duplicate
\* of a stored one, nor quarantined, unless the database failed on that record:
\* the loss that committing offsets by hand, after the row is durable, is there
\* to rule out.
NoneSkipped ==
    \A p \in Partitions, o \in Offsets : o < committed[p] => Accounted(<<p, o>>)

\* The same without the exception, as run_ingester's comments promise it: errors
\* are retried, and no offset is acknowledged without its row.
NoneLost ==
    \A p \in Partitions, o \in Offsets : o < committed[p] => Durable(<<p, o>>)

\* The stored copy of a message is its first: a republished copy, whose offset
\* may lie above a newer state of the entity, never takes its place, through
\* redelivery, rebalances and crashes.  (An earlier copy may have been refused,
\* or have failed.)
FirstCopyKept ==
    \A row \in received : \A o \in Offsets :
        LET x == <<row.at[1], o>>
        IN o < row.at[2] /\ log[x].class = "good" /\ log[x].key = row.key
           => x \in quarantined \cup failed

\* A record ends as a row or in quarantine, not both: redelivering a stored
\* record is a duplicate, never an identity conflict with itself.
StoredOrQuarantined == \A row \in received : row.at \notin quarantined

\* The poison records directly below offset n of a partition, but for those a
\* database error was reported for.
PoisonRun(p, n) ==
    {o \in Offsets : /\ o < n
                     /\ \A q \in o .. n - 1 : log[<<p, q>>].class = "poison"
                     /\ <<p, o>> \notin failed}

\* How often a partition can have changed hands: after a fault or a stop.
Stops == restarts + Cardinality({c \in Consumers : phase[c] = "down"})
Handovers == faults + Stops

\* The breaker bounds what a schema break can skip: an ingester passes fewer than
\* SkipLimit poison records in a row, and only a handover makes room for as many
\* again, whoever commits the offset and however late.  (The count is one per
\* ingester, and any good record it reads resets it: hence no bound where another
\* partition of the topic still has good records.)
SkipsBounded ==
    \A p \in Partitions :
        (\A x \in Places : log[x].class = "good" => x[1] = p)
        => Cardinality(PoisonRun(p, committed[p])) <= (1 + Handovers) * (SkipLimit - 1)

\* Every record is stored, quarantined or reported as failed in the end.
EventuallyAccounted == \A x \in Places : <>Accounted(x)
=============================================================================
