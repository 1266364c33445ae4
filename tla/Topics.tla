------------------------------- MODULE Topics -------------------------------
(***************************************************************************)
(* Topic convergence: before it migrates, a booting replica brings every   *)
(* entity topic it names in line with its specification.  The broker, other*)
(* replicas and clients that make the broker create a topic on first use   *)
(* all act between its observations.                                       *)
(***************************************************************************)
EXTENDS Integers, Sequences

CONSTANTS
    Replicas,       \* processes that call converge_topics
    TopicNames,
    Specs,          \* per replica, its descriptors: topic, cleanup_policy, partitions
    Mode,           \* per replica, "verify", "create" or "off"
    Provisioned,    \* per topic, what the broker holds before any replica boots
    AutoCreated     \* topics another client makes the broker create on first use

VARIABLES
    broker,         \* per topic, its configuration
    stage,          \* where each replica is in converge_topics
    item            \* the descriptor it is at

topicVars == <<broker, stage, item>>

\* CleanupPolicy; "delete" stands for every policy that is not compact alone.
Policies == {"compact", "delete"}

\* The partition count of a specification that declares none, of an absent topic.
Undeclared == 0
NoTopic == [cleanup_policy |-> "none", partitions |-> Undeclared]

Stages == {"observing", "creating", "verifying", "converged", "refused"}

Init ==
    /\ broker = Provisioned
    /\ stage \in [Replicas -> {"observing", "refused"}]
    /\ item = [r \in Replicas |-> 1]

Current(r) == Specs[r][item[r]]

\* TopicAdmin::observe.  Metadata reaches every broker some time after a topic
\* was created.
Observations(t) == {broker[t]} \cup (IF Provisioned[t] = NoTopic THEN {NoTopic} ELSE {})

\* reconcile: what to do about one topic.  A partition count that differs is only
\* warned of.
Reconcile(spec, observed, mode) ==
    CASE mode = "off" -> "satisfied"
      [] mode # "off" /\ observed = NoTopic ->
            IF mode = "create" /\ spec.partitions # Undeclared THEN "create" ELSE "refuse"
      [] OTHER ->
            IF observed.cleanup_policy = spec.cleanup_policy THEN "satisfied" ELSE "refuse"

MoveTo(r, s) == stage' = [stage EXCEPT ![r] = s]
NextItem(r) ==
    /\ item' = [item EXCEPT ![r] = @ + 1]
    /\ MoveTo(r, "observing")

\* The loop is through, or the mode has it not begin.
Conclude(r) ==
    /\ stage[r] = "observing"
    /\ Mode[r] = "off" \/ item[r] > Len(Specs[r])
    /\ MoveTo(r, "converged")
    /\ UNCHANGED <<broker, item>>

\* Two message types can share a topic, which is reconciled once.
Seen(r) == \E i \in 1 .. item[r] - 1 : Specs[r][i].topic = Current(r).topic

\* The first observation of a topic, and the decision.
Observe(r) ==
    /\ stage[r] = "observing" /\ Mode[r] # "off" /\ item[r] <= Len(Specs[r])
    /\ \/ Seen(r) /\ NextItem(r)
       \/ /\ ~Seen(r)
          /\ \E observed \in Observations(Current(r).topic) :
                LET action == Reconcile(Current(r), observed, Mode[r])
                IN \/ action = "satisfied" /\ NextItem(r)
                   \/ action = "create" /\ MoveTo(r, "creating") /\ UNCHANGED item
                   \/ action = "refuse" /\ MoveTo(r, "refused") /\ UNCHANGED item
    /\ UNCHANGED broker

\* Mutant: what was just created is taken to be right.
CreateUnverified(r) ==
    LET t == Current(r).topic
    IN /\ stage[r] = "creating"
       /\ broker' = IF broker[t] = NoTopic
                    THEN [broker EXCEPT ![t] = [cleanup_policy |-> Current(r).cleanup_policy,
                                                partitions |-> Current(r).partitions]]
                    ELSE broker
       /\ NextItem(r)

\* TopicAdmin::create: that the topic exists by now is no error.
Create(r) ==
    LET t == Current(r).topic
    IN /\ stage[r] = "creating"
       /\ broker' = IF broker[t] = NoTopic
                    THEN [broker EXCEPT ![t] = [cleanup_policy |-> Current(r).cleanup_policy,
                                                partitions |-> Current(r).partitions]]
                    ELSE broker
       /\ MoveTo(r, "verifying")
       /\ UNCHANGED item

\* The second observation, held to the specification whoever created the topic.
Verify(r) ==
    /\ stage[r] = "verifying"
    /\ \E observed \in Observations(Current(r).topic) :
          \/ Reconcile(Current(r), observed, "verify") = "satisfied" /\ NextItem(r)
          \/ /\ Reconcile(Current(r), observed, "verify") = "refuse"
             /\ MoveTo(r, "refused")
             /\ UNCHANGED item
    /\ UNCHANGED broker

\* The broker denies or does not answer a request, or the replica dies.
AdminFails(r) ==
    /\ \/ stage[r] \in {"creating", "verifying"}
       \/ stage[r] = "observing" /\ Mode[r] # "off" /\ item[r] <= Len(Specs[r]) /\ ~Seen(r)
    /\ MoveTo(r, "refused")
    /\ UNCHANGED <<broker, item>>

Converge(r) == Conclude(r) \/ Observe(r) \/ Create(r) \/ Verify(r)

\* A client without convergence publishes; the broker's defaults apply.
AutoCreate(t) ==
    /\ t \in AutoCreated /\ broker[t] = NoTopic
    /\ broker' = [broker EXCEPT ![t] = [cleanup_policy |-> "delete", partitions |-> 1]]
    /\ UNCHANGED <<stage, item>>

-----------------------------------------------------------------------------
\* Every variable has its type.
TopicTypeOK ==
    /\ broker \in [TopicNames -> [cleanup_policy : Policies \cup {"none"},
                                  partitions : Nat]]
    /\ stage \in [Replicas -> Stages]
    /\ item \in [Replicas -> Nat \ {0}]

\* The first of a replica's descriptors for a topic, which is the one reconciled.
FirstFor(r, i) == \A j \in 1 .. i - 1 : Specs[r][j].topic # Specs[r][i].topic

\* A replica that converged, and was not told not to look, has for each of its
\* topics one that exists with the policy its message type requires, whoever
\* created it and whenever.
ConvergedMeansToSpec ==
    \A r \in Replicas : stage[r] = "converged" /\ Mode[r] # "off" =>
        \A i \in 1 .. Len(Specs[r]) : FirstFor(r, i) =>
            /\ broker[Specs[r][i].topic] # NoTopic
            /\ broker[Specs[r][i].topic].cleanup_policy = Specs[r][i].cleanup_policy
=============================================================================
