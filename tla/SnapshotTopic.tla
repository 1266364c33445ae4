---------------------------- MODULE SnapshotTopic ---------------------------
(***************************************************************************)
(* What the producing side promises its consumers: for every entity the    *)
(* topic only ever moves forward through the states its owner committed,   *)
(* and once the owner stops changing an entity the topic ends on its       *)
(* current state.  States in between may be skipped: the topic carries     *)
(* snapshots, not a history.                                               *)
(***************************************************************************)
EXTENDS Integers

CONSTANTS Entities, MaxState

VARIABLES
    domain,  \* the state the owner has committed for each entity, 0 for none
    tail     \* the last state the topic carries for it

States == 0 .. MaxState

Init == /\ domain = [e \in Entities |-> 0]
        /\ tail = [e \in Entities |-> 0]

\* One transaction of the owner moves some entities to later states.
Change ==
    /\ \E next \in [Entities -> States] :
          /\ next # domain
          /\ \A e \in Entities : domain[e] <= next[e]
          /\ domain' = next
    /\ UNCHANGED tail

\* The topic catches up with an entity, perhaps not all the way.
Announce(e) ==
    /\ \E v \in States : /\ tail[e] < v
                         /\ v <= domain[e]
                         /\ tail' = [tail EXCEPT ![e] = v]
    /\ UNCHANGED domain

Next == Change \/ \E e \in Entities : Announce(e)

Safety == Init /\ [][Next]_<<domain, tail>>

Spec == /\ Safety
        /\ \A e \in Entities : WF_<<domain, tail>>(Announce(e))
=============================================================================
