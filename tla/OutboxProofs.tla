---------------------------- MODULE OutboxProofs ----------------------------
(***************************************************************************)
(* Proofs about Outbox for any number of entities, connections, relays,    *)
(* rows and faults.                                                        *)
(***************************************************************************)
EXTENDS Outbox, WellFoundedInduction, TLAPS

-----------------------------------------------------------------------------
(* Sequences *)

\* p is q with x added at the end.
Appended(p, q, x) ==
    /\ Len(q) \in Nat /\ Len(p) = Len(q) + 1
    /\ p[Len(q) + 1] = x
    /\ \A k \in 1 .. Len(q) : p[k] = q[k]
    /\ {p[k] : k \in 1 .. Len(p)} = {q[k] : k \in 1 .. Len(q)} \cup {x}

\* Append adds one element at the end and leaves the rest as it was.
LEMMA AppendAdds ==
    \A S : \A q \in Seq(S), x \in S : Appended(Append(q, x), q, x)
<1> SUFFICES ASSUME NEW S, NEW q \in Seq(S), NEW x \in S
             PROVE  Appended(Append(q, x), q, x)
  BY Zenon
<1> DEFINE p == Append(q, x)
<1>1. /\ Len(q) \in Nat
      /\ Len(p) = Len(q) + 1
      /\ p[Len(q) + 1] = x
      /\ \A k \in 1 .. Len(q) : p[k] = q[k]
  OBVIOUS
<1>2. \A n \in Nat : 1 .. n + 1 = (1 .. n) \cup {n + 1}
  OBVIOUS
<1>3. 1 .. Len(p) = (1 .. Len(q)) \cup {Len(q) + 1}
  BY <1>1, <1>2, Zenon
<1>. QED  BY <1>1, <1>3 DEF Appended

-----------------------------------------------------------------------------
(* The inductive invariant *)

\* Everything that names a row names one the sequence has handed out.
Allocated ==
    /\ \A i \in Ids : status[i] # "Absent" => i < nextOrder
    /\ \A w \in Writers :
          \A i \in tx[w].snap \cup tx[w].sup \cup tx[w].ins \cup tx[w].dead
                   \cup tx[w].audit : i < nextOrder
    /\ \A r \in Relays : \A i \in stale[r] \cup batch[r] : i < nextOrder

\* Rows to be published carry a state, audit rows do not.
Carries ==
    /\ \A i \in Ids : status[i] \in {"Pending", "Publishing"} => payload[i] # 0
    /\ \A w \in Writers : /\ \A i \in tx[w].ins : payload[i] # 0
                          /\ \A i \in tx[w].audit : payload[i] = 0
    /\ \A r \in Relays : \A i \in batch[r] : payload[i] # 0
    /\ \A i \in Ids : i >= nextOrder => payload[i] = 0

\* A newer committed row of the same entity has made row i redundant.
Replaced(i) == \E j \in Ids : i < j /\ Accepted(j) /\ Sibling(i, j)

\* A committed row waits, is in flight, is logged or has been replaced.
Kept == \A i \in Ids : Accepted(i) => \/ status[i] \in {"Pending", "Publishing"}
                                      \/ i \in Logged
                                      \/ Replaced(i)

\* What an open transaction supersedes, its own insert replaces.
WriterReplaces ==
    \A w \in Writers : \A i \in tx[w].sup \cup tx[w].dead :
        \E j \in tx[w].ins : i < j /\ Sibling(i, j)

\* What an open claim supersedes has been replaced.
RelayReplaces == \A r \in Relays : \A i \in stale[r] : Replaced(i)

\* A good answer is about a row the broker has appended.
AnswerIsTrue ==
    \A r \in Relays : phase[r] = "marking" /\ outcome[r] = "ok"
                     => Oldest(batch[r]) \in Logged

\* A relay that sends or marks has a row in hand.
RowInHand == \A r \in Relays : phase[r] \in {"sending", "marking"} => batch[r] # {}

IInv == /\ TypeOK
        /\ RowInHand
        /\ Allocated
        /\ Carries
        /\ Kept
        /\ WriterReplaces
        /\ RelayReplaces
        /\ AnswerIsTrue

-----------------------------------------------------------------------------
(* Facts about the operators *)

\* A non-empty set of rows has an oldest: Oldest is the row the relay publishes.
LEMMA OldestIsLeast ==
    ASSUME NEW S \in SUBSET Ids, S # {}
    PROVE  Oldest(S) \in S /\ \A j \in S : Oldest(S) <= j
<1>0. S \subseteq Nat
  BY MaxRowsAssumption DEF Ids
<1>1. \E x \in S : \A y \in S : ~ (<<y, x>> \in OpToRel(<, Nat))
  BY <1>0, NatLessThanWellFounded, WFMin, Zenon
<1>2. \A x, y \in S : ~ (<<y, x>> \in OpToRel(<, Nat)) => x <= y
  BY <1>0 DEF OpToRel
<1>. QED  BY <1>1, <1>2, Zenon DEF Oldest

\* LIMIT only ever leaves rows out.
LEMMA FirstNSubset == ASSUME NEW S, NEW n PROVE FirstN(S, n) \subseteq S
BY Zenon DEF FirstN

\* NoTx is a transaction record, and so is one that has just begun.
LEMMA NoTxType == NoTx \in Txs
BY MaxRowsAssumption DEF NoTx, Txs, States, Ids

-----------------------------------------------------------------------------
(* Type correctness *)

TypeInv == TypeOK /\ RowInHand

\* The types hold initially.
LEMMA TypeInit == Init => TypeInv
<1>. SUFFICES ASSUME Init PROVE TypeInv
  BY Zenon
<1>. USE MaxRowsAssumption, MaxFaultsAssumption
<1>1. tx \in [Writers -> Txs]
  BY NoTxType, Zenon DEF Init
<1>2. TypeOK
  BY <1>1 DEF Init, TypeOK, Ids, States, Statuses, Phases
<1>3. RowInHand
  BY Zenon DEF Init, RowInHand
<1>. QED  BY <1>2, <1>3, Zenon DEF TypeInv

\* Application steps preserve the types.
LEMMA TypeWriter ==
    ASSUME TypeInv, NEW w \in Writers, WriterNext(w)
    PROVE  TypeInv'
<1>. USE MaxRowsAssumption
<1>a. TypeOK /\ RowInHand
  BY Zenon DEF TypeInv
<1>p. Pending \in SUBSET Ids
  BY Zenon DEF Pending
<1>t. tx \in [Writers -> Txs]
  BY <1>a, Zenon DEF TypeOK
<1>1. ASSUME NEW iso \in Isolation, Begin(w, iso) PROVE TypeInv'
  <2>1. tx' \in [Writers -> Txs]
    <3>1. iso \in {"none", "committed", "fixed"}
      BY IsolationAssumption, Zenon
    <3>2. (IF iso = "fixed" THEN Pending ELSE {}) \in SUBSET Ids
      BY <1>p, Zenon
    <3>3. [NoTx EXCEPT !.mode = iso, !.snap = IF iso = "fixed" THEN Pending ELSE {}]
             \in Txs
      BY <3>1, <3>2, NoTxType, Zenon DEF Txs
    <3>. QED  BY <1>1, <1>t, <3>3, Zenon DEF Begin
  <2>. QED  BY <1>1, <1>a, <2>1, Zenon DEF TypeInv, TypeOK, RowInHand, Begin, rowVars, relayVars
<1>2. ASSUME NEW e \in Entities, NEW state \in States, InsertPending(w, e, state)
      PROVE  TypeInv'
  <2>1. tx' \in [Writers -> Txs]
    <3>1. Predecessors(w, e) \in SUBSET Ids
      BY <1>p, <1>t, Zenon DEF Predecessors, Txs
    <3>2. nextOrder \in Ids
      BY <1>2, Zenon DEF InsertPending
    <3>3. AfterInsert(w, e) \in Txs
      BY <1>t, <3>1, <3>2, Zenon DEF AfterInsert, Txs
    <3>. QED  BY <1>2, <1>t, <3>3, Zenon DEF InsertPending
  <2>2. nextOrder \in Ids /\ nextOrder' \in 1 .. MaxRows + 1
    BY <1>2, <1>a DEF InsertPending, Ids
  <2>3. entityOf' \in [Ids -> Entities] /\ payload' \in [Ids -> States]
    BY <1>2, <1>a, <2>2, Zenon DEF InsertPending, TypeOK
  <2>. QED  BY <1>2, <1>a, <2>1, <2>2, <2>3, Zenon
            DEF TypeInv, TypeOK, RowInHand, InsertPending, relayVars
<1>3. ASSUME NEW e \in Entities, Enqueue(w, e) PROVE TypeInv'
  <2>1. nextOrder \in States
    BY <1>3 DEF Enqueue, InsertPending, Ids, States
  <2>. QED  BY <1>2, <1>3, <2>1, Zenon DEF Enqueue
<1>4. ASSUME NEW e \in Entities, EnqueueRejected(w, e) PROVE TypeInv'
  <2>1. tx' \in [Writers -> Txs]
    BY <1>4, <1>t DEF EnqueueRejected, Txs
  <2>2. nextOrder' \in 1 .. MaxRows + 1
    BY <1>4, <1>a DEF EnqueueRejected, Ids
  <2>3. entityOf' \in [Ids -> Entities]
    BY <1>4, <1>a, Zenon DEF EnqueueRejected, TypeOK
  <2>. QED  BY <1>4, <1>a, <2>1, <2>2, <2>3, Zenon
            DEF TypeInv, TypeOK, RowInHand, EnqueueRejected, relayVars
<1>5. ASSUME NEW e \in Entities, ResyncLoad(w, e) PROVE TypeInv'
  <2>1. tx' \in [Writers -> Txs]
    BY <1>5, <1>a, <1>t, Zenon DEF ResyncLoad, TypeOK, NoTx, Txs
  <2>. QED  BY <1>5, <1>a, <2>1, Zenon
            DEF TypeInv, TypeOK, RowInHand, ResyncLoad, rowVars, relayVars
<1>6. ASSUME NEW e \in Entities, ResyncEnqueue(w, e) PROVE TypeInv'
  <2>1. tx[w].load \in States
    BY <1>t, Zenon DEF Txs
  <2>. QED  BY <1>2, <1>6, <2>1, Zenon DEF ResyncEnqueue
<1>7. CASE Commit(w)
  <2>1. tx' \in [Writers -> Txs] /\ tx[w] \in Txs
    BY <1>7, <1>t, NoTxType, Zenon DEF Commit
  <2>2. status' \in [Ids -> Statuses] /\ due' \in [Ids -> BOOLEAN]
    BY <1>7, <1>a, Zenon DEF Commit, TypeOK, Statuses
  <2>3. domain' \in [Entities -> States]
    <3>1. \A e \in Entities : CommittedState(w, e) \in States
      BY <1>a, <2>1 DEF CommittedState, TypeOK, Txs, States, Ids
    <3>. QED  BY <1>7, <3>1, Zenon DEF Commit
  <2>4. ripe' \in [Relays -> SUBSET Ids] /\ elder' \in [Relays -> SUBSET Writers]
    BY <1>7, <1>a, <2>1, Zenon DEF Commit, TypeOK, Txs
  <2>. QED  BY <1>7, <1>a, <2>1, <2>2, <2>3, <2>4, Zenon
            DEF TypeInv, TypeOK, RowInHand, Commit
<1>8. CASE Rollback(w)
  <2>1. tx' \in [Writers -> Txs]
    BY <1>8, <1>t, NoTxType, Zenon DEF Rollback
  <2>2. elder' \in [Relays -> SUBSET Writers]
    BY <1>8, <1>a, Zenon DEF Rollback, TypeOK
  <2>. QED  BY <1>8, <1>a, <2>1, <2>2, Zenon DEF TypeInv, TypeOK, RowInHand, Rollback, rowVars
<1>. QED  BY <1>1, <1>3, <1>4, <1>5, <1>6, <1>7, <1>8, Zenon DEF WriterNext

\* Relay steps preserve the types.
LEMMA TypeRelay ==
    ASSUME TypeInv, NEW r \in Relays, RelayStep(r) \/ Abandon(r)
    PROVE  TypeInv'
<1>. USE MaxRowsAssumption, MaxFaultsAssumption
<1>a. TypeOK /\ RowInHand
  BY Zenon DEF TypeInv
<1>p. Pending \in SUBSET Ids /\ Publishing \in SUBSET Ids
  BY Zenon DEF Pending, Publishing
<1>q. /\ PendingFor(r) \in SUBSET Ids
      /\ \A R : Claimable(r, R) \in SUBSET Ids
  BY <1>p, Zenon DEF PendingFor, Claimable
<1>1. CASE Collapse(r)
  <2>1. ripe' \in [Relays -> SUBSET Ids]
    BY <1>1, <1>a, <1>p, Zenon DEF Collapse, RipeNow, TypeOK
  <2>2. elder' \in [Relays -> SUBSET Writers]
    BY <1>1, <1>a, Zenon DEF Collapse, TypeOK
  <2>3. stale' \in [Relays -> SUBSET Ids]
    BY <1>1, <1>a, <1>p, Zenon DEF Collapse, Overtaken, TypeOK
  <2>4. /\ phase' = [phase EXCEPT ![r] = "collapsed"]
        /\ UNCHANGED <<rowVars, domain, tx, cand, seen, batch, outcome, faults, log>>
    BY <1>1, Zenon DEF Collapse
  <2>. QED  BY <1>a, <2>1, <2>2, <2>3, <2>4, Zenon
            DEF TypeInv, TypeOK, RowInHand, Phases, rowVars
<1>2. CASE ClaimRead(r)
  <2>1. cand' \in [Relays -> SUBSET Ids] /\ seen' \in [Relays -> SUBSET Ids]
    BY <1>2, <1>a, <1>p, <1>q, Zenon DEF ClaimRead, TypeOK
  <2>2. elder' \in [Relays -> SUBSET Writers]
    BY <1>2, <1>a, Zenon DEF ClaimRead, TypeOK
  <2>3. /\ phase' = [phase EXCEPT ![r] = "read"]
        /\ UNCHANGED <<rowVars, domain, tx, ripe, stale, batch, outcome, faults, log>>
    BY <1>2, Zenon DEF ClaimRead
  <2>. QED  BY <1>a, <2>1, <2>2, <2>3, Zenon DEF TypeInv, TypeOK, RowInHand, Phases, rowVars
<1>3. CASE ClaimWrite(r)
  <2>1. Picks(r) \in SUBSET Ids /\ OvertakenByPicks(r) \in SUBSET Ids
    BY <1>a, <1>p, FirstNSubset, Zenon DEF Picks, OvertakenByPicks, Overtaken, TypeOK
  <2>2. /\ batch' \in [Relays -> SUBSET Ids] /\ stale' \in [Relays -> SUBSET Ids]
        /\ ripe' \in [Relays -> SUBSET Ids] /\ cand' \in [Relays -> SUBSET Ids]
        /\ seen' \in [Relays -> SUBSET Ids]
    BY <1>3, <1>a, <2>1, Zenon DEF ClaimWrite, TypeOK
  <2>3. \A q \in Relays : phase'[q] \in {"sending", "marking"} => batch'[q] # {}
    BY <1>3, <1>a, Zenon DEF ClaimWrite, TypeOK, RowInHand
  <2>4. /\ phase' = [phase EXCEPT ![r] = "claimed"]
        /\ UNCHANGED <<rowVars, domain, tx, elder, outcome, faults, log>>
    BY <1>3, Zenon DEF ClaimWrite
  <2>. QED  BY <1>a, <2>2, <2>3, <2>4, Zenon DEF TypeInv, TypeOK, RowInHand, Phases, rowVars
<1>4. CASE ClaimCommit(r)
  <2>1. status' \in [Ids -> Statuses]
    BY <1>4, <1>a, Zenon DEF ClaimCommit, TypeOK, Statuses
  <2>2. claim' \in [Ids -> Relays \cup {Nobody}] /\ expired' \in [Ids -> BOOLEAN]
    BY <1>4, <1>a, Zenon DEF ClaimCommit, TypeOK
  <2>3. ripe' \in [Relays -> SUBSET Ids] /\ stale' \in [Relays -> SUBSET Ids]
    BY <1>4, <1>a, Zenon DEF ClaimCommit, Defer, TypeOK
  <2>4. phase' \in [Relays -> Phases] /\ RowInHand'
    BY <1>4, <1>a, Zenon DEF ClaimCommit, TypeOK, RowInHand, Phases
  <2>5. UNCHANGED <<entityOf, payload, due, nextOrder, domain, tx, elder, cand,
                    seen, batch, outcome, faults, log>>
    BY <1>4, Zenon DEF ClaimCommit
  <2>. QED  BY <1>a, <2>1, <2>2, <2>3, <2>4, <2>5, Zenon DEF TypeInv, TypeOK
<1>5. CASE Publish(r)
  <2>1. Oldest(batch[r]) \in Ids
    <3>1. batch[r] # {} /\ batch[r] \in SUBSET Ids
      BY <1>5, <1>a, Zenon DEF Publish, PublishRow, TypeOK, RowInHand
    <3>. QED  BY <3>1, OldestIsLeast, Zenon
  <2>2. log' \in Seq(Ids)
    BY <1>5, <1>a, <2>1 DEF Publish, PublishRow, TypeOK
  <2>3. outcome' \in [Relays -> {"none", "ok", "err"}] /\ faults' \in 0 .. MaxFaults
    BY <1>5, <1>a DEF Publish, PublishRow, TypeOK
  <2>4. phase' \in [Relays -> Phases] /\ RowInHand'
    BY <1>5, <1>a, Zenon DEF Publish, PublishRow, TypeOK, RowInHand, Phases
  <2>5. UNCHANGED <<rowVars, domain, tx, ripe, elder, cand, seen, stale, batch>>
    BY <1>5, Zenon DEF Publish, PublishRow
  <2>. QED  BY <1>a, <2>2, <2>3, <2>4, <2>5, Zenon DEF TypeInv, TypeOK, rowVars
<1>6. CASE Mark(r)
  <2>. DEFINE i == Oldest(batch[r])
  <2>0. \/ /\ status' = [status EXCEPT ![i] = MarkedAs(outcome[r] = "ok")]
           /\ due' = [due EXCEPT ![i] = outcome[r] = "ok" /\ @]
           /\ claim' = [claim EXCEPT ![i] = Nobody]
           /\ expired' = [expired EXCEPT ![i] = FALSE]
           /\ ripe' = [q \in Relays |-> ripe[q] \ {i}]
        \/ UNCHANGED <<status, due, claim, expired, ripe>>
    BY <1>6, Zenon DEF Mark, Defer
  <2>1. /\ status' \in [Ids -> Statuses]
        /\ due' \in [Ids -> BOOLEAN]
        /\ claim' \in [Ids -> Relays \cup {Nobody}]
        /\ expired' \in [Ids -> BOOLEAN]
        /\ ripe' \in [Relays -> SUBSET Ids]
    <3>1. status' \in [Ids -> Statuses]
      BY <2>0, <1>a, Zenon DEF MarkedAs, TypeOK, Statuses
    <3>2. due' \in [Ids -> BOOLEAN]
      BY <2>0, <1>a, Zenon DEF TypeOK
    <3>3. CASE UNCHANGED <<status, due, claim, expired, ripe>>
      BY <3>3, <1>a, Zenon DEF TypeOK
    <3>4. CASE /\ claim' = [claim EXCEPT ![i] = Nobody]
               /\ expired' = [expired EXCEPT ![i] = FALSE]
               /\ ripe' = [q \in Relays |-> ripe[q] \ {i}]
      BY <3>4, <1>a, <3>1, <3>2, Zenon DEF TypeOK
    <3>. QED  BY <2>0, <3>3, <3>4, Zenon
  <2>2. /\ batch' \in [Relays -> SUBSET Ids] /\ phase' \in [Relays -> Phases]
        /\ outcome' \in [Relays -> {"none", "ok", "err"}]
    BY <1>6, <1>a, Zenon DEF Mark, TypeOK, Phases
  <2>3. RowInHand'
    BY <1>6, <1>a DEF Mark, TypeOK, RowInHand
  <2>4. UNCHANGED <<entityOf, payload, nextOrder, domain, tx, elder, cand, seen,
                    stale, faults, log>>
    BY <1>6, Zenon DEF Mark
  <2>. QED  BY <1>a, <2>1, <2>2, <2>3, <2>4, Zenon DEF TypeInv, TypeOK
<1>7. CASE Abandon(r)
  BY <1>7, <1>a DEF Abandon, TypeInv, TypeOK, RowInHand, Phases, rowVars
<1>. QED  BY <1>1, <1>2, <1>3, <1>4, <1>5, <1>6, <1>7, Zenon DEF RelayStep

\* The clock and the purger preserve the types.
LEMMA TypeTime ==
    ASSUME TypeInv,
           \/ \E i \in Ids : LeaseExpire(i) \/ BecomeDue(i)
           \/ \E S \in SUBSET Ids : Purge(S)
    PROVE  TypeInv'
<1>a. TypeOK /\ RowInHand
  BY Zenon DEF TypeInv
<1>1. ASSUME NEW i \in Ids, LeaseExpire(i) PROVE TypeInv'
  BY <1>1, <1>a, MaxFaultsAssumption
     DEF LeaseExpire, TypeInv, TypeOK, RowInHand, relayVars
<1>2. ASSUME NEW i \in Ids, BecomeDue(i) PROVE TypeInv'
  BY <1>2, <1>a, Zenon DEF BecomeDue, TypeInv, TypeOK, RowInHand, relayVars
<1>3. ASSUME NEW S \in SUBSET Ids, Purge(S) PROVE TypeInv'
  BY <1>3, <1>a, Zenon DEF Purge, TypeInv, TypeOK, RowInHand, Statuses, relayVars
<1>. QED  BY <1>1, <1>2, <1>3, Zenon

\* Every step preserves the types.
LEMMA TypeStep == TypeInv /\ [Next]_vars => TypeInv'
<1>. SUFFICES ASSUME TypeInv, [Next]_vars PROVE TypeInv'
  BY Zenon
<1>1. CASE UNCHANGED vars
  BY <1>1, Zenon DEF vars, rowVars, relayVars, TypeInv, TypeOK, RowInHand
<1>2. CASE Next
  BY <1>2, TypeWriter, TypeRelay, TypeTime, Zenon DEF Next
<1>. QED  BY <1>1, <1>2, Zenon

\* Type correctness: every reachable state of the outbox has its type, whatever
\* the number of rows, writers and relays.
THEOREM TypeCorrect == Spec => []TypeOK
<1>1. TypeInv => TypeOK
  BY Zenon DEF TypeInv
<1>. QED  BY <1>1, TypeInit, TypeStep, PTL DEF Spec

-----------------------------------------------------------------------------
(* No snapshot is lost *)

\* What every step of the system respects: committed rows stay committed with
\* the entity and state they were written with, and the topic only grows.
Grows ==
    /\ \A i \in Ids : i < nextOrder => /\ payload'[i] = payload[i]
                                       /\ entityOf'[i] = entityOf[i]
    /\ \A i \in Ids : status[i] # "Absent" => status'[i] # "Absent"
    /\ Logged \subseteq Logged'
    /\ nextOrder <= nextOrder'

\* A replaced row stays replaced.
LEMMA ReplacedStays ==
    ASSUME TypeOK, Allocated, Grows, NEW i \in Ids, i < nextOrder, Replaced(i)
    PROVE  Replaced(i)'
BY Zenon DEF Allocated, Grows, Replaced, Accepted, Sibling

\* Accepted rows stay accepted, and no old row becomes accepted out of nothing.
LEMMA AcceptedStays ==
    ASSUME TypeOK, Allocated, Grows, NEW i \in Ids, Accepted(i)
    PROVE  Accepted(i)'
BY Zenon DEF Allocated, Grows, Accepted

Core == /\ Allocated
        /\ Carries
        /\ Kept
        /\ WriterReplaces
        /\ RelayReplaces
        /\ AnswerIsTrue

\* The invariant holds initially.
LEMMA CoreInit == Init => Core
<1>. SUFFICES ASSUME Init PROVE Core
  BY Zenon
<1>. USE MaxRowsAssumption DEF Init
<1>1. \A w \in Writers : tx[w] = NoTx
  BY Zenon
<1>2. Allocated
  BY <1>1, Zenon DEF Allocated, NoTx
<1>3. Carries
  BY <1>1, Zenon DEF Carries, NoTx
<1>4. Kept
  BY Zenon DEF Kept, Accepted
<1>5. WriterReplaces
  BY <1>1, Zenon DEF WriterReplaces, NoTx
<1>6. RelayReplaces /\ AnswerIsTrue
  BY Zenon DEF RelayReplaces, AnswerIsTrue
<1>. QED  BY <1>2, <1>3, <1>4, <1>5, <1>6, Zenon DEF Core

\* A step that changes neither the committed rows nor the topic, and leaves the
\* relays alone, keeps everything but what it says of the transactions.
LEMMA CoreQuiet ==
    ASSUME TypeInv, Core, UNCHANGED <<rowVars, phase, stale, batch, outcome, log>>,
           Allocated', Carries', WriterReplaces'
    PROVE  Core'
<1>1. Kept'
  BY Zenon DEF Core, Kept, Accepted, Replaced, Sibling, Logged, rowVars
<1>2. RelayReplaces' /\ AnswerIsTrue'
  BY Zenon DEF Core, RelayReplaces, AnswerIsTrue, Accepted, Replaced, Sibling, Logged, rowVars
<1>. QED  BY <1>1, <1>2, Zenon DEF Core

\* Opening a transaction that holds nothing but a snapshot of committed rows.
LEMMA CoreOpen ==
    ASSUME TypeInv, Core, NEW w \in Writers, NEW t \in Txs,
           tx' = [tx EXCEPT ![w] = t],
           t.sup = {}, t.ins = {}, t.dead = {}, t.audit = {}, t.snap \subseteq Pending,
           UNCHANGED <<rowVars, phase, stale, batch, outcome, log>>
    PROVE  Core'
<1>t. tx \in [Writers -> Txs] /\ TypeOK
  BY Zenon DEF TypeInv, TypeOK
<1>0. \A v \in Writers : tx'[v] = IF v = w THEN t ELSE tx[v]
  BY <1>t, Zenon
<1>1. Allocated'
  <2>1. \A i \in t.snap : i < nextOrder
    BY Zenon DEF Core, Allocated, Pending
  <2>. QED  BY <1>0, <2>1, Zenon DEF Core, Allocated, rowVars
<1>2. Carries'
  BY <1>0, Zenon DEF Core, Carries, rowVars
<1>3. WriterReplaces'
  BY <1>0 DEF Core, WriterReplaces, Sibling, rowVars
<1>. QED  BY <1>1, <1>2, <1>3, CoreQuiet, Zenon

\* Inserting a row: what it supersedes is older and of the same entity.
LEMMA CoreInsert ==
    ASSUME TypeInv, Core, NEW w \in Writers, NEW e \in Entities,
           NEW state \in States, state # 0, InsertPending(w, e, state)
    PROVE  Core'
<1>. USE MaxRowsAssumption
<1>t. tx \in [Writers -> Txs] /\ TypeOK
  BY Zenon DEF TypeInv, TypeOK
<1>n. nextOrder \in Ids /\ nextOrder' = nextOrder + 1 /\ nextOrder \in Int
  BY DEF InsertPending, Ids
<1>u. UNCHANGED <<status, phase, stale, batch, outcome, log>>
  BY Zenon DEF InsertPending, relayVars
<1>e. /\ entityOf' = [entityOf EXCEPT ![nextOrder] = e]
      /\ payload' = [payload EXCEPT ![nextOrder] = state]
  BY Zenon DEF InsertPending
<1>c. \A i \in Ids : i # nextOrder => /\ payload'[i] = payload[i]
                                      /\ entityOf'[i] = entityOf[i]
  BY <1>e, <1>t, Zenon DEF TypeOK
<1>d. payload'[nextOrder] = state /\ entityOf'[nextOrder] = e
  BY <1>e, <1>t, <1>n, Zenon DEF TypeOK
<1>p. /\ Predecessors(w, e) \in SUBSET Ids
      /\ \A i \in Predecessors(w, e) : i < nextOrder /\ entityOf[i] = e
  <2>1. Pending \in SUBSET Ids /\ \A i \in Pending : i < nextOrder
    BY Zenon DEF Core, Allocated, Pending
  <2>2. tx[w].snap \in SUBSET Ids /\ \A i \in tx[w].snap : i < nextOrder
    BY <1>t, Zenon DEF Core, Allocated, Txs
  <2>. QED  BY <2>1, <2>2, Zenon DEF Predecessors
<1>0. \A v \in Writers : tx'[v] = IF v = w THEN AfterInsert(w, e) ELSE tx[v]
  BY <1>t, Zenon DEF InsertPending
<1>f. /\ AfterInsert(w, e).snap = tx[w].snap
      /\ AfterInsert(w, e).audit = tx[w].audit
      /\ AfterInsert(w, e).sup = tx[w].sup \cup Predecessors(w, e)
      /\ AfterInsert(w, e).dead = tx[w].dead \cup {i \in tx[w].ins : entityOf[i] = e}
      /\ AfterInsert(w, e).ins = {i \in tx[w].ins : entityOf[i] # e} \cup {nextOrder}
  BY <1>t, Zenon DEF AfterInsert, Txs
<1>x. \A v \in Writers : /\ tx[v].snap \in SUBSET Ids /\ tx[v].sup \in SUBSET Ids
                         /\ tx[v].ins \in SUBSET Ids /\ tx[v].dead \in SUBSET Ids
                         /\ tx[v].audit \in SUBSET Ids
  BY <1>t, Zenon DEF Txs
<1>l. \A i \in Ids : i \in Int
  BY DEF Ids
<1>A. \A v \in Writers :
         \A i \in tx[v].snap \cup tx[v].sup \cup tx[v].ins \cup tx[v].dead
                   \cup tx[v].audit : i < nextOrder
  BY Zenon DEF Core, Allocated
<1>1. Allocated'
  <2>1. \A i \in Ids : status'[i] # "Absent" => i < nextOrder'
    BY <1>n, <1>u, <1>l DEF Core, Allocated
  <2>2. \A v \in Writers :
           \A i \in tx'[v].snap \cup tx'[v].sup \cup tx'[v].ins \cup tx'[v].dead
                   \cup tx'[v].audit : i < nextOrder'
    BY <1>0, <1>f, <1>x, <1>A, <1>n, <1>p DEF Ids
  <2>3. \A r \in Relays : \A i \in stale'[r] \cup batch'[r] : i < nextOrder'
    BY <1>n, <1>u, <1>l, <1>t DEF Core, Allocated, TypeOK
  <2>. QED  BY <2>1, <2>2, <2>3, Zenon DEF Allocated
<1>2. Carries'
  <2>1. \A i \in Ids : status'[i] \in {"Pending", "Publishing"} => payload'[i] # 0
    BY <1>c, <1>u, <1>d, Zenon DEF Core, Carries
  <2>2. \A v \in Writers : /\ \A i \in tx'[v].ins : payload'[i] # 0
                           /\ \A i \in tx'[v].audit : payload'[i] = 0
    BY <1>0, <1>f, <1>x, <1>A, <1>c, <1>d, <1>n DEF Core, Carries, Ids
  <2>3. \A r \in Relays : \A i \in batch'[r] : payload'[i] # 0
    BY <1>c, <1>u, <1>d, <1>t, Zenon DEF Core, Carries, TypeOK
  <2>4. \A i \in Ids : i >= nextOrder' => payload'[i] = 0
    BY <1>c, <1>n DEF Core, Carries, Ids
  <2>. QED  BY <2>1, <2>2, <2>3, <2>4, Zenon DEF Carries
<1>G. Grows
  BY <1>c, <1>u, <1>n DEF Grows, Logged, Ids
<1>3. Kept'
  <2>. SUFFICES ASSUME NEW i \in Ids, Accepted(i)'
                PROVE  \/ status'[i] \in {"Pending", "Publishing"}
                       \/ i \in Logged'
                       \/ Replaced(i)'
    BY Zenon DEF Kept
  <2>1. i < nextOrder /\ Accepted(i)
    BY <1>c, <1>u, <1>n, <1>l DEF Accepted, Core, Allocated
  <2>2. Replaced(i) => Replaced(i)'
    BY <2>1, <1>G, <1>t, ReplacedStays, Zenon DEF Core
  <2>. QED  BY <2>1, <2>2, <1>u, Zenon DEF Core, Kept, Logged
<1>4. WriterReplaces'
  <2>. SUFFICES ASSUME NEW v \in Writers, NEW i \in tx'[v].sup \cup tx'[v].dead
                PROVE  \E j \in tx'[v].ins : i < j /\ entityOf'[i] = entityOf'[j]
    BY Zenon DEF WriterReplaces, Sibling
  <2>1. CASE v # w
    BY <2>1, <1>0, <1>x, <1>A, <1>c, <1>n DEF Core, WriterReplaces, Sibling, Ids
  <2>2. CASE v = w
    <3>1. i \in Ids /\ i < nextOrder
      BY <2>2, <1>0, <1>f, <1>x, <1>A, <1>p, Zenon
    <3>2. entityOf'[i] = entityOf[i]
      BY <3>1, <1>c, <1>n, <1>l
    <3>3. CASE entityOf[i] = e
      BY <3>1, <3>2, <3>3, <2>2, <1>0, <1>f, <1>d, Zenon
    <3>4. CASE entityOf[i] # e
      <4>1. i \in tx[w].sup \cup tx[w].dead
        BY <3>4, <2>2, <1>0, <1>f, <1>p, Zenon
      <4>2. PICK j \in tx[w].ins : i < j /\ entityOf[i] = entityOf[j]
        BY <4>1, Zenon DEF Core, WriterReplaces, Sibling
      <4>3. j \in tx'[w].ins /\ entityOf'[j] = entityOf[j]
        BY <4>2, <3>4, <1>0, <1>f, <1>x, <1>A, <1>c, <1>n DEF Ids
      <4>. QED  BY <4>2, <4>3, <3>2, <2>2, Zenon
    <3>. QED  BY <3>3, <3>4, Zenon
  <2>. QED  BY <2>1, <2>2, Zenon
<1>5. RelayReplaces'
  <2>. SUFFICES ASSUME NEW r \in Relays, NEW i \in stale'[r] PROVE Replaced(i)'
    BY Zenon DEF RelayReplaces
  <2>1. i \in stale[r] /\ i \in Ids /\ i < nextOrder
    BY <1>u, <1>t, Zenon DEF Core, Allocated, TypeOK
  <2>. QED  BY <2>1, <1>G, <1>t, ReplacedStays, Zenon DEF Core, RelayReplaces
<1>6. AnswerIsTrue'
  BY <1>u, Zenon DEF Core, AnswerIsTrue, Logged
<1>. QED  BY <1>1, <1>2, <1>3, <1>4, <1>5, <1>6, Zenon DEF Core

\* A rejected enqueue writes an audit row, which carries no state.
LEMMA CoreReject ==
    ASSUME TypeInv, Core, NEW w \in Writers, NEW e \in Entities, EnqueueRejected(w, e)
    PROVE  Core'
<1>. USE MaxRowsAssumption
<1>t. tx \in [Writers -> Txs] /\ TypeOK
  BY Zenon DEF TypeInv, TypeOK
<1>n. nextOrder \in Ids /\ nextOrder' = nextOrder + 1
  BY Zenon DEF EnqueueRejected, Ids
<1>u. UNCHANGED <<status, payload, phase, stale, batch, outcome, log>>
  BY Zenon DEF EnqueueRejected, relayVars
<1>c. \A i \in Ids : i # nextOrder => entityOf'[i] = entityOf[i]
  BY <1>t, Zenon DEF EnqueueRejected, TypeOK
<1>0. /\ \A v \in Writers : v # w => tx'[v] = tx[v]
      /\ tx'[w].snap = tx[w].snap /\ tx'[w].sup = tx[w].sup
      /\ tx'[w].ins = tx[w].ins /\ tx'[w].dead = tx[w].dead
      /\ tx'[w].audit = tx[w].audit \cup {nextOrder}
  BY <1>t, Zenon DEF EnqueueRejected, Txs
<1>x. \A v \in Writers : /\ tx[v].snap \in SUBSET Ids /\ tx[v].sup \in SUBSET Ids
                         /\ tx[v].ins \in SUBSET Ids /\ tx[v].dead \in SUBSET Ids
                         /\ tx[v].audit \in SUBSET Ids
  BY <1>t, Zenon DEF Txs
<1>A. \A v \in Writers :
         \A i \in tx[v].snap \cup tx[v].sup \cup tx[v].ins \cup tx[v].dead
                   \cup tx[v].audit : i < nextOrder
  BY Zenon DEF Core, Allocated
<1>1. Allocated'
  <2>1. \A v \in Writers :
           \A i \in tx'[v].snap \cup tx'[v].sup \cup tx'[v].ins \cup tx'[v].dead
                   \cup tx'[v].audit : i < nextOrder'
    BY <1>0, <1>x, <1>A, <1>n DEF Ids
  <2>2. \A i \in Ids : status'[i] # "Absent" => i < nextOrder'
    BY <1>n, <1>u DEF Core, Allocated, Ids
  <2>3. \A r \in Relays : \A i \in stale'[r] \cup batch'[r] : i < nextOrder'
    BY <1>n, <1>u, <1>t DEF Core, Allocated, TypeOK, Ids
  <2>. QED  BY <2>1, <2>2, <2>3, Zenon DEF Allocated
<1>2. Carries'
  BY <1>0, <1>n, <1>u, <1>x DEF Core, Carries, Ids
<1>G. Grows
  BY <1>c, <1>u, <1>n DEF Grows, Logged, Ids
<1>3. Kept'
  <2>. SUFFICES ASSUME NEW i \in Ids, Accepted(i)'
                PROVE  \/ status'[i] \in {"Pending", "Publishing"}
                       \/ i \in Logged'
                       \/ Replaced(i)'
    BY Zenon DEF Kept
  <2>1. i < nextOrder /\ Accepted(i)
    BY <1>u, Zenon DEF Accepted, Core, Allocated
  <2>2. Replaced(i) => Replaced(i)'
    BY <2>1, <1>G, <1>t, ReplacedStays, Zenon DEF Core
  <2>. QED  BY <2>1, <2>2, <1>u, Zenon DEF Core, Kept, Logged
<1>4. WriterReplaces'
  <2>. SUFFICES ASSUME NEW v \in Writers, NEW i \in tx'[v].sup \cup tx'[v].dead
                PROVE  \E j \in tx'[v].ins : i < j /\ entityOf'[i] = entityOf'[j]
    BY Zenon DEF WriterReplaces, Sibling
  <2>1. i \in tx[v].sup \cup tx[v].dead /\ tx'[v].ins = tx[v].ins
    BY <1>0, Zenon
  <2>. QED  BY <2>1, <1>x, <1>A, <1>c, <1>n DEF Core, WriterReplaces, Sibling, Ids
<1>5. RelayReplaces'
  <2>. SUFFICES ASSUME NEW r \in Relays, NEW i \in stale'[r] PROVE Replaced(i)'
    BY Zenon DEF RelayReplaces
  <2>1. i \in stale[r] /\ i \in Ids /\ i < nextOrder
    BY <1>u, <1>t, Zenon DEF Core, Allocated, TypeOK
  <2>. QED  BY <2>1, <1>G, <1>t, ReplacedStays, Zenon DEF Core, RelayReplaces
<1>6. AnswerIsTrue'
  BY <1>u, Zenon DEF Core, AnswerIsTrue, Logged
<1>. QED  BY <1>1, <1>2, <1>3, <1>4, <1>5, <1>6, Zenon DEF Core

\* Committing: what the transaction superseded is replaced by what it inserted,
\* which becomes visible in the same step.
LEMMA CoreCommit ==
    ASSUME TypeInv, Core, NEW w \in Writers, Commit(w)
    PROVE  Core'
<1>. USE MaxRowsAssumption
<1>t. tx \in [Writers -> Txs] /\ TypeOK
  BY Zenon DEF TypeInv, TypeOK
<1>u. UNCHANGED <<entityOf, payload, nextOrder, phase, stale, batch, outcome, log>>
  BY Zenon DEF Commit
<1>s. \A i \in Ids :
         \/ i \in tx[w].ins /\ status'[i] = "Pending"
         \/ i \in tx[w].sup \cup tx[w].dead /\ status'[i] = "Superseded"
         \/ i \in tx[w].audit /\ status'[i] = "Failed"
         \/ /\ i \notin tx[w].ins \cup tx[w].sup \cup tx[w].dead \cup tx[w].audit
            /\ status'[i] = status[i]
  <2>. SUFFICES ASSUME NEW i \in Ids
                PROVE  \/ i \in tx[w].ins /\ status'[i] = "Pending"
                       \/ i \in tx[w].sup \cup tx[w].dead /\ status'[i] = "Superseded"
                       \/ i \in tx[w].audit /\ status'[i] = "Failed"
                       \/ /\ i \notin tx[w].ins \cup tx[w].sup \cup tx[w].dead
                                    \cup tx[w].audit
                          /\ status'[i] = status[i]
    BY Zenon
  <2>1. status'[i] = IF i \in tx[w].ins THEN "Pending"
                     ELSE IF i \in tx[w].sup \cup tx[w].dead THEN "Superseded"
                     ELSE IF i \in tx[w].audit THEN "Failed"
                     ELSE status[i]
    BY Zenon DEF Commit
  <2>. QED  BY <2>1, Zenon
<1>0. \A v \in Writers : tx'[v] = IF v = w THEN NoTx ELSE tx[v]
  BY <1>t, Zenon DEF Commit
<1>x. tx[w].ins \in SUBSET Ids /\ tx[w].sup \in SUBSET Ids /\ tx[w].dead \in SUBSET Ids
  BY <1>t, Zenon DEF Txs
<1>1. Allocated'
  <2>1. \A i \in Ids : status'[i] # "Absent" => i < nextOrder'
    BY <1>s, <1>u, Zenon DEF Core, Allocated
  <2>2. ASSUME NEW v \in Writers,
               NEW i \in tx'[v].snap \cup tx'[v].sup \cup tx'[v].ins \cup tx'[v].dead
                        \cup tx'[v].audit
        PROVE  i < nextOrder'
    <3>1. v # w
      BY <1>0, <2>2 DEF NoTx
    <3>2. tx'[v] = tx[v]
      BY <1>0, <3>1, Zenon
    <3>. QED  BY <2>2, <3>2, <1>u, Zenon DEF Core, Allocated
  <2>3. \A r \in Relays : \A i \in stale'[r] \cup batch'[r] : i < nextOrder'
    BY <1>u, Zenon DEF Core, Allocated
  <2>. QED  BY <2>1, <2>2, <2>3, Zenon DEF Allocated
<1>2. Carries'
  <2>1. \A i \in Ids : status'[i] \in {"Pending", "Publishing"} => payload'[i] # 0
    BY <1>s, <1>u, Zenon DEF Core, Carries
  <2>. QED  BY <2>1, <1>0, <1>u DEF Core, Carries, NoTx
<1>G. Grows
  <2>1. \A i \in Ids : status[i] # "Absent" => status'[i] # "Absent"
    BY <1>s, Zenon
  <2>2. nextOrder <= nextOrder'
    BY <1>u, <1>t DEF TypeOK
  <2>. QED  BY <2>1, <2>2, <1>u, Zenon DEF Grows, Logged
<1>R. \A i \in tx[w].sup \cup tx[w].dead : Replaced(i)'
  <2>. SUFFICES ASSUME NEW i \in tx[w].sup \cup tx[w].dead PROVE Replaced(i)'
    BY Zenon
  <2>1. PICK j \in tx[w].ins : i < j /\ Sibling(i, j)
    BY Zenon DEF Core, WriterReplaces
  <2>2. status'[j] # "Absent" /\ payload'[j] # 0
    BY <2>1, <1>s, <1>x, <1>u, Zenon DEF Core, Carries
  <2>. QED  BY <2>1, <2>2, <1>x, <1>u, Zenon DEF Replaced, Accepted, Sibling
<1>3. Kept'
  <2>. SUFFICES ASSUME NEW i \in Ids, Accepted(i)'
                PROVE  \/ status'[i] \in {"Pending", "Publishing"}
                       \/ i \in Logged'
                       \/ Replaced(i)'
    BY Zenon DEF Kept
  <2>1. CASE status'[i] = status[i]
    <3>1. Accepted(i) /\ i < nextOrder
      BY <2>1, <1>u, Zenon DEF Accepted, Core, Allocated
    <3>2. Replaced(i) => Replaced(i)'
      BY <3>1, <1>G, <1>t, ReplacedStays, Zenon DEF Core
    <3>. QED  BY <3>1, <3>2, <2>1, <1>u, Zenon DEF Core, Kept, Logged
  <2>2. CASE i \in tx[w].sup \cup tx[w].dead
    BY <2>2, <1>R, Zenon
  <2>3. CASE i \in tx[w].audit /\ status'[i] = "Failed"
    BY <2>3, <1>u, Zenon DEF Core, Carries, Accepted
  <2>. QED  BY <2>1, <2>2, <2>3, <1>s, Zenon
<1>4. WriterReplaces'
  <2>. SUFFICES ASSUME NEW v \in Writers, NEW i \in tx'[v].sup \cup tx'[v].dead
                PROVE  \E j \in tx'[v].ins : i < j /\ Sibling(i, j)'
    BY Zenon DEF WriterReplaces
  <2>1. v # w
    BY <1>0 DEF NoTx
  <2>2. tx'[v] = tx[v]
    BY <1>0, <2>1, Zenon
  <2>. QED  BY <2>2, <1>u DEF Core, WriterReplaces, Sibling
<1>5. RelayReplaces'
  <2>. SUFFICES ASSUME NEW r \in Relays, NEW i \in stale'[r] PROVE Replaced(i)'
    BY Zenon DEF RelayReplaces
  <2>1. i \in stale[r] /\ i \in Ids /\ i < nextOrder
    BY <1>u, <1>t, Zenon DEF Core, Allocated, TypeOK
  <2>. QED  BY <2>1, <1>G, <1>t, ReplacedStays, Zenon DEF Core, RelayReplaces
<1>6. AnswerIsTrue'
  BY <1>u, Zenon DEF Core, AnswerIsTrue, Logged
<1>. QED  BY <1>1, <1>2, <1>3, <1>4, <1>5, <1>6, Zenon DEF Core

\* Every step of an application connection preserves the invariant.
LEMMA CoreWriter ==
    ASSUME TypeInv, Core, NEW w \in Writers, WriterNext(w)
    PROVE  Core'
<1>. USE MaxRowsAssumption
<1>t. tx \in [Writers -> Txs] /\ TypeOK /\ tx[w] \in Txs
  BY Zenon DEF TypeInv, TypeOK
<1>1. ASSUME NEW iso \in Isolation, Begin(w, iso) PROVE Core'
  <2>. DEFINE t == [NoTx EXCEPT !.mode = iso,
                                !.snap = IF iso = "fixed" THEN Pending ELSE {}]
  <2>1. /\ t \in Txs /\ t.sup = {} /\ t.ins = {} /\ t.dead = {} /\ t.audit = {}
        /\ t.snap \subseteq Pending
    <3>1. iso \in {"none", "committed", "fixed"} /\ Pending \in SUBSET Ids
      BY IsolationAssumption, Zenon DEF Pending
    <3>2. (IF iso = "fixed" THEN Pending ELSE {}) \in SUBSET Ids
      BY <3>1, Zenon
    <3>3. t \in Txs
      BY <3>1, <3>2, NoTxType, Zenon DEF Txs
    <3>4. t.snap = (IF iso = "fixed" THEN Pending ELSE {}) /\ t.sup = {}
          /\ t.ins = {} /\ t.dead = {} /\ t.audit = {}
      BY Zenon DEF NoTx
    <3>. QED  BY <3>3, <3>4, Zenon
  <2>2. /\ tx' = [tx EXCEPT ![w] = t]
        /\ UNCHANGED <<rowVars, phase, stale, batch, outcome, log>>
    BY <1>1, Zenon DEF Begin, relayVars
  <2>. HIDE DEF t
  <2>. QED  BY <2>1, <2>2, CoreOpen, Zenon
<1>2. ASSUME NEW e \in Entities, Enqueue(w, e) PROVE Core'
  <2>1. nextOrder \in States /\ nextOrder # 0 /\ InsertPending(w, e, nextOrder)
    BY <1>2 DEF Enqueue, InsertPending, Ids, States
  <2>. QED  BY <2>1, CoreInsert, Zenon
<1>3. ASSUME NEW e \in Entities, EnqueueRejected(w, e) PROVE Core'
  BY <1>3, CoreReject, Zenon
<1>4. ASSUME NEW e \in Entities, ResyncLoad(w, e) PROVE Core'
  <2>. DEFINE t == [NoTx EXCEPT !.mode = "committed", !.locks = {e},
                                !.load = domain[e]]
  <2>1. /\ t \in Txs /\ t.sup = {} /\ t.ins = {} /\ t.dead = {} /\ t.audit = {}
        /\ t.snap \subseteq Pending
    BY <1>t, NoTxType, Zenon DEF NoTx, Txs, TypeOK
  <2>2. /\ tx' = [tx EXCEPT ![w] = t]
        /\ UNCHANGED <<rowVars, phase, stale, batch, outcome, log>>
    BY <1>4, Zenon DEF ResyncLoad, relayVars
  <2>. HIDE DEF t
  <2>. QED  BY <2>1, <2>2, CoreOpen, Zenon
<1>5. ASSUME NEW e \in Entities, ResyncEnqueue(w, e) PROVE Core'
  <2>1. tx[w].load \in States /\ tx[w].load # 0 /\ InsertPending(w, e, tx[w].load)
    BY <1>5, <1>t, Zenon DEF ResyncEnqueue, Txs
  <2>. QED  BY <2>1, CoreInsert, Zenon
<1>6. CASE Commit(w)
  BY <1>6, CoreCommit, Zenon
<1>7. CASE Rollback(w)
  <2>1. NoTx \in Txs /\ NoTx.sup = {} /\ NoTx.ins = {} /\ NoTx.dead = {}
        /\ NoTx.audit = {} /\ NoTx.snap \subseteq Pending
    BY NoTxType, Zenon DEF NoTx
  <2>2. /\ tx' = [tx EXCEPT ![w] = NoTx]
        /\ UNCHANGED <<rowVars, phase, stale, batch, outcome, log>>
    BY <1>7, Zenon DEF Rollback
  <2>. QED  BY <2>1, <2>2, CoreOpen, Zenon
<1>. QED  BY <1>1, <1>2, <1>3, <1>4, <1>5, <1>6, <1>7, Zenon DEF WriterNext

\* A claim transaction that has not committed changes only its own book-keeping:
\* what it would supersede must be replaced, what it would claim must carry a state.
LEMMA CoreClaiming ==
    ASSUME TypeInv, Core, UNCHANGED <<rowVars, tx, outcome, log>>,
           NEW r \in Relays, NEW S \in SUBSET Ids, NEW B \in SUBSET Ids, NEW p,
           stale' = [stale EXCEPT ![r] = S], batch' = [batch EXCEPT ![r] = B],
           phase' = [phase EXCEPT ![r] = p], p # "marking",
           \A i \in S : i < nextOrder /\ Replaced(i),
           \A i \in B : i < nextOrder /\ payload[i] # 0
    PROVE  Core'
<1>t. TypeOK
  BY Zenon DEF TypeInv
<1>0. \A q \in Relays : /\ stale'[q] = IF q = r THEN S ELSE stale[q]
                        /\ batch'[q] = IF q = r THEN B ELSE batch[q]
                        /\ phase'[q] = IF q = r THEN p ELSE phase[q]
  BY <1>t, Zenon DEF TypeOK
<1>1. Allocated'
  BY <1>0 DEF Core, Allocated, rowVars
<1>2. Carries'
  BY <1>0 DEF Core, Carries, rowVars
<1>3. Kept' /\ WriterReplaces'
  BY DEF Core, Kept, WriterReplaces, Accepted, Replaced, Sibling, Logged, rowVars
<1>4. RelayReplaces'
  <2>1. \A i \in Ids : Replaced(i) => Replaced(i)'
    BY Zenon DEF Replaced, Accepted, Sibling, rowVars
  <2>. QED  BY <2>1, <1>0, <1>t, Zenon DEF Core, RelayReplaces, TypeOK
<1>5. AnswerIsTrue'
  BY <1>0 DEF Core, AnswerIsTrue, Logged
<1>. QED  BY <1>1, <1>2, <1>3, <1>4, <1>5, Zenon DEF Core

\* Rows that a row to be published has overtaken are replaced.
LEMMA OvertakenReplaced ==
    ASSUME TypeInv, Core, NEW S \in SUBSET Ids, NEW N \in SUBSET Ids,
           \A i \in N : status[i] \in {"Pending", "Publishing"}
    PROVE  \A j \in Overtaken(S, N) : j < nextOrder /\ Replaced(j)
<1>. SUFFICES ASSUME NEW j \in Overtaken(S, N) PROVE j < nextOrder /\ Replaced(j)
  BY Zenon
<1>1. PICK i \in N : Sibling(i, j) /\ j < i
  BY Zenon DEF Overtaken
<1>2. j \in Ids /\ i \in Ids
  BY Zenon DEF Overtaken
<1>3. Accepted(i) /\ i < nextOrder
  BY <1>2, Zenon DEF Core, Carries, Accepted, Allocated
<1>4. j < nextOrder
  BY <1>1, <1>2, <1>3, MaxRowsAssumption DEF Ids, TypeInv, TypeOK
<1>. QED  BY <1>1, <1>2, <1>3, <1>4, Zenon DEF Replaced, Sibling

\* Every step of a relay preserves the invariant.
LEMMA CoreRelay ==
    ASSUME TypeInv, Core, NEW r \in Relays, RelayStep(r) \/ Abandon(r)
    PROVE  Core'
<1>. USE MaxRowsAssumption
<1>t. TypeOK /\ RowInHand
  BY Zenon DEF TypeInv
<1>p. Pending \in SUBSET Ids /\ Publishing \in SUBSET Ids
  BY Zenon DEF Pending, Publishing
<1>b. /\ stale[r] \in SUBSET Ids /\ batch[r] \in SUBSET Ids
      /\ stale = [stale EXCEPT ![r] = stale[r]] /\ batch = [batch EXCEPT ![r] = batch[r]]
  BY <1>t, Zenon DEF TypeOK
<1>B. \A i \in batch[r] : i < nextOrder /\ payload[i] # 0
  BY Zenon DEF Core, Allocated, Carries
<1>S. \A i \in stale[r] : i < nextOrder /\ Replaced(i)
  BY Zenon DEF Core, Allocated, RelayReplaces
<1>1. CASE Collapse(r)
  <2>. DEFINE N == FirstN(Claimable(r, RipeNow), BatchLimit)
              S == Overtaken(Pending, N)
  <2>1. N \in SUBSET Ids /\ \A i \in N : status[i] \in {"Pending", "Publishing"}
    <3>1. Claimable(r, RipeNow) \subseteq Pending
      BY Zenon DEF Claimable, PendingFor
    <3>. QED  BY <3>1, FirstNSubset, Zenon DEF Pending
  <2>2. S \in SUBSET Ids /\ \A i \in S : i < nextOrder /\ Replaced(i)
    <3>1. S \in SUBSET Ids
      BY <1>p, Zenon DEF Overtaken
    <3>. QED  BY <3>1, <2>1, <1>p, OvertakenReplaced, Zenon
  <2>3. /\ stale' = [stale EXCEPT ![r] = S]
        /\ phase' = [phase EXCEPT ![r] = "collapsed"]
        /\ batch' = batch /\ UNCHANGED <<rowVars, tx, outcome, log>>
    BY <1>1, Zenon DEF Collapse
  <2>. HIDE DEF S
  <2>. QED  BY <2>2, <2>3, <1>b, <1>B, CoreClaiming, Zenon
<1>2. CASE ClaimRead(r)
  <2>1. /\ phase' = [phase EXCEPT ![r] = "read"]
        /\ stale' = stale /\ batch' = batch /\ UNCHANGED <<rowVars, tx, outcome, log>>
    BY <1>2, Zenon DEF ClaimRead
  <2>. QED  BY <2>1, <1>b, <1>B, <1>S, CoreClaiming, Zenon
<1>3. CASE ClaimWrite(r)
  <2>. DEFINE S == stale[r] \cup OvertakenByPicks(r)
  <2>1. /\ Picks(r) \in SUBSET Ids
        /\ \A i \in Picks(r) : status[i] \in {"Pending", "Publishing"}
    BY <1>t, FirstNSubset, Zenon DEF Picks, TypeOK
  <2>2. \A i \in Picks(r) : i < nextOrder /\ payload[i] # 0
    BY <2>1, Zenon DEF Core, Allocated, Carries
  <2>3. S \in SUBSET Ids /\ \A i \in S : i < nextOrder /\ Replaced(i)
    <3>1. /\ seen[r] \cap Pending \in SUBSET Ids
          /\ OvertakenByPicks(r) = Overtaken(seen[r] \cap Pending, Picks(r))
      BY <1>p, Zenon DEF OvertakenByPicks
    <3>2. OvertakenByPicks(r) \in SUBSET Ids
      BY <3>1, Zenon DEF Overtaken
    <3>3. \A i \in OvertakenByPicks(r) : i < nextOrder /\ Replaced(i)
      BY <3>1, <2>1, OvertakenReplaced, Zenon
    <3>. QED  BY <3>2, <3>3, <1>b, <1>S, Zenon
  <2>4. /\ stale' = [stale EXCEPT ![r] = S]
        /\ batch' = [batch EXCEPT ![r] = Picks(r)]
        /\ phase' = [phase EXCEPT ![r] = "claimed"]
        /\ UNCHANGED <<rowVars, tx, outcome, log>>
    BY <1>3, Zenon DEF ClaimWrite
  <2>. HIDE DEF S
  <2>. QED  BY <2>1, <2>2, <2>3, <2>4, CoreClaiming, Zenon
<1>4. CASE Abandon(r)
  <2>1. /\ stale' = [stale EXCEPT ![r] = {}] /\ batch' = [batch EXCEPT ![r] = {}]
        /\ phase' = [phase EXCEPT ![r] = "idle"]
        /\ outcome' = [outcome EXCEPT ![r] = "none"]
        /\ UNCHANGED <<rowVars, tx, log>>
    BY <1>4, Zenon DEF Abandon
  <2>0. \A q \in Relays : /\ stale'[q] = IF q = r THEN {} ELSE stale[q]
                          /\ batch'[q] = IF q = r THEN {} ELSE batch[q]
                          /\ phase'[q] = IF q = r THEN "idle" ELSE phase[q]
                          /\ outcome'[q] = IF q = r THEN "none" ELSE outcome[q]
    BY <2>1, <1>t, Zenon DEF TypeOK
  <2>2. Allocated' /\ Carries'
    BY <2>0, <2>1 DEF Core, Allocated, Carries, rowVars
  <2>3. Kept' /\ WriterReplaces' /\ RelayReplaces'
    BY <2>0, <2>1 DEF Core, Kept, WriterReplaces, RelayReplaces, Accepted, Replaced,
                      Sibling, Logged, rowVars
  <2>4. AnswerIsTrue'
    BY <2>0, <2>1 DEF Core, AnswerIsTrue, Logged
  <2>. QED  BY <2>2, <2>3, <2>4, Zenon DEF Core
<1>5. CASE ClaimCommit(r)
  <2>u. UNCHANGED <<entityOf, payload, nextOrder, tx, batch, outcome, log>>
    BY <1>5, Zenon DEF ClaimCommit
  <2>s. \A i \in Ids : status'[i] = IF i \in batch[r] THEN "Publishing"
                                    ELSE IF i \in stale[r] THEN "Superseded"
                                    ELSE status[i]
    BY <1>5, Zenon DEF ClaimCommit
  <2>0. \A q \in Relays : /\ stale'[q] = IF q = r THEN {} ELSE stale[q]
                          /\ phase'[q] = "marking" => phase[q] = "marking"
    BY <1>5, <1>t, Zenon DEF ClaimCommit, TypeOK
  <2>1. Allocated'
    BY <2>u, <2>s, <2>0, <1>B, <1>S, Zenon DEF Core, Allocated
  <2>2. Carries'
    BY <2>u, <2>s, <1>B, Zenon DEF Core, Carries
  <2>G. Grows
    <3>1. \A i \in Ids : status[i] # "Absent" => status'[i] # "Absent"
      BY <2>s, Zenon
    <3>2. nextOrder <= nextOrder'
      BY <2>u, <1>t DEF TypeOK
    <3>. QED  BY <3>1, <3>2, <2>u, Zenon DEF Grows, Logged
  <2>R. \A i \in Ids : i < nextOrder /\ Replaced(i) => Replaced(i)'
    BY <2>G, <1>t, ReplacedStays, Zenon DEF Core
  <2>3. Kept'
    <3>. SUFFICES ASSUME NEW i \in Ids, Accepted(i)'
                  PROVE  \/ status'[i] \in {"Pending", "Publishing"}
                         \/ i \in Logged'
                         \/ Replaced(i)'
      BY Zenon DEF Kept
    <3>1. CASE i \in batch[r]
      BY <3>1, <2>s, Zenon
    <3>2. CASE i \in stale[r]
      BY <3>2, <1>S, <2>R, Zenon
    <3>3. CASE i \notin batch[r] /\ i \notin stale[r]
      <4>1. status'[i] = status[i] /\ Accepted(i) /\ i < nextOrder
        BY <3>3, <2>s, <2>u, Zenon DEF Accepted, Core, Allocated
      <4>. QED  BY <4>1, <2>R, <2>u, Zenon DEF Core, Kept, Logged
    <3>. QED  BY <3>1, <3>2, <3>3, Zenon
  <2>4. WriterReplaces'
    BY <2>u DEF Core, WriterReplaces, Sibling
  <2>5. RelayReplaces'
    BY <2>0, <2>R, <1>t, Zenon DEF Core, RelayReplaces, Allocated, TypeOK
  <2>6. AnswerIsTrue'
    BY <2>0, <2>u, Zenon DEF Core, AnswerIsTrue, Logged
  <2>. QED  BY <2>1, <2>2, <2>3, <2>4, <2>5, <2>6, Zenon DEF Core
<1>6. CASE Publish(r)
  <2>. DEFINE o == Oldest(batch[r])
  <2>u. UNCHANGED <<rowVars, tx, stale, batch>>
    BY <1>6, Zenon DEF Publish, PublishRow
  <2>o. o \in Ids
    <3>1. batch[r] # {}
      BY <1>6, <1>t, Zenon DEF Publish, PublishRow, RowInHand
    <3>. QED  BY <3>1, <1>b, OldestIsLeast, Zenon
  <2>l. /\ Logged \subseteq Logged'
        /\ outcome'[r] = "ok" => o \in Logged'
    <3>1. log \in Seq(Ids)
      BY <1>t, Zenon DEF TypeOK
    <3>2. \/ log' = log /\ outcome'[r] # "ok"
          \/ log' = Append(log, o)
      BY <1>6, <1>t, Zenon DEF Publish, PublishRow, TypeOK
    <3>3. CASE log' = log /\ outcome'[r] # "ok"
      BY <3>3, Zenon DEF Logged
    <3>4. CASE log' = Append(log, o)
      <4>1. /\ Len(log') = Len(log) + 1
            /\ log'[Len(log) + 1] = o
            /\ \A k \in 1 .. Len(log) : log'[k] = log[k]
            /\ Len(log) \in Nat
        BY <3>1, <3>4, <2>o
      <4>. QED  BY <4>1 DEF Logged
    <3>. QED  BY <3>2, <3>3, <3>4, Zenon
  <2>0. \A q \in Relays \ {r} : phase'[q] = phase[q] /\ outcome'[q] = outcome[q]
    BY <1>6, <1>t, Zenon DEF Publish, PublishRow, TypeOK
  <2>1. Allocated' /\ Carries' /\ WriterReplaces' /\ RelayReplaces'
    BY <2>u DEF Core, Allocated, Carries, WriterReplaces, RelayReplaces, Accepted,
                Replaced, Sibling, rowVars
  <2>2. Kept'
    BY <2>u, <2>l, Zenon DEF Core, Kept, Accepted, Replaced, Sibling, rowVars
  <2>3. AnswerIsTrue'
    BY <2>u, <2>l, <2>0, Zenon DEF Core, AnswerIsTrue
  <2>. QED  BY <2>1, <2>2, <2>3, Zenon DEF Core
<1>7. CASE Mark(r)
  <2>. DEFINE o == Oldest(batch[r])
  <2>u. UNCHANGED <<entityOf, payload, nextOrder, tx, stale, log>>
    BY <1>7, Zenon DEF Mark
  <2>s. \/ status' = status
        \/ /\ status[o] = "Publishing"
           /\ status' = [status EXCEPT ![o] = MarkedAs(outcome[r] = "ok")]
    BY <1>7, Zenon DEF Mark, Holds
  <2>o. o \in Ids
    <3>1. batch[r] # {}
      BY <1>7, <1>t, Zenon DEF Mark, RowInHand
    <3>. QED  BY <3>1, <1>b, OldestIsLeast, Zenon
  <2>0. \A q \in Relays : /\ batch'[q] \subseteq batch[q]
                          /\ q # r => phase'[q] = phase[q] /\ outcome'[q] = outcome[q]
                          /\ q # r => batch'[q] = batch[q]
    BY <1>7, <1>t, Zenon DEF Mark, TypeOK
  <2>r. phase'[r] # "marking"
    BY <1>7, <1>t, Zenon DEF Mark, TypeOK
  <2>i. \A i \in Ids : status'[i] # status[i] =>
           /\ i = o /\ status[i] = "Publishing"
           /\ status'[i] \in {"Published", "Pending"}
           /\ status'[i] = "Published" => outcome[r] = "ok"
    BY <2>s, <2>o, <1>t, Zenon DEF MarkedAs, TypeOK
  <2>1. Allocated' /\ Carries'
    BY <2>u, <2>i, <2>0 DEF Core, Allocated, Carries
  <2>G. Grows
    <3>1. \A i \in Ids : status[i] # "Absent" => status'[i] # "Absent"
      BY <2>i, Zenon
    <3>2. nextOrder <= nextOrder'
      BY <2>u, <1>t DEF TypeOK
    <3>. QED  BY <3>1, <3>2, <2>u, Zenon DEF Grows, Logged
  <2>R. \A i \in Ids : i < nextOrder /\ Replaced(i) => Replaced(i)'
    BY <2>G, <1>t, ReplacedStays, Zenon DEF Core
  <2>2. Kept'
    <3>. SUFFICES ASSUME NEW i \in Ids, Accepted(i)'
                  PROVE  \/ status'[i] \in {"Pending", "Publishing"}
                         \/ i \in Logged'
                         \/ Replaced(i)'
      BY Zenon DEF Kept
    <3>1. CASE status'[i] = status[i]
      <4>1. Accepted(i) /\ i < nextOrder
        BY <3>1, <2>u, Zenon DEF Accepted, Core, Allocated
      <4>. QED  BY <4>1, <3>1, <2>R, <2>u, Zenon DEF Core, Kept, Logged
    <3>2. CASE status'[i] # status[i]
      <4>1. phase[r] = "marking"
        BY <1>7, Zenon DEF Mark
      <4>2. status'[i] = "Published" => i \in Logged'
        BY <3>2, <4>1, <2>i, <2>u, Zenon DEF Core, AnswerIsTrue, Logged
      <4>. QED  BY <3>2, <4>2, <2>i, Zenon
    <3>. QED  BY <3>1, <3>2, Zenon
  <2>3. WriterReplaces'
    BY <2>u DEF Core, WriterReplaces, Sibling
  <2>4. RelayReplaces'
    <3>. SUFFICES ASSUME NEW q \in Relays, NEW i \in stale'[q] PROVE Replaced(i)'
      BY Zenon DEF RelayReplaces
    <3>1. i \in stale[q] /\ i \in Ids
      BY <2>u, <1>t, Zenon DEF TypeOK
    <3>2. i < nextOrder /\ Replaced(i)
      BY <3>1, Zenon DEF Core, RelayReplaces, Allocated
    <3>. QED  BY <3>1, <3>2, <2>R, Zenon
  <2>5. AnswerIsTrue'
    BY <2>u, <2>0, <2>r, Zenon DEF Core, AnswerIsTrue, Logged
  <2>. QED  BY <2>1, <2>2, <2>3, <2>4, <2>5, Zenon DEF Core
<1>. QED  BY <1>1, <1>2, <1>3, <1>4, <1>5, <1>6, <1>7, Zenon DEF RelayStep

\* The clock and the purger preserve the invariant.
LEMMA CoreTime ==
    ASSUME TypeInv, Core,
           \/ \E i \in Ids : LeaseExpire(i) \/ BecomeDue(i)
           \/ \E S \in SUBSET Ids : Purge(S)
    PROVE  Core'
<1>t. TypeOK
  BY Zenon DEF TypeInv
<1>1. CASE \E i \in Ids : LeaseExpire(i) \/ BecomeDue(i)
  <2>1. UNCHANGED <<status, entityOf, payload, nextOrder, tx, phase, stale, batch,
                    outcome, log>>
    BY <1>1, Zenon DEF LeaseExpire, BecomeDue, relayVars
  <2>2. Allocated' /\ Carries' /\ WriterReplaces'
    BY <2>1 DEF Core, Allocated, Carries, WriterReplaces, Sibling
  <2>3. Kept' /\ RelayReplaces' /\ AnswerIsTrue'
    BY <2>1 DEF Core, Kept, RelayReplaces, AnswerIsTrue, Accepted, Replaced, Sibling,
                Logged
  <2>. QED  BY <2>2, <2>3, Zenon DEF Core
<1>2. ASSUME NEW S \in SUBSET Ids, Purge(S) PROVE Core'
  <2>u. UNCHANGED <<entityOf, payload, nextOrder, tx, phase, stale, batch, outcome, log>>
    BY <1>2, Zenon DEF Purge, relayVars
  <2>s. /\ \A i \in Ids : status'[i] = IF i \in S THEN "Purged" ELSE status[i]
        /\ \A i \in S : status[i] \in {"Published", "Superseded", "Failed"}
    BY <1>2, ReclaimedAssumption, Zenon DEF Purge, Purgeable
  <2>1. Allocated' /\ Carries'
    BY <2>u, <2>s, Zenon DEF Core, Allocated, Carries
  <2>G. Grows
    <3>1. \A i \in Ids : status[i] # "Absent" => status'[i] # "Absent"
      BY <2>s, Zenon
    <3>2. nextOrder <= nextOrder'
      BY <2>u, <1>t, MaxRowsAssumption DEF TypeOK
    <3>. QED  BY <3>1, <3>2, <2>u, Zenon DEF Grows, Logged
  <2>R. \A i \in Ids : i < nextOrder /\ Replaced(i) => Replaced(i)'
    BY <2>G, <1>t, ReplacedStays, Zenon DEF Core
  <2>2. Kept'
    <3>. SUFFICES ASSUME NEW i \in Ids, Accepted(i)'
                  PROVE  \/ status'[i] \in {"Pending", "Publishing"}
                         \/ i \in Logged'
                         \/ Replaced(i)'
      BY Zenon DEF Kept
    <3>1. Accepted(i) /\ i < nextOrder
      BY <2>u, <2>s, Zenon DEF Accepted, Core, Allocated
    <3>2. \/ status[i] \in {"Pending", "Publishing"}
          \/ i \in Logged
          \/ Replaced(i)
      BY <3>1, Zenon DEF Core, Kept
    <3>3. status[i] \in {"Pending", "Publishing"} => status'[i] = status[i]
      BY <2>s, Zenon
    <3>. QED  BY <3>1, <3>2, <3>3, <2>R, <2>u, Zenon DEF Logged
  <2>3. WriterReplaces' /\ AnswerIsTrue'
    BY <2>u DEF Core, WriterReplaces, AnswerIsTrue, Sibling, Logged
  <2>4. RelayReplaces'
    <3>. SUFFICES ASSUME NEW q \in Relays, NEW i \in stale'[q] PROVE Replaced(i)'
      BY Zenon DEF RelayReplaces
    <3>1. i \in stale[q] /\ i \in Ids
      BY <2>u, <1>t, Zenon DEF TypeOK
    <3>2. i < nextOrder /\ Replaced(i)
      BY <3>1, Zenon DEF Core, RelayReplaces, Allocated
    <3>. QED  BY <3>1, <3>2, <2>R, Zenon
  <2>. QED  BY <2>1, <2>2, <2>3, <2>4, Zenon DEF Core
<1>. QED  BY <1>1, <1>2, Zenon

\* Every step preserves the invariant.
LEMMA CoreStep == TypeInv /\ Core /\ [Next]_vars => Core'
<1>. SUFFICES ASSUME TypeInv, Core, [Next]_vars PROVE Core'
  BY Zenon
<1>1. CASE UNCHANGED vars
  <2>1. UNCHANGED <<status, entityOf, payload, nextOrder, tx, phase, stale, batch,
                    outcome, log>>
    BY <1>1, Zenon DEF vars, rowVars, relayVars
  <2>2. Allocated' /\ Carries'
    BY <2>1, Zenon DEF Core, Allocated, Carries
  <2>3. WriterReplaces' /\ AnswerIsTrue'
    BY <2>1 DEF Core, WriterReplaces, AnswerIsTrue, Sibling, Logged
  <2>4. Kept' /\ RelayReplaces'
    BY <2>1, Zenon DEF Core, Kept, RelayReplaces, Accepted, Replaced, Sibling, Logged
  <2>. QED  BY <2>2, <2>3, <2>4, Zenon DEF Core
<1>2. CASE Next
  BY <1>2, CoreWriter, CoreRelay, CoreTime, Zenon DEF Next
<1>. QED  BY <1>1, <1>2, Zenon

\* The invariant holds throughout.
LEMMA InductiveInvariant == Spec => []IInv
<1>1. TypeInv /\ Core => IInv
  BY Zenon DEF TypeInv, Core, IInv
<1>2. Init => TypeInv /\ Core
  BY TypeInit, CoreInit, Zenon
<1>3. TypeInv /\ Core /\ [Next]_vars => TypeInv' /\ Core'
  BY TypeStep, CoreStep, Zenon
<1>. QED  BY <1>1, <1>2, <1>3, PTL DEF Spec

\* No snapshot is lost, for any number of rows, writers and relays: the newest
\* committed state of an entity is waiting, in flight or in the topic, through
\* supersession, failed publishes, abandoned batches, lost leases and purges.
THEOREM NoSnapshotLost == Spec => []NewestNotLost
<1>1. IInv => NewestNotLost
  <2>. SUFFICES ASSUME IInv, NEW i \in Ids, Accepted(i),
                       \A j \in Ids : Accepted(j) /\ Sibling(i, j) => j <= i
                PROVE  status[i] \in {"Pending", "Publishing"} \/ i \in Logged
    BY Zenon DEF NewestNotLost
  <2>1. ~ Replaced(i)
    BY MaxRowsAssumption DEF Replaced, Ids
  <2>. QED  BY <2>1, Zenon DEF IInv, Kept
<1>. QED  BY <1>1, InductiveInvariant, PTL

-----------------------------------------------------------------------------
(* The order of the rows: the entity lock makes enqueue_order commit order    *)
(* and the newest row the owner's state, resyncs included                     *)

\* An entity's advisory lock has one holder, and whoever inserts holds it.
Exclusive ==
    /\ \A v, w \in Writers : v # w => tx[v].locks \cap tx[w].locks = {}
    /\ \A w \in Writers : \A i \in tx[w].ins \cup tx[w].dead :
          entityOf[i] \in tx[w].locks

\* Uncommitted rows are newer than every committed row of their entity, so the
\* lock holder's commit is the next one in enqueue order.
Ahead ==
    \A w \in Writers : \A i \in tx[w].ins \cup tx[w].dead : \A j \in Ids :
        Accepted(j) /\ Sibling(i, j) => j < i

\* A transaction supersedes committed rows only, and has one live insert per
\* entity: the newest.
Supersedes ==
    \A w \in Writers :
        /\ \A i \in tx[w].sup : Accepted(i)
        /\ \A i, j \in tx[w].ins : Sibling(i, j) => i = j

\* What a transaction inserts is its own new state or, in a resync, the state it
\* loaded, which stays the committed one for as long as the lock is held.
Loaded ==
    \A w \in Writers :
        IF tx[w].load = 0
        THEN \A i \in tx[w].ins : payload[i] = i
        ELSE /\ \A i \in tx[w].ins : payload[i] = tx[w].load
             /\ \A e \in tx[w].locks : domain[e] = tx[w].load

\* Relays work on committed rows.
Committed == \A r \in Relays : \A i \in stale[r] \cup batch[r] : status[i] # "Absent"

Order == Exclusive /\ Ahead /\ Supersedes /\ Loaded /\ NewestCarriesState

OrderInv == TypeInv /\ Core /\ Committed /\ Order

-----------------------------------------------------------------------------
\* The invariant holds initially.
LEMMA OrderInit == Init => Committed /\ Order
<1>. SUFFICES ASSUME Init PROVE Committed /\ Order
  BY Zenon
<1>1. \A w \in Writers : tx[w] = NoTx
  BY Zenon DEF Init
<1>2. Exclusive /\ Ahead /\ Supersedes /\ Loaded
  BY <1>1 DEF Exclusive, Ahead, Supersedes, Loaded, NoTx
<1>3. NewestCarriesState /\ Committed
  BY Zenon DEF Init, NewestCarriesState, Accepted, Committed
<1>. QED  BY <1>2, <1>3, Zenon DEF Order

\* Steps that leave the transactions, the domain and the set of committed rows
\* alone: everything the relays, the clock and the purger do.
LEMMA OrderFrame ==
    ASSUME TypeOK, Order, UNCHANGED <<entityOf, payload, domain, tx>>,
           \A i \in Ids : status'[i] = "Absent" <=> status[i] = "Absent"
    PROVE  Order'
<1>1. \A i \in Ids : Accepted(i)' <=> Accepted(i)
  BY Zenon DEF Accepted
<1>2. Exclusive' /\ Loaded'
  BY Zenon DEF Order, Exclusive, Loaded
<1>3. Ahead'
  BY <1>1, Zenon DEF Order, Ahead, Sibling
<1>4. Supersedes'
  <2>1. \A w \in Writers : tx[w].sup \in SUBSET Ids
    BY Zenon DEF TypeOK, Txs
  <2>. QED  BY <1>1, <2>1, Zenon DEF Order, Supersedes, Sibling
<1>5. NewestCarriesState'
  BY <1>1, Zenon DEF Order, NewestCarriesState, Sibling
<1>. QED  BY <1>2, <1>3, <1>4, <1>5, Zenon DEF Order

\* Relays create no rows.
LEMMA RelayKeepsRows ==
    ASSUME TypeOK, Committed, NEW r \in Relays, RelayStep(r) \/ Abandon(r)
    PROVE  \A i \in Ids : status'[i] = "Absent" <=> status[i] = "Absent"
<1>1. CASE Collapse(r) \/ ClaimRead(r) \/ ClaimWrite(r) \/ Publish(r) \/ Abandon(r)
  BY <1>1, Zenon DEF Collapse, ClaimRead, ClaimWrite, Publish, PublishRow, Abandon, rowVars
<1>2. CASE ClaimCommit(r)
  <2>1. \A i \in Ids : status'[i] = IF i \in batch[r] THEN "Publishing"
                                    ELSE IF i \in stale[r] THEN "Superseded"
                                    ELSE status[i]
    BY <1>2, Zenon DEF ClaimCommit
  <2>. QED  BY <2>1, Zenon DEF Committed
<1>3. CASE Mark(r)
  <2>. DEFINE o == Oldest(batch[r])
  <2>1. \/ status' = status
        \/ /\ status[o] = "Publishing"
           /\ status' = [status EXCEPT ![o] = MarkedAs(outcome[r] = "ok")]
    BY <1>3, Zenon DEF Mark, Holds
  <2>. QED  BY <2>1, Zenon DEF MarkedAs, TypeOK
<1>. QED  BY <1>1, <1>2, <1>3, Zenon DEF RelayStep

\* Neither do the clock and the purger.
LEMMA TimeKeepsRows ==
    ASSUME TypeOK,
           \/ \E i \in Ids : LeaseExpire(i) \/ BecomeDue(i)
           \/ \E S \in SUBSET Ids : Purge(S)
    PROVE  \A i \in Ids : status'[i] = "Absent" <=> status[i] = "Absent"
<1>1. CASE \E i \in Ids : LeaseExpire(i) \/ BecomeDue(i)
  BY <1>1, Zenon DEF LeaseExpire, BecomeDue
<1>2. ASSUME NEW S \in SUBSET Ids, Purge(S)
      PROVE  \A i \in Ids : status'[i] = "Absent" <=> status[i] = "Absent"
  BY <1>2, ReclaimedAssumption, Zenon DEF Purge, Purgeable
<1>. QED  BY <1>1, <1>2, Zenon

\* The relay's steps keep the order: they only move committed rows along.
LEMMA OrderRelay ==
    ASSUME OrderInv, NEW r \in Relays, RelayStep(r) \/ Abandon(r)
    PROVE  Committed' /\ Order'
<1>t. TypeOK /\ RowInHand /\ Committed /\ Order
  BY Zenon DEF OrderInv, TypeInv
<1>u. UNCHANGED <<entityOf, payload, domain, tx>>
  BY Zenon DEF RelayStep, Collapse, ClaimRead, ClaimWrite, ClaimCommit, Publish, PublishRow, Mark,
         Abandon, rowVars
<1>b. stale[r] \in SUBSET Ids /\ batch[r] \in SUBSET Ids
  BY <1>t, Zenon DEF TypeOK
<1>1. CASE Collapse(r) \/ ClaimRead(r) \/ ClaimWrite(r) \/ Publish(r) \/ Abandon(r)
  <2>1. status' = status
    BY <1>1, Zenon DEF Collapse, ClaimRead, ClaimWrite, Publish, PublishRow, Abandon, rowVars
  <2>2. Order'
    BY <2>1, <1>t, <1>u, OrderFrame, Zenon
  <2>3. CASE ClaimRead(r) \/ Publish(r) \/ Abandon(r)
    BY <2>1, <2>2, <2>3, <1>t, Zenon DEF ClaimRead, Publish, PublishRow, Abandon, Committed, TypeOK
  <2>4. CASE Collapse(r)
    <3>1. \A i \in Overtaken(Pending, FirstN(Claimable(r, RipeNow), BatchLimit)) :
             status[i] # "Absent"
      BY Zenon DEF Overtaken, Pending
    <3>2. \A q \in Relays : /\ q # r => stale'[q] = stale[q]
                            /\ batch'[q] = batch[q]
                            /\ stale'[r] = Overtaken(Pending,
                                   FirstN(Claimable(r, RipeNow), BatchLimit))
      BY <2>4, <1>t, Zenon DEF Collapse, TypeOK
    <3>. QED  BY <2>1, <2>2, <3>1, <3>2, <1>t, Zenon DEF Committed
  <2>5. CASE ClaimWrite(r)
    <3>1. \A i \in OvertakenByPicks(r) : status[i] # "Absent"
      BY Zenon DEF OvertakenByPicks, Overtaken, Pending
    <3>2. \A i \in Picks(r) : status[i] # "Absent"
      BY FirstNSubset, Zenon DEF Picks
    <3>3. \A q \in Relays : /\ q # r => stale'[q] = stale[q] /\ batch'[q] = batch[q]
                            /\ stale'[r] = stale[r] \cup OvertakenByPicks(r)
                            /\ batch'[r] = Picks(r)
      BY <2>5, <1>t, Zenon DEF ClaimWrite, TypeOK
    <3>. QED  BY <2>1, <2>2, <3>1, <3>2, <3>3, <1>t, Zenon DEF Committed
  <2>. QED  BY <1>1, <2>3, <2>4, <2>5, Zenon
<1>2. CASE ClaimCommit(r)
  <2>2. \A i \in Ids : status'[i] = "Absent" <=> status[i] = "Absent"
    BY <1>t, RelayKeepsRows, Zenon
  <2>3. Order'
    BY <2>2, <1>t, <1>u, OrderFrame, Zenon
  <2>4. batch' = batch /\ \A q \in Relays : stale'[q] \subseteq stale[q]
    BY <1>2, <1>t, Zenon DEF ClaimCommit, TypeOK
  <2>5. Committed'
    BY <2>2, <2>4, <1>t, Zenon DEF Committed, TypeOK
  <2>. QED  BY <2>3, <2>5, Zenon
<1>3. CASE Mark(r)
  <2>2. \A i \in Ids : status'[i] = "Absent" <=> status[i] = "Absent"
    BY <1>t, RelayKeepsRows, Zenon
  <2>3. Order'
    BY <2>2, <1>t, <1>u, OrderFrame, Zenon
  <2>4. stale' = stale /\ \A q \in Relays : batch'[q] \subseteq batch[q]
    BY <1>3, <1>t, Zenon DEF Mark, TypeOK
  <2>5. Committed'
    BY <2>2, <2>4, <1>t, Zenon DEF Committed, TypeOK
  <2>. QED  BY <2>3, <2>5, Zenon
<1>. QED  BY <1>1, <1>2, <1>3, Zenon DEF RelayStep

\* So do the clock's and the purger's.
LEMMA OrderTime ==
    ASSUME OrderInv,
           \/ \E i \in Ids : LeaseExpire(i) \/ BecomeDue(i)
           \/ \E S \in SUBSET Ids : Purge(S)
    PROVE  Committed' /\ Order'
<1>t. TypeOK /\ Committed /\ Order
  BY Zenon DEF OrderInv, TypeInv
<1>u. UNCHANGED <<entityOf, payload, domain, tx, stale, batch>>
  BY Zenon DEF LeaseExpire, BecomeDue, Purge, relayVars
<1>1. \A i \in Ids : status'[i] = "Absent" <=> status[i] = "Absent"
  BY <1>t, TimeKeepsRows, Zenon
<1>2. Order'
  BY <1>1, <1>t, <1>u, OrderFrame, Zenon
<1>3. Committed'
  BY <1>1, <1>t, <1>u, Zenon DEF Committed, TypeOK
<1>. QED  BY <1>2, <1>3, Zenon

-----------------------------------------------------------------------------
(* The application's steps *)

\* Opening or dropping a transaction with nothing inserted.
LEMMA OrderOpen ==
    ASSUME OrderInv, NEW w \in Writers, NEW t \in Txs, tx' = [tx EXCEPT ![w] = t],
           UNCHANGED <<status, entityOf, payload, domain, stale, batch>>,
           t.sup = {}, t.ins = {}, t.dead = {},
           \A v \in Writers \ {w} : tx[v].locks \cap t.locks = {},
           t.load # 0 => \A e \in t.locks : domain[e] = t.load
    PROVE  Committed' /\ Order'
<1>t. TypeOK /\ Committed /\ Order
  BY Zenon DEF OrderInv, TypeInv
<1>0. \A v \in Writers : tx'[v] = IF v = w THEN t ELSE tx[v]
  BY <1>t, Zenon DEF TypeOK
<1>1. Exclusive'
  BY <1>0, <1>t DEF Order, Exclusive
<1>2. Ahead' /\ Supersedes'
  BY <1>0, <1>t DEF Order, Ahead, Supersedes, Accepted, Sibling
<1>3. Loaded'
  BY <1>0, <1>t DEF Order, Loaded
<1>4. NewestCarriesState' /\ Committed'
  BY <1>t, Zenon DEF Order, NewestCarriesState, Accepted, Sibling, Committed
<1>. QED  BY <1>1, <1>2, <1>3, <1>4, Zenon DEF Order

\* An accepted enqueue: the new row is ahead because its ordinal is fresh.
LEMMA OrderInsert ==
    ASSUME OrderInv, NEW w \in Writers, NEW e \in Entities, NEW state \in States,
           InsertPending(w, e, state),
           \/ tx[w].load = 0 /\ state = nextOrder
           \/ tx[w].load # 0 /\ state = tx[w].load /\ tx[w].ins = {} /\ e \in tx[w].locks
    PROVE  Committed' /\ Order'
<1>. USE MaxRowsAssumption
<1>t. tx \in [Writers -> Txs] /\ TypeOK /\ Committed /\ Order
  BY Zenon DEF OrderInv, TypeInv, TypeOK
<1>n. nextOrder \in Ids
  BY Zenon DEF InsertPending
<1>u. UNCHANGED <<status, domain, stale, batch>>
  BY Zenon DEF InsertPending, relayVars
<1>c. \A i \in Ids : i # nextOrder => /\ payload'[i] = payload[i]
                                      /\ entityOf'[i] = entityOf[i]
  BY <1>t, Zenon DEF InsertPending, TypeOK
<1>d. payload'[nextOrder] = state /\ entityOf'[nextOrder] = e
  BY <1>t, <1>n, Zenon DEF InsertPending, TypeOK
<1>0. \A v \in Writers : tx'[v] = IF v = w THEN AfterInsert(w, e) ELSE tx[v]
  BY <1>t, Zenon DEF InsertPending
<1>f. /\ AfterInsert(w, e).locks = tx[w].locks \cup {e}
      /\ AfterInsert(w, e).load = tx[w].load
      /\ AfterInsert(w, e).sup = tx[w].sup \cup Predecessors(w, e)
      /\ AfterInsert(w, e).dead = tx[w].dead \cup {i \in tx[w].ins : entityOf[i] = e}
      /\ AfterInsert(w, e).ins = {i \in tx[w].ins : entityOf[i] # e} \cup {nextOrder}
  BY <1>t, Zenon DEF AfterInsert, Txs
<1>x. \A v \in Writers : /\ tx[v].sup \in SUBSET Ids /\ tx[v].ins \in SUBSET Ids
                         /\ tx[v].dead \in SUBSET Ids
  BY <1>t, Zenon DEF Txs
<1>A. \A v \in Writers : \A i \in tx[v].sup \cup tx[v].ins \cup tx[v].dead :
         i < nextOrder /\ i \in Ids
  BY <1>x, Zenon DEF OrderInv, Core, Allocated
<1>o. \A i \in Ids : i < nextOrder => i # nextOrder
  BY <1>n DEF Ids
<1>s. \A v \in Writers : \A i \in tx[v].sup \cup tx[v].ins \cup tx[v].dead :
         entityOf'[i] = entityOf[i] /\ payload'[i] = payload[i]
  BY <1>A, <1>c, <1>o, Zenon
<1>a. \A i \in Ids : /\ Accepted(i)' => i < nextOrder /\ Accepted(i)
                     /\ Accepted(i) => Accepted(i)'
  <2>1. \A i \in Ids : status[i] # "Absent" => i < nextOrder
    BY Zenon DEF OrderInv, Core, Allocated
  <2>. QED  BY <2>1, <1>c, <1>u, <1>o, Zenon DEF Accepted
<1>e. \A i \in Ids : Accepted(i) => entityOf'[i] = entityOf[i] /\ payload'[i] = payload[i]
  BY <1>a, <1>c, <1>o, Zenon
<1>p. \A i \in Predecessors(w, e) : i \in Ids /\ Accepted(i)
  <2>1. Predecessors(w, e) \subseteq Ids
    BY <1>t, Zenon DEF Predecessors, Pending, Txs
  <2>2. \A i \in Predecessors(w, e) : status[i] = "Pending"
    BY Zenon DEF InsertPending
  <2>. QED  BY <2>1, <2>2, Zenon DEF OrderInv, Core, Carries, Accepted
<1>1. Exclusive'
  <2>1. \A v \in Writers \ {w} : e \notin tx[v].locks
    BY Zenon DEF InsertPending, MayLock
  <2>2. \A u, v \in Writers : u # v => tx'[u].locks \cap tx'[v].locks = {}
    BY <2>1, <1>0, <1>f, <1>t DEF Order, Exclusive
  <2>3. \A v \in Writers : \A i \in tx'[v].ins \cup tx'[v].dead :
           entityOf'[i] \in tx'[v].locks
    BY <1>0, <1>f, <1>s, <1>d, <1>t DEF Order, Exclusive
  <2>. QED  BY <2>2, <2>3, Zenon DEF Exclusive
<1>2. Ahead'
  <2>. SUFFICES ASSUME NEW v \in Writers, NEW i \in tx'[v].ins \cup tx'[v].dead,
                       NEW j \in Ids, Accepted(j)', entityOf'[i] = entityOf'[j]
                PROVE  j < i
    BY Zenon DEF Ahead, Sibling
  <2>1. Accepted(j) /\ j < nextOrder /\ entityOf'[j] = entityOf[j]
    BY <1>a, <1>e, Zenon
  <2>2. CASE i = nextOrder
    BY <2>1, <2>2, Zenon
  <2>3. CASE i # nextOrder
    <3>1. i \in tx[v].ins \cup tx[v].dead
      BY <2>3, <1>0, <1>f
    <3>2. entityOf[i] = entityOf[j]
      BY <3>1, <2>1, <1>s, Zenon
    <3>. QED  BY <3>1, <3>2, <2>1, <1>t, Zenon DEF Order, Ahead, Sibling
  <2>. QED  BY <2>2, <2>3, Zenon
<1>3. Supersedes'
  <2>1. \A v \in Writers : \A i \in tx'[v].sup : Accepted(i)'
    BY <1>0, <1>f, <1>x, <1>p, <1>a, <1>t, Zenon DEF Order, Supersedes
  <2>2. \A v \in Writers : \A i, j \in tx'[v].ins : entityOf'[i] = entityOf'[j] => i = j
    <3>. SUFFICES ASSUME NEW v \in Writers, NEW i \in tx'[v].ins, NEW j \in tx'[v].ins,
                         entityOf'[i] = entityOf'[j]
                  PROVE  i = j
      BY Zenon
    <3>1. CASE v # w
      BY <3>1, <1>0, <1>s, <1>t DEF Order, Supersedes, Sibling
    <3>2. CASE v = w
      <4>1. \A k \in tx'[w].ins :
               k = nextOrder \/ (k \in tx[w].ins /\ entityOf[k] # e
                                   /\ entityOf'[k] = entityOf[k])
        BY <1>0, <1>f, <1>s
      <4>. QED  BY <3>2, <4>1, <1>d, <1>t DEF Order, Supersedes, Sibling
    <3>. QED  BY <3>1, <3>2, Zenon
  <2>. QED  BY <2>1, <2>2, Zenon DEF Supersedes, Sibling
<1>4. Loaded'
  <2>. SUFFICES ASSUME NEW v \in Writers
                PROVE  IF tx'[v].load = 0
                       THEN \A i \in tx'[v].ins : payload'[i] = i
                       ELSE /\ \A i \in tx'[v].ins : payload'[i] = tx'[v].load
                            /\ \A f \in tx'[v].locks : domain'[f] = tx'[v].load
    BY Zenon DEF Loaded
  <2>1. CASE v # w
    BY <2>1, <1>0, <1>s, <1>u, <1>t DEF Order, Loaded
  <2>2. CASE v = w
    BY <2>2, <1>0, <1>f, <1>s, <1>d, <1>u, <1>t DEF Order, Loaded
  <2>. QED  BY <2>1, <2>2, Zenon
<1>5. NewestCarriesState'
  BY <1>a, <1>e, <1>u, <1>t, Zenon DEF Order, NewestCarriesState, Sibling
<1>6. Committed'
  BY <1>u, <1>t, Zenon DEF Committed
<1>. QED  BY <1>1, <1>2, <1>3, <1>4, <1>5, <1>6, Zenon DEF Order

\* An audit row takes no lock and carries no state.
LEMMA OrderReject ==
    ASSUME OrderInv, NEW w \in Writers, NEW e \in Entities, EnqueueRejected(w, e)
    PROVE  Committed' /\ Order'
<1>. USE MaxRowsAssumption
<1>t. tx \in [Writers -> Txs] /\ TypeOK /\ Committed /\ Order
  BY Zenon DEF OrderInv, TypeInv, TypeOK
<1>u. UNCHANGED <<status, payload, domain, stale, batch>>
  BY Zenon DEF EnqueueRejected, relayVars
<1>c. \A i \in Ids : i # nextOrder => entityOf'[i] = entityOf[i]
  BY <1>t, Zenon DEF EnqueueRejected, TypeOK
<1>f. \A v \in Writers : /\ tx'[v].locks = tx[v].locks /\ tx'[v].load = tx[v].load
                         /\ tx'[v].sup = tx[v].sup /\ tx'[v].dead = tx[v].dead
                         /\ tx'[v].ins = tx[v].ins
  BY <1>t, Zenon DEF EnqueueRejected, Txs
<1>x. \A v \in Writers : /\ tx[v].sup \in SUBSET Ids /\ tx[v].ins \in SUBSET Ids
                         /\ tx[v].dead \in SUBSET Ids
  BY <1>t, Zenon DEF Txs
<1>o. \A i \in Ids : i < nextOrder => i # nextOrder
  BY DEF Ids, EnqueueRejected
<1>s. \A v \in Writers : \A i \in tx[v].sup \cup tx[v].ins \cup tx[v].dead :
         entityOf'[i] = entityOf[i]
  BY <1>x, <1>c, <1>o, Zenon DEF OrderInv, Core, Allocated
<1>e. \A i \in Ids : /\ Accepted(i)' <=> Accepted(i)
                     /\ Accepted(i) => entityOf'[i] = entityOf[i]
  BY <1>c, <1>o, <1>u, Zenon DEF Accepted, OrderInv, Core, Allocated
<1>1. Exclusive'
  BY <1>f, <1>s, <1>t DEF Order, Exclusive
<1>2. Ahead'
  BY <1>f, <1>s, <1>e, <1>t, Zenon DEF Order, Ahead, Sibling
<1>3. Supersedes'
  BY <1>f, <1>s, <1>e, <1>x, <1>t DEF Order, Supersedes, Sibling
<1>4. Loaded'
  BY <1>f, <1>u, <1>t, Zenon DEF Order, Loaded
<1>5. NewestCarriesState' /\ Committed'
  BY <1>e, <1>u, <1>t, Zenon DEF Order, NewestCarriesState, Sibling, Committed
<1>. QED  BY <1>1, <1>2, <1>3, <1>4, <1>5, Zenon DEF Order

\* What a commit adds to the accepted rows is what it inserted, under its lock.
LEMMA CommitAccepts ==
    ASSUME OrderInv, NEW w \in Writers, Commit(w), NEW i \in Ids
    PROVE  /\ Accepted(i)' => Accepted(i) \/ i \in tx[w].ins \cup tx[w].dead
           /\ Accepted(i) => Accepted(i)'
           /\ i \in tx[w].ins => Accepted(i)'
<1>1. status'[i] = IF i \in tx[w].ins THEN "Pending"
                   ELSE IF i \in tx[w].sup \cup tx[w].dead THEN "Superseded"
                   ELSE IF i \in tx[w].audit THEN "Failed"
                   ELSE status[i]
  BY Zenon DEF Commit
<1>2. payload'[i] = payload[i]
  BY Zenon DEF Commit
<1>3. i \in tx[w].sup => Accepted(i)
  BY Zenon DEF OrderInv, Order, Supersedes
<1>4. i \in tx[w].audit => payload[i] = 0
  BY Zenon DEF OrderInv, Core, Carries
<1>5. i \in tx[w].ins => payload[i] # 0
  BY Zenon DEF OrderInv, Core, Carries
<1>. QED  BY <1>1, <1>2, <1>3, <1>4, <1>5, Zenon DEF Accepted

\* A commit: the lock keeps other transactions' rows and loads apart from it.
LEMMA OrderCommit ==
    ASSUME OrderInv, NEW w \in Writers, Commit(w)
    PROVE  Committed' /\ Order'
<1>. USE MaxRowsAssumption
<1>t. tx \in [Writers -> Txs] /\ TypeOK /\ Committed /\ Order
  BY Zenon DEF OrderInv, TypeInv, TypeOK
<1>u. UNCHANGED <<entityOf, payload, stale, batch>>
  BY Zenon DEF Commit
<1>d. \A e \in Entities : domain'[e] = CommittedState(w, e)
  BY Zenon DEF Commit
<1>0. \A v \in Writers : tx'[v] = IF v = w THEN NoTx ELSE tx[v]
  BY <1>t, Zenon DEF Commit
<1>n. NoTx.locks = {} /\ NoTx.sup = {} /\ NoTx.ins = {} /\ NoTx.dead = {}
      /\ NoTx.load = 0
  BY Zenon DEF NoTx
<1>x. \A v \in Writers : /\ tx[v].sup \in SUBSET Ids /\ tx[v].ins \in SUBSET Ids
                         /\ tx[v].dead \in SUBSET Ids /\ tx[v].locks \in SUBSET Entities
  BY <1>t, Zenon DEF Txs
<1>1. Exclusive'
  BY <1>0, <1>n, <1>u, <1>t, Zenon DEF Order, Exclusive
<1>2. Ahead'
  <2>. SUFFICES ASSUME NEW v \in Writers, NEW i \in tx'[v].ins \cup tx'[v].dead,
                       NEW j \in Ids, Accepted(j)', entityOf[i] = entityOf[j]
                PROVE  j < i
    BY <1>u, Zenon DEF Ahead, Sibling
  <2>1. v # w /\ i \in tx[v].ins \cup tx[v].dead
    BY <1>0, <1>n, Zenon
  <2>2. j \notin tx[w].ins \cup tx[w].dead
    BY <2>1, <1>t, Zenon DEF Order, Exclusive
  <2>3. Accepted(j)
    BY <2>2, CommitAccepts, Zenon
  <2>. QED  BY <2>1, <2>3, <1>t, Zenon DEF Order, Ahead, Sibling
<1>3. Supersedes'
  BY <1>0, <1>n, <1>u, <1>x, <1>t, CommitAccepts, Zenon DEF Order, Supersedes, Sibling
<1>4. Loaded'
  <2>1. \A v \in Writers : v # w => \A e \in tx[v].locks : domain'[e] = domain[e]
    <3>. SUFFICES ASSUME NEW v \in Writers, v # w, NEW e \in tx[v].locks
                  PROVE  domain'[e] = domain[e]
      BY Zenon
    <3>1. e \in Entities /\ e \notin tx[w].locks
      BY <1>x, <1>t, Zenon DEF Order, Exclusive
    <3>2. \A i \in tx[w].ins : entityOf[i] # e
      BY <3>1, <1>t, Zenon DEF Order, Exclusive
    <3>. QED  BY <3>1, <3>2, <1>d, Zenon DEF CommittedState
  <2>. QED  BY <2>1, <1>0, <1>n, <1>u, <1>t DEF Order, Loaded
<1>5. NewestCarriesState'
  <2>. SUFFICES ASSUME NEW i \in Ids, Accepted(i)',
                       \A j \in Ids : Accepted(j)' /\ Sibling(i, j) => j <= i
                PROVE  payload[i] = CommittedState(w, entityOf[i])
    <3>1. \A i \in Ids : entityOf[i] \in Entities
      BY <1>t, Zenon DEF TypeOK
    <3>. QED  BY <3>1, <1>d, <1>u, Zenon DEF NewestCarriesState, Sibling
  <2>1. i \notin tx[w].dead
    <3>. SUFFICES ASSUME i \in tx[w].dead PROVE FALSE
      BY Zenon
    <3>1. PICK j \in tx[w].ins : i < j /\ Sibling(i, j)
      BY Zenon DEF OrderInv, Core, WriterReplaces
    <3>2. j \in Ids /\ Accepted(j)'
      BY <1>x, CommitAccepts, Zenon
    <3>3. j <= i
      BY <3>1, <3>2, Zenon
    <3>. QED  BY <3>1, <3>2, <3>3 DEF Ids
  <2>2. CASE i \in tx[w].ins
    <3>1. CASE tx[w].load = 0
      <4>1. payload[i] = i
        BY <3>1, <2>2, <1>t, Zenon DEF Order, Loaded
      <4>2. \A j \in tx[w].ins : entityOf[j] = entityOf[i] => j = i
        BY <2>2, <1>t, Zenon DEF Order, Supersedes, Sibling
      <4>3. CommittedState(w, entityOf[i]) = CHOOSE j \in tx[w].ins : entityOf[j] = entityOf[i]
        BY <3>1, <2>2, Zenon DEF CommittedState
      <4>. QED  BY <4>1, <4>2, <4>3, <2>2, Zenon
    <3>2. CASE tx[w].load # 0
      <4>1. payload[i] = tx[w].load /\ domain[entityOf[i]] = tx[w].load
        BY <3>2, <2>2, <1>t, Zenon DEF Order, Loaded, Exclusive
      <4>. QED  BY <3>2, <4>1, Zenon DEF CommittedState
    <3>. QED  BY <3>1, <3>2, Zenon
  <2>3. CASE i \notin tx[w].ins
    <3>1. Accepted(i)
      BY <2>1, <2>3, CommitAccepts, Zenon
    <3>2. \A j \in tx[w].ins : entityOf[j] # entityOf[i]
      <4>. SUFFICES ASSUME NEW j \in tx[w].ins, entityOf[j] = entityOf[i] PROVE FALSE
        BY Zenon
      <4>1. j \in Ids /\ Accepted(j)'
        BY <1>x, CommitAccepts, Zenon
      <4>2. j <= i
        BY <4>1, Zenon DEF Sibling
      <4>3. i < j
        BY <3>1, <1>t, Zenon DEF Order, Ahead, Sibling
      <4>. QED  BY <4>1, <4>2, <4>3 DEF Ids
    <3>3. \A j \in Ids : Accepted(j) /\ Sibling(i, j) => j <= i
      BY CommitAccepts, Zenon
    <3>4. payload[i] = domain[entityOf[i]]
      BY <3>1, <3>3, <1>t, Zenon DEF Order, NewestCarriesState
    <3>. QED  BY <3>2, <3>4, Zenon DEF CommittedState
  <2>. QED  BY <2>2, <2>3, Zenon
<1>6. Committed'
  <2>1. \A i \in Ids : status[i] # "Absent" => status'[i] # "Absent"
    <3>. SUFFICES ASSUME NEW i \in Ids, status[i] # "Absent" PROVE status'[i] # "Absent"
      BY Zenon
    <3>1. status'[i] = IF i \in tx[w].ins THEN "Pending"
                       ELSE IF i \in tx[w].sup \cup tx[w].dead THEN "Superseded"
                       ELSE IF i \in tx[w].audit THEN "Failed"
                       ELSE status[i]
      BY Zenon DEF Commit
    <3>. QED  BY <3>1, Zenon
  <2>2. \A r \in Relays : stale[r] \in SUBSET Ids /\ batch[r] \in SUBSET Ids
    BY <1>t, Zenon DEF TypeOK
  <2>. QED  BY <2>1, <2>2, <1>u, <1>t, Zenon DEF Committed
<1>. QED  BY <1>1, <1>2, <1>3, <1>4, <1>5, <1>6, Zenon DEF Order

\* Every step of an application connection.
LEMMA OrderWriter ==
    ASSUME OrderInv, NEW w \in Writers, WriterNext(w)
    PROVE  Committed' /\ Order'
<1>. USE MaxRowsAssumption
<1>t. tx \in [Writers -> Txs] /\ TypeOK /\ tx[w] \in Txs
  BY Zenon DEF OrderInv, TypeInv, TypeOK
<1>1. ASSUME NEW iso \in Isolation, Begin(w, iso) PROVE Committed' /\ Order'
  <2>. DEFINE t == [NoTx EXCEPT !.mode = iso,
                                !.snap = IF iso = "fixed" THEN Pending ELSE {}]
  <2>1. t \in Txs
    <3>1. iso \in {"none", "committed", "fixed"} /\ Pending \in SUBSET Ids
      BY IsolationAssumption, Zenon DEF Pending
    <3>2. (IF iso = "fixed" THEN Pending ELSE {}) \in SUBSET Ids
      BY <3>1, Zenon
    <3>. QED  BY <3>1, <3>2, NoTxType, Zenon DEF Txs
  <2>2. t.sup = {} /\ t.ins = {} /\ t.dead = {} /\ t.locks = {} /\ t.load = 0
    BY Zenon DEF NoTx
  <2>3. /\ tx' = [tx EXCEPT ![w] = t]
        /\ UNCHANGED <<status, entityOf, payload, domain, stale, batch>>
    BY <1>1, Zenon DEF Begin, rowVars, relayVars
  <2>. HIDE DEF t
  <2>. QED  BY <2>1, <2>2, <2>3, OrderOpen, Zenon
<1>2. ASSUME NEW e \in Entities, Enqueue(w, e) PROVE Committed' /\ Order'
  <2>1. nextOrder \in States /\ tx[w].load = 0 /\ InsertPending(w, e, nextOrder)
    BY <1>2 DEF Enqueue, InsertPending, Ids, States
  <2>. QED  BY <2>1, OrderInsert, Zenon
<1>3. ASSUME NEW e \in Entities, EnqueueRejected(w, e) PROVE Committed' /\ Order'
  BY <1>3, OrderReject, Zenon
<1>4. ASSUME NEW e \in Entities, ResyncLoad(w, e) PROVE Committed' /\ Order'
  <2>. DEFINE t == [NoTx EXCEPT !.mode = "committed", !.locks = {e},
                                !.load = domain[e]]
  <2>1. t \in Txs
    BY <1>t, NoTxType, Zenon DEF Txs, TypeOK
  <2>2. t.sup = {} /\ t.ins = {} /\ t.dead = {} /\ t.locks = {e} /\ t.load = domain[e]
    BY Zenon DEF NoTx
  <2>3. /\ tx' = [tx EXCEPT ![w] = t]
        /\ UNCHANGED <<status, entityOf, payload, domain, stale, batch>>
        /\ \A v \in Writers \ {w} : e \notin tx[v].locks
    BY <1>4, Zenon DEF ResyncLoad, MayLock, rowVars, relayVars
  <2>. HIDE DEF t
  <2>4. \A v \in Writers \ {w} : tx[v].locks \cap t.locks = {}
    BY <2>2, <2>3, Zenon
  <2>5. \A f \in t.locks : domain[f] = t.load
    BY <2>2, Zenon
  <2>. QED  BY <2>1, <2>2, <2>3, <2>4, <2>5, OrderOpen, Zenon
<1>5. ASSUME NEW e \in Entities, ResyncEnqueue(w, e) PROVE Committed' /\ Order'
  <2>1. /\ tx[w].load \in States /\ tx[w].load # 0 /\ tx[w].ins = {}
        /\ e \in tx[w].locks /\ InsertPending(w, e, tx[w].load)
    BY <1>5, <1>t, Zenon DEF ResyncEnqueue, Txs
  <2>. QED  BY <2>1, OrderInsert, Zenon
<1>6. CASE Commit(w)
  BY <1>6, OrderCommit, Zenon
<1>7. CASE Rollback(w)
  <2>1. NoTx.sup = {} /\ NoTx.ins = {} /\ NoTx.dead = {} /\ NoTx.locks = {}
        /\ NoTx.load = 0
    BY Zenon DEF NoTx
  <2>2. /\ tx' = [tx EXCEPT ![w] = NoTx]
        /\ UNCHANGED <<status, entityOf, payload, domain, stale, batch>>
    BY <1>7, Zenon DEF Rollback, rowVars
  <2>. QED  BY <2>1, <2>2, NoTxType, OrderOpen, Zenon
<1>. QED  BY <1>1, <1>2, <1>3, <1>4, <1>5, <1>6, <1>7, Zenon DEF WriterNext

\* Every step of the system preserves the invariant.
LEMMA OrderStep == OrderInv /\ [Next]_vars => OrderInv'
<1>. SUFFICES ASSUME OrderInv, [Next]_vars PROVE OrderInv'
  BY Zenon
<1>1. TypeInv' /\ Core'
  BY TypeStep, CoreStep, Zenon DEF OrderInv
<1>2. CASE UNCHANGED vars
  <2>1. UNCHANGED <<status, entityOf, payload, domain, tx, stale, batch>>
    BY <1>2, Zenon DEF vars, rowVars, relayVars
  <2>2. Committed'
    BY <2>1, Zenon DEF OrderInv, Committed
  <2>3. Exclusive'
    BY <2>1, Zenon DEF OrderInv, Order, Exclusive
  <2>4. Ahead'
    BY <2>1, Zenon DEF OrderInv, Order, Ahead, Accepted, Sibling
  <2>5. Supersedes'
    BY <2>1, Zenon DEF OrderInv, Order, Supersedes, Accepted, Sibling
  <2>6. Loaded'
    BY <2>1, Zenon DEF OrderInv, Order, Loaded
  <2>7. NewestCarriesState'
    BY <2>1, Zenon DEF OrderInv, Order, NewestCarriesState, Accepted, Sibling
  <2>. QED  BY <1>1, <2>2, <2>3, <2>4, <2>5, <2>6, <2>7, Zenon DEF OrderInv, Order
<1>3. CASE Next
  <2>1. Committed' /\ Order'
    BY <1>3, OrderWriter, OrderRelay, OrderTime, Zenon DEF Next
  <2>. QED  BY <1>1, <2>1, Zenon DEF OrderInv
<1>. QED  BY <1>2, <1>3, Zenon

\* The newest committed row of an entity carries the state its owner last
\* committed, however resyncs, live writes, relays and purges interleave: resync
\* locks the entity before it loads it.
THEOREM ResyncBuriesNothing == Spec => []NewestCarriesState
<1>1. Init => OrderInv
  BY TypeInit, CoreInit, OrderInit, Zenon DEF OrderInv
<1>2. OrderInv => NewestCarriesState
  BY Zenon DEF OrderInv, Order
<1>. QED  BY <1>1, <1>2, OrderStep, PTL DEF Spec

\* Rows of an entity become visible in enqueue_order, at any isolation level and
\* for any number of connections: the ordinal is drawn under the entity's lock.
THEOREM EnqueueOrderIsCommitOrder == Spec => CommitsInEnqueueOrder
<1>. DEFINE A == \A i, j \in Ids :
                    Accepted(i) /\ ~Accepted(j) /\ Accepted(j)' /\ Sibling(i, j)' => i < j
<1>1. Init => OrderInv
  BY TypeInit, CoreInit, OrderInit, Zenon DEF OrderInv
<1>2. OrderInv /\ [Next]_vars => [A]_vars
  <2>. SUFFICES ASSUME OrderInv, Next, NEW i \in Ids, NEW j \in Ids,
                       Accepted(i), ~Accepted(j), Accepted(j)', Sibling(i, j)'
                PROVE  i < j
    BY Zenon
  <2>t. TypeOK /\ RowInHand /\ Committed
    BY Zenon DEF OrderInv, TypeInv
  <2>1. \E w \in Writers : Commit(w)
    <3>. SUFFICES ASSUME \A w \in Writers : ~Commit(w) PROVE FALSE
      BY Zenon
    <3>1. CASE \E v \in Writers : WriterNext(v)
      <4>1. status' = status
        BY <3>1, Zenon DEF WriterNext, Begin, Enqueue, EnqueueRejected, ResyncLoad,
                    ResyncEnqueue, InsertPending, Rollback, rowVars
      <4>2. payload'[j] = payload[j] \/ (nextOrder \in Ids /\ j = nextOrder)
        <5>. PICK v \in Writers : WriterNext(v)
          BY <3>1, Zenon
        <5>1. ASSUME NEW e, NEW state, InsertPending(v, e, state)
              PROVE  payload'[j] = payload[j] \/ (nextOrder \in Ids /\ j = nextOrder)
          BY <5>1, <2>t, Zenon DEF InsertPending, TypeOK
        <5>2. ASSUME \A e, state : ~InsertPending(v, e, state)
              PROVE  payload' = payload
          BY <5>2, Zenon DEF WriterNext, Begin, Enqueue, EnqueueRejected, ResyncLoad,
                      ResyncEnqueue, Rollback, rowVars
        <5>. QED  BY <5>1, <5>2, Zenon
      <4>3. ASSUME j = nextOrder PROVE status[j] = "Absent"
        <5>1. status[j] # "Absent" => j < nextOrder
          BY Zenon DEF OrderInv, Core, Allocated
        <5>2. nextOrder \in Int
          BY MaxRowsAssumption DEF OrderInv, TypeInv, TypeOK
        <5>. QED  BY <4>3, <5>1, <5>2
      <4>. QED  BY <4>1, <4>2, <4>3, Zenon DEF Accepted
    <3>2. CASE \E r \in Relays : RelayStep(r) \/ Abandon(r)
      <4>1. payload' = payload
        BY <3>2, Zenon DEF RelayStep, Collapse, ClaimRead, ClaimWrite, ClaimCommit, Publish,
                    PublishRow, Mark, Abandon, rowVars
      <4>. QED  BY <3>2, <4>1, <2>t, RelayKeepsRows, Zenon DEF Accepted
    <3>3. CASE \/ \E k \in Ids : LeaseExpire(k) \/ BecomeDue(k)
               \/ \E S \in SUBSET Ids : Purge(S)
      <4>1. payload' = payload
        BY <3>3, Zenon DEF LeaseExpire, BecomeDue, Purge
      <4>. QED  BY <3>3, <4>1, <2>t, TimeKeepsRows, Zenon DEF Accepted
    <3>. QED  BY <3>1, <3>2, <3>3, Zenon DEF Next
  <2>2. PICK w \in Writers : Commit(w)
    BY <2>1, Zenon
  <2>3. j \in tx[w].ins \cup tx[w].dead /\ Sibling(i, j)
    BY <2>2, CommitAccepts, Zenon DEF Commit, Sibling
  <2>. QED  BY <2>3, Zenon DEF OrderInv, Order, Ahead, Sibling
<1>3. CommitsInEnqueueOrder <=> [][A]_vars
  BY Zenon DEF CommitsInEnqueueOrder
<1>. HIDE DEF A
<1>. QED  BY <1>1, <1>2, <1>3, OrderStep, PTL DEF Spec

-----------------------------------------------------------------------------
(* What the proofs about the topic use *)

\* A transaction's steps short of its commit leave the committed rows alone.
LEMMA OpenTxKeepsRows ==
    ASSUME OrderInv, NEW w \in Writers, WriterNext(w), ~Commit(w)
    PROVE  /\ UNCHANGED <<status, claim, expired, phase, cand, seen, stale, batch,
                          outcome, faults, log>>
           /\ \A i \in Ids : status[i] # "Absent" => /\ entityOf'[i] = entityOf[i]
                                                     /\ payload'[i] = payload[i]
<1>. USE MaxRowsAssumption
<1>1. UNCHANGED <<status, claim, expired, phase, cand, seen, stale, batch, outcome,
                  faults, log>>
  BY Zenon DEF WriterNext, Begin, Enqueue, EnqueueRejected, ResyncLoad, ResyncEnqueue,
         InsertPending, Rollback, rowVars, relayVars
<1>2. \A i \in Ids : i # nextOrder => /\ entityOf'[i] = entityOf[i]
                                      /\ payload'[i] = payload[i]
  <2>1. ASSUME NEW e, NEW state, InsertPending(w, e, state)
        PROVE  \A i \in Ids : i # nextOrder => /\ entityOf'[i] = entityOf[i]
                                               /\ payload'[i] = payload[i]
    BY <2>1, Zenon DEF InsertPending, OrderInv, TypeInv, TypeOK
  <2>2. ASSUME NEW e, EnqueueRejected(w, e)
        PROVE  \A i \in Ids : i # nextOrder => /\ entityOf'[i] = entityOf[i]
                                               /\ payload'[i] = payload[i]
    BY <2>2, Zenon DEF EnqueueRejected, OrderInv, TypeInv, TypeOK
  <2>3. ASSUME \A e, state : ~InsertPending(w, e, state), \A e : ~EnqueueRejected(w, e)
        PROVE  UNCHANGED <<entityOf, payload>>
    BY <2>3, Zenon DEF WriterNext, Begin, Enqueue, ResyncLoad, ResyncEnqueue, Rollback, rowVars
  <2>. QED  BY <2>1, <2>2, <2>3, Zenon
<1>3. \A i \in Ids : status[i] # "Absent" => i # nextOrder
  <2>1. \A i \in Ids : status[i] # "Absent" => i < nextOrder
    BY Zenon DEF OrderInv, Core, Allocated
  <2>2. nextOrder \in Int
    BY DEF OrderInv, TypeInv, TypeOK
  <2>. QED  BY <2>1, <2>2
<1>. QED  BY <1>1, <1>2, <1>3, Zenon

\* What one append adds to the topic.
LEMMA LoggedAppend ==
    ASSUME TypeOK, NEW i \in Ids, log' = Append(log, i)
    PROVE  /\ Logged' = Logged \cup {i} /\ Len(log') = Len(log) + 1
           /\ Len(log) \in Nat /\ log'[Len(log) + 1] = i
           /\ \A k \in 1 .. Len(log) : log'[k] = log[k] /\ log[k] \in Logged
<1>0. log \in Seq(Ids)
  BY Zenon DEF TypeOK
<1>a. Appended(log', log, i)
  <2>1. Appended(Append(log, i), log, i)
    BY <1>0, AppendAdds, Zenon
  <2>. QED  BY <2>1, Zenon
<1>1. /\ Len(log) \in Nat /\ Len(log') = Len(log) + 1 /\ log'[Len(log) + 1] = i
      /\ \A k \in 1 .. Len(log) : log'[k] = log[k]
  BY <1>a, Zenon DEF Appended
<1>2. \A k \in 1 .. Len(log) : log[k] \in Logged
  BY Zenon DEF Logged
<1>3. Logged' = Logged \cup {i}
  BY <1>a, Zenon DEF Appended, Logged
<1>. QED  BY <1>1, <1>2, <1>3, Zenon
=============================================================================
