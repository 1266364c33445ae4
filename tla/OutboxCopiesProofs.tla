------------------------- MODULE OutboxCopiesProofs -------------------------
(***************************************************************************)
(* Copies, for any number of relays, entities, connections, rows and       *)
(* faults: the row locks keep two transactions off one row, and every copy *)
(* of a row in the topic is paid for by a fault.                           *)
(***************************************************************************)
EXTENDS OutboxProofs, FiniteSetTheorems

(* Row locks: what two open transactions cannot both have in hand *)

\* A row an application transaction supersedes is not in flight, and no open
\* claim has it.
SupLocked ==
    \A w \in Writers : \A i \in tx[w].sup :
        /\ status[i] # "Publishing"
        /\ \A r \in Relays : phase[r] = "claimed" => i \notin batch[r]

\* The same for the rows a claim transaction supersedes.
StaleLocked ==
    \A r \in Relays : \A i \in stale[r] :
        /\ status[i] # "Publishing"
        /\ \A q \in Relays \ {r} : phase[q] = "claimed" => i \notin batch[q]

\* Until it commits, a claim keeps its rows as it found them: waiting, or in
\* flight under a lease that has run out.
ClaimLocked ==
    \A r \in Relays : phase[r] = "claimed" => \A i \in batch[r] :
        /\ status[i] = "Pending" \/ (status[i] = "Publishing" /\ expired[i])
        /\ \A q \in Relays \ {r} : phase[q] = "claimed" => i \notin batch[q]

\* A row in flight that a claim transaction takes for ripe has an expired lease.
RipeExpired ==
    \A r \in Relays : \A i \in ripe[r] : status[i] = "Publishing" => expired[i]

\* Uncommitted rows are in nobody's table but their transaction's.
Fresh ==
    \A w \in Writers : \A i \in tx[w].ins \cup tx[w].dead \cup tx[w].audit :
        /\ status[i] = "Absent"
        /\ \A v \in Writers \ {w} : i \notin tx[v].ins \cup tx[v].dead \cup tx[v].audit

\* What the topic carries was committed.
LoggedExists == \A i \in Logged : status[i] # "Absent"

Locks == /\ SupLocked /\ StaleLocked /\ ClaimLocked
         /\ RipeExpired /\ Fresh /\ LoggedExists

\* Nobody has a lock at first.
LEMMA LocksInit == Init => Locks
<1>. SUFFICES ASSUME Init PROVE Locks
  BY Zenon
<1>1. \A w \in Writers : tx[w] = NoTx
  BY Zenon DEF Init
<1>2. SupLocked /\ Fresh
  BY <1>1 DEF SupLocked, Fresh, NoTx
<1>3. StaleLocked /\ ClaimLocked /\ RipeExpired
  BY Zenon DEF Init, StaleLocked, ClaimLocked, RipeExpired
<1>4. LoggedExists
  BY DEF Init, LoggedExists, Logged
<1>. QED  BY <1>2, <1>3, <1>4, Zenon DEF Locks

\* A transaction that opens or is dropped with nothing written locks no row.
LEMMA LocksOpen ==
    ASSUME TypeOK, Locks, NEW w \in Writers, NEW t \in Txs, tx' = [tx EXCEPT ![w] = t],
           UNCHANGED <<status, expired, phase, ripe, stale, batch, log>>,
           t.sup = {}, t.ins = {}, t.dead = {}, t.audit = {}
    PROVE  Locks'
<1>0. \A v \in Writers : tx'[v] = IF v = w THEN t ELSE tx[v]
  BY Zenon DEF TypeOK
<1>1. SupLocked'
  BY <1>0, Zenon DEF Locks, SupLocked
<1>2. Fresh'
  BY <1>0 DEF Locks, Fresh
<1>3. StaleLocked' /\ ClaimLocked' /\ RipeExpired' /\ LoggedExists'
  BY Zenon DEF Locks, StaleLocked, ClaimLocked, RipeExpired, LoggedExists, Logged
<1>. QED  BY <1>1, <1>2, <1>3, Zenon DEF Locks

\* An accepted enqueue waits for claims on the rows it supersedes, and its own
\* row is new.
LEMMA LocksInsert ==
    ASSUME OrderInv, Locks, NEW w \in Writers, NEW e \in Entities, NEW state \in States,
           InsertPending(w, e, state)
    PROVE  Locks'
<1>. USE MaxRowsAssumption
<1>t. tx \in [Writers -> Txs] /\ TypeOK
  BY Zenon DEF OrderInv, TypeInv, TypeOK
<1>n. nextOrder \in Ids
  BY Zenon DEF InsertPending
<1>u. UNCHANGED <<status, expired, phase, ripe, stale, batch, log>>
  BY Zenon DEF InsertPending, relayVars
<1>0. \A v \in Writers : tx'[v] = IF v = w THEN AfterInsert(w, e) ELSE tx[v]
  BY <1>t, Zenon DEF InsertPending
<1>f. /\ AfterInsert(w, e).sup = tx[w].sup \cup Predecessors(w, e)
      /\ AfterInsert(w, e).dead = tx[w].dead \cup {i \in tx[w].ins : entityOf[i] = e}
      /\ AfterInsert(w, e).ins = {i \in tx[w].ins : entityOf[i] # e} \cup {nextOrder}
      /\ AfterInsert(w, e).audit = tx[w].audit
  BY <1>t, Zenon DEF AfterInsert, Txs
<1>1. SupLocked'
  <2>1. \A i \in Predecessors(w, e) : status[i] = "Pending" /\ ~LockedByClaim(Nobody, i)
    BY Zenon DEF InsertPending
  <2>2. \A i \in Predecessors(w, e) : \A r \in Relays : phase[r] = "claimed" => i \notin batch[r]
    BY <2>1, NobodyAssumption, Zenon DEF LockedByClaim
  <2>. QED  BY <2>1, <2>2, <1>0, <1>f, <1>u, Zenon DEF Locks, SupLocked
<1>2. Fresh'
  <2>1. status[nextOrder] = "Absent"
    BY <1>n, <1>t DEF OrderInv, Core, Allocated, Ids
  <2>2. \A v \in Writers : nextOrder \notin tx[v].ins \cup tx[v].dead \cup tx[v].audit
    BY <1>n DEF OrderInv, Core, Allocated, Ids
  <2>3. \A v \in Writers : tx'[v].ins \cup tx'[v].dead \cup tx'[v].audit
                           = IF v = w THEN (tx[w].ins \cup tx[w].dead \cup tx[w].audit)
                                              \cup {nextOrder}
                             ELSE tx[v].ins \cup tx[v].dead \cup tx[v].audit
    BY <1>0, <1>f, Zenon
  <2>. QED  BY <2>1, <2>2, <2>3, <1>u DEF Locks, Fresh
<1>3. StaleLocked' /\ ClaimLocked' /\ RipeExpired' /\ LoggedExists'
  BY <1>u, Zenon DEF Locks, StaleLocked, ClaimLocked, RipeExpired, LoggedExists, Logged
<1>. QED  BY <1>1, <1>2, <1>3, Zenon DEF Locks

\* An audit row is new as well.
LEMMA LocksReject ==
    ASSUME OrderInv, Locks, NEW w \in Writers, NEW e \in Entities, EnqueueRejected(w, e)
    PROVE  Locks'
<1>. USE MaxRowsAssumption
<1>t. tx \in [Writers -> Txs] /\ TypeOK
  BY Zenon DEF OrderInv, TypeInv, TypeOK
<1>n. nextOrder \in Ids
  BY Zenon DEF EnqueueRejected
<1>u. UNCHANGED <<status, expired, phase, ripe, stale, batch, log>>
  BY Zenon DEF EnqueueRejected, relayVars
<1>f. \A v \in Writers : /\ tx'[v].sup = tx[v].sup /\ tx'[v].dead = tx[v].dead
                         /\ tx'[v].ins = tx[v].ins
                         /\ tx'[v].audit = IF v = w THEN tx[v].audit \cup {nextOrder}
                                           ELSE tx[v].audit
  <2>1. tx' = [tx EXCEPT ![w].audit = @ \cup {nextOrder}]
    BY Zenon DEF EnqueueRejected
  <2>2. \A v \in Writers : v # w => tx'[v] = tx[v]
    BY <2>1, <1>t, Zenon
  <2>3. tx[w] \in Txs /\ tx'[w] = [tx[w] EXCEPT !.audit = @ \cup {nextOrder}]
    BY <2>1, <1>t, Zenon
  <2>4. /\ tx'[w].sup = tx[w].sup /\ tx'[w].dead = tx[w].dead /\ tx'[w].ins = tx[w].ins
        /\ tx'[w].audit = tx[w].audit \cup {nextOrder}
    BY <2>3, Zenon DEF Txs
  <2>. QED  BY <2>2, <2>4, Zenon
<1>1. SupLocked'
  BY <1>f, <1>u, Zenon DEF Locks, SupLocked
<1>2. Fresh'
  <2>1. status[nextOrder] = "Absent"
    BY <1>n, <1>t DEF OrderInv, Core, Allocated, Ids
  <2>2. \A v \in Writers : nextOrder \notin tx[v].ins \cup tx[v].dead \cup tx[v].audit
    BY <1>n DEF OrderInv, Core, Allocated, Ids
  <2>3. \A v \in Writers : tx'[v].ins \cup tx'[v].dead \cup tx'[v].audit
                           = IF v = w THEN (tx[w].ins \cup tx[w].dead \cup tx[w].audit)
                                              \cup {nextOrder}
                             ELSE tx[v].ins \cup tx[v].dead \cup tx[v].audit
    BY <1>f, Zenon
  <2>. QED  BY <2>1, <2>2, <2>3, <1>u DEF Locks, Fresh
<1>3. StaleLocked' /\ ClaimLocked' /\ RipeExpired' /\ LoggedExists'
  BY <1>u, Zenon DEF Locks, StaleLocked, ClaimLocked, RipeExpired, LoggedExists, Logged
<1>. QED  BY <1>1, <1>2, <1>3, Zenon DEF Locks

\* A commit changes only rows of its own and rows it had locked.
LEMMA LocksCommit ==
    ASSUME OrderInv, Locks, NEW w \in Writers, Commit(w)
    PROVE  Locks'
<1>t. tx \in [Writers -> Txs] /\ TypeOK
  BY Zenon DEF OrderInv, TypeInv, TypeOK
<1>u. UNCHANGED <<expired, phase, stale, batch, log>>
  BY Zenon DEF Commit
<1>b. \A r \in Relays : stale[r] \in SUBSET Ids /\ batch[r] \in SUBSET Ids
                        /\ ripe[r] \in SUBSET Ids
  BY <1>t, Zenon DEF TypeOK
<1>x. \A v \in Writers : tx[v].sup \cup tx[v].ins \cup tx[v].dead \cup tx[v].audit \subseteq Ids
  BY <1>t, Zenon DEF Txs
<1>0. \A v \in Writers : tx'[v] = IF v = w THEN NoTx ELSE tx[v]
  BY <1>t, Zenon DEF Commit
<1>n. NoTx.sup = {} /\ NoTx.ins = {} /\ NoTx.dead = {} /\ NoTx.audit = {}
  BY Zenon DEF NoTx
<1>s. \A i \in Ids : status'[i] = IF i \in tx[w].ins THEN "Pending"
                                  ELSE IF i \in tx[w].sup \cup tx[w].dead THEN "Superseded"
                                  ELSE IF i \in tx[w].audit THEN "Failed"
                                  ELSE status[i]
  BY Zenon DEF Commit
<1>p. \A i \in Ids : status'[i] = "Publishing" => status[i] = "Publishing"
  BY <1>s, Zenon
<1>1. SupLocked'
  BY <1>0, <1>n, <1>p, <1>u, <1>x, Zenon DEF Locks, SupLocked
<1>2. StaleLocked'
  BY <1>p, <1>u, <1>b, Zenon DEF Locks, StaleLocked
<1>3. ClaimLocked'
  <2>1. ASSUME NEW r \in Relays, phase[r] = "claimed", NEW i \in batch[r]
        PROVE  status'[i] = "Pending" \/ (status'[i] = "Publishing" /\ expired[i])
    <3>1. i \in Ids /\ (status[i] = "Pending" \/ (status[i] = "Publishing" /\ expired[i]))
      BY <2>1, <1>b, Zenon DEF Locks, ClaimLocked
    <3>2. i \notin tx[w].sup
      BY <2>1, Zenon DEF Locks, SupLocked
    <3>3. i \notin tx[w].dead \cup tx[w].audit
      BY <3>1, Zenon DEF Locks, Fresh
    <3>. QED  BY <3>1, <3>2, <3>3, <1>s, Zenon
  <2>. QED  BY <2>1, <1>u, Zenon DEF Locks, ClaimLocked
<1>4. RipeExpired'
  <2>1. \A r \in Relays : ripe'[r] \subseteq ripe[r] \cup tx[w].ins
    BY Zenon DEF Commit
  <2>2. \A i \in tx[w].ins : status'[i] = "Pending"
    BY <1>s, <1>x, Zenon
  <2>. QED  BY <2>1, <2>2, <1>p, <1>u, <1>b, Zenon DEF Locks, RipeExpired
<1>5. Fresh'
  <2>. SUFFICES ASSUME NEW v \in Writers, v # w,
                       NEW i \in tx[v].ins \cup tx[v].dead \cup tx[v].audit
                PROVE  status'[i] = "Absent"
    BY <1>0, <1>n, Zenon DEF Locks, Fresh
  <2>1. i \in Ids /\ status[i] = "Absent"
        /\ i \notin tx[w].ins \cup tx[w].dead \cup tx[w].audit
    BY <1>x, Zenon DEF Locks, Fresh
  <2>2. i \notin tx[w].sup
    BY <2>1, Zenon DEF OrderInv, Order, Supersedes, Accepted
  <2>. QED  BY <2>1, <2>2, <1>s, Zenon
<1>6. LoggedExists'
  <2>1. Logged' = Logged /\ Logged \subseteq Ids
    BY <1>u, <1>t DEF Logged, TypeOK
  <2>. QED  BY <2>1, <1>s, Zenon DEF Locks, LoggedExists
<1>. QED  BY <1>1, <1>2, <1>3, <1>4, <1>5, <1>6, Zenon DEF Locks

\* Every step of an application connection respects the locks.
LEMMA LocksWriter ==
    ASSUME OrderInv, Locks, NEW w \in Writers, WriterNext(w)
    PROVE  Locks'
<1>. USE MaxRowsAssumption
<1>t. tx \in [Writers -> Txs] /\ TypeOK /\ tx[w] \in Txs
  BY Zenon DEF OrderInv, TypeInv, TypeOK
<1>1. ASSUME NEW iso \in Isolation, Begin(w, iso) PROVE Locks'
  <2>. DEFINE t == [NoTx EXCEPT !.mode = iso,
                                !.snap = IF iso = "fixed" THEN Pending ELSE {}]
  <2>1. t \in Txs
    <3>1. iso \in {"none", "committed", "fixed"} /\ Pending \in SUBSET Ids
      BY IsolationAssumption, Zenon DEF Pending
    <3>2. (IF iso = "fixed" THEN Pending ELSE {}) \in SUBSET Ids
      BY <3>1, Zenon
    <3>3. \A x \in Txs : \A m \in {"none", "committed", "fixed"}, S \in SUBSET Ids :
             [x EXCEPT !.mode = m, !.snap = S] \in Txs
      BY Zenon DEF Txs
    <3>. QED  BY <3>1, <3>2, <3>3, NoTxType, Zenon
  <2>2. t.sup = {} /\ t.ins = {} /\ t.dead = {} /\ t.audit = {}
    BY Zenon DEF NoTx
  <2>3. /\ tx' = [tx EXCEPT ![w] = t]
        /\ UNCHANGED <<status, expired, phase, ripe, stale, batch, log>>
    BY <1>1, Zenon DEF Begin, rowVars, relayVars
  <2>. HIDE DEF t
  <2>. QED  BY <2>1, <2>2, <2>3, <1>t, LocksOpen, Zenon
<1>2. ASSUME NEW e \in Entities, Enqueue(w, e) PROVE Locks'
  <2>1. nextOrder \in States /\ InsertPending(w, e, nextOrder)
    BY <1>2 DEF Enqueue, InsertPending, Ids, States
  <2>. QED  BY <2>1, LocksInsert, Zenon
<1>3. ASSUME NEW e \in Entities, EnqueueRejected(w, e) PROVE Locks'
  BY <1>3, LocksReject, Zenon
<1>4. ASSUME NEW e \in Entities, ResyncLoad(w, e) PROVE Locks'
  <2>. DEFINE t == [NoTx EXCEPT !.mode = "committed", !.locks = {e},
                                !.load = domain[e]]
  <2>1. t \in Txs
    <3>1. \A x \in Txs : \A d \in States :
             [x EXCEPT !.mode = "committed", !.locks = {e}, !.load = d] \in Txs
      BY Zenon DEF Txs
    <3>2. domain[e] \in States
      BY <1>t, Zenon DEF TypeOK
    <3>. QED  BY <3>1, <3>2, NoTxType, Zenon
  <2>2. t.sup = {} /\ t.ins = {} /\ t.dead = {} /\ t.audit = {}
    BY Zenon DEF NoTx
  <2>3. /\ tx' = [tx EXCEPT ![w] = t]
        /\ UNCHANGED <<status, expired, phase, ripe, stale, batch, log>>
    BY <1>4, Zenon DEF ResyncLoad, rowVars, relayVars
  <2>. HIDE DEF t
  <2>. QED  BY <2>1, <2>2, <2>3, <1>t, LocksOpen, Zenon
<1>5. ASSUME NEW e \in Entities, ResyncEnqueue(w, e) PROVE Locks'
  <2>1. tx[w].load \in States /\ InsertPending(w, e, tx[w].load)
    BY <1>5, <1>t, Zenon DEF ResyncEnqueue, Txs
  <2>. QED  BY <2>1, LocksInsert, Zenon
<1>6. CASE Commit(w)
  BY <1>6, LocksCommit, Zenon
<1>7. CASE Rollback(w)
  <2>1. NoTx.sup = {} /\ NoTx.ins = {} /\ NoTx.dead = {} /\ NoTx.audit = {}
    BY Zenon DEF NoTx
  <2>2. /\ tx' = [tx EXCEPT ![w] = NoTx]
        /\ UNCHANGED <<status, expired, phase, ripe, stale, batch, log>>
    BY <1>7, Zenon DEF Rollback, rowVars
  <2>. QED  BY <2>1, <2>2, <1>t, NoTxType, LocksOpen, Zenon
<1>. QED  BY <1>1, <1>2, <1>3, <1>4, <1>5, <1>6, <1>7, Zenon DEF WriterNext

\* Every step of a relay respects the locks: SKIP LOCKED, the waits of the two
\* supersede statements, and a mark that waits for a claim on its row.
LEMMA LocksRelay ==
    ASSUME OrderInv, Locks, NEW r \in Relays, RelayStep(r) \/ Abandon(r)
    PROVE  Locks'
<1>t. TypeOK /\ RowInHand /\ Committed
  BY Zenon DEF OrderInv, TypeInv
<1>u. tx' = tx
  BY Zenon DEF RelayStep, Collapse, ClaimRead, ClaimWrite, ClaimCommit, Publish, PublishRow,
         Mark, Abandon
<1>b. \A q \in Relays : stale[q] \in SUBSET Ids /\ batch[q] \in SUBSET Ids
                        /\ ripe[q] \in SUBSET Ids
  BY <1>t, Zenon DEF TypeOK
<1>x. \A v \in Writers : tx[v].sup \cup tx[v].ins \cup tx[v].dead \cup tx[v].audit \subseteq Ids
  BY <1>t, Zenon DEF TypeOK, Txs
<1>g. Logged \subseteq Ids
  BY <1>t DEF Logged, TypeOK
<1>1. CASE Collapse(r)
  <2>. DEFINE o == Overtaken(Pending, FirstN(Claimable(r, RipeNow), BatchLimit))
  <2>1. /\ UNCHANGED <<status, expired, batch, log>>
        /\ \A q \in Relays : /\ phase'[q] = IF q = r THEN "collapsed" ELSE phase[q]
                             /\ stale'[q] = IF q = r THEN o ELSE stale[q]
                             /\ ripe'[q] = IF q = r THEN RipeNow ELSE ripe[q]
    <3>1. /\ UNCHANGED <<status, expired, batch, log>>
          /\ phase' = [phase EXCEPT ![r] = "collapsed"] /\ stale' = [stale EXCEPT ![r] = o]
          /\ ripe' = [ripe EXCEPT ![r] = RipeNow]
      BY <1>1, Zenon DEF Collapse, rowVars
    <3>. HIDE DEF o
    <3>. QED  BY <3>1, <1>t, Zenon DEF TypeOK
  <2>2. \A j \in o : status[j] = "Pending" /\ ~LockedByClaim(r, j)
    BY <1>1, Zenon DEF Collapse, Locked, Overtaken, Pending
  <2>. HIDE DEF o
  <2>3. SupLocked' /\ ClaimLocked' /\ Fresh' /\ LoggedExists'
    BY <2>1, <1>u DEF Locks, SupLocked, ClaimLocked, Fresh, LoggedExists, Logged
  <2>4. StaleLocked'
    BY <2>1, <2>2, Zenon DEF Locks, StaleLocked, LockedByClaim
  <2>5. RipeExpired'
    BY <2>1, Zenon DEF Locks, RipeExpired, RipeNow, Pending, Publishing
  <2>. QED  BY <2>3, <2>4, <2>5, Zenon DEF Locks
<1>2. CASE ClaimRead(r)
  <2>1. /\ UNCHANGED <<status, expired, batch, stale, ripe, log>>
        /\ \A q \in Relays : phase'[q] = IF q = r THEN "read" ELSE phase[q]
    BY <1>2, <1>t, Zenon DEF ClaimRead, rowVars, TypeOK
  <2>2. SupLocked' /\ ClaimLocked' /\ Fresh' /\ LoggedExists'
    BY <2>1, <1>u DEF Locks, SupLocked, ClaimLocked, Fresh, LoggedExists, Logged
  <2>3. StaleLocked' /\ RipeExpired'
    BY <2>1, Zenon DEF Locks, StaleLocked, RipeExpired
  <2>. QED  BY <2>2, <2>3, Zenon DEF Locks
<1>3. CASE ClaimWrite(r)
  <2>1. /\ UNCHANGED <<status, expired, log>>
        /\ \A q \in Relays :
              /\ phase'[q] = IF q = r THEN "claimed" ELSE phase[q]
              /\ batch'[q] = IF q = r THEN Picks(r) ELSE batch[q]
              /\ stale'[q] = IF q = r THEN stale[r] \cup OvertakenByPicks(r) ELSE stale[q]
              /\ ripe'[q] = IF q = r THEN {} ELSE ripe[q]
    BY <1>3, <1>t, Zenon DEF ClaimWrite, rowVars, TypeOK
  <2>2. \A i \in Picks(r) : /\ i \in ripe[r] /\ status[i] \in {"Pending", "Publishing"}
                            /\ ~LockedByTx(i) /\ ~LockedByClaim(r, i)
    BY FirstNSubset, Zenon DEF Picks, Locked
  <2>3. \A j \in OvertakenByPicks(r) : status[j] = "Pending" /\ ~LockedByClaim(r, j)
    BY <1>3, Zenon DEF ClaimWrite, Locked, OvertakenByPicks, Overtaken, Pending
  <2>4. SupLocked'
    BY <2>1, <2>2, <1>u DEF Locks, SupLocked, LockedByTx
  <2>5. StaleLocked'
    BY <2>1, <2>2, <2>3 DEF Locks, StaleLocked, LockedByClaim
  <2>6. ClaimLocked'
    <3>0. \A i \in Picks(r) : status[i] = "Publishing" => expired[i]
      <4>1. \A i \in ripe[r] : status[i] = "Publishing" => expired[i]
        BY Zenon DEF Locks, RipeExpired
      <4>. QED  BY <4>1, <2>2, Zenon
    <3>1. \A i \in Picks(r) : status[i] = "Pending" \/ (status[i] = "Publishing" /\ expired[i])
      BY <3>0, <2>2, Zenon
    <3>2. \A i \in Picks(r) : \A q \in Relays \ {r} : phase[q] = "claimed" => i \notin batch[q]
      BY <2>2, Zenon DEF LockedByClaim
    <3>. QED  BY <3>1, <3>2, <2>1 DEF Locks, ClaimLocked
  <2>7. RipeExpired' /\ Fresh' /\ LoggedExists'
    BY <2>1, <1>u DEF Locks, RipeExpired, Fresh, LoggedExists, Logged
  <2>. QED  BY <2>4, <2>5, <2>6, <2>7, Zenon DEF Locks
<1>4. CASE ClaimCommit(r)
  <2>1. /\ phase[r] = "claimed" /\ UNCHANGED <<batch, log>>
        /\ \A q \in Relays : /\ q # r => phase'[q] = phase[q] /\ stale'[q] = stale[q]
                             /\ phase'[r] # "claimed" /\ stale'[r] = {}
                             /\ ripe'[q] = ripe[q] \ batch[r]
        /\ \A i \in Ids : status'[i] = IF i \in batch[r] THEN "Publishing"
                                       ELSE IF i \in stale[r] THEN "Superseded"
                                       ELSE status[i]
        /\ \A i \in Ids : expired'[i] <=> expired[i] /\ i \notin batch[r]
    <3>1. /\ phase[r] = "claimed" /\ UNCHANGED <<batch, log>>
          /\ phase' = [phase EXCEPT ![r] = IF batch[r] = {} THEN "idle" ELSE "sending"]
          /\ stale' = [stale EXCEPT ![r] = {}]
          /\ ripe' = [q \in Relays |-> ripe[q] \ batch[r]]
      BY <1>4, Zenon DEF ClaimCommit, Defer
    <3>2. \A q \in Relays : /\ q # r => phase'[q] = phase[q] /\ stale'[q] = stale[q]
                            /\ phase'[r] # "claimed" /\ stale'[r] = {}
                            /\ ripe'[q] = ripe[q] \ batch[r]
      BY <3>1, <1>t, Zenon DEF TypeOK
    <3>3. \A i \in Ids : status'[i] = IF i \in batch[r] THEN "Publishing"
                                      ELSE IF i \in stale[r] THEN "Superseded"
                                      ELSE status[i]
      BY <1>4, Zenon DEF ClaimCommit
    <3>4. \A i \in Ids : expired'[i] <=> expired[i] /\ i \notin batch[r]
      BY <1>4, Zenon DEF ClaimCommit
    <3>. QED  BY <3>1, <3>2, <3>3, <3>4, Zenon
  <2>2. SupLocked'
    BY <2>1, <1>u, <1>x DEF Locks, SupLocked
  <2>3. StaleLocked'
    BY <2>1, <1>b DEF Locks, StaleLocked
  <2>4. ClaimLocked'
    <3>1. ASSUME NEW q \in Relays, q # r, phase[q] = "claimed", NEW i \in batch[q]
          PROVE  i \in Ids /\ i \notin batch[r] /\ i \notin stale[r]
      BY <3>1, <2>1, <1>b, Zenon DEF Locks, ClaimLocked, StaleLocked
    <3>. QED  BY <3>1, <2>1 DEF Locks, ClaimLocked
  <2>5. RipeExpired'
    BY <2>1, <1>b DEF Locks, RipeExpired
  <2>6. Fresh'
    BY <2>1, <1>u, <1>t, <1>x DEF Locks, Fresh, Committed
  <2>7. LoggedExists'
    BY <2>1, <1>g DEF Locks, LoggedExists, Logged
  <2>. QED  BY <2>2, <2>3, <2>4, <2>5, <2>6, <2>7, Zenon DEF Locks
<1>5. CASE Publish(r)
  <2>. DEFINE o == Oldest(batch[r])
  <2>1. /\ UNCHANGED <<status, expired, batch, stale, ripe>>
        /\ \A q \in Relays : phase'[q] = IF q = r THEN "marking" ELSE phase[q]
        /\ phase[r] = "sending"
        /\ log' = Append(log, o) \/ log' = log
    BY <1>5, <1>t, Zenon DEF Publish, PublishRow, rowVars, TypeOK
  <2>2. o \in batch[r] /\ o \in Ids
    BY <2>1, <1>t, <1>b, OldestIsLeast, Zenon DEF RowInHand
  <2>. HIDE DEF o
  <2>3. SupLocked' /\ ClaimLocked' /\ Fresh'
    BY <2>1, <1>u DEF Locks, SupLocked, ClaimLocked, Fresh
  <2>4. StaleLocked' /\ RipeExpired'
    BY <2>1, Zenon DEF Locks, StaleLocked, RipeExpired
  <2>5. LoggedExists'
    <3>1. Logged' \subseteq Logged \cup {o}
      BY <2>1, <2>2, <1>t, LoggedAppend, Zenon DEF Logged
    <3>. QED  BY <3>1, <2>1, <2>2, <1>t, Zenon DEF Locks, LoggedExists, Committed
  <2>. QED  BY <2>3, <2>4, <2>5, Zenon DEF Locks
<1>6. CASE Mark(r)
  <2>. DEFINE o == Oldest(batch[r])
  <2>0. /\ phase[r] = "marking" /\ UNCHANGED <<stale, log>>
        /\ \A q \in Relays : /\ q # r => phase'[q] = phase[q] /\ batch'[q] = batch[q]
                             /\ phase'[r] # "claimed"
    BY <1>6, <1>t, Zenon DEF Mark, TypeOK
  <2>1. \/ UNCHANGED <<status, expired, ripe>>
        \/ /\ Holds(r, o) /\ ~LockedByClaim(r, o)
           /\ status' = [status EXCEPT ![o] = MarkedAs(outcome[r] = "ok")]
           /\ expired' = [expired EXCEPT ![o] = FALSE]
           /\ ripe' = [q \in Relays |-> ripe[q] \ {o}]
    BY <1>6, Zenon DEF Mark, Defer
  <2>2. CASE UNCHANGED <<status, expired, ripe>>
    <3>1. SupLocked' /\ ClaimLocked' /\ Fresh' /\ LoggedExists'
      BY <2>0, <2>2, <1>u DEF Locks, SupLocked, ClaimLocked, Fresh, LoggedExists, Logged
    <3>2. StaleLocked' /\ RipeExpired'
      BY <2>0, <2>2, Zenon DEF Locks, StaleLocked, RipeExpired
    <3>. QED  BY <3>1, <3>2, Zenon DEF Locks
  <2>3. CASE /\ Holds(r, o) /\ ~LockedByClaim(r, o)
             /\ status' = [status EXCEPT ![o] = MarkedAs(outcome[r] = "ok")]
             /\ expired' = [expired EXCEPT ![o] = FALSE]
             /\ ripe' = [q \in Relays |-> ripe[q] \ {o}]
    <3>. HIDE DEF o
    <3>1. /\ \A i \in Ids \ {o} : status'[i] = status[i] /\ expired'[i] = expired[i]
          /\ o \in Ids => status'[o] \in {"Published", "Pending"}
          /\ status[o] = "Publishing"
      BY <2>3, <1>t, Zenon DEF MarkedAs, TypeOK, Holds
    <3>2. SupLocked'
      BY <3>1, <2>0, <1>u, <1>x DEF Locks, SupLocked
    <3>3. StaleLocked'
      BY <3>1, <2>0, <1>b DEF Locks, StaleLocked
    <3>4. ClaimLocked'
      <4>1. \A q \in Relays \ {r} : phase[q] = "claimed" => o \notin batch[q]
        BY <2>3, Zenon DEF LockedByClaim
      <4>. QED  BY <4>1, <3>1, <2>0, <1>b DEF Locks, ClaimLocked
    <3>5. RipeExpired'
      BY <2>3, <3>1, <1>b, Zenon DEF Locks, RipeExpired
    <3>6. Fresh'
      BY <3>1, <1>u, <1>x DEF Locks, Fresh
    <3>7. LoggedExists'
      BY <3>1, <2>0, <1>g DEF Locks, LoggedExists, Logged
    <3>. QED  BY <3>2, <3>3, <3>4, <3>5, <3>6, <3>7, Zenon DEF Locks
  <2>. QED  BY <2>1, <2>2, <2>3, Zenon
<1>7. CASE Abandon(r)
  <2>1. /\ UNCHANGED <<status, expired, log>>
        /\ \A q \in Relays : /\ q # r => phase'[q] = phase[q] /\ batch'[q] = batch[q]
                             /\ phase'[r] = "idle"
                             /\ stale'[q] \subseteq stale[q] /\ ripe'[q] \subseteq ripe[q]
    BY <1>7, <1>t, Zenon DEF Abandon, rowVars, TypeOK
  <2>2. SupLocked' /\ ClaimLocked' /\ Fresh' /\ LoggedExists'
    BY <2>1, <1>u DEF Locks, SupLocked, ClaimLocked, Fresh, LoggedExists, Logged
  <2>3. StaleLocked' /\ RipeExpired'
    BY <2>1, Zenon DEF Locks, StaleLocked, RipeExpired
  <2>. QED  BY <2>2, <2>3, Zenon DEF Locks
<1>. QED  BY <1>1, <1>2, <1>3, <1>4, <1>5, <1>6, <1>7, Zenon DEF RelayStep

\* Neither the clock nor the purger touches a locked row.
LEMMA LocksTime ==
    ASSUME OrderInv, Locks,
           \/ \E i \in Ids : LeaseExpire(i) \/ BecomeDue(i)
           \/ \E S \in SUBSET Ids : Purge(S)
    PROVE  Locks'
<1>t. TypeOK
  BY Zenon DEF OrderInv, TypeInv
<1>u. UNCHANGED <<tx, phase, stale, batch, ripe, log>>
  BY Zenon DEF LeaseExpire, BecomeDue, Purge, relayVars
<1>1. \A i \in Ids : /\ expired[i] => expired'[i]
                     /\ \/ status'[i] = status[i]
                        \/ status[i] \in {"Published", "Superseded", "Failed"}
                           /\ status'[i] = "Purged"
  <2>1. ASSUME NEW k \in Ids, LeaseExpire(k) \/ BecomeDue(k)
        PROVE  status' = status /\ \A i \in Ids : expired[i] => expired'[i]
    BY <2>1, <1>t, Zenon DEF LeaseExpire, BecomeDue, TypeOK
  <2>2. ASSUME NEW S \in SUBSET Ids, Purge(S)
        PROVE  /\ expired' = expired
               /\ \A i \in Ids : \/ status'[i] = status[i]
                                 \/ status[i] \in {"Published", "Superseded", "Failed"}
                                    /\ status'[i] = "Purged"
    BY <2>2, ReclaimedAssumption, Zenon DEF Purge, Purgeable
  <2>. QED  BY <2>1, <2>2, Zenon
<1>b. \A q \in Relays : stale[q] \in SUBSET Ids /\ batch[q] \in SUBSET Ids
                        /\ ripe[q] \in SUBSET Ids
  BY <1>t, Zenon DEF TypeOK
<1>x. \A v \in Writers : tx[v].sup \cup tx[v].ins \cup tx[v].dead \cup tx[v].audit \subseteq Ids
  BY <1>t, Zenon DEF TypeOK, Txs
<1>g. Logged \subseteq Ids
  BY <1>t DEF Logged, TypeOK
<1>2. SupLocked' /\ Fresh'
  BY <1>1, <1>u, <1>x DEF Locks, SupLocked, Fresh
<1>3. StaleLocked' /\ RipeExpired'
  BY <1>1, <1>u, <1>b, Zenon DEF Locks, StaleLocked, RipeExpired
<1>4. ClaimLocked'
  BY <1>1, <1>u, <1>b, Zenon DEF Locks, ClaimLocked
<1>5. LoggedExists'
  BY <1>1, <1>u, <1>g, Zenon DEF Locks, LoggedExists, Logged
<1>. QED  BY <1>2, <1>3, <1>4, <1>5, Zenon DEF Locks

\* The locks hold throughout.
LEMMA LocksStep == OrderInv /\ Locks /\ [Next]_vars => Locks'
<1>. SUFFICES ASSUME OrderInv, Locks, [Next]_vars PROVE Locks'
  BY Zenon
<1>1. CASE UNCHANGED vars
  <2>1. UNCHANGED <<status, expired, tx, phase, stale, batch, ripe, log>>
    BY <1>1, Zenon DEF vars, rowVars, relayVars
  <2>2. SupLocked' /\ Fresh' /\ StaleLocked'
    BY <2>1, Zenon DEF Locks, SupLocked, Fresh, StaleLocked
  <2>3. ClaimLocked' /\ RipeExpired' /\ LoggedExists'
    BY <2>1, Zenon DEF Locks, ClaimLocked, RipeExpired, LoggedExists, Logged
  <2>. QED  BY <2>2, <2>3, Zenon DEF Locks
<1>2. CASE Next
  BY <1>2, LocksWriter, LocksRelay, LocksTime, Zenon DEF Next
<1>. QED  BY <1>1, <1>2, Zenon

-----------------------------------------------------------------------------
(* Every copy in the topic beyond the first is paid for by a fault *)

\* The relay that holds row i's claim has its acknowledgement and is about to
\* mark it.
Acked(i) ==
    \E r \in Relays : /\ claim[i] = r /\ phase[r] = "marking" /\ outcome[r] = "ok"
                      /\ i = Oldest(batch[r])

\* Row i is still to be sent on behalf of the table: it waits, or whoever holds
\* its claim, or takes it over once the lease is gone, will send it.
Owed(i) == \/ status[i] = "Pending"
           \/ status[i] = "Publishing" /\ (expired[i] \/ ~Acked(i))

\* Relay r has still to send row i although the claim is no longer safely its own.
Stray(r, i) == /\ phase[r] \in {"sending", "marking"} /\ i \in batch[r]
               /\ ~(phase[r] = "marking" /\ i = Oldest(batch[r]))
               /\ ~(Holds(r, i) /\ ~expired[i])

\* The sends still to come, each a row and the relay that strays with it, or
\* Nobody for the one the table owes.
Sends == {p \in Ids \X (Relays \cup {Nobody}) :
             IF p[2] = Nobody THEN Owed(p[1]) ELSE Stray(p[2], p[1])}

Rows(P) == {p[1] : p \in P}

\* Sends to come and copies made, less one for each row sent or to be sent, are
\* covered by the faults so far.
Paid == Cardinality(Sends) + Len(log) <= Cardinality(Logged \cup Rows(Sends)) + faults

\* Pairs name at most as many rows as there are pairs.
LEMMA RowsFewer ==
    ASSUME NEW P, IsFiniteSet(P)
    PROVE  IsFiniteSet(Rows(P)) /\ Cardinality(Rows(P)) <= Cardinality(P)
<1>. DEFINE f == [p \in P |-> p[1]]
<1>1. f \in Surjection(P, Rows(P))
  BY Zenon DEF Surjection, Rows
<1>. QED  BY <1>1, FS_Surjection, Zenon

\* A union is no larger than its parts, and as large when they are disjoint.
LEMMA UnionBound ==
    ASSUME NEW A, IsFiniteSet(A), NEW B, IsFiniteSet(B)
    PROVE  /\ IsFiniteSet(A \cup B)
           /\ Cardinality(A \cup B) <= Cardinality(A) + Cardinality(B)
           /\ A \cap B = {} => Cardinality(A \cup B) = Cardinality(A) + Cardinality(B)
<1>1. IsFiniteSet(A \cap B)
  BY FS_Intersection, Zenon
<1>2. /\ Cardinality(A \cap B) \in Nat /\ Cardinality(A) \in Nat /\ Cardinality(B) \in Nat
      /\ A \cap B = {} => Cardinality(A \cap B) = 0
  BY <1>1, FS_CardinalityType, FS_EmptySet, Zenon
<1>3. /\ IsFiniteSet(A \cup B)
      /\ Cardinality(A \cup B) = Cardinality(A) + Cardinality(B) - Cardinality(A \cap B)
  BY FS_Union, Zenon
<1>. QED  BY <1>2, <1>3

\* Dropping pairs costs no more rows than pairs.
LEMMA DropPairs ==
    ASSUME NEW P, IsFiniteSet(P), NEW Q \in SUBSET P, NEW L, IsFiniteSet(L)
    PROVE  Cardinality(Q) + Cardinality(L \cup Rows(P))
             <= Cardinality(P) + Cardinality(L \cup Rows(Q))
<1>. DEFINE D == P \ Q
            A == L \cup Rows(Q)
<1>1. IsFiniteSet(Q) /\ IsFiniteSet(D) /\ Cardinality(D) = Cardinality(P) - Cardinality(Q)
  <2>1. IsFiniteSet(Q) /\ P \cap Q = Q
    BY FS_Subset, Zenon
  <2>. QED  BY <2>1, FS_Difference, Zenon
<1>2. IsFiniteSet(A) /\ IsFiniteSet(Rows(D)) /\ Cardinality(Rows(D)) <= Cardinality(D)
  BY <1>1, RowsFewer, FS_Union, Zenon
<1>3. L \cup Rows(P) \subseteq A \cup Rows(D)
  BY Zenon DEF Rows
<1>. HIDE DEF D, A
<1>4. /\ IsFiniteSet(A \cup Rows(D))
      /\ Cardinality(A \cup Rows(D)) <= Cardinality(A) + Cardinality(Rows(D))
  BY <1>2, UnionBound, Zenon
<1>5. IsFiniteSet(L \cup Rows(P))
      /\ Cardinality(L \cup Rows(P)) <= Cardinality(A \cup Rows(D))
  BY <1>3, <1>4, FS_Subset, Zenon
<1>6. /\ Cardinality(P) \in Nat /\ Cardinality(Q) \in Nat /\ Cardinality(D) \in Nat
      /\ Cardinality(A) \in Nat /\ Cardinality(Rows(D)) \in Nat
      /\ Cardinality(L \cup Rows(P)) \in Nat /\ Cardinality(A \cup Rows(D)) \in Nat
  BY <1>1, <1>2, <1>4, <1>5, FS_CardinalityType, Zenon
<1>7. Cardinality(Q) + Cardinality(L \cup Rows(P)) <= Cardinality(P) + Cardinality(A)
  BY <1>1, <1>2, <1>4, <1>5, <1>6
<1>. QED  BY <1>7, Zenon DEF A

\* Pairs for new rows bring in a row each.
LEMMA AddPairs ==
    ASSUME NEW P, IsFiniteSet(P), NEW N, IsFiniteSet(N), NEW x, NEW L, IsFiniteSet(L),
           N \cap (L \cup Rows(P)) = {}
    PROVE  /\ IsFiniteSet(P \cup (N \X {x}))
           /\ Cardinality(P \cup (N \X {x})) + Cardinality(L \cup Rows(P))
                <= Cardinality(P) + Cardinality(L \cup Rows(P \cup (N \X {x})))
<1>. DEFINE X == N \X {x}
            A == L \cup Rows(P)
<1>1. IsFiniteSet(X) /\ Cardinality(X) = Cardinality(N) * 1
  <2>1. IsFiniteSet({x}) /\ Cardinality({x}) = 1
    BY FS_Singleton, Zenon
  <2>. QED  BY <2>1, FS_Product, Zenon
<1>2. IsFiniteSet(A)
  BY RowsFewer, FS_Union, Zenon
<1>3. L \cup Rows(P \cup X) = A \cup N
  <2>1. Rows(P \cup X) = Rows(P) \cup Rows(X)
    BY Zenon DEF Rows
  <2>2. Rows(X) \subseteq N
    BY Zenon DEF Rows
  <2>3. \A n \in N : <<n, x>> \in X /\ <<n, x>>[1] = n
    BY Zenon
  <2>4. N \subseteq Rows(X)
    BY <2>3, Zenon DEF Rows
  <2>. QED  BY <2>1, <2>2, <2>4, Zenon
<1>4. A \cap N = {}
  BY Zenon
<1>. HIDE DEF X, A
<1>5. IsFiniteSet(P \cup X) /\ Cardinality(P \cup X) <= Cardinality(P) + Cardinality(X)
  BY <1>1, UnionBound, Zenon
<1>6. Cardinality(A \cup N) = Cardinality(A) + Cardinality(N)
  BY <1>2, <1>4, UnionBound, Zenon
<1>7. /\ Cardinality(P) \in Nat /\ Cardinality(X) \in Nat /\ Cardinality(N) \in Nat
      /\ Cardinality(A) \in Nat /\ Cardinality(P \cup X) \in Nat
  BY <1>1, <1>2, <1>5, FS_CardinalityType, Zenon
<1>8. Cardinality(P \cup X) + Cardinality(A) <= Cardinality(P) + Cardinality(A \cup N)
  BY <1>1, <1>5, <1>6, <1>7
<1>. QED  BY <1>3, <1>5, <1>8, Zenon DEF X, A

\* The sends to come, the topic and the rows they name are finite.
AllFinite == /\ IsFiniteSet(Sends) /\ IsFiniteSet(Logged) /\ Len(log) \in Nat
             /\ IsFiniteSet(Logged \cup Rows(Sends))
             /\ Cardinality(Sends) \in Nat /\ Cardinality(Logged) \in Nat
             /\ Cardinality(Logged \cup Rows(Sends)) \in Nat

\* They are, by the types.
LEMMA SendsFinite == TypeOK => AllFinite
<1>. SUFFICES ASSUME TypeOK PROVE AllFinite
  BY Zenon
<1>. USE MaxRowsAssumption
<1>1. IsFiniteSet(Ids)
  BY FS_Interval DEF Ids
<1>2. IsFiniteSet(Ids \X (Relays \cup {Nobody}))
  BY <1>1, RelaysAssumption, FS_AddElement, FS_Product, Zenon
<1>3. IsFiniteSet(Sends)
  <2>1. Sends \in SUBSET (Ids \X (Relays \cup {Nobody}))
    BY Zenon DEF Sends
  <2>. QED  BY <2>1, <1>2, FS_Subset, Zenon
<1>4. Logged \in SUBSET Ids /\ Len(log) \in Nat
  BY DEF Logged, TypeOK
<1>5. IsFiniteSet(Logged)
  BY <1>1, <1>4, FS_Subset, Zenon
<1>6. IsFiniteSet(Logged \cup Rows(Sends))
  BY <1>3, <1>5, RowsFewer, FS_Union, Zenon
<1>. QED  BY <1>3, <1>4, <1>5, <1>6, FS_CardinalityType, Zenon DEF AllFinite

\* What is paid for covers the copies beyond the first.
LEMMA PaidCovers == TypeOK /\ faults \in Nat /\ Paid => DuplicatesNeedFaults
<1>. SUFFICES ASSUME TypeOK, faults \in Nat, Paid PROVE DuplicatesNeedFaults
  BY Zenon
<1>1. /\ IsFiniteSet(Sends) /\ IsFiniteSet(Logged) /\ Len(log) \in Nat
      /\ Cardinality(Sends) \in Nat /\ Cardinality(Logged) \in Nat
      /\ Cardinality(Logged \cup Rows(Sends)) \in Nat
  BY SendsFinite, Zenon DEF AllFinite
<1>2. /\ IsFiniteSet(Rows(Sends)) /\ Cardinality(Rows(Sends)) <= Cardinality(Sends)
      /\ Cardinality(Rows(Sends)) \in Nat
  BY <1>1, RowsFewer, FS_CardinalityType, Zenon
<1>3. Cardinality(Logged \cup Rows(Sends)) <= Cardinality(Logged) + Cardinality(Rows(Sends))
  BY <1>1, <1>2, UnionBound, Zenon
<1>. QED  BY <1>1, <1>2, <1>3 DEF Paid, DuplicatesNeedFaults

\* A step keeps the account if what it leaves to be sent is part of P and the
\* account balances for P.
LEMMA PaidBy ==
    ASSUME TypeOK', NEW P, IsFiniteSet(P), Sends' \in SUBSET P,
           NEW L \in SUBSET Logged',
           Cardinality(P) + Len(log') <= Cardinality(L \cup Rows(P)) + faults'
    PROVE  Paid'
<1>1. /\ IsFiniteSet(Logged') /\ Len(log') \in Nat /\ Cardinality(Sends') \in Nat
      /\ Cardinality(Logged' \cup Rows(Sends')) \in Nat
  <2>1. (TypeOK => AllFinite)'
    BY SendsFinite, PTL
  <2>. QED  BY <2>1, Zenon DEF AllFinite
<1>2. Cardinality(Sends') + Cardinality(Logged' \cup Rows(P))
         <= Cardinality(P) + Cardinality(Logged' \cup Rows(Sends'))
  BY <1>1, DropPairs, Zenon
<1>3. /\ IsFiniteSet(Logged' \cup Rows(P))
      /\ Cardinality(L \cup Rows(P)) <= Cardinality(Logged' \cup Rows(P))
      /\ IsFiniteSet(L \cup Rows(P))
  <2>1. IsFiniteSet(Logged' \cup Rows(P))
    BY <1>1, RowsFewer, FS_Union, Zenon
  <2>2. L \cup Rows(P) \in SUBSET (Logged' \cup Rows(P))
    BY Zenon
  <2>. QED  BY <2>1, <2>2, FS_Subset, Zenon
<1>4. /\ Cardinality(P) \in Nat /\ Cardinality(L \cup Rows(P)) \in Nat
      /\ Cardinality(Logged' \cup Rows(P)) \in Nat
  BY <1>3, FS_CardinalityType, Zenon
<1>5. faults' \in Nat
  BY MaxFaultsAssumption DEF TypeOK
<1>. QED  BY <1>1, <1>2, <1>3, <1>4, <1>5 DEF Paid

\* No send is added and none is made.
LEMMA PaidDrop ==
    ASSUME TypeOK, TypeOK', Paid, Sends' \in SUBSET Sends, UNCHANGED <<log, faults>>
    PROVE  Paid'
<1>1. IsFiniteSet(Sends) /\ Logged' = Logged
  BY SendsFinite, Zenon DEF AllFinite, Logged
<1>2. Cardinality(Sends) + Len(log') <= Cardinality(Logged \cup Rows(Sends)) + faults'
  BY Zenon DEF Paid
<1>. QED  BY <1>1, <1>2, PaidBy, Zenon

\* A fault may add one send.
LEMMA PaidFault ==
    ASSUME TypeOK, TypeOK', Paid, NEW x, Sends' \in SUBSET (Sends \cup {x}), log' = log,
           faults' = faults + 1
    PROVE  Paid'
<1>. DEFINE P == Sends \cup {x}
<1>1. /\ IsFiniteSet(Sends) /\ IsFiniteSet(Logged) /\ Len(log) \in Nat /\ Logged' = Logged
      /\ Cardinality(Sends) \in Nat /\ Cardinality(Logged \cup Rows(Sends)) \in Nat
  BY SendsFinite, Zenon DEF AllFinite, Logged
<1>2. /\ IsFiniteSet(P)
      /\ Cardinality(P) = IF x \in Sends THEN Cardinality(Sends) ELSE Cardinality(Sends) + 1
  BY <1>1, FS_AddElement, Zenon
<1>3. /\ IsFiniteSet(Logged \cup Rows(P))
      /\ Cardinality(Logged \cup Rows(Sends)) <= Cardinality(Logged \cup Rows(P))
  <2>1. IsFiniteSet(Logged \cup Rows(P))
    BY <1>1, <1>2, RowsFewer, FS_Union, Zenon
  <2>2. Logged \cup Rows(Sends) \in SUBSET (Logged \cup Rows(P))
    BY Zenon DEF Rows
  <2>. QED  BY <2>1, <2>2, FS_Subset, Zenon
<1>4. Cardinality(Logged \cup Rows(P)) \in Nat /\ faults \in Nat
  BY <1>3, FS_CardinalityType, MaxFaultsAssumption DEF TypeOK
<1>5. Cardinality(P) + Len(log') <= Cardinality(Logged \cup Rows(P)) + faults'
  BY <1>1, <1>2, <1>3, <1>4 DEF Paid
<1>. HIDE DEF P
<1>6. Sends' \in SUBSET P
  BY Zenon DEF P
<1>. QED  BY <1>1, <1>2, <1>5, <1>6, PaidBy, Zenon

\* A publish uses up its send.
LEMMA PaidSend ==
    ASSUME TypeOK, TypeOK', Paid, NEW x \in Sends, Sends' \in SUBSET (Sends \ {x}),
           log' = Append(log, x[1]), x[1] \in Ids, faults' = faults
    PROVE  Paid'
<1>. DEFINE P == Sends \ {x}
            L == Logged \cup {x[1]}
<1>1. /\ IsFiniteSet(Sends) /\ IsFiniteSet(Logged) /\ Len(log) \in Nat
      /\ Cardinality(Sends) \in Nat /\ Cardinality(Logged \cup Rows(Sends)) \in Nat
  BY SendsFinite, Zenon DEF AllFinite
<1>2. IsFiniteSet(P) /\ Cardinality(P) = Cardinality(Sends) - 1
  BY <1>1, FS_RemoveElement, Zenon
<1>3. Logged' = L /\ Len(log') = Len(log) + 1
  BY LoggedAppend, Zenon
<1>4. /\ IsFiniteSet(L \cup Rows(P))
      /\ Cardinality(Logged \cup Rows(Sends)) <= Cardinality(L \cup Rows(P))
  <2>1. IsFiniteSet(L \cup Rows(P))
    BY <1>1, <1>2, RowsFewer, FS_Union, FS_AddElement, Zenon
  <2>2. Logged \cup Rows(Sends) \in SUBSET (L \cup Rows(P))
    BY Zenon DEF Rows
  <2>. QED  BY <2>1, <2>2, FS_Subset, Zenon
<1>5. Cardinality(L \cup Rows(P)) \in Nat /\ faults \in Nat
  BY <1>4, FS_CardinalityType, MaxFaultsAssumption DEF TypeOK
<1>6. Cardinality(P) + Len(log') <= Cardinality(L \cup Rows(P)) + faults'
  BY <1>1, <1>2, <1>3, <1>4, <1>5 DEF Paid
<1>7. Sends' \in SUBSET P
  BY Zenon
<1>. HIDE DEF P, L
<1>. QED  BY <1>2, <1>3, <1>6, <1>7, PaidBy, Zenon

\* A publish that fails is a fault, whether or not the broker appended.
LEMMA PaidFailure ==
    ASSUME TypeOK, TypeOK', Paid, Sends' \in SUBSET Sends, NEW i \in Ids,
           log' = log \/ log' = Append(log, i), faults' = faults + 1
    PROVE  Paid'
<1>1. /\ IsFiniteSet(Sends) /\ Len(log) \in Nat
      /\ Cardinality(Sends) \in Nat /\ Cardinality(Logged \cup Rows(Sends)) \in Nat
  BY SendsFinite, Zenon DEF AllFinite
<1>2. Logged \in SUBSET Logged' /\ Len(log') \in {Len(log), Len(log) + 1}
  BY <1>1, LoggedAppend, Zenon DEF Logged
<1>3. faults \in Nat
  BY MaxFaultsAssumption DEF TypeOK
<1>4. Cardinality(Sends) + Len(log') <= Cardinality(Logged \cup Rows(Sends)) + faults'
  BY <1>1, <1>2, <1>3 DEF Paid
<1>. QED  BY <1>1, <1>2, <1>4, PaidBy, Zenon

\* New rows bring one send each.
LEMMA PaidNew ==
    ASSUME TypeOK, TypeOK', Paid, NEW N \in SUBSET Ids, N \cap (Logged \cup Rows(Sends)) = {},
           Sends' \in SUBSET (Sends \cup (N \X {Nobody})), UNCHANGED <<log, faults>>
    PROVE  Paid'
<1>. DEFINE P == Sends \cup (N \X {Nobody})
<1>1. /\ IsFiniteSet(Sends) /\ IsFiniteSet(Logged) /\ Len(log) \in Nat /\ Logged' = Logged
      /\ Cardinality(Sends) \in Nat /\ Cardinality(Logged \cup Rows(Sends)) \in Nat
  BY SendsFinite, Zenon DEF AllFinite, Logged
<1>2. IsFiniteSet(N)
  <2>1. IsFiniteSet(Ids)
    BY MaxRowsAssumption, FS_Interval DEF Ids
  <2>. QED  BY <2>1, FS_Subset, Zenon
<1>3. /\ IsFiniteSet(P)
      /\ Cardinality(P) + Cardinality(Logged \cup Rows(Sends))
           <= Cardinality(Sends) + Cardinality(Logged \cup Rows(P))
  BY <1>1, <1>2, AddPairs, Zenon
<1>. HIDE DEF P
<1>4. /\ Cardinality(P) \in Nat /\ Cardinality(Logged \cup Rows(P)) \in Nat /\ faults \in Nat
  <2>1. IsFiniteSet(Logged \cup Rows(P))
    BY <1>1, <1>3, RowsFewer, FS_Union, Zenon
  <2>2. faults \in Nat
    BY MaxFaultsAssumption DEF TypeOK
  <2>. QED  BY <2>1, <2>2, <1>3, FS_CardinalityType, Zenon
<1>5. Cardinality(P) + Len(log') <= Cardinality(Logged \cup Rows(P)) + faults'
  BY <1>1, <1>3, <1>4 DEF Paid
<1>6. Sends' \in SUBSET P
  BY Zenon DEF P
<1>. QED  BY <1>1, <1>3, <1>5, <1>6, PaidBy, Zenon

\* The sends a step leaves, told by row and relay.
LEMMA SendsWithin ==
    ASSUME NEW X,
           \A i \in Ids : Owed(i)' => Owed(i) \/ <<i, Nobody>> \in X,
           \A q \in Relays, i \in Ids : Stray(q, i)' => Stray(q, i) \/ <<i, q>> \in X
    PROVE  Sends' \in SUBSET (Sends \cup X)
<1>. SUFFICES ASSUME NEW p \in Sends' PROVE p \in Sends \cup X
  BY Zenon
<1>1. p \in Ids \X (Relays \cup {Nobody}) /\ p = <<p[1], p[2]>>
  BY DEF Sends
<1>2. CASE p[2] = Nobody
  BY <1>1, <1>2, Zenon DEF Sends
<1>3. CASE p[2] # Nobody
  BY <1>1, <1>3, Zenon DEF Sends
<1>. QED  BY <1>2, <1>3, Zenon

\* Steps that leave the rows' claims and the batches alone.
LEMMA PaidQuiet ==
    ASSUME TypeOK, TypeOK', Paid,
           UNCHANGED <<status, claim, expired, phase, batch, outcome, log, faults>>
    PROVE  Paid'
<1>1. \A i \in Ids : Owed(i)' => Owed(i)
  BY Zenon DEF Owed, Acked
<1>2. \A q \in Relays, i \in Ids : Stray(q, i)' => Stray(q, i)
  BY Zenon DEF Stray, Holds
<1>3. Sends' \in SUBSET (Sends \cup {})
  BY <1>1, <1>2, SendsWithin, Zenon
<1>. QED  BY <1>3, PaidDrop, Zenon

\* A commit brings new rows, and withdraws the sends of those it supersedes.
LEMMA PaidCommit ==
    ASSUME OrderInv, Locks, TypeOK', Paid, NEW w \in Writers, Commit(w)
    PROVE  Paid'
<1>. DEFINE N == tx[w].ins
<1>t. tx \in [Writers -> Txs] /\ TypeOK
  BY Zenon DEF OrderInv, TypeInv, TypeOK
<1>x. tx[w].sup \cup N \cup tx[w].dead \cup tx[w].audit \subseteq Ids
  BY <1>t, Zenon DEF Txs
<1>u. UNCHANGED <<claim, expired, phase, batch, outcome, log, faults>>
  BY Zenon DEF Commit
<1>s. \A i \in Ids : status'[i] = IF i \in N THEN "Pending"
                                  ELSE IF i \in tx[w].sup \cup tx[w].dead THEN "Superseded"
                                  ELSE IF i \in tx[w].audit THEN "Failed"
                                  ELSE status[i]
  BY Zenon DEF Commit
<1>k. \A i \in Ids : status[i] = "Publishing" => status'[i] = "Publishing"
  <2>1. \A i \in tx[w].sup : status[i] # "Publishing"
    BY Zenon DEF Locks, SupLocked
  <2>2. \A i \in N \cup tx[w].dead \cup tx[w].audit : status[i] = "Absent"
    BY Zenon DEF Locks, Fresh
  <2>. QED  BY <2>1, <2>2, <1>s, Zenon
<1>1. \A i \in Ids : Owed(i)' => Owed(i) \/ <<i, Nobody>> \in N \X {Nobody}
  <2>. SUFFICES ASSUME NEW i \in Ids, Owed(i)', i \notin N PROVE Owed(i)
    BY Zenon
  <2>1. status'[i] = status[i]
    BY <1>s, Zenon DEF Owed
  <2>. QED  BY <2>1, <1>u, Zenon DEF Owed, Acked
<1>2. \A q \in Relays, i \in Ids : Stray(q, i)' => Stray(q, i) \/ <<i, q>> \in N \X {Nobody}
  BY <1>k, <1>u, Zenon DEF Stray, Holds
<1>3. N \cap (Logged \cup Rows(Sends)) = {}
  <2>1. \A i \in N : status[i] = "Absent"
    BY Zenon DEF Locks, Fresh
  <2>2. \A i \in Logged : status[i] # "Absent"
    BY Zenon DEF Locks, LoggedExists
  <2>3. \A p \in Sends : status[p[1]] # "Absent"
    <3>. SUFFICES ASSUME NEW p \in Sends PROVE status[p[1]] # "Absent"
      BY Zenon
    <3>1. CASE p[2] = Nobody
      BY <3>1, Zenon DEF Sends, Owed
    <3>2. CASE p[2] # Nobody
      <4>1. p[2] \in Relays /\ p[1] \in batch[p[2]]
        BY <3>2, Zenon DEF Sends, Stray
      <4>. QED  BY <4>1, Zenon DEF OrderInv, Committed
    <3>. QED  BY <3>1, <3>2, Zenon
  <2>. QED  BY <2>1, <2>2, <2>3, Zenon DEF Rows
<1>4. Sends' \in SUBSET (Sends \cup (N \X {Nobody}))
  BY <1>1, <1>2, SendsWithin, Zenon
<1>. QED  BY <1>3, <1>4, <1>t, <1>u, <1>x, PaidNew, Zenon

\* A claim takes over sends that were owed already: of waiting rows, and of rows
\* whose lease has run out.
LEMMA PaidClaim ==
    ASSUME OrderInv, Locks, TypeOK', Paid, NEW r \in Relays, ClaimCommit(r)
    PROVE  Paid'
<1>t. TypeOK
  BY Zenon DEF OrderInv, TypeInv
<1>u. UNCHANGED <<batch, outcome, log, faults>> /\ phase[r] = "claimed"
  BY Zenon DEF ClaimCommit
<1>p. /\ phase'[r] # "marking"
      /\ \A q \in Relays : q # r => phase'[q] = phase[q]
  BY <1>t, Zenon DEF ClaimCommit, TypeOK
<1>s. \A i \in Ids : /\ status'[i] = IF i \in batch[r] THEN "Publishing"
                                     ELSE IF i \in stale[r] THEN "Superseded"
                                     ELSE status[i]
                     /\ claim'[i] = IF i \in batch[r] THEN r ELSE claim[i]
                     /\ expired'[i] <=> expired[i] /\ i \notin batch[r]
  BY Zenon DEF ClaimCommit
<1>b. \A i \in batch[r] : status[i] = "Pending" \/ (status[i] = "Publishing" /\ expired[i])
  BY <1>u, Zenon DEF Locks, ClaimLocked
<1>c. \A i \in stale[r] : status[i] # "Publishing"
  BY Zenon DEF Locks, StaleLocked
<1>1. ASSUME NEW i \in Ids, Owed(i)' PROVE Owed(i)
  <2>1. CASE i \in batch[r]
    BY <2>1, <1>b, Zenon DEF Owed
  <2>2. CASE i \notin batch[r]
    <3>1. status'[i] = status[i] /\ claim'[i] = claim[i] /\ (expired'[i] <=> expired[i])
      BY <2>2, <1>1, <1>s, Zenon DEF Owed
    <3>2. Acked(i) => Acked(i)'
      BY <3>1, <1>u, <1>p, Zenon DEF Acked
    <3>. QED  BY <3>1, <3>2, <1>1, Zenon DEF Owed
  <2>. QED  BY <2>1, <2>2, Zenon
<1>2. ASSUME NEW q \in Relays, NEW i \in Ids, Stray(q, i)' PROVE Stray(q, i)
  <2>1. q # r
    BY <1>2, <1>s, <1>u, Zenon DEF Stray, Holds
  <2>2. ~(Holds(q, i) /\ ~expired[i])
    <3>1. CASE i \in batch[r]
      BY <3>1, <1>b, Zenon DEF Holds
    <3>2. CASE i \notin batch[r]
      BY <3>2, <1>2, <1>s, <1>c, Zenon DEF Stray, Holds
    <3>. QED  BY <3>1, <3>2, Zenon
  <2>. QED  BY <2>1, <2>2, <1>2, <1>u, <1>p, Zenon DEF Stray
<1>3. Sends' \in SUBSET (Sends \cup {})
  BY <1>1, <1>2, SendsWithin, Zenon
<1>. QED  BY <1>3, <1>t, <1>u, PaidDrop, Zenon

\* A publish makes the send its relay had in hand: the one the table owes while
\* the claim is safe, a stray one otherwise.
LEMMA PaidPublish ==
    ASSUME OrderInv, Locks, TypeOK', Paid, NEW r \in Relays, Publish(r)
    PROVE  Paid'
<1>t. TypeOK /\ RowInHand
  BY Zenon DEF OrderInv, TypeInv
<1>u. UNCHANGED <<status, claim, expired, batch>> /\ phase[r] = "sending"
  BY Zenon DEF Publish, rowVars
<1>p. \A q \in Relays : /\ phase'[q] = IF q = r THEN "marking" ELSE phase[q]
                        /\ q # r => outcome'[q] = outcome[q]
  BY <1>t, Zenon DEF Publish, TypeOK
<1>o. PICK o \in Ids : o = Oldest(batch[r]) /\ o \in batch[r]
  <2>1. batch[r] # {} /\ batch[r] \in SUBSET Ids
    BY <1>u, <1>t, Zenon DEF RowInHand, TypeOK
  <2>. QED  BY <2>1, OldestIsLeast, Zenon
<1>1. \A i \in Ids : Owed(i)' => Owed(i)
  BY <1>u, <1>p, Zenon DEF Owed, Acked
<1>2. \A q \in Relays, i \in Ids : Stray(q, i)' => Stray(q, i)
  BY <1>u, <1>p, Zenon DEF Stray, Holds
<1>3. Sends' \in SUBSET Sends
  <2>1. Sends' \in SUBSET (Sends \cup {})
    BY <1>1, <1>2, SendsWithin, Zenon
  <2>. QED  BY <2>1, Zenon
<1>4. \/ /\ log' = Append(log, o) /\ outcome'[r] = "ok" /\ faults' = faults
      \/ (log' = log \/ log' = Append(log, o)) /\ faults' = faults + 1
  BY <1>t, <1>o, Zenon DEF Publish, PublishRow, TypeOK
<1>5. CASE log' = Append(log, o) /\ outcome'[r] = "ok" /\ faults' = faults
  <2>1. CASE Holds(r, o) /\ ~expired[o]
    <3>1. Owed(o)
      BY <2>1, <1>u, Zenon DEF Owed, Acked, Holds
    <3>2. Acked(o)'
      BY <2>1, <1>u, <1>p, <1>o, <1>5, Zenon DEF Acked, Holds
    <3>3. ~Owed(o)'
      BY <3>2, <2>1, <1>u, Zenon DEF Owed, Holds
    <3>4. <<o, Nobody>> \in Sends /\ <<o, Nobody>> \notin Sends' /\ <<o, Nobody>>[1] = o
      BY <3>1, <3>3, <1>o, Zenon DEF Sends
    <3>. QED  BY <3>4, <1>3, <1>5, <1>o, <1>t, PaidSend, Zenon
  <2>2. CASE ~(Holds(r, o) /\ ~expired[o])
    <3>1. Stray(r, o)
      BY <2>2, <1>u, <1>o, Zenon DEF Stray
    <3>2. ~Stray(r, o)'
      BY <1>u, <1>p, <1>o, Zenon DEF Stray
    <3>3. <<o, r>> \in Sends /\ <<o, r>> \notin Sends' /\ <<o, r>>[1] = o
      BY <3>1, <3>2, <1>o, NobodyAssumption, Zenon DEF Sends
    <3>. QED  BY <3>3, <1>3, <1>5, <1>o, <1>t, PaidSend, Zenon
  <2>. QED  BY <2>1, <2>2, Zenon
<1>6. CASE (log' = log \/ log' = Append(log, o)) /\ faults' = faults + 1
  BY <1>3, <1>6, <1>o, <1>t, PaidFailure, Zenon
<1>. QED  BY <1>4, <1>5, <1>6, Zenon

\* A mark makes no send: a row marked Published had its acknowledgement, and one
\* put back was still owed.
LEMMA PaidMark ==
    ASSUME OrderInv, TypeOK', Paid, NEW r \in Relays, Mark(r)
    PROVE  Paid'
<1>t. TypeOK /\ RowInHand
  BY Zenon DEF OrderInv, TypeInv
<1>u. UNCHANGED <<log, faults>> /\ phase[r] = "marking"
  BY Zenon DEF Mark
<1>o. PICK o \in Ids : o = Oldest(batch[r]) /\ o \in batch[r]
  <2>1. batch[r] # {} /\ batch[r] \in SUBSET Ids
    BY <1>u, <1>t, Zenon DEF RowInHand, TypeOK
  <2>. QED  BY <2>1, OldestIsLeast, Zenon
<1>p. /\ phase'[r] # "marking" /\ batch'[r] = batch[r] \ {o}
      /\ \A q \in Relays : q # r => /\ phase'[q] = phase[q] /\ batch'[q] = batch[q]
                                    /\ outcome'[q] = outcome[q]
  BY <1>t, <1>o, Zenon DEF Mark, TypeOK
<1>m. \/ /\ ~Holds(r, o)
         /\ UNCHANGED <<status, claim, expired>>
      \/ /\ Holds(r, o)
         /\ status' = [status EXCEPT ![o] = MarkedAs(outcome[r] = "ok")]
         /\ claim' = [claim EXCEPT ![o] = Nobody]
         /\ expired' = [expired EXCEPT ![o] = FALSE]
  <2>1. \/ /\ ~Holds(r, Oldest(batch[r]))
           /\ UNCHANGED <<status, claim, expired>>
        \/ /\ Holds(r, Oldest(batch[r]))
           /\ status' = [status EXCEPT ![Oldest(batch[r])] = MarkedAs(outcome[r] = "ok")]
           /\ claim' = [claim EXCEPT ![Oldest(batch[r])] = Nobody]
           /\ expired' = [expired EXCEPT ![Oldest(batch[r])] = FALSE]
    BY Zenon DEF Mark
  <2>. QED  BY <2>1, <1>o, Zenon
<1>s. /\ \A i \in Ids \ {o} : status'[i] = status[i] /\ claim'[i] = claim[i]
                              /\ expired'[i] = expired[i]
      /\ Holds(r, o) => status'[o] = MarkedAs(outcome[r] = "ok")
      /\ ~Holds(r, o) => /\ status'[o] = status[o] /\ claim'[o] = claim[o]
                         /\ expired'[o] = expired[o]
  BY <1>m, <1>t DEF TypeOK
<1>1. ASSUME NEW i \in Ids, Owed(i)' PROVE Owed(i)
  <2>1. CASE i = o /\ Holds(r, o)
    <3>1. outcome[r] # "ok"
      BY <2>1, <1>1, <1>s, Zenon DEF Owed, MarkedAs
    <3>2. ~Acked(o)
      BY <3>1, <2>1, Zenon DEF Acked, Holds
    <3>. QED  BY <3>2, <2>1, Zenon DEF Owed, Holds
  <2>2. CASE ~(i = o /\ Holds(r, o))
    <3>1. status'[i] = status[i] /\ claim'[i] = claim[i] /\ expired'[i] = expired[i]
      BY <2>2, <1>s, Zenon
    <3>2. status[i] = "Publishing" /\ Acked(i) => Acked(i)'
      BY <3>1, <2>2, <1>o, <1>p, Zenon DEF Acked, Holds
    <3>. QED  BY <3>1, <3>2, <1>1, Zenon DEF Owed
  <2>. QED  BY <2>1, <2>2, Zenon
<1>2. ASSUME NEW q \in Relays, NEW i \in Ids, Stray(q, i)' PROVE Stray(q, i)
  <2>1. CASE q = r
    <3>1. i # o /\ i \in batch[r]
      BY <2>1, <1>2, <1>p, Zenon DEF Stray
    <3>. QED  BY <3>1, <2>1, <1>2, <1>s, <1>u, <1>o, Zenon DEF Stray, Holds
  <2>2. CASE q # r
    BY <2>2, <1>2, <1>s, <1>p, Zenon DEF Stray, Holds
  <2>. QED  BY <2>1, <2>2, Zenon
<1>3. Sends' \in SUBSET (Sends \cup {})
  BY <1>1, <1>2, SendsWithin, Zenon
<1>. QED  BY <1>3, <1>t, <1>u, PaidDrop, Zenon

\* Giving up a cycle is a fault; the row it may make due again is the one that
\* was acknowledged and not yet marked.
LEMMA PaidAbandon ==
    ASSUME OrderInv, TypeOK', Paid, NEW r \in Relays, Abandon(r)
    PROVE  Paid'
<1>t. TypeOK
  BY Zenon DEF OrderInv, TypeInv
<1>u. UNCHANGED <<status, claim, expired, log>> /\ faults' = faults + 1
  BY Zenon DEF Abandon, rowVars
<1>p. /\ phase'[r] = "idle"
      /\ \A q \in Relays : q # r => /\ phase'[q] = phase[q] /\ batch'[q] = batch[q]
                                    /\ outcome'[q] = outcome[q]
  BY <1>t DEF Abandon, TypeOK
<1>o. PICK o : o = Oldest(batch[r])
  BY Zenon
<1>1. ASSUME NEW i \in Ids, Owed(i)' PROVE Owed(i) \/ <<i, Nobody>> \in {<<o, Nobody>>}
  <2>. SUFFICES ASSUME i # o PROVE Owed(i)
    BY Zenon
  <2>1. Acked(i) => Acked(i)'
    BY <1>u, <1>p, <1>o, Zenon DEF Acked
  <2>. QED  BY <2>1, <1>1, <1>u, Zenon DEF Owed
<1>2. \A q \in Relays, i \in Ids : Stray(q, i)' => Stray(q, i) \/ <<i, q>> \in {<<o, Nobody>>}
  BY <1>u, <1>p, Zenon DEF Stray, Holds
<1>3. Sends' \in SUBSET (Sends \cup {<<o, Nobody>>})
  BY <1>1, <1>2, SendsWithin, Zenon
<1>. QED  BY <1>3, <1>t, <1>u, PaidFault, Zenon

\* Reading, choosing and superseding, a claim transaction changes no claim yet.
LEMMA PaidClaiming ==
    ASSUME OrderInv, TypeOK', Paid, NEW r \in Relays,
           Collapse(r) \/ ClaimRead(r) \/ ClaimWrite(r)
    PROVE  Paid'
<1>t. TypeOK
  BY Zenon DEF OrderInv, TypeInv
<1>u. UNCHANGED <<status, claim, expired, outcome, log, faults>>
  BY Zenon DEF Collapse, ClaimRead, ClaimWrite, rowVars
<1>p. /\ phase[r] \notin {"sending", "marking"} /\ phase'[r] \notin {"sending", "marking"}
      /\ \A q \in Relays : q # r => phase'[q] = phase[q] /\ batch'[q] = batch[q]
  BY <1>t DEF Collapse, ClaimRead, ClaimWrite, TypeOK
<1>1. \A i \in Ids : Owed(i)' => Owed(i)
  <2>1. \A i \in Ids : Acked(i) => Acked(i)'
    BY <1>u, <1>p, Zenon DEF Acked
  <2>. QED  BY <2>1, <1>u, Zenon DEF Owed
<1>2. \A q \in Relays, i \in Ids : Stray(q, i)' => Stray(q, i)
  BY <1>u, <1>p, Zenon DEF Stray, Holds
<1>3. Sends' \in SUBSET (Sends \cup {})
  BY <1>1, <1>2, SendsWithin, Zenon
<1>. QED  BY <1>3, <1>t, <1>u, PaidDrop, Zenon

\* A lease that runs out under a working relay is a fault and adds a send: the
\* relay's own, now a stray one, or the table's, for a row it had sent already.
\* One that runs out after its relay has gone adds none.
LEMMA PaidLease ==
    ASSUME OrderInv, TypeOK', Paid, NEW k \in Ids, LeaseExpire(k)
    PROVE  Paid'
<1>t. TypeOK /\ RowInHand
  BY Zenon DEF OrderInv, TypeInv
<1>u. UNCHANGED <<status, claim, phase, batch, outcome, log>> /\ status[k] = "Publishing"
  BY Zenon DEF LeaseExpire, relayVars
<1>s. \A i \in Ids : i # k => expired'[i] = expired[i]
  BY <1>t, Zenon DEF LeaseExpire, TypeOK
<1>h. \A q \in Relays : phase[q] = "marking" => Oldest(batch[q]) \in batch[q]
  <2>1. \A q \in Relays : phase[q] = "marking" => batch[q] # {} /\ batch[q] \in SUBSET Ids
    BY <1>t, Zenon DEF RowInHand, TypeOK
  <2>. QED  BY <2>1, OldestIsLeast, Zenon
<1>1. \A i \in Ids : i # k => (Owed(i)' => Owed(i))
  <2>1. \A i \in Ids : Acked(i)' <=> Acked(i)
    BY <1>u, Zenon DEF Acked
  <2>. QED  BY <2>1, <1>s, <1>u, Zenon DEF Owed
<1>2. \A q \in Relays, i \in Ids : i # k => (Stray(q, i)' => Stray(q, i))
  BY <1>s, <1>u, Zenon DEF Stray, Holds
<1>3. \A q \in Relays : Stray(q, k)' => Stray(q, k) \/ (claim[k] = q /\ k \in batch[q])
  BY <1>u, Zenon DEF Stray, Holds
<1>4. CASE ~Working(k)
  <2>1. ~Acked(k)
    BY <1>4, <1>h, Zenon DEF Working, Acked
  <2>2. Owed(k)
    BY <2>1, <1>u, Zenon DEF Owed
  <2>3. \A q \in Relays : Stray(q, k)' => Stray(q, k)
    BY <1>3, <1>4, Zenon DEF Working
  <2>4. Sends' \in SUBSET (Sends \cup {})
    BY <2>2, <2>3, <1>1, <1>2, SendsWithin
  <2>5. faults' = faults
    BY <1>4, Zenon DEF LeaseExpire
  <2>. QED  BY <2>4, <2>5, <1>t, <1>u, PaidDrop, Zenon
<1>5. CASE Working(k)
  <2>1. PICK r \in Relays : claim[k] = r /\ k \in batch[r]
    BY <1>5, Zenon DEF Working
  <2>5. faults' = faults + 1
    BY <1>5, Zenon DEF LeaseExpire
  <2>2. CASE Acked(k)
    <3>1. phase[r] = "marking" /\ k = Oldest(batch[r])
      BY <2>1, <2>2, Zenon DEF Acked
    <3>2. ~Stray(r, k)'
      BY <3>1, <1>u, Zenon DEF Stray
    <3>3. \A q \in Relays : Stray(q, k)' => Stray(q, k)
      BY <3>2, <2>1, <1>3, Zenon
    <3>4. Sends' \in SUBSET (Sends \cup {<<k, Nobody>>})
      <4>1. \A i \in Ids : Owed(i)' => Owed(i) \/ <<i, Nobody>> \in {<<k, Nobody>>}
        BY <1>1, Zenon
      <4>2. \A q \in Relays, i \in Ids : Stray(q, i)' => Stray(q, i) \/ <<i, q>> \in {<<k, Nobody>>}
        BY <3>3, <1>2, Zenon
      <4>. QED  BY <4>1, <4>2, SendsWithin, Zenon
    <3>. QED  BY <3>4, <2>5, <1>t, <1>u, PaidFault, Zenon
  <2>3. CASE ~Acked(k)
    <3>1. Owed(k)
      BY <2>3, <1>u, Zenon DEF Owed
    <3>2. Sends' \in SUBSET (Sends \cup {<<k, r>>})
      <4>1. \A i \in Ids : Owed(i)' => Owed(i) \/ <<i, Nobody>> \in {<<k, r>>}
        BY <3>1, <1>1, Zenon
      <4>2. \A q \in Relays, i \in Ids : Stray(q, i)' => Stray(q, i) \/ <<i, q>> \in {<<k, r>>}
        BY <2>1, <1>2, <1>3, Zenon
      <4>. QED  BY <4>1, <4>2, SendsWithin, Zenon
    <3>. QED  BY <3>2, <2>5, <1>t, <1>u, PaidFault, Zenon
  <2>. QED  BY <2>2, <2>3, Zenon
<1>. QED  BY <1>4, <1>5, Zenon

\* The purger reclaims rows nobody will send.
LEMMA PaidPurge ==
    ASSUME OrderInv, TypeOK', Paid, NEW S \in SUBSET Ids, Purge(S)
    PROVE  Paid'
<1>t. TypeOK
  BY Zenon DEF OrderInv, TypeInv
<1>u. UNCHANGED <<claim, expired, phase, batch, outcome, log, faults>>
  BY Zenon DEF Purge, relayVars
<1>s. \A i \in Ids : /\ status'[i] = "Publishing" <=> status[i] = "Publishing"
                     /\ status'[i] = "Pending" <=> status[i] = "Pending"
  BY ReclaimedAssumption, Zenon DEF Purge, Purgeable
<1>1. \A i \in Ids : Owed(i)' => Owed(i)
  BY <1>s, <1>u, Zenon DEF Owed, Acked
<1>2. \A q \in Relays, i \in Ids : Stray(q, i)' => Stray(q, i)
  BY <1>s, <1>u, Zenon DEF Stray, Holds
<1>3. Sends' \in SUBSET (Sends \cup {})
  BY <1>1, <1>2, SendsWithin, Zenon
<1>. QED  BY <1>3, <1>t, <1>u, PaidDrop, Zenon

\* Every step keeps the account.
LEMMA PaidStep == OrderInv /\ OrderInv' /\ Locks /\ Paid /\ [Next]_vars => Paid'
<1>. SUFFICES ASSUME OrderInv, OrderInv', Locks, Paid, [Next]_vars PROVE Paid'
  BY Zenon
<1>t. TypeOK /\ TypeOK'
  BY Zenon DEF OrderInv, TypeInv
<1>1. CASE UNCHANGED vars
  <2>1. UNCHANGED <<status, claim, expired, phase, batch, outcome, log, faults>>
    BY <1>1, Zenon DEF vars, rowVars, relayVars
  <2>. QED  BY <2>1, <1>t, PaidQuiet, Zenon
<1>2. ASSUME NEW w \in Writers, WriterNext(w) PROVE Paid'
  BY <1>2, <1>t, PaidCommit, OpenTxKeepsRows, PaidQuiet, Zenon
<1>3. ASSUME NEW r \in Relays, RelayStep(r) \/ Abandon(r) PROVE Paid'
  BY <1>3, <1>t, PaidClaiming, PaidClaim, PaidPublish, PaidMark, PaidAbandon, Zenon DEF RelayStep
<1>4. ASSUME NEW i \in Ids, BecomeDue(i) PROVE Paid'
  <2>1. UNCHANGED <<status, claim, expired, phase, batch, outcome, log, faults>>
    BY <1>4, Zenon DEF BecomeDue, relayVars
  <2>. QED  BY <2>1, <1>t, PaidQuiet, Zenon
<1>5. ASSUME NEW i \in Ids, LeaseExpire(i) PROVE Paid'
  BY <1>5, <1>t, PaidLease, Zenon
<1>6. ASSUME NEW S \in SUBSET Ids, Purge(S) PROVE Paid'
  BY <1>6, <1>t, PaidPurge, Zenon
<1>. QED  BY <1>1, <1>2, <1>3, <1>4, <1>5, <1>6, Zenon DEF Next

\* Nothing is owed at first.
LEMMA PaidInit == Init => Paid
<1>. SUFFICES ASSUME Init PROVE Paid
  BY Zenon
<1>1. \A i \in Ids : ~Owed(i)
  BY Zenon DEF Init, Owed
<1>2. \A q \in Relays, i \in Ids : ~Stray(q, i)
  BY Zenon DEF Init, Stray
<1>3. Sends = {}
  BY <1>1, <1>2, Zenon DEF Sends
<1>4. log = <<>> /\ faults = 0 /\ Len(log) = 0
  BY Zenon DEF Init
<1>5. Logged \cup Rows(Sends) = {}
  BY <1>3, <1>4 DEF Logged, Rows
<1>. QED  BY <1>3, <1>4, <1>5, FS_EmptySet DEF Paid

\* Every copy of a row in the topic beyond the first is paid for by a fault, for
\* any number of relays sharing the table: claims, locks and marks by themselves
\* never send a row twice.
THEOREM CopiesArePaidFor == Spec => []DuplicatesNeedFaults
<1>1. Init => OrderInv /\ Locks /\ Paid
  BY TypeInit, CoreInit, OrderInit, LocksInit, PaidInit, Zenon DEF OrderInv
<1>2. OrderInv /\ Locks /\ Paid /\ [Next]_vars => OrderInv' /\ Locks' /\ Paid'
  BY OrderStep, LocksStep, PaidStep, Zenon
<1>3. OrderInv /\ Paid => DuplicatesNeedFaults
  <2>1. OrderInv => TypeOK /\ faults \in Nat
    BY MaxFaultsAssumption DEF OrderInv, TypeInv, TypeOK
  <2>. QED  BY <2>1, PaidCovers, Zenon
<1>. QED  BY <1>1, <1>2, <1>3, PTL DEF Spec
=============================================================================
