------------------------------- MODULE Outbox -------------------------------
(***************************************************************************)
(* The transactional outbox of one message type: applications enqueue      *)
(* entity snapshots inside their own PostgreSQL transactions, relays claim *)
(* pending rows under a lease, publish them to the compacted topic and     *)
(* mark them, and a purger reclaims terminal rows.                         *)
(*                                                                         *)
(* PostgreSQL is modelled at statement granularity.  `status` is the       *)
(* committed table; what an open transaction has written is kept with the  *)
(* transaction and becomes visible at its commit.  A row an open           *)
(* transaction has written is locked: an UPDATE waits for it (its action   *)
(* is disabled), FOR UPDATE SKIP LOCKED passes over it.  The claim         *)
(* statement, whose decision rests on what it read, is split into the      *)
(* snapshot it takes (ClaimRead) and its effect after the waits            *)
(* (ClaimWrite); every other statement changes only rows it has locked and *)
(* is one step, taken once nothing it needs is locked.                     *)
(*                                                                         *)
(* Clocks are abstracted to what the code compares them for: a Pending row *)
(* is due or not, the lease of a Publishing row has expired or not.  now() *)
(* is fixed when a transaction starts: `ripe` and `elder` carry what was   *)
(* due, or already under way, when a claim transaction did.                *)
(***************************************************************************)
EXTENDS Integers, Sequences, FiniteSets

CONSTANTS
    Entities,       \* entity keys
    Writers,        \* application connections that enqueue or resync
    Relays,         \* relay workers sharing the table
    Nobody,         \* the claim of an unclaimed row
    MaxRows,        \* bound: values the enqueue_order sequence hands out
    BatchLimit,     \* RelayConfig::batch_limit
    MaxFaults,      \* bound: failed or cut-short steps of the relays
    Isolation,      \* isolation levels callers enqueue at: "committed", "fixed"
    Reclaimed       \* statuses the purger deletes, {} where none is run

ASSUME MaxRowsAssumption == MaxRows \in Nat
ASSUME RelaysAssumption == IsFiniteSet(Relays)
ASSUME BatchLimitAssumption == BatchLimit \in Nat \ {0}
ASSUME MaxFaultsAssumption == MaxFaults \in Nat
ASSUME NobodyAssumption == Nobody \notin Relays
ASSUME IsolationAssumption == Isolation \subseteq {"committed", "fixed"}
ASSUME ReclaimedAssumption ==
    Reclaimed \in {{}, {"Published", "Superseded"},
                   {"Published", "Superseded", "Failed"}}

\* A row is named by its enqueue_order, the ordinal its INSERT drew from the
\* sequence; 0 is "no state" wherever an entity state is expected.
Ids == 1 .. MaxRows
States == 0 .. MaxRows

VARIABLES
    \* the committed outbox table, one function per column
    status,      \* OutboxStatus, "Absent" before commit, "Purged" once deleted
    entityOf,    \* entity_key
    payload,     \* the entity state the row carries, 0 for an audit row
    due,         \* next_attempt_at <= now()
    claim,       \* claim_id, named by the relay that holds it
    expired,     \* claim_expires_at <= now()
    nextOrder,   \* next value of the enqueue_order sequence
    \* the service
    domain,      \* the committed state of every entity in the owner's tables
    tx,          \* the application transaction open on each connection
    \* the relays
    phase,       \* where each relay is in relay_once
    ripe,        \* the rows due, or expired, at the now() of its claim transaction
    elder,       \* the application transactions that started before that now()
    cand,        \* the rows its claim statement selected in its snapshot
    seen,        \* the Pending rows of that snapshot
    stale,       \* the rows its claim transaction has superseded, uncommitted
    batch,       \* the rows it claimed and has not finished with
    outcome,     \* what the broker answered for the head of the batch
    faults,      \* relay faults so far
    \* the broker
    log          \* the topic: rows in the order they were appended

rowVars == <<status, entityOf, payload, due, claim, expired, nextOrder>>
relayVars == <<phase, ripe, elder, cand, seen, stale, batch, outcome>>
vars == <<rowVars, domain, tx, relayVars, faults, log>>

Statuses == {"Absent", "Pending", "Publishing", "Published", "Superseded",
             "Failed", "Purged"}
Phases == {"idle", "collapsed", "read", "claimed", "sending", "marking"}

NoTx == [mode  |-> "none", \* its isolation level; "none" while none is open
         snap  |-> {},     \* at "fixed" (REPEATABLE READ), the Pending rows of
                           \* the one snapshot all its statements read
         locks |-> {},     \* entities whose advisory lock it holds
         sup   |-> {},     \* committed rows it has superseded
         ins   |-> {},     \* rows it has inserted Pending
         dead  |-> {},     \* rows it has inserted and then superseded
         audit |-> {},     \* rows it has inserted Failed
         load  |-> 0]      \* the state a resync has loaded, 0 for a live write

Txs == [mode : {"none", "committed", "fixed"}, snap : SUBSET Ids,
        locks : SUBSET Entities, sup : SUBSET Ids, ins : SUBSET Ids,
        dead : SUBSET Ids, audit : SUBSET Ids, load : States]

Open(w) == tx[w].mode # "none"

Pending == {i \in Ids : status[i] = "Pending"}
Publishing == {i \in Ids : status[i] = "Publishing"}
Sibling(i, j) == entityOf[i] = entityOf[j]
Logged == {log[k] : k \in 1 .. Len(log)}

\* A committed row that carries an entity state (so not a Failed audit row).
Accepted(i) == status[i] # "Absent" /\ payload[i] # 0

\* The n oldest rows of S: ORDER BY enqueue_order LIMIT n.
FirstN(S, n) == {i \in S : Cardinality({j \in S : j < i}) < n}
Oldest(S) == CHOOSE i \in S : \A j \in S : i <= j

\* Rows some application transaction, or a claim transaction other than r's,
\* has written and not yet committed.
LockedByTx(i) == \E w \in Writers : i \in tx[w].sup
LockedByClaim(r, i) ==
    \E q \in Relays \ {r} : \/ i \in stale[q]
                            \/ phase[q] = "claimed" /\ i \in batch[q]
Locked(r, i) == LockedByTx(i) \/ LockedByClaim(r, i)

Init ==
    /\ status = [i \in Ids |-> "Absent"]
    /\ entityOf \in {[i \in Ids |-> e] : e \in Entities}
    /\ payload = [i \in Ids |-> 0]
    /\ due = [i \in Ids |-> FALSE]
    /\ claim = [i \in Ids |-> Nobody]
    /\ expired = [i \in Ids |-> FALSE]
    /\ nextOrder = 1
    /\ domain = [e \in Entities |-> 0]
    /\ tx = [w \in Writers |-> NoTx]
    /\ phase = [r \in Relays |-> "idle"]
    /\ ripe = [r \in Relays |-> {}]
    /\ elder = [r \in Relays |-> {}]
    /\ cand = [r \in Relays |-> {}]
    /\ seen = [r \in Relays |-> {}]
    /\ stale = [r \in Relays |-> {}]
    /\ batch = [r \in Relays |-> {}]
    /\ outcome = [r \in Relays |-> "none"]
    /\ faults = 0
    /\ log = <<>>

-----------------------------------------------------------------------------
(* Application transactions: enqueue and resync *)

Begin(w, iso) ==
    /\ ~Open(w)
    /\ tx' = [tx EXCEPT ![w] = [NoTx EXCEPT
                 !.mode = iso,
                 !.snap = IF iso = "fixed" THEN Pending ELSE {}]]
    /\ UNCHANGED <<rowVars, domain, relayVars, faults, log>>

\* Mutant: enqueue without the entity lock.
MayLockAlways(w, e) == TRUE

\* lock_outbox_entity: the transaction-scoped advisory lock is free, or w's.
MayLock(w, e) == \A v \in Writers \ {w} : e \notin tx[v].locks

\* The rows the supersede UPDATE of w's enqueue finds: the entity's Pending rows
\* in the statement's snapshot, which a fixed-snapshot caller took long ago.
Predecessors(w, e) ==
    {i \in IF tx[w].mode = "fixed" THEN tx[w].snap ELSE Pending : entityOf[i] = e}

AfterInsert(w, e) ==
    [tx[w] EXCEPT !.locks = @ \cup {e},
                  !.sup = @ \cup Predecessors(w, e),
                  !.dead = @ \cup {i \in tx[w].ins : entityOf[i] = e},
                  !.ins = {i \in @ : entityOf[i] # e} \cup {nextOrder}]

\* The body of an accepted enqueue: lock the entity, supersede, insert Pending.
\* A fixed-snapshot UPDATE of a row that has changed since the snapshot fails
\* (first updater wins), which leaves that transaction only its rollback.
InsertPending(w, e, state) ==
    /\ Open(w)
    /\ nextOrder \in Ids
    /\ MayLock(w, e)
    /\ \A i \in Predecessors(w, e) :
          status[i] = "Pending" /\ ~LockedByClaim(Nobody, i)
    /\ tx' = [tx EXCEPT ![w] = AfterInsert(w, e)]
    /\ entityOf' = [entityOf EXCEPT ![nextOrder] = e]
    /\ payload' = [payload EXCEPT ![nextOrder] = state]
    /\ nextOrder' = nextOrder + 1
    /\ UNCHANGED <<status, due, claim, expired, domain, relayVars, faults, log>>

\* A live write: the entity's new state, named by the row that announces it.
Enqueue(w, e) == tx[w].load = 0 /\ InsertPending(w, e, nextOrder)

\* An envelope without idempotency identity: a Failed audit row and an error.
\* No lock, nothing superseded; the caller may still commit.
EnqueueRejected(w, e) ==
    /\ Open(w)
    /\ tx[w].load = 0
    /\ nextOrder \in Ids
    /\ tx' = [tx EXCEPT ![w].audit = @ \cup {nextOrder}]
    /\ entityOf' = [entityOf EXCEPT ![nextOrder] = e]
    /\ nextOrder' = nextOrder + 1
    /\ UNCHANGED <<status, payload, due, claim, expired, domain, relayVars,
                   faults, log>>

\* One key of a resync, first half: a READ COMMITTED transaction takes the
\* entity's lock, then loads its state.  A key that no longer exists is skipped.
ResyncLoad(w, e) ==
    /\ ~Open(w)
    /\ MayLock(w, e)
    /\ domain[e] # 0
    /\ tx' = [tx EXCEPT ![w] = [NoTx EXCEPT
                 !.mode = "committed", !.locks = {e}, !.load = domain[e]]]
    /\ UNCHANGED <<rowVars, domain, relayVars, faults, log>>

\* Second half: the loaded state goes through the same enqueue.
ResyncEnqueue(w, e) ==
    /\ tx[w].load # 0
    /\ tx[w].ins = {}
    /\ e \in tx[w].locks
    /\ InsertPending(w, e, tx[w].load)

\* The state an entity has once w commits.
CommittedState(w, e) ==
    IF tx[w].load = 0 /\ \E i \in tx[w].ins : entityOf[i] = e
    THEN CHOOSE i \in tx[w].ins : entityOf[i] = e
    ELSE domain[e]

Commit(w) ==
    /\ Open(w)
    /\ tx[w].load # 0 => tx[w].ins # {}
    /\ status' = [i \in Ids |->
          IF i \in tx[w].ins THEN "Pending"
          ELSE IF i \in tx[w].sup \cup tx[w].dead THEN "Superseded"
          ELSE IF i \in tx[w].audit THEN "Failed"
          ELSE status[i]]
    /\ due' = [i \in Ids |-> i \in tx[w].ins \/ due[i]]
    /\ domain' = [e \in Entities |-> CommittedState(w, e)]
    /\ tx' = [tx EXCEPT ![w] = NoTx]
    /\ ripe' = [r \in Relays |-> IF w \in elder[r] THEN ripe[r] \cup tx[w].ins
                                                   ELSE ripe[r]]
    /\ elder' = [r \in Relays |-> elder[r] \ {w}]
    /\ UNCHANGED <<entityOf, payload, claim, expired, nextOrder, phase, cand, seen,
                   stale, batch, outcome, faults, log>>

\* The caller gives up, crashes, or a statement failed: everything the
\* transaction wrote, its audit row included, is as if it never was.
Rollback(w) ==
    /\ Open(w)
    /\ tx' = [tx EXCEPT ![w] = NoTx]
    /\ elder' = [r \in Relays |-> elder[r] \ {w}]
    /\ UNCHANGED <<rowVars, domain, phase, ripe, cand, seen, stale, batch,
                   outcome, faults, log>>

-----------------------------------------------------------------------------
(* The relay: claim_batch in one transaction, then publish and mark each row *)

\* The Pending rows of a statement of relay r's claim transaction: the committed
\* ones it has not itself superseded.
PendingFor(r) == Pending \ stale[r]

\* The rows of R, those due, with no newer Pending row and no Publishing row of
\* their entity.
Claimable(r, R) ==
    {i \in PendingFor(r) \cap R :
        /\ \A j \in PendingFor(r) : Sibling(i, j) => j <= i
        /\ \A j \in Publishing : ~Sibling(i, j)}

\* Rows of S that a row of N has overtaken.
Overtaken(S, N) == {j \in S : \E i \in N : Sibling(i, j) /\ j < i}

\* Mutant: an expired lease is never picked up.
RipePending == {i \in Pending : due[i]}

\* Due Pending rows and Publishing rows whose lease has run out.
RipeNow == {i \in Pending : due[i]} \cup {i \in Publishing : expired[i]}

\* The claim transaction starts, and collapse_stale_pending_rows supersedes what
\* a bounded window of claimable rows has overtaken.  It waits for locked rows.
Collapse(r) ==
    LET overtaken == Overtaken(Pending, FirstN(Claimable(r, RipeNow), BatchLimit))
    IN /\ phase[r] = "idle"
       /\ ripe' = [ripe EXCEPT ![r] = RipeNow]
       /\ elder' = [elder EXCEPT ![r] = {w \in Writers : Open(w)}]
       /\ \A j \in overtaken : ~Locked(r, j)
       /\ stale' = [stale EXCEPT ![r] = overtaken]
       /\ phase' = [phase EXCEPT ![r] = "collapsed"]
       /\ UNCHANGED <<rowVars, domain, tx, cand, seen, batch, outcome, faults,
                      log>>

\* The claim statement takes its snapshot: its candidates are the claimable rows
\* and the Publishing rows whose lease has run out.
ClaimRead(r) ==
    /\ phase[r] = "collapsed"
    /\ cand' = [cand EXCEPT ![r] =
                   Claimable(r, ripe[r]) \cup (Publishing \cap ripe[r])]
    /\ seen' = [seen EXCEPT ![r] = PendingFor(r)]
    /\ elder' = [elder EXCEPT ![r] = {}]
    /\ phase' = [phase EXCEPT ![r] = "read"]
    /\ UNCHANGED <<rowVars, domain, tx, ripe, stale, batch, outcome, faults, log>>

\* Mutant: FOR UPDATE without SKIP LOCKED and without the re-read after it.
PicksUnlocked(r) == FirstN(cand[r], BatchLimit)

\* What FOR UPDATE SKIP LOCKED LIMIT leaves of the candidates.  One that changed
\* after the snapshot is re-read against the same now(): if it was superseded it
\* fails the status test, if it was claimed or marked it is no longer ripe.
Picks(r) ==
    FirstN({i \in cand[r] \cap ripe[r] : /\ status[i] \in {"Pending", "Publishing"}
                                        /\ ~Locked(r, i)}, BatchLimit)

\* A new lease or retry time lies after the now() of every open transaction.
Defer(S) == ripe' = [q \in Relays |-> ripe[q] \ S]

\* Mutant: the claim relies on the collapse that ran before it.
OvertakenByNone(r) == {}

\* The `superseded` CTE: what the picks have overtaken in the snapshot, if it is
\* still Pending once the lock on it is free.
OvertakenByPicks(r) == Overtaken(seen[r] \cap Pending, Picks(r))

ClaimWrite(r) ==
    /\ phase[r] = "read"
    /\ \A j \in OvertakenByPicks(r) : ~Locked(r, j)
    /\ batch' = [batch EXCEPT ![r] = Picks(r)]
    /\ stale' = [stale EXCEPT ![r] = @ \cup OvertakenByPicks(r)]
    /\ ripe' = [ripe EXCEPT ![r] = {}]
    /\ cand' = [cand EXCEPT ![r] = {}]
    /\ seen' = [seen EXCEPT ![r] = {}]
    /\ phase' = [phase EXCEPT ![r] = "claimed"]
    /\ UNCHANGED <<rowVars, domain, tx, elder, outcome, faults, log>>

ClaimCommit(r) ==
    /\ phase[r] = "claimed"
    /\ status' = [i \in Ids |-> IF i \in batch[r] THEN "Publishing"
                                ELSE IF i \in stale[r] THEN "Superseded"
                                ELSE status[i]]
    /\ claim' = [i \in Ids |-> IF i \in batch[r] THEN r ELSE claim[i]]
    /\ expired' = [i \in Ids |-> expired[i] /\ i \notin batch[r]]
    /\ Defer(batch[r])
    /\ stale' = [stale EXCEPT ![r] = {}]
    /\ phase' = [phase EXCEPT ![r] = IF batch[r] = {} THEN "idle" ELSE "sending"]
    /\ UNCHANGED <<entityOf, payload, due, nextOrder, domain, tx, elder, cand,
                   seen, batch, outcome, faults, log>>

\* publish_row: the snapshot is sent as one record, keyed by its entity, which
\* the broker appends or not.
PublishRow(i, appended) == log' = IF appended THEN Append(log, i) ELSE log

\* The claimed rows are sent one after another, oldest first.  The broker
\* appends and acknowledges, refuses, or appends and the answer is lost.
Publish(r) ==
    /\ phase[r] = "sending"
    /\ \E appended \in BOOLEAN, ok \in BOOLEAN :
          /\ ok => appended
          /\ PublishRow(Oldest(batch[r]), appended)
          /\ outcome' = [outcome EXCEPT ![r] = IF ok THEN "ok" ELSE "err"]
          /\ faults' = IF ok THEN faults ELSE faults + 1
    /\ faults' <= MaxFaults
    /\ phase' = [phase EXCEPT ![r] = "marking"]
    /\ UNCHANGED <<rowVars, domain, tx, ripe, elder, cand, seen, stale, batch>>

\* WHERE status = 'Publishing' AND claim_id = the relay's own.
Holds(r, i) == status[i] = "Publishing" /\ claim[i] = r

\* Mutant: a failed publish is marked like a good one.
MarkedAsPublished(ok) == "Published"

\* Published after an acknowledged publish, Pending again after a failed one.
MarkedAs(ok) == IF ok THEN "Published" ELSE "Pending"

\* mark_published or mark_publish_failed, by what the broker answered.  A mark
\* that no longer finds its claim (StaleClaim, Missing) changes nothing.
Mark(r) ==
    LET i == Oldest(batch[r])
        ok == outcome[r] = "ok"
    IN /\ phase[r] = "marking"
       /\ Holds(r, i) => ~LockedByClaim(r, i)
       /\ \/ /\ Holds(r, i)
             /\ status' = [status EXCEPT ![i] = MarkedAs(ok)]
             /\ due' = [due EXCEPT ![i] = ok /\ @]
             /\ claim' = [claim EXCEPT ![i] = Nobody]
             /\ expired' = [expired EXCEPT ![i] = FALSE]
             /\ Defer({i})
          \/ /\ ~Holds(r, i)
             /\ UNCHANGED <<status, due, claim, expired, ripe>>
       /\ batch' = [batch EXCEPT ![r] = @ \ {i}]
       /\ phase' = [phase EXCEPT ![r] = IF batch[r] = {i} THEN "idle"
                                                          ELSE "sending"]
       /\ outcome' = [outcome EXCEPT ![r] = "none"]
       /\ UNCHANGED <<entityOf, payload, nextOrder, domain, tx, elder, cand, seen,
                      stale, faults, log>>

\* The cycle ends early: the claim transaction or a mark failed (`marked?`
\* drops the rest of the batch), or the process died.  An open claim
\* transaction rolls back; committed claims stay until their lease expires.
Abandon(r) ==
    /\ phase[r] # "idle"
    /\ faults < MaxFaults
    /\ faults' = faults + 1
    /\ phase' = [phase EXCEPT ![r] = "idle"]
    /\ ripe' = [ripe EXCEPT ![r] = {}]
    /\ elder' = [elder EXCEPT ![r] = {}]
    /\ cand' = [cand EXCEPT ![r] = {}]
    /\ seen' = [seen EXCEPT ![r] = {}]
    /\ stale' = [stale EXCEPT ![r] = {}]
    /\ batch' = [batch EXCEPT ![r] = {}]
    /\ outcome' = [outcome EXCEPT ![r] = "none"]
    /\ UNCHANGED <<rowVars, domain, tx, log>>

\* A relay is still working through the batch that holds i.
Working(i) == \E r \in Relays : claim[i] = r /\ i \in batch[r]

\* A lease outlives nothing: it may run out under a relay that is still
\* publishing (counted as a fault), and does once its relay is gone.
LeaseExpire(i) ==
    /\ status[i] = "Publishing"
    /\ ~expired[i]
    /\ faults' = IF Working(i) THEN faults + 1 ELSE faults
    /\ faults' <= MaxFaults
    /\ expired' = [expired EXCEPT ![i] = TRUE]
    /\ UNCHANGED <<status, entityOf, payload, due, claim, nextOrder, domain, tx,
                   relayVars, log>>

\* retry_after has passed.
BecomeDue(i) ==
    /\ status[i] = "Pending"
    /\ ~due[i]
    /\ due' = [due EXCEPT ![i] = TRUE]
    /\ UNCHANGED <<status, entityOf, payload, claim, expired, nextOrder, domain,
                   tx, relayVars, faults, log>>

\* purge_outbox_once: a bounded batch of terminal rows old enough to go; which
\* ones are old enough is left open.
Purgeable == {i \in Ids : status[i] \in Reclaimed}

Purge(S) ==
    /\ S # {}
    /\ S \subseteq Purgeable
    /\ status' = [i \in Ids |-> IF i \in S THEN "Purged" ELSE status[i]]
    /\ UNCHANGED <<entityOf, payload, due, claim, expired, nextOrder, domain, tx,
                   relayVars, faults, log>>

-----------------------------------------------------------------------------
WriterNext(w) ==
    \/ \E iso \in Isolation : Begin(w, iso)
    \/ \E e \in Entities : \/ Enqueue(w, e)
                           \/ EnqueueRejected(w, e)
                           \/ ResyncLoad(w, e)
                           \/ ResyncEnqueue(w, e)
    \/ Commit(w)
    \/ Rollback(w)

RelayStep(r) == \/ Collapse(r) \/ ClaimRead(r) \/ ClaimWrite(r)
                \/ ClaimCommit(r) \/ Publish(r) \/ Mark(r)

Next ==
    \/ \E w \in Writers : WriterNext(w)
    \/ \E r \in Relays : RelayStep(r) \/ Abandon(r)
    \/ \E i \in Ids : LeaseExpire(i) \/ BecomeDue(i)
    \/ \E S \in SUBSET Ids : Purge(S)

Spec == Init /\ [][Next]_vars

\* Relays keep cycling, time passes, and application transactions end.
Fairness ==
    /\ \A r \in Relays : WF_vars(RelayStep(r))
    /\ \A i \in Ids : WF_vars(LeaseExpire(i)) /\ WF_vars(BecomeDue(i))
    /\ \A w \in Writers : WF_vars(Commit(w) \/ Rollback(w))

FairSpec == Spec /\ Fairness

-----------------------------------------------------------------------------
(* Properties *)

\* Every column, transaction and relay variable has its type.
TypeOK ==
    /\ status \in [Ids -> Statuses]
    /\ entityOf \in [Ids -> Entities]
    /\ payload \in [Ids -> States]
    /\ due \in [Ids -> BOOLEAN]
    /\ claim \in [Ids -> Relays \cup {Nobody}]
    /\ expired \in [Ids -> BOOLEAN]
    /\ nextOrder \in 1 .. MaxRows + 1
    /\ domain \in [Entities -> States]
    /\ tx \in [Writers -> Txs]
    /\ phase \in [Relays -> Phases]
    /\ ripe \in [Relays -> SUBSET Ids]
    /\ elder \in [Relays -> SUBSET Writers]
    /\ cand \in [Relays -> SUBSET Ids]
    /\ seen \in [Relays -> SUBSET Ids]
    /\ stale \in [Relays -> SUBSET Ids]
    /\ batch \in [Relays -> SUBSET Ids]
    /\ outcome \in [Relays -> {"none", "ok", "err"}]
    /\ faults \in 0 .. MaxFaults
    /\ log \in Seq(Ids)

\* No snapshot is lost: the newest state committed for an entity is waiting in
\* the outbox, in flight, or already in the topic.  It survives supersession,
\* failed and ambiguous publishes, abandoned batches, lost leases and purges.
NewestNotLost ==
    \A i \in Ids :
        Accepted(i) /\ (\A j \in Ids : Accepted(j) /\ Sibling(i, j) => j <= i)
        => status[i] \in {"Pending", "Publishing"} \/ i \in Logged

\* The newest row of an entity carries the state its owner last committed, so a
\* resync that raced a live write never buries that write under the older state
\* it loaded (resync takes the entity lock before it loads).
NewestCarriesState ==
    \A i \in Ids :
        Accepted(i) /\ (\A j \in Ids : Accepted(j) /\ Sibling(i, j) => j <= i)
        => payload[i] = domain[entityOf[i]]

\* Rows of an entity are committed in enqueue_order, whatever the isolation
\* level and start order of the transactions: the ordinal the relay sorts and
\* supersedes by is commit order because INSERT draws it under the entity lock.
CommitsInEnqueueOrder ==
    [][\A i, j \in Ids :
          Accepted(i) /\ ~Accepted(j) /\ Accepted(j)' /\ Sibling(i, j)' => i < j]_vars

\* A row reaches the topic a second time only after something went wrong: every
\* extra copy is paid for by a failed or unanswered publish, a cut-short cycle
\* or a lease that ran out under its relay.  Two relays polling one table do not
\* duplicate messages by themselves.
DuplicatesNeedFaults == Len(log) <= Cardinality(Logged) + faults

\* The topic carries each entity's rows in enqueue order, so a consumer that
\* keeps the highest offset keeps the newest state.
LogOrder ==
    \A k, l \in 1 .. Len(log) :
        k < l /\ Sibling(log[k], log[l]) => log[k] <= log[l]

\* Every committed state reaches the topic or is replaced by a later one, and
\* that one reaches it: nothing waits in the outbox for ever.
EventuallyAnnounced ==
    \A e \in Entities, v \in Ids :
        domain[e] = v ~> \/ domain[e] # v
                         \/ \E i \in Logged : entityOf[i] = e /\ payload[i] = v

\* The state a compacted topic retains for an entity.
Retained(e) ==
    LET at == {k \in 1 .. Len(log) : entityOf[log[k]] = e}
    IN IF at = {} THEN 0
       ELSE payload[log[CHOOSE k \in at : \A l \in at : l <= k]]

Topic == INSTANCE SnapshotTopic WITH MaxState <- MaxRows,
                                     tail <- [e \in Entities |-> Retained(e)]

\* With one relay the outbox implements the promise of SnapshotTopic: per entity
\* the topic never steps back and ends on the owner's current state.
ImplementsSnapshotTopic == Topic!Spec
=============================================================================
