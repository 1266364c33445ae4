------------------------------ MODULE Dispatch ------------------------------
(***************************************************************************)
(* The dispatcher: rows of the received table are claimed one at a time,   *)
(* applied to the entity cache behind an offset guard, handed to the       *)
(* application's handlers and marked processed, all in one transaction;    *)
(* a failure is unwound to a savepoint and recorded for retry, until the   *)
(* attempts run out and the row waits for an operator to redrive it.       *)
(*                                                                         *)
(* Transactions are READ COMMITTED.  A row lock is held from the claim to  *)
(* the end of the transaction; the cache upsert locks the entity's cache   *)
(* row even when its WHERE clause writes nothing.                          *)
(***************************************************************************)
EXTENDS Integers, FiniteSets

CONSTANTS
    Rows,           \* messages, numbered in created_at order
    Rec,            \* per row: its entity, topic, partition, offset and entity key
    Declared,       \* the topic the message type declares
    Outcomes,       \* per row, what its handlers may do: see Results
    Dispatchers,
    Unrouted,       \* dispatchers deployed without a handler for the type
    MaxAttempts,    \* RetryPolicy::max_attempts
    PanicLimit,     \* max_consecutive_panicking_rows
    FaultKinds,     \* which of "abort", "crash", "savepoint", "answer" occur
    MaxFaults,      \* bound: how many of them
    MaxRedrives     \* bound: redrives by operators

Entities == {Rec[r].entity : r \in Rows}
Results == {"ok", "skip", "error", "panic"}

\* How a handler fails: it returns an error, or unwinds and is caught.
Failures == {"error", "panic"}
NoRow == 0

ASSUME RowsAssumption == Rows \subseteq Nat \ {NoRow}
ASSUME RecAssumption == \A r \in Rows : Rec[r].offset \in Nat
ASSUME OutcomesAssumption == Outcomes \in [Rows -> SUBSET Results]
ASSUME DispatchersAssumption == IsFiniteSet(Dispatchers) /\ Dispatchers # {}
ASSUME MaxAttemptsAssumption == MaxAttempts \in Nat \ {0}
ASSUME PanicLimitAssumption == PanicLimit \in Nat \ {0}
ASSUME MaxFaultsAssumption == MaxFaults \in Nat
ASSUME MaxRedrivesAssumption == MaxRedrives \in Nat

VARIABLES
    status,     \* per row; "absent" until the ingester stores it
    attempts,   \* per row
    ready,      \* the Retryable rows whose next_attempt_at has come
    cache,      \* per entity: the row it was last written from, or NoRow
    runs,       \* per row: how often its handlers' writes were committed
    phase,      \* where each dispatcher is in dispatch_once
    job,        \* the row it has claimed
    seen,       \* the row's attempts as the claim read them
    draft,      \* what its uncommitted cache upsert did
    fate,       \* why its dispatch failed
    streak,     \* panicking_rows
    panicked,   \* the rows that ever panicked
    faults,
    redrives

rowVars == <<status, attempts, ready, cache, runs>>
workVars == <<phase, job, seen, draft, fate, streak, panicked>>
vars == <<rowVars, workVars, faults, redrives>>

Statuses == {"absent", "Pending", "Retryable", "Processed", "Failed"}
Phases == {"idle", "claimed", "applied", "failing", "late", "stopped"}
Applies == {"none", "Applied", "Ignored", "Migrated"}
Fates == {"none", "error", "panic", "terminal", "unrouted"}

Init ==
    /\ status = [r \in Rows |-> "absent"]
    /\ attempts = [r \in Rows |-> 0]
    /\ ready = {}
    /\ cache = [e \in Entities |-> NoRow]
    /\ runs = [r \in Rows |-> 0]
    /\ phase = [d \in Dispatchers |-> "idle"]
    /\ job = [d \in Dispatchers |-> NoRow]
    /\ seen = [d \in Dispatchers |-> 0]
    /\ draft = [d \in Dispatchers |-> "none"]
    /\ fate = [d \in Dispatchers |-> "none"]
    /\ streak = [d \in Dispatchers |-> {}]
    /\ panicked = {}
    /\ faults = 0
    /\ redrives = 0

Fault(kind) == kind \in FaultKinds /\ faults < MaxFaults /\ faults' = faults + 1

-----------------------------------------------------------------------------
(* Around the dispatcher *)

\* The ingester's transaction commits; created_at was drawn when it began, so
\* rows need not appear in created_at order, nor in offset order.
Arrive(r) ==
    /\ status[r] = "absent"
    /\ status' = [status EXCEPT ![r] = "Pending"]
    /\ UNCHANGED <<attempts, ready, cache, runs, workVars, faults, redrives>>

\* next_attempt_at comes.  The backoff counts from the claim, so it may be over
\* as soon as the failure is recorded.
RetryDue(r) ==
    /\ status[r] = "Retryable" /\ r \notin ready
    /\ ready' = ready \cup {r}
    /\ UNCHANGED <<status, attempts, cache, runs, workVars, faults, redrives>>

\* The rows under a claim's lock.
Locked == {job[d] : d \in {x \in Dispatchers : phase[x] \in {"claimed", "applied", "failing"}}}

\* redrive_received: some of the Failed rows, by filter and max_rows, become
\* Pending; with clear_history their attempts start over.
Redrive(rows, clear) ==
    /\ redrives < MaxRedrives
    /\ rows # {}
    /\ \A r \in rows : status[r] = "Failed" /\ r \notin Locked
    /\ status' = [r \in Rows |-> IF r \in rows THEN "Pending" ELSE status[r]]
    /\ attempts' = [r \in Rows |-> IF clear /\ r \in rows THEN 0 ELSE attempts[r]]
    /\ redrives' = redrives + 1
    /\ UNCHANGED <<ready, cache, runs, workVars, faults>>

-----------------------------------------------------------------------------
(* The offset guard *)

Origin(r) == <<Rec[r].topic, Rec[r].partition>>

\* Mutant: the guard compares offsets across partitions and topics.
CacheApplyUnguarded(current, r) ==
    IF current = NoRow \/ Rec[r].offset > Rec[current].offset THEN "Applied" ELSE "Ignored"

\* upsert_cache_from_received and, when it wrote nothing,
\* classify_skipped_cache_apply and migrate_cache_origin.  The upsert holds the
\* cache row's lock, so all of them see the same current row.
CacheApply(current, r) ==
    IF current = NoRow THEN "Applied"
    ELSE IF Origin(current) = Origin(r)
         THEN IF Rec[r].offset > Rec[current].offset THEN "Applied" ELSE "Ignored"
    ELSE IF Rec[current].topic = Rec[r].topic THEN "Mismatch"
    ELSE IF Rec[r].topic = Declared THEN "Migrated"
    ELSE IF Rec[current].topic = Declared THEN "Ignored"
    ELSE "Mismatch"

-----------------------------------------------------------------------------
(* One cycle of run_dispatcher *)

\* Mutant: a Retryable row is never due.
ClaimablePending(r) == status[r] = "Pending"

Claimable(r) == status[r] = "Pending" \/ (status[r] = "Retryable" /\ r \in ready)

\* claim_received_row takes the oldest due row nobody holds.  A dispatcher with
\* no handler for the type goes on to record that, with no savepoint.
Claim(d) ==
    \E r \in Rows \ Locked :
        /\ phase[d] = "idle"
        /\ Claimable(r)
        /\ \A older \in Rows \ Locked : Claimable(older) => r <= older
        /\ job' = [job EXCEPT ![d] = r]
        /\ seen' = [seen EXCEPT ![d] = attempts[r]]
        /\ phase' = [phase EXCEPT ![d] = IF d \in Unrouted THEN "failing" ELSE "claimed"]
        /\ fate' = [fate EXCEPT ![d] = IF d \in Unrouted THEN "unrouted" ELSE "none"]
        /\ UNCHANGED <<rowVars, draft, streak, panicked, faults, redrives>>

\* A failure inside the savepoint; fate decides how it is recorded.
FailWith(d, why) ==
    /\ phase' = [phase EXCEPT ![d] = "failing"]
    /\ fate' = [fate EXCEPT ![d] = why]
    /\ draft' = [draft EXCEPT ![d] = "none"]
    /\ panicked' = IF why = "panic" THEN panicked \cup {job[d]} ELSE panicked
    /\ UNCHANGED <<rowVars, job, seen, streak, faults, redrives>>

\* Mutant: the upsert takes no lock on the cache row.
CacheLockedNever(d, e) == FALSE

\* The cache row of the entity is locked by a dispatcher between its upsert and
\* the end of its transaction.
CacheLocked(d, e) ==
    \E other \in Dispatchers \ {d} : phase[other] = "applied" /\ Rec[job[other]].entity = e

\* The before hook fails.
BeforeFails(d) ==
    /\ phase[d] = "claimed"
    /\ \E why \in Outcomes[job[d]] \cap Failures : FailWith(d, why)

\* The hook is through; the entity key does not resolve, or the guard finds the
\* cache row at an origin that was not authorised.
ApplyFails(d) ==
    LET r == job[d] e == Rec[job[d]].entity
    IN /\ phase[d] = "claimed"
       /\ Outcomes[r] \cap {"ok", "skip"} # {}
       /\ \/ Rec[r].key # "valid"
          \/ ~CacheLocked(d, e) /\ CacheApply(cache[e], r) = "Mismatch"
       /\ FailWith(d, "terminal")

\* The hook is through and the upsert succeeds, waiting for the cache row if
\* another transaction holds it.
Apply(d) ==
    LET r == job[d] e == Rec[job[d]].entity
    IN /\ phase[d] = "claimed"
       /\ Outcomes[r] \cap {"ok", "skip"} # {}
       /\ Rec[r].key = "valid"
       /\ ~CacheLocked(d, e)
       /\ CacheApply(cache[e], r) # "Mismatch"
       /\ draft' = [draft EXCEPT ![d] = CacheApply(cache[e], r)]
       /\ phase' = [phase EXCEPT ![d] = "applied"]
       /\ UNCHANGED <<rowVars, job, seen, fate, streak, panicked, faults, redrives>>

\* The after handler fails; it only runs for a record that moved the cache.
HandlerFails(d) ==
    /\ phase[d] = "applied"
    /\ draft[d] # "Ignored"
    /\ \E why \in Outcomes[job[d]] \cap Failures : FailWith(d, why)

\* Mutant: the streak counts panics, not rows.
StreakOfPanics(d) ==
    IF fate[d] = "panic" THEN streak[d] \cup {Cardinality(streak[d]) + 1} ELSE {}

\* What a finished cycle leaves of panicking_rows: a panicking row joins it, any
\* other claim clears it.
Streak(d) == IF fate[d] = "panic" THEN streak[d] \cup {job[d]} ELSE {}

Trips(d) == fate[d] = "panic" /\ Cardinality(Streak(d)) >= PanicLimit

\* dispatch_once returns its stats to the loop, which may stop on them; or its
\* commit succeeds and the answer is lost, and the loop sees an error.
Return(d) ==
    /\ job' = [job EXCEPT ![d] = NoRow]
    /\ seen' = [seen EXCEPT ![d] = 0]
    /\ draft' = [draft EXCEPT ![d] = "none"]
    /\ fate' = [fate EXCEPT ![d] = "none"]
    /\ \/ /\ phase' = [phase EXCEPT ![d] = IF Trips(d) THEN "stopped" ELSE "idle"]
          /\ streak' = [streak EXCEPT ![d] = Streak(d)]
          /\ UNCHANGED faults
       \/ /\ phase' = [phase EXCEPT ![d] = "idle"]
          /\ Fault("answer")
          /\ UNCHANGED streak
    /\ UNCHANGED <<panicked, redrives>>

\* mark_received_processed and the commit: the mark, the cache row and the
\* handlers' writes become visible together.
Commit(d) ==
    LET r == job[d] e == Rec[job[d]].entity
    IN /\ phase[d] = "applied"
       /\ draft[d] # "Ignored" => Outcomes[r] \cap {"ok", "skip"} # {}
       /\ status' = [status EXCEPT ![r] = "Processed"]
       /\ cache' = [cache EXCEPT ![e] = IF draft[d] = "Ignored" THEN @ ELSE r]
       /\ runs' = [runs EXCEPT ![r] = @ + 1]
       /\ Return(d)
       /\ UNCHANGED <<attempts, ready>>

\* Mutant: the budget ends one attempt late.
ExhaustedLate(d) == fate[d] = "terminal" \/ seen[d] >= MaxAttempts

\* received_retry_outcome, from the attempts the claim read.
Exhausted(d) == fate[d] = "terminal" \/ seen[d] + 1 >= MaxAttempts

\* Mutant: the failure is recorded whatever the row's status has become.
RecordFailureAlways(d) ==
    /\ status' = [status EXCEPT ![job[d]] = IF Exhausted(d) THEN "Failed" ELSE "Retryable"]
    /\ attempts' = [attempts EXCEPT ![job[d]] = @ + 1]
    /\ ready' = ready \ {job[d]}

\* record_received_failure: an UPDATE of a row that is still Pending or Retryable.
RecordFailure(d) ==
    LET r == job[d]
    IN IF status[r] \in {"Pending", "Retryable"}
       THEN /\ status' = [status EXCEPT ![r] = IF Exhausted(d) THEN "Failed" ELSE "Retryable"]
            /\ attempts' = [attempts EXCEPT ![r] = @ + 1]
            /\ ready' = ready \ {r}
       ELSE UNCHANGED <<status, attempts, ready>>

\* Mutant: the failure is recorded without rolling the handlers' writes back.
RecordWithWrites(d) ==
    /\ phase[d] = "failing"
    /\ RecordFailure(d)
    /\ Return(d)
    /\ runs' = [runs EXCEPT ![job[d]] = @ + 1]
    /\ UNCHANGED cache

\* record_failure_in_claim_tx, or the rollback to the savepoint followed by the
\* record: the claim's transaction commits the failure.
Record(d) ==
    /\ phase[d] = "failing"
    /\ RecordFailure(d)
    /\ Return(d)
    /\ UNCHANGED <<cache, runs>>

\* The rollback to the savepoint fails: the transaction and its locks are gone
\* before the failure is recorded.
SavepointFails(d) ==
    /\ phase[d] = "failing" /\ fate[d] # "unrouted"
    /\ Fault("savepoint")
    /\ phase' = [phase EXCEPT ![d] = "late"]
    /\ UNCHANGED <<rowVars, job, seen, draft, fate, streak, panicked, redrives>>

\* The record on a fresh connection waits for whoever holds the row by then.
RecordLate(d) ==
    /\ phase[d] = "late"
    /\ job[d] \notin Locked
    /\ RecordFailure(d)
    /\ Return(d)
    /\ UNCHANGED <<cache, runs>>

\* Forget the claim: the transaction is rolled back.
Drop(d) ==
    /\ job' = [job EXCEPT ![d] = NoRow]
    /\ seen' = [seen EXCEPT ![d] = 0]
    /\ draft' = [draft EXCEPT ![d] = "none"]
    /\ fate' = [fate EXCEPT ![d] = "none"]
    /\ phase' = [phase EXCEPT ![d] = "idle"]
    /\ UNCHANGED <<rowVars, panicked, redrives>>

\* A database error ends the cycle; the loop logs it and goes on.
Abort(d) ==
    /\ phase[d] \in {"claimed", "applied", "failing", "late"}
    /\ Fault("abort")
    /\ Drop(d)
    /\ UNCHANGED streak

\* The process dies and is started again.
Crash(d) ==
    /\ phase[d] \in {"claimed", "applied", "failing", "late"}
    /\ Fault("crash")
    /\ Drop(d)
    /\ streak' = [streak EXCEPT ![d] = {}]

\* A service whose breaker tripped is started again.
Restart(d) ==
    /\ phase[d] = "stopped"
    /\ Drop(d)
    /\ streak' = [streak EXCEPT ![d] = {}]
    /\ UNCHANGED faults

Cycle(d) ==
    \/ Claim(d) \/ BeforeFails(d) \/ ApplyFails(d) \/ Apply(d) \/ HandlerFails(d)
    \/ Commit(d) \/ Record(d) \/ RecordLate(d)

Next ==
    \/ \E r \in Rows : Arrive(r) \/ RetryDue(r)
    \/ \E rows \in SUBSET Rows, clear \in BOOLEAN : Redrive(rows, clear)
    \/ \E d \in Dispatchers : Cycle(d) \/ SavepointFails(d) \/ Abort(d) \/ Crash(d) \/ Restart(d)

Spec == Init /\ [][Next]_vars

\* The loop never waits on anything but its poll interval, time passes, and a
\* stopped service is started again.
Fairness ==
    /\ \A d \in Dispatchers : WF_vars(Cycle(d)) /\ WF_vars(Restart(d))
    /\ \A r \in Rows : WF_vars(RetryDue(r))

FairSpec == Spec /\ Fairness

-----------------------------------------------------------------------------
(* Properties *)

\* Every variable has its type.
TypeOK ==
    /\ status \in [Rows -> Statuses]
    /\ attempts \in [Rows -> Nat]
    /\ ready \subseteq Rows
    /\ cache \in [Entities -> Rows \cup {NoRow}]
    /\ runs \in [Rows -> Nat]
    /\ phase \in [Dispatchers -> Phases]
    /\ job \in [Dispatchers -> Rows \cup {NoRow}]
    /\ seen \in [Dispatchers -> Nat]
    /\ draft \in [Dispatchers -> Applies]
    /\ fate \in [Dispatchers -> Fates]
    /\ streak \in [Dispatchers -> SUBSET Rows]
    /\ panicked \subseteq Rows
    /\ faults \in 0 .. MaxFaults
    /\ redrives \in 0 .. MaxRedrives

\* A row's handlers take effect exactly once, and exactly when the row is
\* Processed: not for an attempt that failed, was dropped, raced a late failure
\* record or was redriven.
EffectsOnce == \A r \in Rows : runs[r] = IF status[r] = "Processed" THEN 1 ELSE 0

\* The cache shows the newest Processed state of the entity: a Processed row's
\* offset is not above the cached one's within an origin, and another origin's
\* state stands above it only on the declared topic.
CacheCoversProcessed ==
    \A r \in Rows : status[r] = "Processed" =>
        LET current == cache[Rec[r].entity]
        IN /\ current # NoRow
           /\ status[current] = "Processed"
           /\ \/ Origin(current) = Origin(r) /\ Rec[current].offset >= Rec[r].offset
              \/ Rec[current].topic = Declared /\ Rec[r].topic # Declared

\* The cache of an entity moves to a higher offset of its own origin, or once
\* from another topic to the declared one; it never goes back.
CacheMovesForward ==
    [][\A e \in Entities : cache'[e] # cache[e] /\ cache[e] # NoRow =>
          \/ Origin(cache'[e]) = Origin(cache[e])
             /\ Rec[cache'[e]].offset > Rec[cache[e]].offset
          \/ Rec[cache'[e]].topic = Declared /\ Rec[cache[e]].topic # Declared]_cache

\* A row is tried again only while its budget lasts.  A failure recorded late
\* may overrun it, by one for each other dispatcher and each redrive.
BudgetKept ==
    \A r \in Rows : status[r] = "Retryable" =>
        attempts[r] < MaxAttempts
                      + IF "savepoint" \in FaultKinds
                        THEN Cardinality(Dispatchers) - 1 + redrives ELSE 0

\* A dispatcher stops only when that many different rows have panicked: one
\* poison row is left to its retry budget.
StopsOnDistinctRows ==
    \A d \in Dispatchers : phase[d] = "stopped" => Cardinality(panicked) >= PanicLimit

\* A settled row stays settled: Processed for good, Failed until an operator
\* redrives it.  A failure recorded late does not bring it back.
SettledRows ==
    [][\A r \in Rows :
          /\ status[r] = "Processed" => status'[r] = "Processed"
          /\ status[r] = "Failed" /\ status'[r] # "Failed" =>
                status'[r] = "Pending" /\ redrives' = redrives + 1]_vars

\* Every stored row is settled in the end.
EventuallySettled ==
    \A r \in Rows : status[r] # "absent" ~> status[r] \in {"Processed", "Failed"}
=============================================================================
