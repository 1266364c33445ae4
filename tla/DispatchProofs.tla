--------------------------- MODULE DispatchProofs ---------------------------
(***************************************************************************)
(* Proofs about the dispatcher, for any rows, entities, origins, numbers of *)
(* dispatchers, faults and redrives.                                       *)
(***************************************************************************)
EXTENDS Dispatch, FiniteSetTheorems, TLAPS

\* The phases in which a dispatcher's transaction holds its row.
Holding == {"claimed", "applied", "failing"}

\* The inductive invariant, around CacheCoversProcessed and EffectsOnce: a held
\* row is open and held once, an applied draft is what the guard says of the
\* cache as it still is, and a cache row comes from a Processed row.
LockInv ==
    /\ \A d \in Dispatchers : phase[d] \in Holding \cup {"late"} => job[d] \in Rows
    /\ \A d \in Dispatchers : phase[d] \in Holding => status[job[d]] \in {"Pending", "Retryable"}
    /\ \A d, b \in Dispatchers :
          phase[d] \in Holding /\ phase[b] \in Holding /\ d # b => job[d] # job[b]

DraftInv ==
    /\ \A d \in Dispatchers : phase[d] = "applied" =>
          /\ draft[d] = CacheApply(cache[Rec[job[d]].entity], job[d])
          /\ draft[d] # "Mismatch"
    /\ \A d, b \in Dispatchers : phase[d] = "applied" /\ phase[b] = "applied" /\ d # b =>
          Rec[job[d]].entity # Rec[job[b]].entity

CacheInv ==
    /\ \A e \in Entities : cache[e] # NoRow =>
          status[cache[e]] = "Processed" /\ Rec[cache[e]].entity = e
    /\ CacheCoversProcessed

IInv == TypeOK /\ LockInv /\ DraftInv /\ CacheInv /\ EffectsOnce

\* The initial state satisfies the invariant.
LEMMA InitInv == Init => IInv
  <1> SUFFICES ASSUME Init PROVE IInv
    BY Zenon
  <1>1. TypeOK
    BY RowsAssumption, MaxFaultsAssumption, MaxRedrivesAssumption
       DEF Init, TypeOK, Statuses, Phases, Applies, Fates
  <1>2. LockInv /\ DraftInv
    BY Zenon DEF Init, LockInv, DraftInv, Holding
  <1>3. CacheInv /\ EffectsOnce
    BY Zenon DEF Init, CacheInv, CacheCoversProcessed, EffectsOnce
  <1> QED BY <1>1, <1>2, <1>3, Zenon DEF IInv

-----------------------------------------------------------------------------
(* Types *)

\* A fault keeps its counter within the bound.
LEMMA FaultCounted ==
    ASSUME NEW kind, faults \in 0 .. MaxFaults, Fault(kind)
    PROVE  faults' \in 0 .. MaxFaults
  BY MaxFaultsAssumption DEF Fault

\* The end of a cycle keeps the types of the dispatcher's state.
LEMMA ReturnTypes ==
    ASSUME TypeOK, NEW d \in Dispatchers, job[d] \in Rows, Return(d)
    PROVE  /\ phase' \in [Dispatchers -> Phases]
           /\ job' \in [Dispatchers -> Rows \cup {NoRow}]
           /\ seen' \in [Dispatchers -> Nat]
           /\ draft' \in [Dispatchers -> Applies]
           /\ fate' \in [Dispatchers -> Fates]
           /\ streak' \in [Dispatchers -> SUBSET Rows]
           /\ panicked' \subseteq Rows
           /\ faults' \in 0 .. MaxFaults
           /\ redrives' \in 0 .. MaxRedrives
  <1>1. Streak(d) \in SUBSET Rows
    BY Zenon DEF Streak, TypeOK
  <1>2. streak' \in [Dispatchers -> SUBSET Rows]
    BY <1>1, Zenon DEF Return, TypeOK
  <1>3. phase' \in [Dispatchers -> Phases]
    BY Zenon DEF Return, TypeOK, Phases
  <1>4. faults' \in 0 .. MaxFaults
    BY FaultCounted, Zenon DEF Return, TypeOK
  <1> QED BY <1>2, <1>3, <1>4, Zenon DEF Return, TypeOK, Applies, Fates

\* Recording a failure keeps the types of the row.
LEMMA RecordTypes ==
    ASSUME TypeOK, NEW d \in Dispatchers, job[d] \in Rows, RecordFailure(d)
    PROVE  status' \in [Rows -> Statuses] /\ attempts' \in [Rows -> Nat] /\ ready' \subseteq Rows
  BY DEF RecordFailure, TypeOK, Statuses

\* A failure inside the savepoint keeps the types.
LEMMA FailTypes ==
    ASSUME TypeOK, NEW d \in Dispatchers, job[d] \in Rows,
           NEW why \in {"error", "panic", "terminal"}, FailWith(d, why)
    PROVE  TypeOK'
  <1>1. phase' \in [Dispatchers -> Phases] /\ fate' \in [Dispatchers -> Fates]
        /\ draft' \in [Dispatchers -> Applies]
    BY Zenon DEF FailWith, TypeOK, Phases, Fates, Applies
  <1>2. panicked' \subseteq Rows
    BY Zenon DEF FailWith, TypeOK
  <1> QED BY <1>1, <1>2, Zenon DEF FailWith, TypeOK, rowVars

\* The guard answers with an outcome or a mismatch.
LEMMA GuardTypes ==
    ASSUME NEW current, NEW r
    PROVE  CacheApply(current, r) \in {"Applied", "Ignored", "Migrated", "Mismatch"}
  BY Zenon DEF CacheApply

\* Dropping a claim keeps the types.
LEMMA DropTypes ==
    ASSUME TypeOK, NEW d \in Dispatchers, Drop(d), faults' \in 0 .. MaxFaults,
           streak' = streak \/ streak' = [streak EXCEPT ![d] = {}]
    PROVE  TypeOK'
  <1>1. streak' \in [Dispatchers -> SUBSET Rows]
    BY Zenon DEF TypeOK
  <1> QED BY <1>1, Zenon DEF Drop, TypeOK, Phases, Applies, Fates, rowVars

\* Every step keeps the types.
LEMMA TypeStep == TypeOK /\ LockInv /\ [Next]_vars => TypeOK'
  <1> SUFFICES ASSUME TypeOK, LockInv, [Next]_vars PROVE TypeOK'
    BY Zenon
  <1>1. ASSUME NEW r \in Rows, Arrive(r) \/ RetryDue(r) PROVE TypeOK'
    BY <1>1, Zenon DEF Arrive, RetryDue, TypeOK, Statuses, workVars
  <1>2. ASSUME NEW rows \in SUBSET Rows, NEW clear \in BOOLEAN, Redrive(rows, clear) PROVE TypeOK'
    <2>1. status' \in [Rows -> Statuses] /\ attempts' \in [Rows -> Nat]
      BY <1>2, Zenon DEF Redrive, TypeOK, Statuses
    <2>2. redrives' \in 0 .. MaxRedrives
      BY <1>2, MaxRedrivesAssumption DEF Redrive, TypeOK
    <2> QED BY <1>2, <2>1, <2>2, Zenon DEF Redrive, TypeOK, workVars
  <1>3. ASSUME NEW d \in Dispatchers, Claim(d) PROVE TypeOK'
    <2>1. PICK r \in Rows : /\ job' = [job EXCEPT ![d] = r]
                            /\ seen' = [seen EXCEPT ![d] = attempts[r]]
                            /\ phase' = [phase EXCEPT ![d] = IF d \in Unrouted THEN "failing" ELSE "claimed"]
                            /\ fate' = [fate EXCEPT ![d] = IF d \in Unrouted THEN "unrouted" ELSE "none"]
                            /\ UNCHANGED <<rowVars, draft, streak, panicked, faults, redrives>>
      BY <1>3, Zenon DEF Claim
    <2> QED BY <2>1, Zenon DEF TypeOK, Phases, Fates, rowVars
  <1>4. ASSUME NEW d \in Dispatchers, BeforeFails(d) \/ ApplyFails(d) \/ HandlerFails(d) PROVE TypeOK'
    <2>1. job[d] \in Rows
      BY <1>4, Zenon DEF BeforeFails, ApplyFails, HandlerFails, Failures, LockInv, Holding
    <2>2. \E why \in {"error", "panic", "terminal"} : FailWith(d, why)
      BY <1>4, Zenon DEF BeforeFails, ApplyFails, HandlerFails, Failures
    <2> QED BY <2>1, <2>2, FailTypes, Zenon
  <1>5. ASSUME NEW d \in Dispatchers, Apply(d) PROVE TypeOK'
    <2>1. CacheApply(cache[Rec[job[d]].entity], job[d]) \in Applies
      BY <1>5, GuardTypes, Zenon DEF Apply, Applies
    <2>2. draft' \in [Dispatchers -> Applies] /\ phase' \in [Dispatchers -> Phases]
      BY <1>5, <2>1, Zenon DEF Apply, TypeOK, Phases
    <2> QED BY <1>5, <2>2, Zenon DEF Apply, TypeOK, rowVars
  <1>6. ASSUME NEW d \in Dispatchers, Commit(d) PROVE TypeOK'
    <2>1. job[d] \in Rows /\ Return(d)
      BY <1>6, Zenon DEF Commit, LockInv, Holding
    <2>2. status' \in [Rows -> Statuses] /\ runs' \in [Rows -> Nat]
          /\ cache' \in [Entities -> Rows \cup {NoRow}]
      BY <1>6, <2>1 DEF Commit, TypeOK, Statuses, Entities
    <2> QED BY <1>6, <2>1, <2>2, ReturnTypes, Zenon DEF Commit, TypeOK
  <1>7. ASSUME NEW d \in Dispatchers, Record(d) \/ RecordLate(d) PROVE TypeOK'
    <2>1. job[d] \in Rows /\ Return(d) /\ RecordFailure(d) /\ UNCHANGED <<cache, runs>>
      BY <1>7, Zenon DEF Record, RecordLate, LockInv, Holding
    <2> QED BY <2>1, RecordTypes, ReturnTypes, Zenon DEF TypeOK
  <1>8. ASSUME NEW d \in Dispatchers, SavepointFails(d) PROVE TypeOK'
    BY <1>8, FaultCounted, Zenon DEF SavepointFails, TypeOK, Phases, rowVars
  <1>9. ASSUME NEW d \in Dispatchers, Abort(d) \/ Crash(d) \/ Restart(d) PROVE TypeOK'
    <2>1. faults' \in 0 .. MaxFaults
      BY <1>9, FaultCounted, Zenon DEF Abort, Crash, Restart, TypeOK
    <2> QED BY <1>9, <2>1, DropTypes, Zenon DEF Abort, Crash, Restart
  <1>10. CASE UNCHANGED vars
    BY <1>10, Zenon DEF vars, rowVars, workVars, TypeOK
  <1> QED BY <1>1, <1>2, <1>3, <1>4, <1>5, <1>6, <1>7, <1>8, <1>9, <1>10, Zenon DEF Next, Cycle

-----------------------------------------------------------------------------
(* Locks *)

\* A row that is not locked is held by nobody.
LEMMA NotLocked ==
    ASSUME NEW r, r \notin Locked, NEW d \in Dispatchers, phase[d] \in Holding
    PROVE  job[d] # r
  BY Zenon DEF Locked, Holding

\* Letting go of a row, or keeping it while its status stays open, keeps the
\* lock invariant.
LEMMA LockFrame ==
    ASSUME LockInv,
           \A b \in Dispatchers : phase'[b] \in Holding \cup {"late"} =>
               /\ phase[b] \in Holding \cup {"late"}
               /\ job'[b] = job[b],
           \A b \in Dispatchers : phase'[b] \in Holding => phase[b] \in Holding,
           \A b \in Dispatchers : phase'[b] \in Holding =>
               status'[job[b]] \in {"Pending", "Retryable"}
    PROVE  LockInv'
  BY DEF LockInv, Holding

\* After a cycle ends, its dispatcher holds nothing and the others are as before.
LEMMA ReturnFrees ==
    ASSUME TypeOK, NEW d \in Dispatchers, Return(d)
    PROVE  /\ phase'[d] \in {"idle", "stopped"}
           /\ \A b \in Dispatchers \ {d} : phase'[b] = phase[b] /\ job'[b] = job[b] /\ draft'[b] = draft[b]
  BY Zenon DEF Return, TypeOK

\* Recording a failure touches one row, which was open and is not Processed.
LEMMA RecordOneRow ==
    ASSUME TypeOK, NEW d \in Dispatchers, job[d] \in Rows, RecordFailure(d)
    PROVE  /\ \A r \in Rows \ {job[d]} : status'[r] = status[r]
           /\ status'[job[d]] # status[job[d]] =>
                 /\ status[job[d]] \in {"Pending", "Retryable"}
                 /\ status'[job[d]] \in {"Retryable", "Failed"}
  BY Zenon DEF RecordFailure, TypeOK

\* Row locks are kept by every step.
LEMMA LockStep == TypeOK /\ LockInv /\ [Next]_vars => LockInv'
  <1> SUFFICES ASSUME TypeOK, LockInv, [Next]_vars PROVE LockInv'
    BY Zenon
  <1> USE DEF Holding
  <1>0. ASSUME UNCHANGED <<phase, job>>,
               \A b \in Dispatchers : phase[b] \in Holding => status'[job[b]] = status[job[b]]
        PROVE  LockInv'
    BY <1>0, Zenon DEF LockInv
  <1>1. ASSUME NEW r \in Rows, Arrive(r) \/ RetryDue(r) PROVE LockInv'
    <2>1. \A b \in Dispatchers : phase[b] \in Holding => status'[job[b]] = status[job[b]]
      BY <1>1, Zenon DEF Arrive, RetryDue, LockInv, TypeOK
    <2> QED BY <1>0, <1>1, <2>1, Zenon DEF Arrive, RetryDue, workVars
  <1>2. ASSUME NEW rows \in SUBSET Rows, NEW clear \in BOOLEAN, Redrive(rows, clear) PROVE LockInv'
    <2>1. \A b \in Dispatchers : phase[b] \in Holding => job[b] \in Rows /\ job[b] \notin rows
      BY <1>2, Zenon DEF Redrive, LockInv
    <2>2. \A b \in Dispatchers : phase[b] \in Holding => status'[job[b]] = status[job[b]]
      BY <1>2, <2>1, Zenon DEF Redrive, TypeOK
    <2> QED BY <1>0, <1>2, <2>2, Zenon DEF Redrive, workVars
  <1>3. ASSUME NEW d \in Dispatchers, Claim(d) PROVE LockInv'
    <2>1. PICK r \in Rows \ Locked :
              /\ Claimable(r)
              /\ job' = [job EXCEPT ![d] = r]
              /\ phase' = [phase EXCEPT ![d] = IF d \in Unrouted THEN "failing" ELSE "claimed"]
              /\ UNCHANGED rowVars
      BY <1>3, Zenon DEF Claim
    <2>2. status' = status /\ status[r] \in {"Pending", "Retryable"}
      BY <2>1, Zenon DEF Claimable, rowVars
    <2>3. job'[d] = r /\ \A b \in Dispatchers \ {d} : job'[b] = job[b] /\ phase'[b] = phase[b]
      BY <2>1, Zenon DEF TypeOK
    <2>4. \A b \in Dispatchers : phase[b] \in Holding => job[b] # r
      BY NotLocked, Zenon
    <2> QED BY <2>2, <2>3, <2>4 DEF LockInv
  <1>4. ASSUME NEW d \in Dispatchers, BeforeFails(d) \/ ApplyFails(d) \/ HandlerFails(d) \/ Apply(d)
        PROVE  LockInv'
    <2>1. /\ phase[d] \in Holding /\ job' = job /\ status' = status
          /\ \A b \in Dispatchers \ {d} : phase'[b] = phase[b]
      BY <1>4, Zenon DEF BeforeFails, ApplyFails, HandlerFails, Failures, Apply, FailWith, TypeOK, rowVars
    <2> QED BY <2>1, LockFrame, Zenon DEF LockInv
  <1>5. ASSUME NEW d \in Dispatchers, Commit(d) PROVE LockInv'
    <2>1. Return(d) /\ phase[d] \in Holding /\ job[d] \in Rows
      BY <1>5, Zenon DEF Commit, LockInv
    <2>2. \A r \in Rows \ {job[d]} : status'[r] = status[r]
      BY <1>5, <2>1, Zenon DEF Commit, TypeOK
    <2>3. \A b \in Dispatchers : phase'[b] \in Holding \cup {"late"} => b # d /\ phase'[b] = phase[b] /\ job'[b] = job[b]
      BY <2>1, ReturnFrees, Zenon
    <2>4. \A b \in Dispatchers : phase'[b] \in Holding => status'[job[b]] \in {"Pending", "Retryable"}
      BY <2>1, <2>2, <2>3, Zenon DEF LockInv
    <2> QED BY <2>3, <2>4, LockFrame, Zenon
  <1>6. ASSUME NEW d \in Dispatchers, Record(d) \/ RecordLate(d) PROVE LockInv'
    <2>1. Return(d) /\ RecordFailure(d) /\ job[d] \in Rows
      BY <1>6, Zenon DEF Record, RecordLate, LockInv
    <2>2. \A b \in Dispatchers \ {d} : phase[b] \in Holding => job[b] # job[d]
      BY <1>6, NotLocked, Zenon DEF Record, RecordLate, LockInv
    <2>3. \A b \in Dispatchers : phase'[b] \in Holding \cup {"late"} => b # d /\ phase'[b] = phase[b] /\ job'[b] = job[b]
      BY <2>1, ReturnFrees, Zenon
    <2>4. \A b \in Dispatchers : phase'[b] \in Holding => status'[job[b]] \in {"Pending", "Retryable"}
      BY <2>1, <2>2, <2>3, RecordOneRow DEF LockInv
    <2> QED BY <2>3, <2>4, LockFrame, Zenon
  <1>7. ASSUME NEW d \in Dispatchers, SavepointFails(d) \/ Abort(d) \/ Crash(d) \/ Restart(d)
        PROVE  LockInv'
    <2>1. /\ phase'[d] \in {"idle", "late"} /\ status' = status
          /\ phase'[d] = "late" => phase[d] \in Holding /\ job' = job
          /\ \A b \in Dispatchers \ {d} : phase'[b] = phase[b] /\ job'[b] = job[b]
      BY <1>7, Zenon DEF SavepointFails, Abort, Crash, Restart, Drop, TypeOK, rowVars
    <2> QED BY <2>1, LockFrame, Zenon DEF LockInv
  <1>8. CASE UNCHANGED vars
    BY <1>8, <1>0, Zenon DEF vars, rowVars, workVars
  <1> QED BY <1>1, <1>2, <1>3, <1>4, <1>5, <1>6, <1>7, <1>8, Zenon DEF Next, Cycle

-----------------------------------------------------------------------------
(* The cache and the handlers' effects *)

\* No step but a commit changes the cache, counts a run or makes a row Processed
\* or brings one back.
LEMMA OnlyCommitProcesses ==
    ASSUME TypeOK, LockInv, [Next]_vars, \A d \in Dispatchers : ~Commit(d)
    PROVE  /\ UNCHANGED <<cache, runs>>
           /\ \A r \in Rows : status[r] = "Processed" <=> status'[r] = "Processed"
  <1> USE DEF Holding
  <1>1. ASSUME NEW r \in Rows, Arrive(r) \/ RetryDue(r)
        PROVE  UNCHANGED <<cache, runs>> /\ \A q \in Rows : status[q] = "Processed" <=> status'[q] = "Processed"
    BY <1>1, Zenon DEF Arrive, RetryDue, TypeOK
  <1>2. ASSUME NEW rows \in SUBSET Rows, NEW clear \in BOOLEAN, Redrive(rows, clear)
        PROVE  UNCHANGED <<cache, runs>> /\ \A q \in Rows : status[q] = "Processed" <=> status'[q] = "Processed"
    BY <1>2, Zenon DEF Redrive, TypeOK
  <1>3. ASSUME NEW d \in Dispatchers, Record(d) \/ RecordLate(d)
        PROVE  UNCHANGED <<cache, runs>> /\ \A q \in Rows : status[q] = "Processed" <=> status'[q] = "Processed"
    <2>1. job[d] \in Rows /\ RecordFailure(d) /\ UNCHANGED <<cache, runs>>
      BY <1>3, Zenon DEF Record, RecordLate, LockInv
    <2> QED BY <2>1, RecordOneRow, Zenon
  <1>4. ASSUME NEW d \in Dispatchers,
               \/ Claim(d) \/ BeforeFails(d) \/ ApplyFails(d) \/ HandlerFails(d) \/ Apply(d)
               \/ SavepointFails(d) \/ Abort(d) \/ Crash(d) \/ Restart(d)
        PROVE  UNCHANGED rowVars
    BY <1>4, Zenon DEF Claim, BeforeFails, Failures, ApplyFails, HandlerFails, FailWith, Apply,
                SavepointFails, Abort, Crash, Restart, Drop
  <1>5. CASE UNCHANGED vars
    BY <1>5, Zenon DEF vars, rowVars
  <1> QED BY <1>1, <1>2, <1>3, <1>4, <1>5, Zenon DEF Next, Cycle, rowVars

\* What a commit does: one row becomes Processed and, unless the guard ignored
\* it, the cache row of its entity.
LEMMA CommitEffect ==
    ASSUME IInv, NEW d \in Dispatchers, Commit(d)
    PROVE  LET r == job[d] e == Rec[job[d]].entity
           IN /\ r \in Rows /\ e \in Entities
              /\ status[r] \in {"Pending", "Retryable"}
              /\ status'[r] = "Processed" /\ runs'[r] = runs[r] + 1
              /\ \A q \in Rows \ {r} : status'[q] = status[q] /\ runs'[q] = runs[q]
              /\ \A f \in Entities \ {e} : cache'[f] = cache[f]
              /\ cache'[e] = IF CacheApply(cache[e], r) = "Ignored" THEN cache[e] ELSE r
              /\ CacheApply(cache[e], r) # "Mismatch"
  <1>1. job[d] \in Rows /\ status[job[d]] \in {"Pending", "Retryable"}
    BY Zenon DEF IInv, LockInv, Commit, Holding
  <1>2. Rec[job[d]].entity \in Entities
    BY <1>1, Zenon DEF Entities
  <1>3. draft[d] = CacheApply(cache[Rec[job[d]].entity], job[d]) /\ draft[d] # "Mismatch"
    BY Zenon DEF IInv, DraftInv, Commit
  <1>4. status' = [status EXCEPT ![job[d]] = "Processed"] /\ runs' = [runs EXCEPT ![job[d]] = @ + 1]
        /\ cache' = [cache EXCEPT ![Rec[job[d]].entity] = IF draft[d] = "Ignored" THEN @ ELSE job[d]]
    BY Zenon DEF Commit
  <1> QED BY <1>1, <1>2, <1>3, <1>4, Zenon DEF IInv, TypeOK

\* A row stands at or above another in the order the cache moves in.
Covers(a, b) ==
    \/ Origin(a) = Origin(b) /\ Rec[a].offset >= Rec[b].offset
    \/ Rec[a].topic = Declared /\ Rec[b].topic # Declared

\* That order is transitive.
LEMMA CoversTransitive ==
    ASSUME NEW a \in Rows, NEW b \in Rows, NEW c \in Rows, Covers(a, b), Covers(b, c)
    PROVE  Covers(a, c)
  <1>1. Origin(a) = Origin(b) => Rec[a].topic = Rec[b].topic
    BY Zenon DEF Origin
  <1>2. Origin(b) = Origin(c) => Rec[b].topic = Rec[c].topic
    BY Zenon DEF Origin
  <1>3. Rec[a].offset \in Nat /\ Rec[b].offset \in Nat /\ Rec[c].offset \in Nat
    BY RecAssumption, Zenon
  <1> QED BY <1>1, <1>2, <1>3 DEF Covers

\* The guard writes a row that covers the cached one, strictly, and ignores only
\* what the cached one covers.
LEMMA GuardFollowsOrder ==
    ASSUME NEW current \in Rows, NEW r \in Rows, current # NoRow
    PROVE  /\ CacheApply(current, r) = "Ignored" => Covers(current, r)
           /\ CacheApply(current, r) \in {"Applied", "Migrated"} =>
                 /\ Covers(r, current)
                 /\ \/ Origin(r) = Origin(current) /\ Rec[r].offset > Rec[current].offset
                    \/ Rec[r].topic = Declared /\ Rec[current].topic # Declared
  BY RecAssumption DEF CacheApply, Covers

\* A commit keeps the cache at the newest Processed state.
LEMMA CacheCommit ==
    ASSUME IInv, NEW d \in Dispatchers, Commit(d)
    PROVE  CacheInv' /\ EffectsOnce'
  <1> DEFINE r == job[d] e == Rec[job[d]].entity current == cache[e]
  <1>1. /\ r \in Rows /\ e \in Entities
        /\ status[r] \in {"Pending", "Retryable"}
        /\ status'[r] = "Processed" /\ runs'[r] = runs[r] + 1
        /\ \A q \in Rows \ {r} : status'[q] = status[q] /\ runs'[q] = runs[q]
        /\ \A f \in Entities \ {e} : cache'[f] = cache[f]
        /\ cache'[e] = IF CacheApply(current, r) = "Ignored" THEN current ELSE r
        /\ CacheApply(current, r) # "Mismatch"
    BY CommitEffect, Zenon
  <1>2. r # NoRow /\ NoRow \notin Rows
    BY <1>1, RowsAssumption, Zenon
  <1>3. current \in Rows \cup {NoRow} /\ \A f \in Entities : cache[f] \in Rows \cup {NoRow}
    BY <1>1, Zenon DEF IInv, TypeOK
  <1>4. current # NoRow => status[current] = "Processed" /\ Rec[current].entity = e
    BY <1>1, Zenon DEF IInv, CacheInv
  <1>5. \A q \in Rows : status[q] = "Processed" /\ Rec[q].entity = e =>
            current # NoRow /\ Covers(current, q)
    BY Zenon DEF IInv, CacheInv, CacheCoversProcessed, Covers
  <1>6. /\ cache'[e] \in Rows /\ Covers(cache'[e], r)
        /\ current # NoRow => Covers(cache'[e], current)
        /\ cache'[e] = r \/ cache'[e] = current
    <2>0. \A q \in Rows : Covers(q, q)
      BY RecAssumption DEF Covers
    <2>1. CASE current = NoRow
      <3>1. cache'[e] = r
        BY <1>1, <2>1, Zenon DEF CacheApply
      <3> QED BY <1>1, <2>0, <2>1, <3>1, Zenon
    <2>2. CASE current # NoRow /\ CacheApply(current, r) = "Ignored"
      BY <1>1, <1>3, <2>0, <2>2, GuardFollowsOrder, Zenon
    <2>3. CASE current # NoRow /\ CacheApply(current, r) # "Ignored"
      <3>1. CacheApply(current, r) \in {"Applied", "Migrated"}
        BY <1>1, <2>3, GuardTypes
      <3> QED BY <1>1, <1>3, <2>0, <2>3, <3>1, GuardFollowsOrder, Zenon
    <2> QED BY <2>1, <2>2, <2>3, Zenon
  <1>7. EffectsOnce'
    BY <1>1 DEF IInv, EffectsOnce
  <1>8. \A f \in Entities : cache'[f] # NoRow => status'[cache'[f]] = "Processed" /\ Rec[cache'[f]].entity = f
    <2>1. ASSUME NEW f \in Entities, f # e, cache'[f] # NoRow
          PROVE  status'[cache'[f]] = "Processed" /\ Rec[cache'[f]].entity = f
      <3>1. cache'[f] = cache[f] /\ cache[f] \in Rows
        BY <1>1, <1>3, <2>1, Zenon
      <3>2. status[cache[f]] = "Processed" /\ Rec[cache[f]].entity = f
        BY <2>1, <3>1, Zenon DEF IInv, CacheInv
      <3>3. cache[f] # r
        BY <1>1, <3>2, Zenon
      <3> QED BY <1>1, <3>1, <3>2, <3>3, Zenon
    <2>2. status'[cache'[e]] = "Processed" /\ Rec[cache'[e]].entity = e
      BY <1>1, <1>2, <1>3, <1>4, <1>6, Zenon
    <2> QED BY <2>1, <2>2, Zenon
  <1>9. CacheCoversProcessed'
    <2> SUFFICES ASSUME NEW q \in Rows, status'[q] = "Processed"
                 PROVE  /\ cache'[Rec[q].entity] # NoRow
                        /\ status'[cache'[Rec[q].entity]] = "Processed"
                        /\ Covers(cache'[Rec[q].entity], q)
      BY Zenon DEF CacheCoversProcessed, Covers
    <2>1. CASE q = r
      BY <1>1, <1>2, <1>6, <1>8, <2>1, Zenon
    <2>2. CASE q # r /\ Rec[q].entity = e
      <3>1. current # NoRow /\ Covers(current, q)
        BY <1>1, <1>5, <2>2, Zenon
      <3>2. Covers(cache'[e], q)
        BY <1>3, <1>6, <3>1, CoversTransitive, Zenon
      <3>3. cache'[e] # NoRow /\ status'[cache'[e]] = "Processed"
        BY <1>1, <1>2, <1>6, <1>8, Zenon
      <3> QED BY <2>2, <3>2, <3>3, Zenon
    <2>3. CASE q # r /\ Rec[q].entity # e
      <3>1. Rec[q].entity \in Entities /\ status[q] = "Processed"
        BY <1>1, <2>3, Zenon DEF Entities
      <3>2. cache'[Rec[q].entity] = cache[Rec[q].entity]
        BY <1>1, <2>3, <3>1, Zenon
      <3>3. cache[Rec[q].entity] # NoRow /\ Covers(cache[Rec[q].entity], q)
        BY <3>1, Zenon DEF IInv, CacheInv, CacheCoversProcessed, Covers
      <3> QED BY <1>8, <3>1, <3>2, <3>3, Zenon
    <2> QED BY <2>1, <2>2, <2>3, Zenon
  <1> QED BY <1>7, <1>8, <1>9, Zenon DEF CacheInv

\* Every other step leaves the cache and the effects alone.
LEMMA CacheFrame ==
    ASSUME IInv, UNCHANGED <<cache, runs>>,
           \A r \in Rows : status[r] = "Processed" <=> status'[r] = "Processed"
    PROVE  CacheInv' /\ EffectsOnce'
  <1>1. \A f \in Entities : cache[f] # NoRow => cache[f] \in Rows
    BY Zenon DEF IInv, TypeOK
  <1>2. \A r \in Rows : Rec[r].entity \in Entities
    BY Zenon DEF Entities
  <1> QED BY <1>1, <1>2, Zenon DEF IInv, CacheInv, CacheCoversProcessed, EffectsOnce

\* Drafts stay what the guard says: a dispatcher between its upsert and its
\* commit keeps every other one of that entity out.
LEMMA DraftStep == IInv /\ [Next]_vars => DraftInv'
  <1> SUFFICES ASSUME IInv, [Next]_vars PROVE DraftInv'
    BY Zenon
  <1> USE DEF Holding
  <1>0. ASSUME \A b \in Dispatchers : phase'[b] = "applied" =>
                   phase[b] = "applied" /\ job'[b] = job[b] /\ draft'[b] = draft[b],
               \A b \in Dispatchers : phase'[b] = "applied" =>
                   cache'[Rec[job[b]].entity] = cache[Rec[job[b]].entity]
        PROVE  DraftInv'
    BY <1>0 DEF IInv, DraftInv
  <1>1. ASSUME NEW d \in Dispatchers, Commit(d) PROVE DraftInv'
    <2>1. Return(d)
      BY <1>1, Zenon DEF Commit
    <2>2. \A b \in Dispatchers : phase'[b] = "applied" =>
              b # d /\ phase[b] = "applied" /\ job'[b] = job[b] /\ draft'[b] = draft[b]
      BY <2>1, ReturnFrees, Zenon DEF IInv
    <2>3. ASSUME NEW b \in Dispatchers, phase'[b] = "applied"
          PROVE  cache'[Rec[job[b]].entity] = cache[Rec[job[b]].entity]
      <3>1. job[b] \in Rows /\ Rec[job[b]].entity # Rec[job[d]].entity
        BY <1>1, <2>2, <2>3, Zenon DEF Commit, IInv, DraftInv, LockInv
      <3>2. Rec[job[b]].entity \in Entities
        BY <3>1, Zenon DEF Entities
      <3> QED BY <1>1, <3>1, <3>2, CommitEffect, Zenon
    <2> QED BY <1>0, <2>2, <2>3, Zenon
  <1>2. ASSUME NEW d \in Dispatchers, Apply(d) PROVE DraftInv'
    <2>1. /\ phase'[d] = "applied" /\ draft'[d] = CacheApply(cache[Rec[job[d]].entity], job[d])
          /\ draft'[d] # "Mismatch" /\ job' = job /\ cache' = cache
          /\ \A b \in Dispatchers \ {d} : phase'[b] = phase[b] /\ draft'[b] = draft[b]
      BY <1>2, Zenon DEF Apply, IInv, TypeOK, rowVars
    <2>2. \A b \in Dispatchers \ {d} : phase[b] = "applied" => Rec[job[b]].entity # Rec[job[d]].entity
      BY <1>2, Zenon DEF Apply, CacheLocked
    <2> QED BY <2>1, <2>2 DEF IInv, DraftInv
  <1>3. ASSUME NEW d \in Dispatchers, Record(d) \/ RecordLate(d) PROVE DraftInv'
    <2>1. Return(d) /\ UNCHANGED cache
      BY <1>3, Zenon DEF Record, RecordLate
    <2>2. \A b \in Dispatchers : phase'[b] = "applied" =>
              phase[b] = "applied" /\ job'[b] = job[b] /\ draft'[b] = draft[b]
      BY <2>1, ReturnFrees, Zenon DEF IInv
    <2> QED BY <1>0, <2>1, <2>2, Zenon
  <1>4. ASSUME NEW d \in Dispatchers,
               \/ Claim(d) \/ BeforeFails(d) \/ ApplyFails(d) \/ HandlerFails(d)
               \/ SavepointFails(d) \/ Abort(d) \/ Crash(d) \/ Restart(d)
        PROVE  DraftInv'
    <2>1. phase'[d] # "applied" /\ cache' = cache
      BY <1>4, Zenon DEF Claim, BeforeFails, Failures, ApplyFails, HandlerFails, FailWith, SavepointFails,
                  Abort, Crash, Restart, Drop, IInv, TypeOK, rowVars
    <2>2. \A b \in Dispatchers \ {d} : phase'[b] = phase[b] /\ job'[b] = job[b] /\ draft'[b] = draft[b]
      BY <1>4, Zenon DEF Claim, BeforeFails, Failures, ApplyFails, HandlerFails, FailWith, SavepointFails,
                  Abort, Crash, Restart, Drop, IInv, TypeOK
    <2> QED BY <1>0, <2>1, <2>2, Zenon
  <1>5. ASSUME UNCHANGED <<phase, job, draft, cache>> PROVE DraftInv'
    BY <1>0, <1>5, Zenon
  <1>6. CASE (\E r \in Rows : Arrive(r) \/ RetryDue(r))
             \/ (\E rows \in SUBSET Rows, clear \in BOOLEAN : Redrive(rows, clear)) \/ UNCHANGED vars
    BY <1>5, <1>6, Zenon DEF Arrive, RetryDue, Redrive, vars, rowVars, workVars
  <1> QED BY <1>1, <1>2, <1>3, <1>4, <1>6, Zenon DEF Next, Cycle

\* Every step keeps the invariant.
LEMMA InvStep == IInv /\ [Next]_vars => IInv'
  <1> SUFFICES ASSUME IInv, [Next]_vars PROVE IInv'
    BY Zenon
  <1>1. TypeOK' /\ LockInv' /\ DraftInv'
    BY TypeStep, LockStep, DraftStep, Zenon DEF IInv
  <1>2. CASE \E d \in Dispatchers : Commit(d)
    BY <1>1, <1>2, CacheCommit, Zenon DEF IInv
  <1>3. CASE \A d \in Dispatchers : ~Commit(d)
    <2>1. UNCHANGED <<cache, runs>> /\ \A r \in Rows : status[r] = "Processed" <=> status'[r] = "Processed"
      BY <1>3, OnlyCommitProcesses, Zenon DEF IInv
    <2> QED BY <1>1, <2>1, CacheFrame, Zenon DEF IInv
  <1> QED BY <1>2, <1>3, Zenon

\* The invariant holds throughout.
LEMMA Invariance == Spec => []IInv
  BY InitInv, InvStep, PTL DEF Spec

-----------------------------------------------------------------------------
(* Results *)

\* The dispatcher's state is well typed.
THEOREM TypeCorrect == Spec => []TypeOK
  <1>1. IInv => TypeOK
    BY Zenon DEF IInv
  <1> QED BY <1>1, Invariance, PTL

\* Handlers take effect once per row and only with the processed mark, through
\* retries, redrives, crashes and failures recorded late.
THEOREM HandledOnce == Spec => []EffectsOnce
  <1>1. IInv => EffectsOnce
    BY Zenon DEF IInv
  <1> QED BY <1>1, Invariance, PTL

\* Whatever order rows are dispatched in, and by however many dispatchers, the
\* cache holds the newest state that was processed.
THEOREM CacheConverges == Spec => []CacheCoversProcessed
  <1>1. IInv => CacheCoversProcessed
    BY Zenon DEF IInv, CacheInv
  <1> QED BY <1>1, Invariance, PTL

\* The cache never steps back within an origin, and changes its topic only to
\* the declared one.
THEOREM CacheNeverStepsBack == Spec => CacheMovesForward
  <1> DEFINE Forward == \A e \in Entities : cache'[e] # cache[e] /\ cache[e] # NoRow =>
                \/ Origin(cache'[e]) = Origin(cache[e])
                   /\ Rec[cache'[e]].offset > Rec[cache[e]].offset
                \/ Rec[cache'[e]].topic = Declared /\ Rec[cache[e]].topic # Declared
  <1>1. IInv /\ [Next]_vars => [Forward]_cache
    <2> SUFFICES ASSUME IInv, [Next]_vars PROVE Forward \/ cache' = cache
      BY Zenon
    <2>1. ASSUME NEW d \in Dispatchers, Commit(d) PROVE Forward
      <3> SUFFICES ASSUME NEW e \in Entities, cache'[e] # cache[e], cache[e] # NoRow
                   PROVE  \/ Origin(cache'[e]) = Origin(cache[e])
                             /\ Rec[cache'[e]].offset > Rec[cache[e]].offset
                          \/ Rec[cache'[e]].topic = Declared /\ Rec[cache[e]].topic # Declared
        BY Zenon
      <3>1. /\ job[d] \in Rows /\ e = Rec[job[d]].entity /\ cache'[e] = job[d]
            /\ CacheApply(cache[e], job[d]) \notin {"Ignored", "Mismatch"}
        BY <2>1, CommitEffect, Zenon
      <3>2. cache[e] \in Rows
        BY Zenon DEF IInv, TypeOK
      <3>3. CacheApply(cache[e], job[d]) \in {"Applied", "Migrated"}
        BY <3>1, GuardTypes, Zenon
      <3> QED BY <3>1, <3>2, <3>3, GuardFollowsOrder, Zenon
    <2>2. CASE \A d \in Dispatchers : ~Commit(d)
      BY <2>2, OnlyCommitProcesses, Zenon DEF IInv
    <2> QED BY <2>1, <2>2, Zenon
  <1> QED BY <1>1, Invariance, PTL DEF Spec, CacheMovesForward

-----------------------------------------------------------------------------
(* Settled rows and the panic breaker *)

\* A settled row stays settled: a failure recorded late finds it closed, and only
\* a redrive opens a Failed one.
THEOREM SettledStay == Spec => SettledRows
  <1> DEFINE Settled ==
        \A r \in Rows :
          /\ status[r] = "Processed" => status'[r] = "Processed"
          /\ status[r] = "Failed" /\ status'[r] # "Failed" =>
                status'[r] = "Pending" /\ redrives' = redrives + 1
  <1>1. IInv /\ [Next]_vars => Settled
    <2> SUFFICES ASSUME IInv, [Next]_vars PROVE Settled
      BY Zenon
    <2> USE DEF Holding
    <2>1. ASSUME NEW r \in Rows, Arrive(r) \/ RetryDue(r) PROVE Settled
      BY <2>1, Zenon DEF Arrive, RetryDue, IInv, TypeOK
    <2>2. ASSUME NEW rows \in SUBSET Rows, NEW clear \in BOOLEAN, Redrive(rows, clear) PROVE Settled
      BY <2>2, Zenon DEF Redrive, IInv, TypeOK
    <2>3. ASSUME NEW d \in Dispatchers, Record(d) \/ RecordLate(d) PROVE Settled
      <3>1. job[d] \in Rows /\ RecordFailure(d)
        BY <2>3, Zenon DEF Record, RecordLate, IInv, LockInv
      <3> QED BY <3>1, RecordOneRow, Zenon DEF IInv
    <2>4. ASSUME NEW d \in Dispatchers, Commit(d) PROVE Settled
      <3>1. /\ status[job[d]] \in {"Pending", "Retryable"}
            /\ \A q \in Rows \ {job[d]} : status'[q] = status[q]
        BY <2>4, CommitEffect, Zenon
      <3> QED BY <3>1, Zenon
    <2>5. ASSUME NEW d \in Dispatchers,
                 \/ Claim(d) \/ BeforeFails(d) \/ ApplyFails(d) \/ HandlerFails(d) \/ Apply(d)
                 \/ SavepointFails(d) \/ Abort(d) \/ Crash(d) \/ Restart(d)
          PROVE  UNCHANGED status
      BY <2>5, Zenon DEF Claim, BeforeFails, Failures, ApplyFails, HandlerFails, FailWith, Apply,
                  SavepointFails, Abort, Crash, Restart, Drop, rowVars
    <2>6. CASE UNCHANGED status
      BY <2>6, Zenon
    <2>7. CASE UNCHANGED vars
      BY <2>6, <2>7, Zenon DEF vars, rowVars
    <2> QED BY <2>1, <2>2, <2>3, <2>4, <2>5, <2>6, <2>7, Zenon DEF Next, Cycle
  <1> QED BY <1>1, Invariance, PTL DEF Spec, SettledRows

\* The rows a dispatcher counts have panicked, and so has the one it is about to
\* count; a breaker that tripped has counted enough.
PanicOf(d) ==
    /\ streak[d] \subseteq panicked
    /\ fate[d] = "panic" => job[d] \in panicked
    /\ phase[d] = "stopped" => Cardinality(streak[d]) >= PanicLimit

PanicInv == IsFiniteSet(panicked) /\ \A d \in Dispatchers : PanicOf(d)

DispatcherStep(d) ==
    Cycle(d) \/ SavepointFails(d) \/ Abort(d) \/ Crash(d) \/ Restart(d)

\* A dispatcher's step leaves the others where they are.
LEMMA OthersKeep ==
    ASSUME TypeOK, NEW d \in Dispatchers, DispatcherStep(d), NEW b \in Dispatchers, b # d
    PROVE  /\ phase'[b] = phase[b] /\ job'[b] = job[b] /\ seen'[b] = seen[b]
           /\ fate'[b] = fate[b] /\ streak'[b] = streak[b]
  <1>1. CASE Claim(d)
    BY <1>1, Zenon DEF Claim, TypeOK
  <1>2. CASE \E why : FailWith(d, why)
    BY <1>2, Zenon DEF FailWith, TypeOK
  <1>3. CASE Apply(d) \/ SavepointFails(d)
    BY <1>3, Zenon DEF Apply, SavepointFails, TypeOK
  <1>4. CASE Return(d)
    BY <1>4, Zenon DEF Return, TypeOK
  <1>5. CASE Abort(d) \/ Crash(d) \/ Restart(d)
    BY <1>5, Zenon DEF Abort, Crash, Restart, Drop, TypeOK
  <1>6. BeforeFails(d) \/ ApplyFails(d) \/ HandlerFails(d) => \E why : FailWith(d, why)
    BY Zenon DEF BeforeFails, ApplyFails, HandlerFails
  <1>7. Commit(d) \/ Record(d) \/ RecordLate(d) => Return(d)
    BY Zenon DEF Commit, Record, RecordLate
  <1> QED BY <1>1, <1>2, <1>3, <1>4, <1>5, <1>6, <1>7, Zenon DEF DispatcherStep, Cycle

\* Every step keeps the count of panicking rows honest.
LEMMA PanicStep == TypeOK /\ PanicInv /\ [Next]_vars => PanicInv'
  <1> SUFFICES ASSUME TypeOK, PanicInv, [Next]_vars PROVE PanicInv'
    BY Zenon
  <1>0. ASSUME UNCHANGED workVars PROVE PanicInv'
    BY <1>0, Zenon DEF PanicInv, PanicOf, workVars
  <1>1. ASSUME NEW d \in Dispatchers, DispatcherStep(d),
               IsFiniteSet(panicked'), panicked \subseteq panicked', PanicOf(d)'
        PROVE  PanicInv'
    <2>1. ASSUME NEW b \in Dispatchers, b # d PROVE PanicOf(b)'
      BY <1>1, <2>1, OthersKeep, Zenon DEF PanicInv, PanicOf
    <2> QED BY <1>1, <2>1, Zenon DEF PanicInv
  <1>2. ASSUME NEW d \in Dispatchers, DispatcherStep(d), NEW why, FailWith(d, why) PROVE PanicInv'
    <2>1. IsFiniteSet(panicked \cup {job[d]})
      BY FS_AddElement, Zenon DEF PanicInv
    <2>2. IsFiniteSet(panicked') /\ panicked \subseteq panicked'
      BY <1>2, <2>1, Zenon DEF FailWith, PanicInv
    <2>3. PanicOf(d)'
      BY <1>2, <2>2, Zenon DEF FailWith, PanicInv, PanicOf, TypeOK
    <2> QED BY <1>1, <1>2, <2>2, <2>3, Zenon
  <1>3. ASSUME NEW d \in Dispatchers, Claim(d) \/ Apply(d) \/ SavepointFails(d) PROVE PanicInv'
    <2>1. panicked' = panicked /\ DispatcherStep(d)
      BY <1>3, Zenon DEF Claim, Apply, SavepointFails, DispatcherStep, Cycle
    <2>2. PanicOf(d)'
      BY <1>3, Zenon DEF Claim, Apply, SavepointFails, PanicInv, PanicOf, TypeOK
    <2> QED BY <1>1, <2>1, <2>2, Zenon DEF PanicInv
  <1>4. ASSUME NEW d \in Dispatchers, DispatcherStep(d), Return(d) PROVE PanicInv'
    <2>1. panicked' = panicked /\ fate'[d] = "none"
      BY <1>4, Zenon DEF Return, TypeOK
    <2>2. Streak(d) \subseteq panicked
      BY Zenon DEF Streak, PanicInv, PanicOf
    <2>3. \/ streak'[d] = Streak(d) /\ phase'[d] = IF Trips(d) THEN "stopped" ELSE "idle"
          \/ streak'[d] = streak[d] /\ phase'[d] = "idle"
      BY <1>4, Zenon DEF Return, TypeOK
    <2>4. PanicOf(d)'
      BY <2>1, <2>2, <2>3, Zenon DEF PanicInv, PanicOf, Trips
    <2> QED BY <1>1, <1>4, <2>1, <2>4, Zenon DEF PanicInv
  <1>5. ASSUME NEW d \in Dispatchers, Abort(d) \/ Crash(d) \/ Restart(d) PROVE PanicInv'
    <2>1. panicked' = panicked /\ DispatcherStep(d)
      BY <1>5, Zenon DEF Abort, Crash, Restart, Drop, DispatcherStep
    <2>2. PanicOf(d)'
      BY <1>5, Zenon DEF Abort, Crash, Restart, Drop, PanicInv, PanicOf, TypeOK
    <2> QED BY <1>1, <2>1, <2>2, Zenon DEF PanicInv
  <1>6. ASSUME NEW d \in Dispatchers, DispatcherStep(d) PROVE PanicInv'
    <2>1. BeforeFails(d) \/ ApplyFails(d) \/ HandlerFails(d) => \E why : FailWith(d, why)
      BY Zenon DEF BeforeFails, ApplyFails, HandlerFails
    <2>2. Commit(d) \/ Record(d) \/ RecordLate(d) => Return(d)
      BY Zenon DEF Commit, Record, RecordLate
    <2> QED BY <1>2, <1>3, <1>4, <1>5, <1>6, <2>1, <2>2, Zenon DEF DispatcherStep, Cycle
  <1>7. CASE (\E r \in Rows : Arrive(r) \/ RetryDue(r))
             \/ (\E rows \in SUBSET Rows, clear \in BOOLEAN : Redrive(rows, clear)) \/ UNCHANGED vars
    BY <1>0, <1>7, Zenon DEF Arrive, RetryDue, Redrive, vars
  <1> QED BY <1>6, <1>7, Zenon DEF Next, DispatcherStep

\* However rows are retried and dispatchers restarted, one stops only when
\* max_consecutive_panicking_rows different rows have panicked.
THEOREM BreakerNeedsRows == Spec => []StopsOnDistinctRows
  <1>1. Init => PanicInv
    <2>1. IsFiniteSet({})
      BY FS_EmptySet, Zenon
    <2> QED BY <2>1, Zenon DEF Init, PanicInv, PanicOf
  <1>2. IInv => TypeOK
    BY Zenon DEF IInv
  <1>3. TypeOK /\ PanicInv => StopsOnDistinctRows
    <2> SUFFICES ASSUME TypeOK, PanicInv, NEW d \in Dispatchers, phase[d] = "stopped"
                 PROVE  Cardinality(panicked) >= PanicLimit
      BY Zenon DEF StopsOnDistinctRows
    <2>1. streak[d] \in SUBSET panicked /\ Cardinality(streak[d]) >= PanicLimit
      BY Zenon DEF PanicInv, PanicOf
    <2>2. /\ Cardinality(streak[d]) <= Cardinality(panicked)
          /\ IsFiniteSet(streak[d]) /\ IsFiniteSet(panicked)
      BY <2>1, FS_Subset, Zenon DEF PanicInv
    <2>3. Cardinality(streak[d]) \in Nat /\ Cardinality(panicked) \in Nat
      BY <2>2, FS_CardinalityType, Zenon
    <2> QED BY <2>1, <2>2, <2>3, PanicLimitAssumption
  <1> QED BY <1>1, <1>2, <1>3, PanicStep, Invariance, PTL DEF Spec

-----------------------------------------------------------------------------
(* The retry budget *)

\* The attempts a claim read are the row's for as long as it is held, and without
\* late records that alone keeps the budget.
SeenInv ==
    /\ \A d \in Dispatchers : phase[d] \in Holding => seen[d] = attempts[job[d]]
    /\ "savepoint" \notin FaultKinds =>
          /\ \A d \in Dispatchers : phase[d] # "late"
          /\ \A r \in Rows : status[r] = "Retryable" => attempts[r] < MaxAttempts

\* Dispatchers that may yet record a failure of r and leave it Retryable.
Low(r) ==
    {d \in Dispatchers : /\ phase[d] \in Holding \cup {"late"}
                         /\ job[d] = r
                         /\ seen[d] + 1 < MaxAttempts}

\* Together with the attempts already recorded they stay under a bound that a row
\* may pass only by failing for good, and that only a redrive then raises.
Allowed(r) ==
    MaxAttempts - 2 + Cardinality(Dispatchers) + redrives + IF status[r] = "Failed" THEN 1 ELSE 0

Overrun(r) == attempts[r] + Cardinality(Low(r)) <= Allowed(r)

OverrunInv == \A r \in Rows : Overrun(r)

\* What a late record finds of a held row: nothing, because it waits for it.
LEMMA HeldRowKept ==
    ASSUME TypeOK, LockInv, NEW d \in Dispatchers, Record(d) \/ RecordLate(d),
           NEW b \in Dispatchers, b # d, phase[b] \in Holding
    PROVE  attempts'[job[b]] = attempts[job[b]]
  <1> USE DEF Holding
  <1>1. job[b] \in Rows /\ job[d] \in Rows /\ RecordFailure(d)
    BY Zenon DEF Record, RecordLate, LockInv
  <1>2. job[b] # job[d]
    BY NotLocked, Zenon DEF Record, RecordLate, LockInv
  <1> QED BY <1>1, <1>2, Zenon DEF RecordFailure, TypeOK

\* Every step keeps what a claim read true.
LEMMA SeenStep == TypeOK /\ LockInv /\ SeenInv /\ [Next]_vars => SeenInv'
  <1> SUFFICES ASSUME TypeOK, LockInv, SeenInv, [Next]_vars PROVE SeenInv'
    BY Zenon
  <1> USE DEF Holding
  <1>1. ASSUME NEW r \in Rows, Arrive(r) \/ RetryDue(r) PROVE SeenInv'
    BY <1>1, Zenon DEF Arrive, RetryDue, SeenInv, TypeOK, workVars
  <1>2. ASSUME NEW rows \in SUBSET Rows, NEW clear \in BOOLEAN, Redrive(rows, clear) PROVE SeenInv'
    <2>1. \A b \in Dispatchers : phase[b] \in Holding => job[b] \in Rows /\ job[b] \notin rows
      BY <1>2, Zenon DEF Redrive, LockInv
    <2>2. \A b \in Dispatchers : phase[b] \in Holding => attempts'[job[b]] = attempts[job[b]]
      BY <1>2, <2>1, Zenon DEF Redrive, TypeOK
    <2>3. \A r \in Rows : status'[r] = "Retryable" => status[r] = "Retryable" /\ attempts'[r] = attempts[r]
      BY <1>2, Zenon DEF Redrive, TypeOK
    <2> QED BY <1>2, <2>2, <2>3, Zenon DEF Redrive, SeenInv, workVars
  <1>3. ASSUME NEW d \in Dispatchers, DispatcherStep(d),
               phase'[d] \in Holding => seen'[d] = attempts'[job'[d]],
               phase'[d] = "late" => "savepoint" \in FaultKinds,
               \A b \in Dispatchers \ {d} : phase[b] \in Holding => attempts'[job[b]] = attempts[job[b]],
               "savepoint" \notin FaultKinds =>
                   \A r \in Rows : status'[r] = "Retryable" => attempts'[r] < MaxAttempts
        PROVE  SeenInv'
    <2>1. \A b \in Dispatchers \ {d} : phase'[b] = phase[b] /\ job'[b] = job[b] /\ seen'[b] = seen[b]
      BY <1>3, OthersKeep, Zenon
    <2> QED BY <1>3, <2>1 DEF SeenInv
  <1>4. ASSUME NEW d \in Dispatchers, Claim(d) PROVE SeenInv'
    <2>1. DispatcherStep(d) /\ UNCHANGED <<status, attempts>>
      BY <1>4, Zenon DEF Claim, rowVars, DispatcherStep, Cycle
    <2>2. seen'[d] = attempts'[job'[d]] /\ phase'[d] # "late"
      BY <1>4, <2>1 DEF Claim, TypeOK
    <2> QED BY <1>3, <2>1, <2>2, Zenon DEF SeenInv
  <1>5. ASSUME NEW d \in Dispatchers, BeforeFails(d) \/ ApplyFails(d) \/ HandlerFails(d) \/ Apply(d)
        PROVE  SeenInv'
    <2>1. DispatcherStep(d) /\ UNCHANGED <<status, attempts, job, seen>>
          /\ phase[d] \in Holding /\ phase'[d] # "late"
      BY <1>5, Zenon DEF BeforeFails, ApplyFails, HandlerFails, Failures, FailWith, Apply, rowVars,
                  DispatcherStep, Cycle, TypeOK
    <2> QED BY <1>3, <2>1, Zenon DEF SeenInv
  <1>6. ASSUME NEW d \in Dispatchers, Commit(d) PROVE SeenInv'
    <2>1. /\ DispatcherStep(d) /\ UNCHANGED attempts /\ Return(d)
          /\ \A r \in Rows : status'[r] = "Retryable" => status[r] = "Retryable"
      BY <1>6, Zenon DEF Commit, DispatcherStep, Cycle, TypeOK
    <2>2. phase'[d] \in {"idle", "stopped"}
      BY <2>1, ReturnFrees, Zenon
    <2> QED BY <1>3, <2>1, <2>2, Zenon DEF SeenInv
  <1>7. ASSUME NEW d \in Dispatchers, Record(d) \/ RecordLate(d) PROVE SeenInv'
    <2>1. DispatcherStep(d) /\ Return(d) /\ RecordFailure(d) /\ job[d] \in Rows
      BY <1>7, Zenon DEF Record, RecordLate, DispatcherStep, Cycle, LockInv
    <2>2. phase'[d] \in {"idle", "stopped"}
      BY <2>1, ReturnFrees, Zenon
    <2>3. ASSUME "savepoint" \notin FaultKinds, NEW r \in Rows, status'[r] = "Retryable"
          PROVE  attempts'[r] < MaxAttempts
      <3>1. phase[d] = "failing" /\ seen[d] = attempts[job[d]]
        BY <1>7, <2>3, Zenon DEF Record, RecordLate, SeenInv
      <3>2. CASE r = job[d] /\ status[r] \in {"Pending", "Retryable"}
        BY <2>1, <2>3, <3>1, <3>2, MaxAttemptsAssumption DEF RecordFailure, Exhausted, TypeOK
      <3>3. CASE r # job[d] \/ status[r] \notin {"Pending", "Retryable"}
        <4>1. status'[r] = status[r] /\ attempts'[r] = attempts[r]
          BY <2>1, <3>3, Zenon DEF RecordFailure, TypeOK
        <4> QED BY <2>3, <4>1, Zenon DEF SeenInv
      <3> QED BY <3>2, <3>3, Zenon
    <2> QED BY <1>3, <1>7, <2>1, <2>2, <2>3, HeldRowKept, Zenon
  <1>8. ASSUME NEW d \in Dispatchers, SavepointFails(d) \/ Abort(d) \/ Crash(d) \/ Restart(d)
        PROVE  SeenInv'
    <2>1. /\ DispatcherStep(d) /\ UNCHANGED <<status, attempts>>
          /\ phase'[d] \in {"idle", "late"}
          /\ phase'[d] = "late" => "savepoint" \in FaultKinds
      BY <1>8, Zenon DEF SavepointFails, Abort, Crash, Restart, Drop, Fault, DispatcherStep, TypeOK, rowVars
    <2> QED BY <1>3, <2>1, Zenon DEF SeenInv
  <1>9. CASE UNCHANGED vars
    BY <1>9, Zenon DEF vars, rowVars, workVars, SeenInv
  <1> QED BY <1>1, <1>2, <1>4, <1>5, <1>6, <1>7, <1>8, <1>9, Zenon DEF Next, Cycle

\* The set is finite and no larger than the set of dispatchers.
LEMMA LowCounted ==
    ASSUME NEW r
    PROVE  /\ IsFiniteSet(Low(r)) /\ Cardinality(Low(r)) \in Nat
           /\ Cardinality(Dispatchers) \in Nat
           /\ Cardinality(Low(r)) <= Cardinality(Dispatchers)
  <1>1. Low(r) \in SUBSET Dispatchers
    BY Zenon DEF Low
  <1> QED BY <1>1, FS_Subset, FS_CardinalityType, DispatchersAssumption, Zenon

\* The same of the next state.
LEMMA LowCountedNext ==
    ASSUME NEW r
    PROVE  /\ IsFiniteSet(Low(r)') /\ Cardinality(Low(r)') \in Nat
           /\ Cardinality(Low(r)') <= Cardinality(Dispatchers)
  <1>1. Low(r)' \in SUBSET Dispatchers
    BY Zenon DEF Low
  <1> QED BY <1>1, FS_Subset, FS_CardinalityType, DispatchersAssumption, Zenon

\* A row whose attempts do not move, and that no dispatcher joins, stays under its
\* bound, unless it leaves Failed without a redrive.
LEMMA OverrunKept ==
    ASSUME TypeOK, TypeOK', NEW r \in Rows, Overrun(r),
           Low(r)' \subseteq Low(r), attempts'[r] <= attempts[r],
           Allowed(r) <= Allowed(r)'
    PROVE  Overrun(r)'
  <1>1. /\ IsFiniteSet(Low(r)) /\ Cardinality(Low(r)) \in Nat /\ Cardinality(Low(r)') \in Nat
        /\ Cardinality(Dispatchers) \in Nat
    BY LowCounted, LowCountedNext, Zenon
  <1>2. Cardinality(Low(r)') <= Cardinality(Low(r))
    BY <1>1, FS_Subset, Zenon
  <1>3. attempts[r] \in Nat /\ attempts'[r] \in Nat
    BY Zenon DEF TypeOK
  <1>4. Allowed(r) \in Int /\ Allowed(r)' \in Int
    BY <1>1, MaxAttemptsAssumption DEF Allowed, TypeOK
  <1>5. attempts[r] + Cardinality(Low(r)) <= Allowed(r)
    BY Zenon DEF Overrun
  <1>6. attempts'[r] + Cardinality(Low(r)') <= Allowed(r)'
    BY <1>1, <1>2, <1>3, <1>4, <1>5
  <1> QED BY <1>6, Zenon DEF Overrun

\* What may be recorded is the same or more as long as the row does not leave
\* Failed.
LEMMA AllowedKept ==
    ASSUME TypeOK, NEW r \in Rows, redrives' = redrives,
           status[r] = "Failed" => status'[r] = "Failed"
    PROVE  Allowed(r) <= Allowed(r)'
  <1>1. Cardinality(Dispatchers) \in Nat
    BY LowCounted, Zenon
  <1> QED BY <1>1, MaxAttemptsAssumption DEF Allowed, TypeOK

\* The other dispatchers stay in or out of the set.
LEMMA LowOthers ==
    ASSUME TypeOK, NEW d \in Dispatchers, DispatcherStep(d), NEW r
    PROVE  \A b \in Dispatchers \ {d} : b \in Low(r)' <=> b \in Low(r)
  BY OthersKeep, Zenon DEF Low

\* A claim that may end Retryable reads attempts that leave room for everyone.
LEMMA OverrunClaim ==
    ASSUME TypeOK, TypeOK', OverrunInv, NEW d \in Dispatchers, Claim(d)
    PROVE  OverrunInv'
  <1> SUFFICES ASSUME NEW r \in Rows PROVE Overrun(r)'
    BY Zenon DEF OverrunInv
  <1>1. UNCHANGED <<status, attempts, redrives>> /\ DispatcherStep(d)
    BY Zenon DEF Claim, rowVars, DispatcherStep, Cycle
  <1>2. job'[d] \in Rows /\ seen'[d] = attempts[job'[d]]
    BY DEF Claim, TypeOK
  <1>3. Allowed(r) <= Allowed(r)'
    BY <1>1, AllowedKept, Zenon
  <1>4. CASE d \notin Low(r)'
    <2>1. Low(r)' \subseteq Low(r)
      BY <1>1, <1>4, LowOthers DEF Low
    <2>2. attempts'[r] <= attempts[r]
      BY <1>1 DEF TypeOK
    <2> QED BY <1>3, <2>1, <2>2, OverrunKept, Zenon DEF OverrunInv
  <1>5. CASE d \in Low(r)'
    <2>1. attempts'[r] + 1 < MaxAttempts
      BY <1>1, <1>2, <1>5, Zenon DEF Low
    <2>2. Cardinality(Low(r)') \in Nat /\ Cardinality(Dispatchers) \in Nat
          /\ Cardinality(Low(r)') <= Cardinality(Dispatchers)
      BY LowCounted, LowCountedNext, Zenon
    <2>3. attempts'[r] \in Nat /\ redrives' \in Nat
      BY MaxRedrivesAssumption DEF TypeOK
    <2> QED BY <2>1, <2>2, <2>3, MaxAttemptsAssumption DEF Overrun, Allowed
  <1> QED BY <1>4, <1>5, Zenon

\* Recording a failure moves the recorder's share into the attempts, or fails the
\* row for good.
LEMMA OverrunRecord ==
    ASSUME TypeOK, TypeOK', LockInv, OverrunInv, NEW d \in Dispatchers, Record(d) \/ RecordLate(d)
    PROVE  OverrunInv'
  <1> SUFFICES ASSUME NEW r \in Rows PROVE Overrun(r)'
    BY Zenon DEF OverrunInv
  <1>1. /\ DispatcherStep(d) /\ Return(d) /\ RecordFailure(d) /\ job[d] \in Rows
        /\ redrives' = redrives /\ phase[d] \in Holding \cup {"late"}
    BY Zenon DEF Record, RecordLate, Return, DispatcherStep, Cycle, LockInv, Holding
  <1>2. phase'[d] \in {"idle", "stopped"}
    BY <1>1, ReturnFrees, Zenon
  <1>3. Low(r)' = Low(r) \ {d}
    BY <1>1, <1>2, LowOthers DEF Low, Holding
  <1>4. CASE r # job[d] \/ status[r] \notin {"Pending", "Retryable"}
    <2>1. status'[r] = status[r] /\ attempts'[r] = attempts[r]
      BY <1>1, <1>4, Zenon DEF RecordFailure, TypeOK
    <2>2. Allowed(r) <= Allowed(r)'
      BY <1>1, <2>1, AllowedKept, Zenon
    <2>3. attempts'[r] <= attempts[r]
      BY <2>1 DEF TypeOK
    <2> QED BY <1>3, <2>2, <2>3, OverrunKept, Zenon DEF OverrunInv
  <1>5. CASE r = job[d] /\ status[r] \in {"Pending", "Retryable"}
    <2>1. /\ attempts'[r] = attempts[r] + 1
          /\ status'[r] = IF Exhausted(d) THEN "Failed" ELSE "Retryable"
      BY <1>1, <1>5, Zenon DEF RecordFailure, TypeOK
    <2>2. /\ IsFiniteSet(Low(r)) /\ Cardinality(Low(r)) \in Nat /\ Cardinality(Low(r)') \in Nat
          /\ Cardinality(Dispatchers) \in Nat
      BY LowCounted, LowCountedNext, Zenon
    <2>3. Cardinality(Low(r)') <= Cardinality(Low(r))
      BY <1>3, <2>2, FS_Subset, Zenon
    <2>4. attempts[r] \in Nat /\ redrives \in Nat
      BY MaxRedrivesAssumption DEF TypeOK
    <2>5. attempts[r] + Cardinality(Low(r)) <= MaxAttempts - 2 + Cardinality(Dispatchers) + redrives
      BY <1>5, <2>2, <2>4, MaxAttemptsAssumption DEF OverrunInv, Overrun, Allowed
    <2>6. CASE d \in Low(r)
      <3>1. Cardinality(Low(r)') = Cardinality(Low(r)) - 1
        <4>1. Cardinality(Low(r) \ {d}) = Cardinality(Low(r)) - 1
          BY <2>2, <2>6, FS_RemoveElement, Zenon
        <4> QED BY <4>1, <1>3, Zenon
      <3> QED BY <1>1, <2>1, <2>2, <2>4, <2>5, <3>1, MaxAttemptsAssumption DEF Overrun, Allowed
    <2>7. CASE d \notin Low(r)
      <3>1. status'[r] = "Failed"
        BY <1>1, <1>5, <2>1, <2>7, MaxAttemptsAssumption DEF Low, Exhausted, TypeOK
      <3> QED BY <1>1, <2>1, <2>2, <2>3, <2>4, <2>5, <3>1, MaxAttemptsAssumption DEF Overrun, Allowed
    <2> QED BY <2>6, <2>7, Zenon
  <1> QED BY <1>4, <1>5, Zenon

\* A redrive raises the bound by what a Failed row may have exceeded it.
LEMMA OverrunRedrive ==
    ASSUME TypeOK, TypeOK', OverrunInv,
           NEW rows \in SUBSET Rows, NEW clear \in BOOLEAN, Redrive(rows, clear)
    PROVE  OverrunInv'
  <1> SUFFICES ASSUME NEW r \in Rows PROVE Overrun(r)'
    BY Zenon DEF OverrunInv
  <1>1. Low(r)' = Low(r)
    BY Zenon DEF Redrive, Low, workVars
  <1>2. Cardinality(Low(r)) \in Nat /\ Cardinality(Dispatchers) \in Nat
    BY LowCounted, Zenon
  <1>3. attempts[r] \in Nat /\ attempts'[r] \in Nat /\ attempts'[r] <= attempts[r] /\ redrives \in Nat
    BY MaxRedrivesAssumption DEF TypeOK, Redrive
  <1>4. redrives' = redrives + 1
    BY Zenon DEF Redrive
  <1>5. attempts[r] + Cardinality(Low(r)) <= MaxAttempts - 2 + Cardinality(Dispatchers) + redrives + 1
    BY <1>2, <1>3, MaxAttemptsAssumption DEF OverrunInv, Overrun, Allowed
  <1> QED BY <1>1, <1>2, <1>3, <1>4, <1>5, MaxAttemptsAssumption DEF Overrun, Allowed

\* Every step keeps every row under its bound.
LEMMA OverrunStep ==
    ASSUME IInv, IInv', OverrunInv, [Next]_vars
    PROVE  OverrunInv'
  <1>t. TypeOK /\ TypeOK' /\ LockInv
    BY Zenon DEF IInv
  <1>1. ASSUME \A r \in Rows : Low(r)' \subseteq Low(r), UNCHANGED <<attempts, redrives>>,
               \A r \in Rows : status[r] = "Failed" => status'[r] = "Failed"
        PROVE  OverrunInv'
    <2> SUFFICES ASSUME NEW r \in Rows PROVE Overrun(r)'
      BY Zenon DEF OverrunInv
    <2>1. attempts'[r] <= attempts[r] /\ Allowed(r) <= Allowed(r)'
      BY <1>t, <1>1, AllowedKept DEF TypeOK
    <2> QED BY <1>t, <1>1, <2>1, OverrunKept, Zenon DEF OverrunInv
  <1>2. ASSUME NEW r \in Rows, Arrive(r) \/ RetryDue(r) PROVE OverrunInv'
    <2>1. UNCHANGED <<phase, job, seen, attempts, redrives>>
          /\ \A q \in Rows : status[q] = "Failed" => status'[q] = "Failed"
      BY <1>t, <1>2, Zenon DEF Arrive, RetryDue, workVars, TypeOK
    <2> QED BY <1>1, <2>1, Zenon DEF Low
  <1>3. ASSUME NEW d \in Dispatchers, BeforeFails(d) \/ ApplyFails(d) \/ HandlerFails(d) \/ Apply(d)
                                      \/ SavepointFails(d)
        PROVE  OverrunInv'
    <2>1. /\ UNCHANGED <<job, seen, status, attempts, redrives>> /\ DispatcherStep(d)
          /\ phase[d] \in Holding
      BY <1>3, Zenon DEF BeforeFails, ApplyFails, HandlerFails, Failures, FailWith, Apply, SavepointFails,
                  rowVars, DispatcherStep, Cycle, Holding
    <2>2. \A r \in Rows : Low(r)' \subseteq Low(r)
      BY <1>t, <2>1, LowOthers, Zenon DEF Low
    <2> QED BY <1>1, <2>1, <2>2, Zenon
  <1>4. ASSUME NEW d \in Dispatchers, Commit(d) PROVE OverrunInv'
    <2>1. Return(d) /\ DispatcherStep(d) /\ UNCHANGED <<attempts, redrives>>
      BY <1>4, Zenon DEF Commit, Return, DispatcherStep, Cycle
    <2>2. \A r \in Rows : status[r] = "Failed" => status'[r] = "Failed"
      BY <1>4, CommitEffect, Zenon
    <2>3. \A r \in Rows : Low(r)' \subseteq Low(r)
      BY <1>t, <2>1, ReturnFrees, LowOthers DEF Low, Holding
    <2> QED BY <1>1, <2>1, <2>2, <2>3, Zenon
  <1>5. ASSUME NEW d \in Dispatchers, Abort(d) \/ Crash(d) \/ Restart(d) PROVE OverrunInv'
    <2>1. /\ UNCHANGED <<status, attempts, redrives>> /\ DispatcherStep(d)
          /\ phase'[d] = "idle"
      BY <1>t, <1>5, Zenon DEF Abort, Crash, Restart, Drop, DispatcherStep, rowVars, TypeOK
    <2>2. \A r \in Rows : Low(r)' \subseteq Low(r)
      BY <1>t, <2>1, LowOthers DEF Low, Holding
    <2> QED BY <1>1, <2>1, <2>2, Zenon
  <1>6. CASE UNCHANGED vars
    BY <1>1, <1>6, Zenon DEF vars, rowVars, workVars, Low
  <1> QED BY Zenon, <1>t, <1>2, <1>3, <1>4, <1>5, <1>6, OverrunClaim, OverrunRecord, OverrunRedrive
          DEF Next, Cycle

\* A row is tried again only while its budget lasts; failures recorded late overrun
\* it by at most one for each other dispatcher and each redrive.
THEOREM BudgetHolds == Spec => []BudgetKept
  <1>1. Init => SeenInv /\ OverrunInv
    <2> SUFFICES ASSUME Init PROVE SeenInv /\ OverrunInv
      BY Zenon
    <2>1. SeenInv
      BY Zenon DEF Init, SeenInv, Holding
    <2>2. Cardinality(Dispatchers) \in Nat \ {0}
      BY DispatchersAssumption, FS_CardinalityType, FS_EmptySet, Zenon
    <2>3. \A r \in Rows : Low(r) = {}
      BY Zenon DEF Init, Low, Holding
    <2>4. Cardinality({}) = 0
      BY FS_EmptySet, Zenon
    <2> QED BY <2>1, <2>2, <2>3, <2>4, MaxAttemptsAssumption DEF Init, OverrunInv, Overrun, Allowed
  <1>2. IInv /\ IInv' /\ SeenInv /\ OverrunInv /\ [Next]_vars => SeenInv' /\ OverrunInv'
    BY SeenStep, OverrunStep, Zenon DEF IInv
  <1>3. IInv /\ SeenInv /\ OverrunInv => BudgetKept
    <2> SUFFICES ASSUME TypeOK, SeenInv, OverrunInv, NEW r \in Rows, status[r] = "Retryable"
                 PROVE  attempts[r] < MaxAttempts + IF "savepoint" \in FaultKinds
                                         THEN Cardinality(Dispatchers) - 1 + redrives ELSE 0
      BY Zenon DEF BudgetKept, IInv
    <2>1. Cardinality(Low(r)) \in Nat /\ Cardinality(Dispatchers) \in Nat
      BY LowCounted, Zenon
    <2>2. attempts[r] \in Nat /\ redrives \in Nat
      BY MaxRedrivesAssumption DEF TypeOK
    <2>3. CASE "savepoint" \notin FaultKinds
      BY <2>2, <2>3, MaxAttemptsAssumption DEF SeenInv
    <2>4. CASE "savepoint" \in FaultKinds
      <3>1. attempts[r] + Cardinality(Low(r)) <= MaxAttempts - 2 + Cardinality(Dispatchers) + redrives
        BY <2>1, <2>2, MaxAttemptsAssumption DEF OverrunInv, Overrun, Allowed
      <3> QED BY <2>1, <2>2, <2>4, <3>1, MaxAttemptsAssumption
    <2> QED BY <2>3, <2>4, Zenon
  <1> QED BY <1>1, <1>2, <1>3, Invariance, PTL DEF Spec
=============================================================================
