----------------------------- MODULE BootProofs -----------------------------
(***************************************************************************)
(* The migration runner and the boot around it, for any runners and dry    *)
(* runs, changelogs, pools, topics, modes, foreign clients and faults.     *)
(* The primary key of changelog_history and the transaction of each        *)
(* changeset carry the runner's argument, not the lock: it holds with the  *)
(* lock lost at any moment.  A boot is a migration run with topic          *)
(* convergence before it, so the same holds of it; and a replica that      *)
(* finished its boot has topics to its specification.  For releases, whose *)
(* changelogs come from their declarations, success means all that these   *)
(* imply is recorded, and a checksum mismatch means a topic has moved.     *)
(***************************************************************************)
EXTENDS Release, FiniteSetTheorems, TLAPS

Working == {"locking", "locked", "previewing", "checking", "applying", "releasing"}

Through(r, n) ==
    \A i \in 1 .. Len(Changelog[r]) :
        i < n /\ Admits(r, Changelog[r][i]) => RecordedAs(Changelog[r][i])
AllThrough(r) ==
    \A i \in 1 .. Len(Changelog[r]) :
        Admits(r, Changelog[r][i]) => RecordedAs(Changelog[r][i])

\* How far a runner has come: what is behind its step is recorded, and a run
\* about to report success has everything behind it.
Progress ==
    \A r \in Runners :
        /\ phase[r] \in Working => Ordered(Changelog[r])
        /\ phase[r] \in {"checking", "applying"} => step[r] >= 1 /\ Through(r, step[r])
        /\ phase[r] = "applying" => step[r] <= Len(Changelog[r])
        /\ phase[r] = "releasing" => outcome[r] # "none"
        /\ phase[r] = "releasing" /\ outcome[r] = "done" => AllThrough(r)
        /\ phase[r] = "done" => AllThrough(r)

MigrateInv == TypeOK /\ AppliedOnce /\ AppliedInOrder /\ Progress

-----------------------------------------------------------------------------
\* A changeset a runner applies, which lies within its changelog, is one of the
\* changesets and its version one of the versions.
LEMMA InChangelog ==
    ASSUME NEW r \in Runners, NEW i \in 1 .. Len(Changelog[r])
    PROVE  Changelog[r][i] \in Changesets /\ Changelog[r][i].version \in Versions
BY ChangelogAssumption DEF Changesets, Versions

\* The runner's variables keep their types when Finish or Advance is taken.
LEMMA ReturnTypes ==
    ASSUME TypeOK, NEW r \in Runners, NEW result \in Outcomes,
           Finish(r, result) \/ Advance(r)
    PROVE  /\ phase' \in [Runners -> Phases]
           /\ step' \in [Runners -> Nat]
           /\ outcome' \in [Runners -> Outcomes]
BY DEF TypeOK, Finish, Advance, Phases, Ended, Outcomes

\* What is recorded stays recorded: no step of the runner removes a history row.
LEMMA RecordsKept ==
    ASSUME history \subseteq history', NEW r \in Runners, NEW n \in Nat
    PROVE  /\ Through(r, n) => Through(r, n)'
           /\ AllThrough(r) => AllThrough(r)'
BY Zenon DEF Through, AllThrough, RecordedAs

\* Every step of a runner keeps every variable in its type.
LEMMA StepTypes ==
    ASSUME MigrateInv, [Next]_vars
    PROVE  TypeOK'
<1> USE DEF MigrateInv
<1>1. CASE UNCHANGED vars
  BY <1>1 DEF TypeOK, vars
<1>2. ASSUME NEW r \in Runners, Run(r) PROVE TypeOK'
  <2>1. CASE Begin(r)
    BY <2>1 DEF TypeOK, Begin, Phases, Ended, schemaVars
  <2>2. CASE Lock(r)
    BY <2>2 DEF TypeOK, Lock, Phases, Ended, schemaVars
  <2>3. CASE TryLock(r)
    BY <2>3 DEF TypeOK, TryLock, Phases, Ended, schemaVars
  <2>4. CASE Preview(r)
    BY <2>4 DEF TypeOK, Preview, Vacated, Phases, Ended, schemaVars
  <2>5. CASE Bootstrap(r)
    BY <2>5 DEF TypeOK, Bootstrap, Phases, Ended, schemaVars
  <2>6. CASE AcquireTimesOut(r)
    BY <2>6 DEF TypeOK, AcquireTimesOut, Vacated, Phases, Ended, schemaVars
  <2>7. CASE Check(r)
    <3>1. PICK result \in Outcomes :
            \/ Finish(r, result) \/ Advance(r)
            \/ phase' = [phase EXCEPT ![r] = "applying"] /\ UNCHANGED <<step, outcome>>
      BY <2>7, Zenon DEF Check, Outcomes
    <3>2. /\ phase' \in [Runners -> Phases]
          /\ step' \in [Runners -> Nat]
          /\ outcome' \in [Runners -> Outcomes]
      BY <3>1, ReturnTypes DEF TypeOK, Phases, Ended
    <3> QED BY <2>7, <3>2 DEF TypeOK, Check, schemaVars
  <2>8. CASE Apply(r)
    <3>1. /\ phase' \in [Runners -> Phases]
          /\ step' \in [Runners -> Nat]
          /\ outcome' \in [Runners -> Outcomes]
      BY <2>8, ReturnTypes, Zenon DEF Apply, Outcomes
    <3>2. faults' \in 0 .. MaxFaults
      BY <2>8, MaxFaultsAssumption DEF TypeOK, Apply, Fault
    <3>3. step[r] \in 1 .. Len(Changelog[r])
      BY <2>8, ChangelogAssumption DEF Apply, Progress, TypeOK
    <3>4. Changelog[r][step[r]] \in Changesets /\ Changelog[r][step[r]].version \in Versions
      BY <3>3, InChangelog, Zenon
    <3>5. history' \subseteq {HistoryRow(s, c) : s \in Runners, c \in Changesets}
      BY <2>8, <3>4 DEF Apply, TypeOK, schemaVars
    <3>6. ddl' \in [Versions -> Nat]
      BY <2>8, <3>4 DEF Apply, TypeOK, schemaVars
    <3> QED BY <2>8, <3>1, <3>2, <3>5, <3>6 DEF TypeOK, Apply
  <2>9. CASE Release(r)
    BY <2>9 DEF TypeOK, Release, Vacated, Progress, Phases, Ended, Outcomes, schemaVars
  <2> QED BY <1>2, <2>1, <2>2, <2>3, <2>4, <2>5, <2>6, <2>7, <2>8, <2>9, Zenon DEF Run
<1>3. ASSUME NEW r \in Runners, Interrupt(r) PROVE TypeOK'
  <2>1. faults' \in 0 .. MaxFaults
    BY <1>3, MaxFaultsAssumption
    DEF TypeOK, Interrupt, StatementFails, LockLost, Cancel, Fault
  <2>2. CASE StatementFails(r)
    <3>1. /\ phase' \in [Runners -> Phases]
          /\ step' \in [Runners -> Nat]
          /\ outcome' \in [Runners -> Outcomes]
      BY <2>2, ReturnTypes, Zenon DEF StatementFails, Outcomes
    <3> QED BY <2>1, <2>2, <3>1 DEF TypeOK, StatementFails, schemaVars
  <2>3. CASE LockLost(r)
    BY <2>1, <2>3 DEF TypeOK, LockLost, schemaVars
  <2>4. CASE Cancel(r)
    BY <2>1, <2>4 DEF TypeOK, Cancel, Vacated, Phases, Ended, schemaVars
  <2> QED BY <1>3, <2>2, <2>3, <2>4, Zenon DEF Interrupt
<1>4. ASSUME NEW r \in Runners, Restart(r) PROVE TypeOK'
  <2>1. restarts' \in [Runners -> Nat] /\ \A s \in Runners : restarts'[s] <= MaxRestarts[s]
    <3>1. restarts' \in [Runners -> Nat]
      BY <1>4 DEF TypeOK, Restart
    <3>2. restarts'[r] <= MaxRestarts[r]
      <4>1. restarts'[r] = restarts[r] + 1 /\ restarts[r] < MaxRestarts[r]
        BY <1>4 DEF TypeOK, Restart
      <4>2. restarts[r] \in Nat /\ MaxRestarts[r] \in Nat
        BY MaxRestartsAssumption DEF TypeOK
      <4> QED BY <4>1, <4>2
    <3>3. \A s \in Runners \ {r} : restarts'[s] = restarts[s]
      BY <1>4 DEF TypeOK, Restart
    <3> QED BY <3>1, <3>2, <3>3 DEF TypeOK
  <2>2. /\ phase' \in [Runners -> Phases]
        /\ step' \in [Runners -> Nat]
        /\ outcome' \in [Runners -> Outcomes]
    BY <1>4 DEF TypeOK, Restart, Phases, Ended, Outcomes
  <2> QED BY <1>4, <2>1, <2>2 DEF TypeOK, Restart, schemaVars
<1> QED BY <1>1, <1>2, <1>3, <1>4, Zenon DEF Next

\* A step that leaves the schema alone leaves what is said of it alone.
LEMMA SchemaUntouched ==
    ASSUME MigrateInv, UNCHANGED schemaVars
    PROVE  AppliedOnce' /\ AppliedInOrder'
BY DEF MigrateInv, schemaVars, AppliedOnce, AppliedInOrder, Recorded, RecordedAs

\* A runner that did not move keeps its progress, whatever others recorded.
LEMMA OthersKeep ==
    ASSUME MigrateInv, TypeOK', NEW s \in Runners, history \subseteq history',
           phase'[s] = phase[s], step'[s] = step[s], outcome'[s] = outcome[s]
    PROVE  /\ phase'[s] \in Working => Ordered(Changelog[s])
           /\ phase'[s] \in {"checking", "applying"} => step'[s] >= 1 /\ Through(s, step[s])'
           /\ phase'[s] = "applying" => step'[s] <= Len(Changelog[s])
           /\ phase'[s] = "releasing" => outcome'[s] # "none"
           /\ phase'[s] = "releasing" /\ outcome'[s] = "done" => AllThrough(s)'
           /\ phase'[s] = "done" => AllThrough(s)'
<1>1. step[s] \in Nat
  BY DEF MigrateInv, TypeOK
<1>2. /\ Through(s, step[s]) => Through(s, step[s])'
      /\ AllThrough(s) => AllThrough(s)'
  <2>1. \A n \in Nat : Through(s, n) => \A i \in 1 .. Len(Changelog[s]) :
            i < n /\ Admits(s, Changelog[s][i]) => RecordedAs(Changelog[s][i])'
    BY Zenon DEF Through, RecordedAs
  <2> QED BY <1>1, <2>1, RecordsKept, Zenon DEF Through
<1> QED BY <1>2, Zenon DEF MigrateInv, Progress

\* Applying a changeset the history does not have records it once and in order;
\* a version the history has is refused by its primary key.
LEMMA ApplyStep ==
    ASSUME MigrateInv, NEW r \in Runners, Apply(r), TypeOK'
    PROVE  AppliedOnce' /\ AppliedInOrder' /\ history \subseteq history'
<1> DEFINE c == Changelog[r][step[r]]
<1> USE DEF MigrateInv
<1>1. CASE Recorded(c.version)
  <2>1. UNCHANGED schemaVars
    BY <1>1, Zenon DEF Apply
  <2> QED BY <2>1, SchemaUntouched, Zenon DEF schemaVars
<1>2. CASE ~Recorded(c.version)
  <2>1. /\ history' = history \cup {HistoryRow(r, c)}
        /\ ddl' = [ddl EXCEPT ![c.version] = @ + 1]
    BY <1>2, Zenon DEF Apply
  <2>2. step[r] \in 1 .. Len(Changelog[r])
    BY ChangelogAssumption DEF Apply, Progress, TypeOK
  <2>3. c.version \in Versions
    BY <2>2, InChangelog, Zenon
  <2>4. \A v \in Versions : Recorded(v)' <=> (Recorded(v) \/ v = c.version)
    <3>1. HistoryRow(r, c).version = c.version
      BY Zenon DEF HistoryRow
    <3> HIDE DEF c
    <3> QED BY <2>1, <3>1, Zenon DEF Recorded
  <2>5. \A v \in Versions : ddl'[v] = IF Recorded(v)' THEN 1 ELSE 0
    BY <1>2, <2>1, <2>3, <2>4 DEF AppliedOnce, TypeOK
  <2>6. \A h, g \in history' : h.version = g.version => h = g
    BY <1>2, <2>1 DEF AppliedOnce, Recorded, HistoryRow
  <2>7. AppliedInOrder'
    <3> SUFFICES ASSUME NEW h \in history',
                        NEW i \in 1 .. Len(Changelog[h.applied_by]),
                        NEW j \in 1 .. Len(Changelog[h.applied_by]),
                        i < j, Changelog[h.applied_by][j].version = h.version,
                        Admits(h.applied_by, Changelog[h.applied_by][i])
                 PROVE  RecordedAs(Changelog[h.applied_by][i])'
      BY Zenon DEF AppliedInOrder
    <3>1. CASE h \in history
      <4>1. RecordedAs(Changelog[h.applied_by][i])
        BY <3>1, Zenon DEF AppliedInOrder
      <4> QED BY <2>1, <4>1, Zenon DEF RecordedAs
    <3>2. CASE h = HistoryRow(r, c)
      <4>1. h.applied_by = r /\ h.version = c.version
        BY <3>2, Zenon DEF HistoryRow
      <4>2. Ordered(Changelog[r])
        BY Zenon DEF Apply, Progress, Working
      <4>3. Changelog[r][j].version = Changelog[r][step[r]].version
        BY <4>1, Zenon
      <4>4. ~(step[r] < j) /\ ~(j < step[r])
        BY <2>2, <4>1, <4>2, <4>3, ChangelogAssumption DEF Ordered
      <4>5. i < step[r]
        BY <2>2, <4>1, <4>4, ChangelogAssumption
      <4>6. RecordedAs(Changelog[r][i])
        BY <4>1, <4>5, Zenon DEF Apply, Progress, Through
      <4> QED BY <2>1, <4>1, <4>6, Zenon DEF RecordedAs
    <3> QED BY <2>1, <3>1, <3>2, Zenon
  <2> QED BY <2>1, <2>5, <2>6, <2>7, Zenon DEF AppliedOnce
<1> QED BY <1>1, <1>2, Zenon

\* What a step of a runner needs to know of the types.
RunnerTypes ==
    phase \in [Runners -> Phases] /\ step \in [Runners -> Nat] /\ outcome \in [Runners -> Outcomes]

\* It is part of the type invariant.
LEMMA RunnersTyped == TypeOK => RunnerTypes
BY DEF TypeOK, RunnerTypes

\* A step of one runner moves no other.
LEMMA OthersUnmoved ==
    ASSUME TypeOK, NEW r \in Runners, Run(r) \/ Interrupt(r) \/ Restart(r)
    PROVE  \A s \in Runners \ {r} :
              phase'[s] = phase[s] /\ step'[s] = step[s] /\ outcome'[s] = outcome[s]
<1>t. RunnerTypes
  BY RunnersTyped, Zenon
<1>1. CASE Begin(r) \/ Lock(r) \/ TryLock(r) \/ Preview(r) \/ Bootstrap(r)
  BY <1>t, <1>1 DEF Begin, Lock, TryLock, Preview, Bootstrap, RunnerTypes
<1>2. CASE AcquireTimesOut(r) \/ Release(r) \/ LockLost(r) \/ Cancel(r) \/ Restart(r)
  BY <1>t, <1>2 DEF AcquireTimesOut, Release, LockLost, Cancel, Restart, RunnerTypes
<1>3. CASE Check(r)
  BY <1>t, <1>3 DEF Check, Finish, Advance, RunnerTypes
<1>4. CASE Apply(r) \/ StatementFails(r)
  BY <1>t, <1>4 DEF Apply, StatementFails, Finish, Advance, RunnerTypes
<1> QED BY <1>1, <1>2, <1>3, <1>4, Zenon DEF Run, Interrupt

\* Every step of a runner keeps its own progress and that of the others.
LEMMA ProgressStep ==
    ASSUME MigrateInv, TypeOK', NEW r \in Runners,
           Run(r) \/ Interrupt(r) \/ Restart(r), history \subseteq history'
    PROVE  Progress'
<1> USE DEF MigrateInv
<1>t. RunnerTypes
  BY RunnersTyped, Zenon DEF MigrateInv
<1> DEFINE Moved(s) ==
        /\ phase[s] \in Working => Ordered(Changelog[s])
        /\ phase[s] \in {"checking", "applying"} => step[s] >= 1 /\ Through(s, step[s])
        /\ phase[s] = "applying" => step[s] <= Len(Changelog[s])
        /\ phase[s] = "releasing" => outcome[s] # "none"
        /\ phase[s] = "releasing" /\ outcome[s] = "done" => AllThrough(s)
        /\ phase[s] = "done" => AllThrough(s)
<1>2. \A s \in Runners \ {r} : Moved(s)'
  <2> TAKE s \in Runners \ {r}
  <2>1. phase'[s] = phase[s] /\ step'[s] = step[s] /\ outcome'[s] = outcome[s]
    BY OthersUnmoved, Zenon
  <2> QED BY <2>1, OthersKeep, Zenon
<1>3. Moved(r)'
  <2>1. CASE Begin(r)
    BY <1>t, <2>1 DEF Begin, RunnerTypes, Runnable, Working
  <2>2. CASE Lock(r) \/ TryLock(r) \/ Preview(r)
    BY <1>t, <2>2 DEF Lock, TryLock, Preview, RunnerTypes, Progress, Working
  <2>3. CASE Bootstrap(r)
    BY <1>t, <2>3, ChangelogAssumption DEF Bootstrap, RunnerTypes, Progress, Working, Through
  <2>4. CASE AcquireTimesOut(r)
    BY <1>t, <2>4 DEF AcquireTimesOut, RunnerTypes, Working
  <2>5. CASE Check(r)
    <3> DEFINE c == Changelog[r][step[r]]
    <3>1. /\ phase[r] = "checking" /\ step[r] \in Nat /\ step[r] >= 1
          /\ history' = history /\ Through(r, step[r]) /\ Ordered(Changelog[r])
      BY <1>t, <2>5 DEF Check, schemaVars, Progress, RunnerTypes, Working
    <3>2. CASE step[r] > Len(Changelog[r]) /\ Finish(r, "done")
      <4>1. AllThrough(r)'
        BY <3>1, <3>2, ChangelogAssumption DEF Through, AllThrough, RecordedAs
      <4> QED BY <1>t, <3>1, <3>2, <4>1 DEF Finish, RunnerTypes
    <3>3. CASE step[r] <= Len(Changelog[r]) /\ (~Admits(r, c) \/ RecordedAs(c)) /\ Advance(r)
      <4>1. Through(r, step[r] + 1)
        BY <3>1, <3>3, ChangelogAssumption DEF Through
      <4>2. phase'[r] = "checking" /\ step'[r] = step[r] + 1
        BY <1>t, <3>3 DEF Advance, RunnerTypes
      <4>3. Through(r, step[r])'
        BY <3>1, <4>1, <4>2, Zenon DEF Through, RecordedAs
      <4> QED BY <3>1, <4>2, <4>3
    <3>4. CASE Finish(r, "mismatch")
      BY <1>t, <3>1, <3>4 DEF Finish, RunnerTypes
    <3>5. CASE /\ step[r] <= Len(Changelog[r])
               /\ phase' = [phase EXCEPT ![r] = "applying"] /\ UNCHANGED <<step, outcome>>
      <4>1. Through(r, step[r])'
        BY <3>1, <3>5, Zenon DEF Through, RecordedAs
      <4> QED BY <1>t, <3>1, <3>5, <4>1 DEF RunnerTypes
    <3> QED BY <2>5, <3>2, <3>3, <3>4, <3>5, Zenon DEF Check
  <2>6. CASE Apply(r)
    <3> DEFINE c == Changelog[r][step[r]]
    <3>1. /\ phase[r] = "applying" /\ step[r] \in Nat /\ step[r] >= 1
          /\ Through(r, step[r]) /\ Ordered(Changelog[r])
      BY <1>t, <2>6 DEF Apply, Progress, RunnerTypes, Working
    <3>2. CASE Finish(r, "failed")
      BY <1>t, <3>1, <3>2 DEF Finish, RunnerTypes
    <3>3. CASE history' = history \cup {HistoryRow(r, c)} /\ Advance(r)
      <4>1. \E h \in history' : h.version = c.version /\ h.checksum = c.checksum
        <5>1. HistoryRow(r, c).version = c.version /\ HistoryRow(r, c).checksum = c.checksum
          BY Zenon DEF HistoryRow
        <5> QED BY <3>3, <5>1, Zenon
      <4>2. phase'[r] = "checking" /\ step'[r] = step[r] + 1
        BY <1>t, <3>3 DEF Advance, RunnerTypes
      <4>3. \A i \in 1 .. Len(Changelog[r]) :
               i < step[r] + 1 /\ Admits(r, Changelog[r][i]) => RecordedAs(Changelog[r][i])'
        <5> TAKE i \in 1 .. Len(Changelog[r])
        <5>1. i < step[r] /\ Admits(r, Changelog[r][i]) => RecordedAs(Changelog[r][i])'
          BY <3>1, Zenon DEF Through, RecordedAs
        <5>2. i = step[r] => RecordedAs(Changelog[r][i])'
          BY <4>1, Zenon DEF RecordedAs
        <5> QED BY <3>1, <5>1, <5>2, ChangelogAssumption
      <4>4. Through(r, step[r])'
        BY <4>2, <4>3, Zenon DEF Through
      <4> QED BY <3>1, <4>2, <4>4
    <3> QED BY <2>6, <3>2, <3>3, Zenon DEF Apply
  <2>7. CASE StatementFails(r)
    BY <1>t, <2>7 DEF StatementFails, Finish, RunnerTypes, Progress, Working
  <2>8. CASE LockLost(r)
    BY <2>8, OthersKeep, Zenon DEF LockLost
  <2>9. CASE Cancel(r) \/ Restart(r)
    BY <1>t, <2>9 DEF Cancel, Restart, RunnerTypes, Working
  <2>10. CASE Release(r)
    <3>1. AllThrough(r) => AllThrough(r)'
      BY Zenon DEF AllThrough, RecordedAs
    <3>2. phase'[r] = IF outcome[r] = "done" /\ holder # r THEN "failed" ELSE outcome[r]
      BY <1>t, <2>10 DEF Release, RunnerTypes
    <3>3. outcome[r] \in {"done", "failed", "mismatch"}
      BY <1>t, <2>10 DEF Release, RunnerTypes, Progress, Outcomes
    <3>4. phase'[r] = "done" => AllThrough(r)'
      BY <2>10, <3>1, <3>2, <3>3, Zenon DEF Release, Progress
    <3> QED BY <3>2, <3>3, <3>4, Zenon DEF Working
  <2> QED BY <2>1, <2>2, <2>3, <2>4, <2>5, <2>6, <2>7, <2>8, <2>9, <2>10, Zenon
          DEF Run, Interrupt
<1> QED BY <1>2, <1>3, Zenon DEF Progress

\* MigrateInv is inductive.
LEMMA MigrateInvHolds == Spec => []MigrateInv
<1>1. Init => MigrateInv
  <2> SUFFICES ASSUME Init PROVE MigrateInv
    BY Zenon
  <2>1. TypeOK
    BY MaxFaultsAssumption, MaxRestartsAssumption DEF Init, TypeOK, Phases, Ended, Outcomes
  <2>2. AppliedOnce /\ AppliedInOrder
    BY Zenon DEF Init, AppliedOnce, AppliedInOrder, Recorded
  <2>3. Progress
    BY Zenon DEF Init, Progress, Working
  <2> QED BY <2>1, <2>2, <2>3, Zenon DEF MigrateInv
<1>2. MigrateInv /\ [Next]_vars => MigrateInv'
  <2> SUFFICES ASSUME MigrateInv, [Next]_vars PROVE MigrateInv'
    BY Zenon
  <2>1. TypeOK'
    BY StepTypes, Zenon
  <2>2. CASE UNCHANGED vars
    <3>1. AppliedOnce' /\ AppliedInOrder'
      BY <2>2, SchemaUntouched, Zenon DEF vars, schemaVars
    <3>2. Progress'
      BY <2>2, Zenon DEF vars, MigrateInv, Progress, Through, AllThrough, RecordedAs
    <3> QED BY <2>1, <3>1, <3>2, Zenon DEF MigrateInv
  <2>3. ASSUME NEW r \in Runners, Run(r) \/ Interrupt(r) \/ Restart(r) PROVE MigrateInv'
    <3>1. AppliedOnce' /\ AppliedInOrder' /\ history \subseteq history'
      <4>1. CASE Apply(r)
        BY <2>1, <4>1, ApplyStep, Zenon
      <4>2. CASE ~Apply(r)
        <5>1. UNCHANGED schemaVars
          BY <2>3, <4>2, Zenon DEF Run, Begin, Lock, TryLock, Preview, Bootstrap, AcquireTimesOut,
             Check, Release, Interrupt, StatementFails, LockLost, Cancel, Restart
        <5> QED BY <5>1, SchemaUntouched, Zenon DEF schemaVars
      <4> QED BY <4>1, <4>2, Zenon
    <3>2. Progress'
      BY <2>1, <2>3, <3>1, ProgressStep, Zenon
    <3> QED BY <2>1, <3>1, <3>2, Zenon DEF MigrateInv
  <2> QED BY <2>2, <2>3, Zenon DEF Next
<1> QED BY <1>1, <1>2, PTL DEF Spec

-----------------------------------------------------------------------------
\* Every variable of the runner keeps its type, for any changelogs and faults.
THEOREM TypeCorrect == Spec => []TypeOK
<1>1. MigrateInv => TypeOK
  BY Zenon DEF MigrateInv
<1> QED BY <1>1, MigrateInvHolds, PTL

\* A changeset's statements are committed once, with the one row that records it,
\* even when the lock that keeps runners apart is lost.
THEOREM ChangesetsAppliedOnce == Spec => []AppliedOnce
<1>1. MigrateInv => AppliedOnce
  BY Zenon DEF MigrateInv
<1> QED BY <1>1, MigrateInvHolds, PTL

\* Changesets are applied in the order of the changelog, and none behind one that
\* was edited after it was applied.
THEOREM ChangesetsInOrder == Spec => []AppliedInOrder
<1>1. MigrateInv => AppliedInOrder
  BY Zenon DEF MigrateInv
<1> QED BY <1>1, MigrateInvHolds, PTL

\* A migration that reports success has its whole changelog recorded.
THEOREM SuccessMeansMigrated == Spec => []DoneMeansMigrated
<1>1. MigrateInv => DoneMeansMigrated
  BY Zenon DEF MigrateInv, Progress, AllThrough, DoneMeansMigrated
<1> QED BY <1>1, MigrateInvHolds, PTL

-----------------------------------------------------------------------------
(* What a runner stops on *)

\* The history has a changeset's version with another checksum.
Disagrees(c) == \E h \in history : h.version = c.version /\ h.checksum # c.checksum

\* A runner that stopped, or is about to, on a changed checksum stands at the
\* changeset the history disagrees on.
MismatchFound ==
    \A r \in Runners :
        phase[r] = "mismatch" \/ (phase[r] = "releasing" /\ outcome[r] = "mismatch") =>
            step[r] \in 1 .. Len(Changelog[r]) /\ Disagrees(Changelog[r][step[r]])

\* No step of a runner removes a row of the history.
LEMMA HistoryGrows ==
    ASSUME MigrateInv, TypeOK', NEW r \in Runners, Run(r) \/ Interrupt(r) \/ Restart(r)
    PROVE  history \subseteq history'
<1>1. CASE Apply(r)
  BY <1>1, ApplyStep, Zenon
<1>2. CASE ~Apply(r)
  BY <1>2, Zenon DEF Run, Begin, Lock, TryLock, Preview, Bootstrap, AcquireTimesOut,
     Check, Release, Interrupt, StatementFails, LockLost, Cancel, Restart, schemaVars
<1> QED BY <1>1, <1>2, Zenon

\* The step that finds a mismatch stands at the changeset it is about, and later
\* steps, of this runner or of others, keep it so until the runner starts again.
LEMMA MismatchKept ==
    ASSUME MigrateInv, TypeOK', MismatchFound, NEW r \in Runners,
           Run(r) \/ Interrupt(r) \/ Restart(r)
    PROVE  MismatchFound'
<1> USE DEF MigrateInv
<1>t. RunnerTypes
  BY RunnersTyped, Zenon DEF MigrateInv
<1>1. \A c : Disagrees(c) => Disagrees(c)'
  <2>1. history \subseteq history'
    BY HistoryGrows, Zenon
  <2> QED BY <2>1, Zenon DEF Disagrees
<1>2. ASSUME NEW s \in Runners,
             phase'[s] = "mismatch" \/ (phase'[s] = "releasing" /\ outcome'[s] = "mismatch")
      PROVE  step'[s] \in 1 .. Len(Changelog[s]) /\ Disagrees(Changelog[s][step[s]])'
  <2>1. ASSUME phase'[s] = phase[s], step'[s] = step[s], outcome'[s] = outcome[s]
        PROVE  step'[s] \in 1 .. Len(Changelog[s]) /\ Disagrees(Changelog[s][step[s]])'
    <3>1. step[s] \in 1 .. Len(Changelog[s]) /\ Disagrees(Changelog[s][step[s]])
      BY <1>2, <2>1, Zenon DEF MismatchFound
    <3>2. PICK h \in history' : /\ h.version = Changelog[s][step[s]].version
                                /\ h.checksum # Changelog[s][step[s]].checksum
      BY <3>1, HistoryGrows, Zenon DEF Disagrees
    <3> QED BY <2>1, <3>1, <3>2, Zenon DEF Disagrees
  <2>2. CASE s # r
    BY <2>1, <2>2, OthersUnmoved, Zenon
  <2>3. CASE s = r
    <3>1. CASE Begin(r) \/ Lock(r) \/ TryLock(r) \/ Preview(r) \/ Bootstrap(r)
               \/ AcquireTimesOut(r) \/ Cancel(r) \/ Restart(r)
      <4>1. phase'[r] \in {"locking", "failed", "locked", "previewing", "busy", "previewed",
                          "checking", "down", "idle"}
        BY <1>t, <3>1 DEF Begin, Lock, TryLock, Preview, Bootstrap, AcquireTimesOut, Cancel, Restart,
           RunnerTypes
      <4> QED BY <1>2, <2>3, <4>1, Zenon
    <3>2. CASE LockLost(r)
      BY <2>1, <2>3, <3>2, Zenon DEF LockLost
    <3>3. CASE Release(r)
      <4>1. phase[r] = "releasing" /\ step' = step /\ history' = history
        BY <3>3, Zenon DEF Release, schemaVars
      <4>2. outcome[r] = "mismatch"
        <5>1. phase'[r] = IF outcome[r] = "done" /\ holder # r THEN "failed" ELSE outcome[r]
          BY <1>t, <3>3 DEF Release, RunnerTypes
        <5>2. outcome[r] \in {"done", "failed", "mismatch"}
          <6>1. outcome[r] # "none"
            BY <4>1, Zenon DEF Progress
          <6>2. outcome[r] \in Outcomes
            BY <1>t DEF RunnerTypes
          <6> QED BY <6>1, <6>2, Zenon DEF Outcomes
        <5> QED BY <1>2, <2>3, <5>1, <5>2, Zenon
      <4>3. step[r] \in 1 .. Len(Changelog[r]) /\ Disagrees(Changelog[r][step[r]])
        BY <4>1, <4>2, Zenon DEF MismatchFound
      <4> QED BY <2>3, <4>1, <4>3, Zenon DEF Disagrees
    <3>4. ASSUME NEW result \in {"done", "failed"}, Finish(r, result) PROVE FALSE
      <4>1. phase'[r] = "releasing" /\ outcome'[r] = result
        BY <1>t, <3>4 DEF Finish, RunnerTypes
      <4> QED BY <1>2, <2>3, <3>4, <4>1, Zenon
    <3>5. ASSUME Advance(r) PROVE FALSE
      <4>1. phase'[r] = "checking"
        BY <1>t, <3>5 DEF Advance, RunnerTypes
      <4> QED BY <1>2, <2>3, <4>1, Zenon
    <3>6. CASE Apply(r) \/ StatementFails(r)
      BY <3>4, <3>5, <3>6, Zenon DEF Apply, StatementFails
    <3>7. CASE Check(r)
      <4> DEFINE c == Changelog[r][step[r]]
      <4>1. CASE phase' = [phase EXCEPT ![r] = "applying"]
        <5>1. phase'[r] = "applying"
          BY <1>t, <4>1 DEF RunnerTypes
        <5> QED BY <1>2, <2>3, <5>1, Zenon
      <4>2. ASSUME step[r] <= Len(Changelog[r]), Recorded(c.version), ~RecordedAs(c),
                   Finish(r, "mismatch")
            PROVE  step'[r] \in 1 .. Len(Changelog[r]) /\ Disagrees(Changelog[r][step[r]])'
        <5>1. history' = history /\ step' = step /\ phase[r] = "checking"
          BY <3>7, <4>2, Zenon DEF Check, Finish, schemaVars
        <5>2. step[r] \in Nat /\ step[r] >= 1 /\ Len(Changelog[r]) \in Nat
          BY <1>t, <5>1, ChangelogAssumption DEF Progress, RunnerTypes
        <5>3. step[r] \in 1 .. Len(Changelog[r])
          BY <4>2, <5>2
        <5>4. Disagrees(c)
          BY <4>2, Zenon DEF Recorded, RecordedAs, Disagrees
        <5> QED BY <5>1, <5>3, <5>4, Zenon DEF Disagrees
      <4> QED BY <2>3, <3>4, <3>5, <3>7, <4>1, <4>2, Zenon DEF Check
    <3> QED BY <2>3, <3>1, <3>2, <3>3, <3>6, <3>7, Zenon DEF Run, Interrupt
  <2> QED BY <2>2, <2>3, Zenon
<1> QED BY <1>2, Zenon DEF MismatchFound

\* MismatchFound holds throughout.
LEMMA MismatchFoundHolds == Spec => []MismatchFound
<1>1. Init => MismatchFound
  BY Zenon DEF Init, MismatchFound
<1>2. MigrateInv /\ MigrateInv' /\ MismatchFound /\ [Next]_vars => MismatchFound'
  <2> SUFFICES ASSUME MigrateInv, MigrateInv', MismatchFound, [Next]_vars PROVE MismatchFound'
    BY Zenon
  <2>1. CASE UNCHANGED vars
    BY <2>1, Zenon DEF vars, MismatchFound, Disagrees
  <2>2. TypeOK'
    BY Zenon DEF MigrateInv
  <2> QED BY <2>1, <2>2, MismatchKept, Zenon DEF Next
<1> QED BY <1>1, <1>2, MigrateInvHolds, PTL DEF Spec

-----------------------------------------------------------------------------
(* Topic convergence before the migration *)

\* What convergence has reconciled so far is as specified.
Reconciled(r, n) ==
    \A i \in 1 .. Len(Specs[r]) : i < n /\ T!FirstFor(r, i) =>
        broker[Specs[r][i].topic].cleanup_policy = Specs[r][i].cleanup_policy

TopicProgress(r) ==
    /\ Mode[r] # "off" => Reconciled(r, item[r])
    /\ stage[r] \in {"creating", "verifying"} =>
          Mode[r] # "off" /\ item[r] <= Len(Specs[r])
    /\ stage[r] = "converged" /\ Mode[r] # "off" => item[r] > Len(Specs[r])
    /\ phase[r] # "idle" => r \in Previews \/ stage[r] = "converged"

BootInv ==
    /\ T!TopicTypeOK
    /\ \A r \in Runners : TopicProgress(r)

-----------------------------------------------------------------------------
\* Each step of a boot is a step of the migration runner or leaves it alone.
THEOREM BootIsMigration == BootSpec => Spec
<1>1. BootInit => Init
  BY Zenon DEF BootInit
<1>2. [BootNext]_bootVars => [Next]_vars
  BY Zenon DEF BootNext, bootVars, Boots, Converge, ConvergeFails, Migrates, Interrupted,
         Reboot, Next
<1> QED BY <1>1, <1>2, PTL DEF BootSpec, Spec

\* Every descriptor names a topic, a policy and a partition count.
LEMMA SpecTyped ==
    ASSUME NEW r \in Runners, NEW i \in 1 .. Len(Specs[r])
    PROVE  /\ Specs[r][i].topic \in TopicNames
           /\ Specs[r][i].cleanup_policy \in {"compact", "delete"}
           /\ Specs[r][i].partitions \in Nat
<1> DEFINE TopicSpecs == [topic : TopicNames, cleanup_policy : {"compact", "delete"},
                          partitions : Nat]
<1>1. Specs[r] \in Seq(TopicSpecs)
  BY SpecsAssumption, Zenon
<1> HIDE DEF TopicSpecs
<1>2. Specs[r][i] \in TopicSpecs
  BY <1>1
<1> QED BY <1>2, Zenon DEF TopicSpecs

\* The broker's configuration of a topic that exists is never changed.
LEMMA BrokerKeeps ==
    ASSUME BootInv, BootNext
    PROVE  /\ broker' \in [TopicNames -> [cleanup_policy : {"none", "compact", "delete"},
                                          partitions : Nat]]
           /\ \A t \in TopicNames : broker[t].cleanup_policy # "none" => broker'[t] = broker[t]
<1>1. CASE UNCHANGED broker
  BY <1>1, Zenon DEF BootInv, T!TopicTypeOK, T!Policies
<1>2. ASSUME NEW t \in TopicNames, T!AutoCreate(t)
      PROVE  /\ broker' \in [TopicNames -> [cleanup_policy : {"none", "compact", "delete"},
                                            partitions : Nat]]
             /\ \A u \in TopicNames : broker[u].cleanup_policy # "none" => broker'[u] = broker[u]
  BY <1>2 DEF BootInv, T!TopicTypeOK, T!Policies, T!AutoCreate, T!NoTopic
<1>3. ASSUME NEW r \in Runners, T!Create(r)
      PROVE  /\ broker' \in [TopicNames -> [cleanup_policy : {"none", "compact", "delete"},
                                            partitions : Nat]]
             /\ \A u \in TopicNames : broker[u].cleanup_policy # "none" => broker'[u] = broker[u]
  <2>1. item[r] \in 1 .. Len(Specs[r])
    BY <1>3, SpecsAssumption DEF T!Create, BootInv, TopicProgress, T!TopicTypeOK, T!Policies
  <2>2. /\ T!Current(r).topic \in TopicNames
        /\ T!Current(r).cleanup_policy \in {"compact", "delete"}
        /\ T!Current(r).partitions \in Nat
    BY <2>1, SpecTyped, Zenon DEF T!Current
  <2> QED BY <1>3, <2>2 DEF T!Create, BootInv, T!TopicTypeOK, T!Policies, T!NoTopic
<1> QED BY <1>1, <1>2, <1>3, Zenon
        DEF BootNext, Boots, Converge, T!Converge, T!Conclude, T!Observe, T!Verify,
            ConvergeFails, T!AdminFails, Migrates, Interrupted, Reboot, topicVars

\* What was reconciled stays so.
LEMMA ReconciledKept ==
    ASSUME BootInv, BootNext, NEW r \in Runners, NEW n \in Nat, Reconciled(r, n)
    PROVE  Reconciled(r, n)'
<1> SUFFICES ASSUME NEW i \in 1 .. Len(Specs[r]), i < n, T!FirstFor(r, i)
             PROVE  broker'[Specs[r][i].topic].cleanup_policy = Specs[r][i].cleanup_policy
  BY Zenon DEF Reconciled, T!FirstFor
<1>1. Specs[r][i].topic \in TopicNames /\ Specs[r][i].cleanup_policy # "none"
  BY SpecTyped, Zenon
<1>2. broker[Specs[r][i].topic].cleanup_policy = Specs[r][i].cleanup_policy
  BY Zenon DEF Reconciled
<1> QED BY <1>1, <1>2, BrokerKeeps, Zenon

\* Moving on from a topic found to be as specified, or reconciled before, extends
\* what is reconciled.
LEMMA ReconciledGrows ==
    ASSUME BootInv, BootNext, NEW r \in Runners, Reconciled(r, item[r]),
           item[r] \in 1 .. Len(Specs[r]), item'[r] = item[r] + 1,
           T!Seen(r) \/ broker'[T!Current(r).topic].cleanup_policy = T!Current(r).cleanup_policy
    PROVE  Reconciled(r, item[r])'
<1>1. \A i \in 1 .. Len(Specs[r]) : i < item[r] /\ T!FirstFor(r, i) =>
          broker'[Specs[r][i].topic].cleanup_policy = Specs[r][i].cleanup_policy
  <2>1. item[r] \in Nat
    OBVIOUS
  <2> QED BY <2>1, ReconciledKept, Zenon DEF Reconciled, T!FirstFor
<1>2. T!FirstFor(r, item[r]) =>
          broker'[Specs[r][item[r]].topic].cleanup_policy = Specs[r][item[r]].cleanup_policy
  BY Zenon DEF T!Seen, T!FirstFor, T!Current
<1>3. \A i \in 1 .. Len(Specs[r]) : i < item[r] + 1 /\ T!FirstFor(r, i) =>
          broker'[Specs[r][i].topic].cleanup_policy = Specs[r][i].cleanup_policy
  <2>1. \A i \in 1 .. Len(Specs[r]) : i < item[r] + 1 => i < item[r] \/ i = item[r]
    <3>1. item[r] \in Nat
      OBVIOUS
    <3>2. \A i \in Nat : \A n \in Nat : i < n + 1 => i < n \/ i = n
      OBVIOUS
    <3>3. \A i \in 1 .. Len(Specs[r]) : i \in Nat
      OBVIOUS
    <3> QED BY <3>1, <3>2, <3>3, Zenon
  <2> QED BY <1>1, <1>2, <2>1, Zenon
<1> QED BY <1>3, Zenon DEF Reconciled, T!FirstFor

\* A replica that did not move keeps its progress, whatever the broker was told.
LEMMA IdleKeeps ==
    ASSUME BootInv, BootNext, NEW r \in Runners,
           stage'[r] = stage[r], item'[r] = item[r],
           phase'[r] = phase[r] \/ phase'[r] = "idle" \/ stage[r] = "converged" \/ r \in Previews
    PROVE  TopicProgress(r)'
<1>1. item[r] \in Nat
  BY Zenon DEF BootInv, T!TopicTypeOK, T!Policies
<1>2. Reconciled(r, item[r]) => Reconciled(r, item[r])'
  <2>1. Reconciled(r, item[r]) => \A i \in 1 .. Len(Specs[r]) : i < item[r] /\ T!FirstFor(r, i) =>
          broker'[Specs[r][i].topic].cleanup_policy = Specs[r][i].cleanup_policy
    BY <1>1, ReconciledKept, Zenon DEF Reconciled, T!FirstFor
  <2> QED BY <2>1, Zenon DEF Reconciled, T!FirstFor
<1> QED BY <1>2, Zenon DEF BootInv, TopicProgress

\* A positive number up to m is an index of a list of m items.
LEMMA IndexUpTo == \A n \in Nat \ {0}, m \in Nat : n <= m => n \in 1 .. m
OBVIOUS

\* A boot step of one replica keeps that replica's own progress.
LEMMA MoverKeeps ==
    ASSUME BootInv, BootNext, TypeOK, NEW r \in Runners,
           Boots(r) \/ ConvergeFails(r) \/ Interrupted(r) \/ Reboot(r)
    PROVE  TopicProgress(r)'
<1> USE DEF BootInv
<1>1. /\ item[r] \in Nat \ {0} /\ stage \in [Runners -> T!Stages]
      /\ item \in [Runners -> Nat \ {0}] /\ Len(Specs[r]) \in Nat
  BY SpecsAssumption DEF T!TopicTypeOK, T!Policies
<1>2. CASE Migrates(r) \/ Interrupted(r)
  BY <1>2, IdleKeeps, Zenon DEF Migrates, Interrupted, MayMigrate, topicVars
<1>3. CASE Reboot(r)
  <2>1. item'[r] = 1 /\ stage'[r] \in {"observing", "refused"} /\ phase'[r] = "idle"
    BY <1>1, <1>3 DEF Reboot, Restart, FirstStage, TypeOK
  <2> QED BY <2>1, <1>1 DEF TopicProgress, Reconciled
<1>4. ASSUME T!Converge(r) \/ T!AdminFails(r), r \notin Previews, UNCHANGED vars
      PROVE  TopicProgress(r)'
  <2>1. stage[r] # "converged" /\ phase[r] = "idle" /\ phase'[r] = "idle"
    BY <1>4, Zenon DEF T!Converge, T!Conclude, T!Observe, T!Create, T!Verify, T!AdminFails,
                TopicProgress, vars
  <2>2. ASSUME item' = item PROVE Mode[r] # "off" => Reconciled(r, item[r])'
    <3>1. item'[r] = item[r] /\ item[r] \in Nat
      BY <1>1, <2>2, Zenon
    <3>2. Mode[r] # "off" => \A i \in 1 .. Len(Specs[r]) : i < item[r] /\ T!FirstFor(r, i) =>
            broker'[Specs[r][i].topic].cleanup_policy = Specs[r][i].cleanup_policy
      BY <3>1, ReconciledKept, Zenon DEF Reconciled, T!FirstFor, TopicProgress
    <3> QED BY <3>1, <3>2, Zenon DEF Reconciled, T!FirstFor
  <2>3. CASE T!AdminFails(r)
    BY <1>1, <2>1, <2>2, <2>3, Zenon DEF T!AdminFails, T!MoveTo, TopicProgress
  <2>4. CASE T!Conclude(r)
    BY <1>1, <2>1, <2>2, <2>4, Zenon DEF T!Conclude, T!MoveTo, TopicProgress
  <2>5. CASE T!Create(r)
    BY <1>1, <2>1, <2>2, <2>5, Zenon DEF T!Create, T!MoveTo, TopicProgress
  <2>6. ASSUME T!NextItem(r), item[r] <= Len(Specs[r]), Mode[r] # "off", UNCHANGED broker,
               T!Seen(r) \/ broker[T!Current(r).topic].cleanup_policy = T!Current(r).cleanup_policy
        PROVE  TopicProgress(r)'
    <3>1. item'[r] = item[r] + 1 /\ stage'[r] = "observing"
      BY <1>1, <2>6, Zenon DEF T!NextItem, T!MoveTo
    <3>2. item[r] \in 1 .. Len(Specs[r]) /\ Reconciled(r, item[r])
      BY <1>1, <2>6, IndexUpTo, Zenon DEF TopicProgress
    <3>3. Reconciled(r, item[r])'
      BY <2>6, <3>1, <3>2, ReconciledGrows, Zenon
    <3> QED BY <2>1, <3>1, <3>3, Zenon DEF TopicProgress
  <2>7. CASE T!Observe(r)
    <3>1. /\ Mode[r] # "off" /\ item[r] <= Len(Specs[r]) /\ UNCHANGED broker
      BY <2>7, Zenon DEF T!Observe
    <3>2. CASE T!Seen(r) /\ T!NextItem(r)
      BY <2>6, <3>1, <3>2, Zenon
    <3>3. ASSUME NEW observed \in T!Observations(T!Current(r).topic),
                 T!Reconcile(T!Current(r), observed, Mode[r]) = "satisfied", T!NextItem(r)
          PROVE  TopicProgress(r)'
      <4>1. observed # T!NoTopic /\ observed.cleanup_policy = T!Current(r).cleanup_policy
        BY <3>1, <3>3, Zenon DEF T!Reconcile
      <4>2. observed = broker[T!Current(r).topic]
        BY <4>1, Zenon DEF T!Observations
      <4> QED BY <2>6, <3>1, <3>3, <4>1, <4>2, Zenon
    <3>4. CASE item' = item /\ (T!MoveTo(r, "creating") \/ T!MoveTo(r, "refused"))
      BY <1>1, <2>1, <2>2, <3>1, <3>4, Zenon DEF T!MoveTo, TopicProgress
    <3> QED BY <2>7, <3>2, <3>3, <3>4, Zenon DEF T!Observe
  <2>8. CASE T!Verify(r)
    <3>1. /\ Mode[r] # "off" /\ item[r] <= Len(Specs[r]) /\ UNCHANGED broker
      BY <2>8, Zenon DEF T!Verify, TopicProgress
    <3>2. ASSUME NEW observed \in T!Observations(T!Current(r).topic),
                 T!Reconcile(T!Current(r), observed, "verify") = "satisfied", T!NextItem(r)
          PROVE  TopicProgress(r)'
      <4>1. observed # T!NoTopic /\ observed.cleanup_policy = T!Current(r).cleanup_policy
        BY <3>2, Zenon DEF T!Reconcile
      <4>2. observed = broker[T!Current(r).topic]
        BY <4>1, Zenon DEF T!Observations
      <4> QED BY <2>6, <3>1, <3>2, <4>1, <4>2, Zenon
    <3>3. CASE item' = item /\ T!MoveTo(r, "refused")
      BY <1>1, <2>1, <2>2, <3>3, Zenon DEF T!MoveTo, TopicProgress
    <3> QED BY <2>8, <3>2, <3>3, Zenon DEF T!Verify
  <2> QED BY <1>4, <2>3, <2>4, <2>5, <2>7, <2>8, Zenon DEF T!Converge
<1> QED BY <1>2, <1>3, <1>4, Zenon DEF Boots, Converge, ConvergeFails

\* BootInv holds throughout.
LEMMA BootInvHolds == BootSpec => []BootInv
<1>1. BootInit => BootInv
  <2> SUFFICES ASSUME BootInit PROVE BootInv
    BY Zenon
  <2>1. T!TopicTypeOK
    BY ProvisionedAssumption DEF BootInit, T!Init, T!TopicTypeOK, T!Policies, T!Stages
  <2>2. ASSUME NEW r \in Runners PROVE TopicProgress(r)
    <3>1. stage[r] \in {"observing", "refused"} /\ item[r] = 1 /\ phase[r] = "idle"
      BY Zenon DEF BootInit, FirstStage, Init, T!Init
    <3> QED BY <3>1 DEF TopicProgress, Reconciled
  <2> QED BY <2>1, <2>2, Zenon DEF BootInv
<1>2. BootInv /\ TypeOK /\ [BootNext]_bootVars => BootInv'
  <2> SUFFICES ASSUME BootInv, TypeOK, [BootNext]_bootVars PROVE BootInv'
    BY Zenon
  <2>1. CASE UNCHANGED bootVars
    BY <2>1, Zenon DEF bootVars, topicVars, vars, BootInv, T!TopicTypeOK, T!Policies, TopicProgress, Reconciled,
                T!FirstFor
  <2>2. ASSUME BootNext, NEW t \in TopicNames, T!AutoCreate(t), UNCHANGED vars PROVE BootInv'
    <3>1. T!TopicTypeOK'
      BY <2>2, BrokerKeeps, Zenon DEF T!AutoCreate, BootInv, T!TopicTypeOK, T!Policies
    <3>2. ASSUME NEW s \in Runners PROVE TopicProgress(s)'
      BY <2>2, IdleKeeps, Zenon DEF T!AutoCreate, vars
    <3> QED BY <3>1, <3>2, Zenon DEF BootInv
  <2>3. ASSUME BootNext, NEW r \in Runners,
               Boots(r) \/ ConvergeFails(r) \/ Interrupted(r) \/ Reboot(r)
        PROVE  BootInv'
    <3>1. stage' \in [Runners -> T!Stages] /\ item' \in [Runners -> Nat \ {0}]
      <4> USE DEF BootInv, T!TopicTypeOK, T!Policies
      <4>1. CASE Migrates(r) \/ Interrupted(r)
        BY <4>1, Zenon DEF Migrates, Interrupted, topicVars
      <4>2. CASE Reboot(r)
        BY <4>2 DEF Reboot, FirstStage, T!Stages
      <4>3. CASE T!Observe(r) \/ T!Verify(r)
        <5>1. CASE T!NextItem(r)
          BY <5>1 DEF T!NextItem, T!MoveTo, T!Stages
        <5>2. CASE item' = item /\ (T!MoveTo(r, "creating") \/ T!MoveTo(r, "refused"))
          BY <5>2, Zenon DEF T!MoveTo, T!Stages
        <5> QED BY <4>3, <5>1, <5>2, Zenon DEF T!Observe, T!Verify
      <4>4. CASE T!Conclude(r) \/ T!Create(r) \/ T!AdminFails(r)
        BY <4>4, Zenon DEF T!Conclude, T!Create, T!AdminFails, T!MoveTo, T!Stages
      <4> QED BY <2>3, <4>1, <4>2, <4>3, <4>4, Zenon DEF Boots, Converge, ConvergeFails, T!Converge
    <3>2. T!TopicTypeOK'
      BY <2>3, <3>1, BrokerKeeps, Zenon DEF T!TopicTypeOK, T!Policies
    <3>3. ASSUME NEW s \in Runners \ {r}
          PROVE  stage'[s] = stage[s] /\ item'[s] = item[s]
      BY <2>3, Zenon DEF BootInv, T!TopicTypeOK, T!Policies, Boots, Converge, ConvergeFails, Migrates, Interrupted,
         Reboot, T!Converge, T!Conclude, T!Observe, T!Create, T!Verify,
         T!AdminFails, T!MoveTo, T!NextItem, topicVars
    <3>4. ASSUME NEW s \in Runners \ {r} PROVE phase'[s] = phase[s]
      BY <2>3, OthersUnmoved, Zenon
      DEF Boots, Converge, ConvergeFails, Migrates, Interrupted, Reboot, vars
    <3>5. ASSUME NEW s \in Runners \ {r} PROVE TopicProgress(s)'
      BY <2>3, <3>3, <3>4, IdleKeeps, Zenon
    <3>6. TopicProgress(r)'
      BY <2>3, MoverKeeps, Zenon
    <3> QED BY <3>2, <3>5, <3>6, Zenon DEF BootInv
  <2> QED BY <2>1, <2>2, <2>3, Zenon DEF BootNext
<1> QED BY <1>1, <1>2, BootIsMigration, TypeCorrect, PTL DEF BootSpec

\* A replica whose build succeeded has, for each of its topics, the policy its
\* message type requires, whoever created the topic and however stale what the
\* broker answered; convergence is never skipped on the way to a migration.
THEOREM BootedTopics == BootSpec => []TopicsToSpec
<1>1. BootInv => TopicsToSpec
  <2> SUFFICES ASSUME BootInv, NEW r \in Runners \ Previews, phase[r] = "done", Mode[r] # "off",
                      NEW i \in 1 .. Len(Specs[r]), T!FirstFor(r, i)
               PROVE  broker[Specs[r][i].topic].cleanup_policy = Specs[r][i].cleanup_policy
    BY Zenon DEF TopicsToSpec
  <2>1. Reconciled(r, item[r]) /\ item[r] > Len(Specs[r])
    BY Zenon DEF BootInv, TopicProgress
  <2>2. item[r] \in Nat /\ Len(Specs[r]) \in Nat
    BY SpecsAssumption DEF BootInv, T!TopicTypeOK, T!Policies
  <2>3. i < item[r]
    BY <2>1, <2>2
  <2> QED BY <2>1, <2>3, Zenon DEF Reconciled
<1> QED BY <1>1, BootInvHolds, PTL

\* Success of a whole boot means the replica's changelog is recorded, each
\* changeset once: the theorems about the migration runner, for replicas that boot.
THEOREM BootedSchema == BootSpec => [](AppliedOnce /\ DoneMeansMigrated)
BY BootIsMigration, ChangesetsAppliedOnce, SuccessMeansMigrated, PTL

-----------------------------------------------------------------------------
(* What the declarations of a release imply *)

\* The digest tells the tables of the releases that share a schema apart.  A
\* release whose own tables collide is refused; across releases nothing checks it.
BandsApart ==
    \A r, s \in Runners : \A t \in TablesOf(r), u \in TablesOf(s) :
        Band[<<t.kind, t.message_type>>] = Band[<<u.kind, u.message_type>>] =>
            t.kind = u.kind /\ t.message_type = u.message_type

\* A version determines the band and the slot it was made from.
LEMMA SlotsApart ==
    ASSUME NEW x \in Nat, NEW y \in Nat, NEW i \in {0, 1}, NEW j \in {0, 1},
           NEW w \in Nat, w > 1, x * w + i = y * w + j
    PROVE  x = y /\ i = j
<1>1. ASSUME NEW m \in Nat, NEW n \in Nat, m < n
      PROVE  n * w >= m * w + w /\ n * w \in Nat /\ m * w \in Nat
  <2>1. PICK k \in Nat : n = m + 1 + k
    <3>1. n - m - 1 \in Nat /\ n = m + 1 + (n - m - 1)
      BY <1>1
    <3> QED BY <3>1, Zenon
  <2>2. n * w = m * w + w + k * w /\ k * w \in Nat /\ m * w \in Nat
    BY <2>1
  <2> QED BY <2>2
<1>2. ~(x < y)
  <2> SUFFICES ASSUME x < y PROVE FALSE
    BY Zenon
  <2>1. y * w >= x * w + w /\ y * w \in Nat /\ x * w \in Nat
    BY <1>1, Zenon
  <2> QED BY <2>1
<1>3. ~(y < x)
  <2> SUFFICES ASSUME y < x PROVE FALSE
    BY Zenon
  <2>1. x * w >= y * w + w /\ x * w \in Nat /\ y * w \in Nat
    BY <1>1, Zenon
  <2> QED BY <2>1
<1>4. x = y
  BY <1>2, <1>3
<1>5. x * w \in Nat
  OBVIOUS
<1> QED BY <1>4, <1>5

\* The name of the changeset at a slot of a table.
SlotName(t, slot) == IF slot = 0 THEN <<"create", t.kind>> ELSE "add_outbox_enqueue_order"

\* The two changesets of a table: their slots, names and versions.
LEMMA ChangesetShape ==
    ASSUME NEW t, NEW c \in ChangesetsFor(t)
    PROVE  \E slot \in {0, 1} :
              /\ c.version = RESERVED_CEILING + Band[<<t.kind, t.message_type>>] * BAND_WIDTH + slot
              /\ c.checksum = <<c.version, SlotName(t, slot), t.message_type, t.topic>>
              /\ c.contexts = {}
<1>1. CASE c = DescriptorChangeset(<<"create", t.kind>>, t, 0)
  BY <1>1, Zenon DEF DescriptorChangeset, ChangesetVersion, SlotName
<1>2. CASE c = DescriptorChangeset("add_outbox_enqueue_order", t, 1)
  BY <1>2 DEF DescriptorChangeset, ChangesetVersion, SlotName
<1> QED BY <1>1, <1>2, Zenon DEF ChangesetsFor

\* Changesets of one version that differ belong to tables of one kind and message
\* type that differ in their topic.
LEMMA OnlyTopicsDiffer ==
    ASSUME BandsApart, NEW r \in Runners, NEW s \in Runners,
           NEW t \in TablesOf(r), NEW u \in TablesOf(s),
           NEW c \in ChangesetsFor(t), NEW d \in ChangesetsFor(u),
           c.version = d.version, c.checksum # d.checksum
    PROVE  MovedTable(t)
<1>1. PICK i \in {0, 1} :
          /\ c.version = RESERVED_CEILING + Band[<<t.kind, t.message_type>>] * BAND_WIDTH + i
          /\ c.checksum = <<c.version, SlotName(t, i), t.message_type, t.topic>>
  BY ChangesetShape, Zenon
<1>2. PICK j \in {0, 1} :
          /\ d.version = RESERVED_CEILING + Band[<<u.kind, u.message_type>>] * BAND_WIDTH + j
          /\ d.checksum = <<d.version, SlotName(u, j), u.message_type, u.topic>>
  BY ChangesetShape, Zenon
<1>3. PICK x \in Nat : x = Band[<<t.kind, t.message_type>>]
  BY ReleaseAssumption, Zenon
<1>4. PICK y \in Nat : y = Band[<<u.kind, u.message_type>>]
  BY ReleaseAssumption, Zenon
<1>5. x * BAND_WIDTH + i = y * BAND_WIDTH + j
  <2>1. RESERVED_CEILING + x * BAND_WIDTH + i = RESERVED_CEILING + y * BAND_WIDTH + j
    BY <1>1, <1>2, <1>3, <1>4, Zenon
  <2>2. x * BAND_WIDTH \in Nat /\ y * BAND_WIDTH \in Nat
    BY VersionsAssumption
  <2> QED BY <2>1, <2>2, VersionsAssumption
<1>6. x = y /\ i = j
  <2>1. BAND_WIDTH \in Nat /\ BAND_WIDTH > 1
    BY VersionsAssumption, Zenon
  <2> QED BY <1>5, <2>1, SlotsApart
<1>7. t.kind = u.kind /\ t.message_type = u.message_type
  <2>1. Band[<<t.kind, t.message_type>>] = Band[<<u.kind, u.message_type>>]
    BY <1>3, <1>4, <1>6, Zenon
  <2> QED BY <2>1, Zenon DEF BandsApart
<1>8. SlotName(t, i) = SlotName(u, j)
  BY <1>6, <1>7, Zenon DEF SlotName
<1>9. t.topic # u.topic
  BY <1>1, <1>2, <1>7, <1>8, Zenon
<1> QED BY <1>7, <1>9, Zenon DEF MovedTable

\* A finite set of changesets can be listed by version, ties in some order: each
\* takes the place that the number of those ahead of it gives.
LEMMA Sortable ==
    ASSUME NEW S, IsFiniteSet(S), \A c \in S : c.version \in Int
    PROVE  \E steps \in [1 .. Cardinality(S) -> S] :
              /\ \A c \in S : \E i \in 1 .. Cardinality(S) : steps[i] = c
              /\ \A i, j \in 1 .. Cardinality(S) :
                    i < j => steps[i].version <= steps[j].version
<1>1. PICK n \in Nat : n = Cardinality(S)
  BY FS_CardinalityType, Zenon
<1>2. PICK b : b \in Bijection(1 .. n, S)
  BY <1>1, FS_CardinalityType, Zenon DEF ExistsBijection
<1>3. /\ b \in [1 .. n -> S]
      /\ \A c \in S : \E i \in 1 .. n : b[i] = c
  BY <1>2, Zenon DEF Bijection, Injection, Surjection
<1>4. \A i \in 1 .. n : b[i].version \in Int
  BY <1>3, Zenon
<1> DEFINE Precedes(i, k) ==
               b[i].version < b[k].version \/ (b[i].version = b[k].version /\ i <= k)
           Ahead(k) == {i \in 1 .. n : Precedes(i, k)}
           rank == [k \in 1 .. n |-> Cardinality(Ahead(k))]
<1>5. /\ \A i, j, k \in 1 .. n : Precedes(i, j) /\ Precedes(j, k) => Precedes(i, k)
      /\ \A i, k \in 1 .. n : Precedes(i, k) \/ Precedes(k, i)
      /\ \A i, k \in 1 .. n : Precedes(i, k) /\ Precedes(k, i) => i = k
      /\ \A i, k \in 1 .. n : Precedes(i, k) => b[i].version <= b[k].version
  BY <1>4
<1> HIDE DEF Precedes
<1>6. IsFiniteSet(1 .. n) /\ Cardinality(1 .. n) = n
  BY FS_Interval
<1>7. \A k \in 1 .. n : /\ IsFiniteSet(Ahead(k)) /\ Cardinality(Ahead(k)) \in 0 .. n
                        /\ k \in Ahead(k)
  <2> SUFFICES ASSUME NEW k \in 1 .. n
               PROVE  /\ IsFiniteSet(Ahead(k)) /\ Cardinality(Ahead(k)) \in 0 .. n
                      /\ k \in Ahead(k)
    BY Zenon
  <2>1. Ahead(k) \in SUBSET (1 .. n) /\ k \in Ahead(k)
    BY <1>5, Zenon
  <2> HIDE DEF Ahead
  <2>2. IsFiniteSet(Ahead(k)) /\ Cardinality(Ahead(k)) <= n
    BY <1>6, <2>1, FS_Subset, Zenon
  <2>3. Cardinality(Ahead(k)) \in Nat
    BY <2>2, FS_CardinalityType, Zenon
  <2> QED BY <2>1, <2>2, <2>3
<1>8. \A k \in 1 .. n : Cardinality(Ahead(k)) \in 1 .. n
  <2> SUFFICES ASSUME NEW k \in 1 .. n PROVE Cardinality(Ahead(k)) \in 1 .. n
    BY Zenon
  <2>1. Ahead(k) # {} /\ IsFiniteSet(Ahead(k)) /\ Cardinality(Ahead(k)) \in 0 .. n
    BY <1>7, Zenon
  <2> HIDE DEF Ahead
  <2>2. Cardinality(Ahead(k)) # 0
    BY <2>1, FS_EmptySet, Zenon
  <2> QED BY <2>1, <2>2
<1>9. \A i, k \in 1 .. n : Precedes(i, k) /\ i # k => Cardinality(Ahead(i)) < Cardinality(Ahead(k))
  <2> SUFFICES ASSUME NEW i \in 1 .. n, NEW k \in 1 .. n, Precedes(i, k), i # k
               PROVE  Cardinality(Ahead(i)) < Cardinality(Ahead(k))
    BY Zenon
  <2>1. Ahead(i) \in SUBSET Ahead(k)
    BY <1>5, Zenon
  <2>2. k \in Ahead(k) /\ k \notin Ahead(i)
    BY <1>5, Zenon
  <2>3. IsFiniteSet(Ahead(k)) /\ Cardinality(Ahead(i)) \in 0 .. n /\ Cardinality(Ahead(k)) \in 0 .. n
    BY <1>7, Zenon
  <2> HIDE DEF Ahead
  <2>4. Cardinality(Ahead(i)) <= Cardinality(Ahead(k)) /\ Cardinality(Ahead(i)) # Cardinality(Ahead(k))
    BY <2>1, <2>2, <2>3, FS_Subset, Zenon
  <2> QED BY <2>3, <2>4
<1> HIDE DEF Ahead
<1>10. \A i, k \in 1 .. n : rank[i] = rank[k] => i = k
  BY <1>5, <1>8, <1>9
<1>11. rank \in Injection(1 .. n, 1 .. n)
  <2>1. rank \in [1 .. n -> 1 .. n]
    BY <1>8, Zenon
  <2> HIDE DEF rank
  <2> QED BY <1>10, <2>1, Zenon DEF Injection, IsInjective
<1>12. \A m \in 1 .. n : \E k \in 1 .. n : rank[k] = m
  <2> HIDE DEF rank
  <2>1. rank \in Surjection(1 .. n, 1 .. n)
    BY <1>6, <1>11, FS_Injection, Zenon
  <2> QED BY <2>1, Zenon DEF Surjection
<1> DEFINE place == [m \in 1 .. n |-> CHOOSE k \in 1 .. n : rank[k] = m]
           steps == [m \in 1 .. n |-> b[place[m]]]
<1>13. \A m \in 1 .. n : place[m] \in 1 .. n /\ rank[place[m]] = m
  <2> HIDE DEF rank
  <2> QED BY <1>12, Zenon
<1> HIDE DEF place
<1>14. steps \in [1 .. n -> S]
  BY <1>3, <1>13, Zenon
<1>15. \A c \in S : \E i \in 1 .. n : steps[i] = c
  <2> SUFFICES ASSUME NEW c \in S PROVE \E i \in 1 .. n : steps[i] = c
    BY Zenon
  <2>1. PICK k \in 1 .. n : b[k] = c
    BY <1>3, Zenon
  <2>2. PICK m \in 1 .. n : m = rank[k]
    BY <1>8, Zenon
  <2>3. place[m] = k
    BY <1>10, <1>13, <2>2, Zenon
  <2> QED BY <2>1, <2>3, Zenon
<1>16. ASSUME NEW i \in 1 .. n, NEW j \in 1 .. n, i < j
       PROVE  steps[i].version <= steps[j].version
  <2>1. PICK k \in 1 .. n : k = place[i] /\ rank[k] = i
    BY <1>13, Zenon
  <2>2. PICK l \in 1 .. n : l = place[j] /\ rank[l] = j
    BY <1>13, Zenon
  <2>3. ~(Precedes(l, k) /\ l # k)
    <3>1. rank[k] = Cardinality(Ahead(k)) /\ rank[l] = Cardinality(Ahead(l))
      BY Zenon
    <3>2. ~(Cardinality(Ahead(l)) < Cardinality(Ahead(k)))
      BY <1>16, <2>1, <2>2, <3>1
    <3> QED BY <1>9, <3>2, Zenon
  <2>4. Precedes(k, l)
    BY <1>5, <2>3, Zenon
  <2> QED BY <1>5, <2>1, <2>2, <2>4, Zenon
<1> HIDE DEF steps
<1> QED BY <1>1, <1>14, <1>15, <1>16, Zenon

\* What build_changelog computes: a runner's changelog has the changesets of its
\* tables behind InitSchema and no others.
LEMMA Generated ==
    ASSUME NEW r \in Runners
    PROVE  {Changelog[r][i] : i \in 1 .. Len(Changelog[r])} =
              {InitSchema} \cup Generates(Declarations[r])
<1>1. PICK S : S = Generates(Declarations[r])
  BY Zenon
<1>2. PICK n \in Nat : n = Cardinality(S)
  BY <1>1, ReleaseAssumption, FS_CardinalityType, Zenon
<1>3. \A c \in S : c.version \in Int
  <2> SUFFICES ASSUME NEW c \in S PROVE c.version \in Int
    BY Zenon
  <2>1. PICK t \in TablesOf(r) : c \in ChangesetsFor(t)
    BY <1>1, Zenon DEF Generates, TablesOf
  <2>2. PICK x \in Nat : x = Band[<<t.kind, t.message_type>>]
    BY ReleaseAssumption, Zenon
  <2>3. PICK i \in {0, 1} : c.version = RESERVED_CEILING + x * BAND_WIDTH + i
    BY <2>1, <2>2, ChangesetShape, Zenon
  <2> QED BY <2>3, VersionsAssumption
<1>4. PICK steps : steps = SortedByVersion(S)
  BY Zenon
<1>5. /\ steps \in [1 .. n -> S]
      /\ \A c \in S : \E i \in 1 .. n : steps[i] = c
  <2>1. IsFiniteSet(S)
    BY <1>1, ReleaseAssumption, Zenon
  <2> QED BY <1>2, <1>3, <1>4, <2>1, Sortable, Zenon DEF SortedByVersion
<1>6. Changelog[r] = <<InitSchema>> \o steps
  BY <1>1, <1>4, ReleaseAssumption, Zenon DEF BuildChangelog
<1>7. /\ Len(Changelog[r]) = n + 1 /\ Changelog[r][1] = InitSchema
      /\ \A i \in 1 .. n : Changelog[r][i + 1] = steps[i]
  BY <1>5, <1>6
<1>8. ASSUME NEW i \in 1 .. Len(Changelog[r])
      PROVE  Changelog[r][i] \in {InitSchema} \cup S
  <2>1. i = 1 \/ (i - 1 \in 1 .. n /\ i = (i - 1) + 1)
    BY <1>7
  <2>2. CASE i = 1
    BY <1>7, <2>2, Zenon
  <2>3. CASE i - 1 \in 1 .. n /\ i = (i - 1) + 1
    <3>1. PICK k \in 1 .. n : i = k + 1
      BY <2>3, Zenon
    <3> QED BY <1>5, <1>7, <3>1, Zenon
  <2> QED BY <2>1, <2>2, <2>3, Zenon
<1>9. ASSUME NEW c \in {InitSchema} \cup S
      PROVE  \E i \in 1 .. Len(Changelog[r]) : c = Changelog[r][i]
  <2>1. CASE c = InitSchema
    <3>1. 1 \in 1 .. Len(Changelog[r])
      BY <1>7
    <3> QED BY <1>7, <2>1, <3>1, Zenon
  <2>2. CASE c \in S
    <3>1. PICK i \in 1 .. n : steps[i] = c
      BY <1>5, <2>2, Zenon
    <3>2. i + 1 \in 1 .. Len(Changelog[r])
      BY <1>7
    <3> QED BY <1>7, <3>1, <3>2, Zenon
  <2> QED BY <2>1, <2>2, Zenon
<1> QED BY <1>1, <1>8, <1>9, Zenon

\* A changelog's step is InitSchema or a changeset of one of the runner's tables.
LEMMA StepsGenerated ==
    ASSUME NEW r \in Runners, NEW i \in 1 .. Len(Changelog[r])
    PROVE  \/ Changelog[r][i] = InitSchema
           \/ \E t \in TablesOf(r) : Changelog[r][i] \in ChangesetsFor(t)
<1>1. Changelog[r][i] \in {InitSchema} \cup Generates(Declarations[r])
  BY Generated, Zenon
<1> QED BY <1>1, Zenon DEF Generates, TablesOf

\* A changeset of a table has a version above the one of InitSchema.
LEMMA AboveReserved ==
    ASSUME NEW r \in Runners, NEW t \in TablesOf(r), NEW c \in ChangesetsFor(t)
    PROVE  c.version # InitSchema.version
<1>1. PICK i \in {0, 1} :
          c.version = RESERVED_CEILING + Band[<<t.kind, t.message_type>>] * BAND_WIDTH + i
  BY ChangesetShape, Zenon
<1>2. PICK x \in Nat : x = Band[<<t.kind, t.message_type>>]
  BY ReleaseAssumption, Zenon
<1>3. c.version = RESERVED_CEILING + x * BAND_WIDTH + i
  BY <1>1, <1>2, Zenon
<1>4. x * BAND_WIDTH \in Nat
  BY VersionsAssumption
<1>5. InitSchema.version = 1
  BY Zenon DEF InitSchema
<1> QED BY <1>3, <1>4, <1>5, VersionsAssumption

\* A replica whose build succeeded has its topics and every table its roles imply,
\* whatever its declarations and their order, and whoever booted beside it.
THEOREM ReleaseBootsToSpec == BootSpec => []BootedToSpec
<1>1. TopicsToSpec /\ DoneMeansMigrated => BootedToSpec
  <2> SUFFICES ASSUME TopicsToSpec, DoneMeansMigrated, NEW r \in Runners \ Previews,
                      phase[r] = "done", NEW rc \in Implied, rc[1] = r
               PROVE  RecordedAs(rc[2])
    BY Zenon DEF BootedToSpec
  <2>1. PICK s \in Runners : \E c \in Generates(Declarations[s]) : rc = <<s, c>>
    BY Zenon DEF Implied
  <2>2. PICK c \in Generates(Declarations[s]) : rc = <<s, c>>
    BY <2>1, Zenon
  <2>3. s = r /\ rc[2] = c
    BY <2>2, Zenon
  <2>4. c \in {Changelog[r][i] : i \in 1 .. Len(Changelog[r])}
    BY <2>3, Generated, Zenon
  <2>5. PICK i \in 1 .. Len(Changelog[r]) : c = Changelog[r][i]
    BY <2>4, Zenon
  <2>6. c.contexts = {}
    BY ChangesetShape, Zenon DEF Generates
  <2> QED BY <2>3, <2>5, <2>6, Zenon DEF DoneMeansMigrated, Admits
<1> QED BY <1>1, BootedTopics, BootedSchema, PTL

\* A replica stops on a changed checksum only where another release expects the
\* message type on another topic: reordered declarations, added or dropped roles
\* and overlapping boots are no reason.
THEOREM ReleaseStopsOnMovedTopic ==
    ASSUME BandsApart
    PROVE  BootSpec => []MismatchMeansTopicMoved
<1>1. TypeOK /\ MismatchFound => MismatchMeansTopicMoved
  <2> SUFFICES ASSUME TypeOK, MismatchFound, NEW r \in Runners, phase[r] = "mismatch"
               PROVE  \E t \in TablesOf(r) :
                         MovedTable(t) /\ Changelog[r][step[r]] \in ChangesetsFor(t)
    BY Zenon DEF MismatchMeansTopicMoved
  <2>1. step[r] \in 1 .. Len(Changelog[r]) /\ Disagrees(Changelog[r][step[r]])
    BY Zenon DEF MismatchFound
  <2>2. PICK c : c = Changelog[r][step[r]]
    BY Zenon
  <2>3. PICK h \in history : h.version = c.version /\ h.checksum # c.checksum
    BY <2>1, <2>2, Zenon DEF Disagrees
  <2>4. PICK d \in Changesets : h.version = d.version /\ h.checksum = d.checksum
    <3>1. PICK x \in Runners, d \in Changesets : h = HistoryRow(x, d)
      <4>1. history \subseteq {HistoryRow(x, d) : x \in Runners, d \in Changesets}
        BY DEF TypeOK
      <4> QED BY <2>3, <4>1
    <3>2. h.version = d.version /\ h.checksum = d.checksum
      BY <3>1, Zenon DEF HistoryRow
    <3> QED BY <3>2, Zenon
  <2>5. PICK s \in Runners : \E j \in 1 .. Len(Changelog[s]) : d = Changelog[s][j]
    BY Zenon DEF Changesets
  <2>6. c = InitSchema \/ \E t \in TablesOf(r) : c \in ChangesetsFor(t)
    BY <2>1, <2>2, StepsGenerated, Zenon
  <2>7. d = InitSchema \/ \E u \in TablesOf(s) : d \in ChangesetsFor(u)
    BY <2>5, StepsGenerated, Zenon
  <2>8. c.version = d.version /\ c.checksum # d.checksum
    BY <2>3, <2>4, Zenon
  <2>9. c # InitSchema /\ d # InitSchema
    BY <2>6, <2>7, <2>8, AboveReserved, Zenon
  <2> QED BY <2>2, <2>6, <2>7, <2>8, <2>9, OnlyTopicsDiffer, Zenon
<1> QED BY <1>1, BootIsMigration, TypeCorrect, MismatchFoundHolds, PTL
=============================================================================
