------------------------------ MODULE Migrate ------------------------------
(***************************************************************************)
(* The migration runner: replicas that boot together each bring one schema *)
(* up to their changelog.  A transaction that does nothing else holds the  *)
(* schema's advisory lock; a second connection applies one changeset per   *)
(* transaction, its statements together with its row of changelog_history. *)
(* A dry run takes the same lock, if it is free, and rolls back.           *)
(***************************************************************************)
EXTENDS Integers, Sequences, FiniteSets

CONSTANTS
    Runners,        \* calls of migrate and migrate_dry_run on one schema
    Previews,       \* the dry runs among them
    Changelog,      \* per runner, its changesets: version, checksum, contexts
    Contexts,       \* per runner, the contexts of its MigrationContext
    Pool,           \* per runner, the pool its connections come from
    PoolSize,       \* per pool, max_connections
    Nobody,         \* the holder of a free lock
    FaultKinds,     \* which of "cancel", "session", "database", "answer" occur
    MaxFaults,      \* bound: how many of them
    MaxRestarts     \* bound: per runner, how often it is started again

Changesets == UNION {{Changelog[r][i] : i \in 1 .. Len(Changelog[r])} : r \in Runners}
Versions == {c.version : c \in Changesets}

ASSUME ChangelogAssumption ==
    \A r \in Runners : /\ Changelog[r] \in Seq(Changesets)
                       /\ \A i \in 1 .. Len(Changelog[r]) : Changelog[r][i].version \in Int
ASSUME NobodyAssumption == Nobody \notin Runners
ASSUME MaxFaultsAssumption == MaxFaults \in Nat
ASSUME MaxRestartsAssumption == MaxRestarts \in [Runners -> Nat]

VARIABLES
    history,    \* the rows of changelog_history
    ddl,        \* per version, how often its statements were committed
    holder,     \* whose session holds the advisory lock
    phase,      \* where each runner is in migrate or migrate_dry_run
    step,       \* the changeset it is at
    outcome,    \* what run_migrations returned
    faults,
    restarts

schemaVars == <<history, ddl>>
vars == <<history, ddl, holder, phase, step, outcome, faults, restarts>>

Ended == {"done", "failed", "mismatch", "busy", "previewed", "down"}
Phases == {"idle", "locking", "locked", "previewing", "checking",
           "applying", "releasing"} \cup Ended
Outcomes == {"none", "done", "failed", "mismatch"}

Init ==
    /\ history = {}
    /\ ddl = [v \in Versions |-> 0]
    /\ holder = Nobody
    /\ phase = [r \in Runners |-> "idle"]
    /\ step = [r \in Runners |-> 0]
    /\ outcome = [r \in Runners |-> "none"]
    /\ faults = 0
    /\ restarts = [r \in Runners |-> 0]

Fault(kind) == kind \in FaultKinds /\ faults < MaxFaults /\ faults' = faults + 1

\* The connections a runner holds of its pool.
Connections(r) ==
    CASE phase[r] \in {"checking", "applying"} -> 2
      [] phase[r] \in {"locking", "locked", "previewing", "releasing"} -> 1
      [] OTHER -> 0

\* Whether the pool of a runner has a connection left.
Free(r) ==
    LET users == {s \in Runners : Pool[s] = Pool[r]}
        two == {s \in users : Connections(s) = 2}
        one == {s \in users : Connections(s) = 1}
    IN 2 * Cardinality(two) + Cardinality(one) < PoolSize[Pool[r]]

\* assert_changelog_order.
Ordered(changelog) ==
    \A i, j \in 1 .. Len(changelog) : i < j => changelog[i].version < changelog[j].version

Runnable(r) ==
    Ordered(Changelog[r]) /\ (r \in Previews \/ PoolSize[Pool[r]] >= 2)

\* MigrationContext::matches.
Admits(r, c) == c.contexts = {} \/ c.contexts \cap Contexts[r] # {}

\* Whatever ends a runner's lock transaction frees the lock, if it still has it.
Vacated(r) == IF holder = r THEN Nobody ELSE holder

-----------------------------------------------------------------------------
(* Taking the lock *)

\* The checks before any connection is taken, then pool.begin().  A changelog with
\* two changesets of one version, or a pool that cannot hold both connections, is
\* refused.
Begin(r) ==
    /\ phase[r] = "idle"
    /\ Runnable(r) => Free(r)
    /\ phase' = [phase EXCEPT ![r] = IF Runnable(r) THEN "locking" ELSE "failed"]
    /\ UNCHANGED <<schemaVars, holder, step, outcome, faults, restarts>>

\* SchemaLock::acquire waits for the lock.
Lock(r) ==
    /\ phase[r] = "locking" /\ r \notin Previews
    /\ holder = Nobody
    /\ holder' = r
    /\ phase' = [phase EXCEPT ![r] = "locked"]
    /\ UNCHANGED <<schemaVars, step, outcome, faults, restarts>>

\* migrate_dry_run does not wait.
TryLock(r) ==
    /\ phase[r] = "locking" /\ r \in Previews
    /\ holder' = IF holder = Nobody THEN r ELSE holder
    /\ phase' = [phase EXCEPT ![r] = IF holder = Nobody THEN "previewing" ELSE "busy"]
    /\ UNCHANGED <<schemaVars, step, outcome, faults, restarts>>

\* dry_run_in_tx reads the history and is rolled back.
Preview(r) ==
    /\ phase[r] = "previewing"
    /\ holder' = Vacated(r)
    /\ phase' = [phase EXCEPT ![r] = "previewed"]
    /\ UNCHANGED <<schemaVars, step, outcome, faults, restarts>>

\* The second connection, and bootstrap_history, whose statements are idempotent.
Bootstrap(r) ==
    /\ phase[r] = "locked"
    /\ Free(r)
    /\ phase' = [phase EXCEPT ![r] = "checking"]
    /\ step' = [step EXCEPT ![r] = 1]
    /\ UNCHANGED <<schemaVars, holder, outcome, faults, restarts>>

\* A pool with no connection to give gives up in the end; the lock goes with it.
AcquireTimesOut(r) ==
    /\ phase[r] = "locked" \/ (phase[r] = "idle" /\ Runnable(r))
    /\ ~Free(r)
    /\ phase' = [phase EXCEPT ![r] = "failed"]
    /\ holder' = Vacated(r)
    /\ UNCHANGED <<schemaVars, step, outcome, faults, restarts>>

-----------------------------------------------------------------------------
(* run_migrations *)

Recorded(v) == \E h \in history : h.version = v
RecordedAs(c) == \E h \in history : h.version = c.version /\ h.checksum = c.checksum

\* run_migrations returns, and its connection is dropped.
Finish(r, result) ==
    /\ phase' = [phase EXCEPT ![r] = "releasing"]
    /\ outcome' = [outcome EXCEPT ![r] = result]
    /\ step' = step

Advance(r) ==
    /\ step' = [step EXCEPT ![r] = @ + 1]
    /\ phase' = [phase EXCEPT ![r] = "checking"]
    /\ UNCHANGED outcome

\* Mutant: a changed checksum is reported and the run goes on.
CheckPastMismatch(r) ==
    LET c == Changelog[r][step[r]]
    IN /\ phase[r] = "checking"
       /\ \/ step[r] > Len(Changelog[r]) /\ Finish(r, "done")
          \/ step[r] <= Len(Changelog[r]) /\ (~Admits(r, c) \/ Recorded(c.version)) /\ Advance(r)
          \/ /\ step[r] <= Len(Changelog[r]) /\ Admits(r, c) /\ ~Recorded(c.version)
             /\ phase' = [phase EXCEPT ![r] = "applying"]
             /\ UNCHANGED <<step, outcome>>
       /\ UNCHANGED <<schemaVars, holder, faults, restarts>>

\* The next changeset: the changelog may be through; the context may skip it;
\* the history may have it, with this checksum or another; or it is to be applied.
Check(r) ==
    LET c == Changelog[r][step[r]]
    IN /\ phase[r] = "checking"
       /\ \/ step[r] > Len(Changelog[r]) /\ Finish(r, "done")
          \/ step[r] <= Len(Changelog[r]) /\ (~Admits(r, c) \/ RecordedAs(c)) /\ Advance(r)
          \/ /\ step[r] <= Len(Changelog[r]) /\ Admits(r, c)
             /\ Recorded(c.version) /\ ~RecordedAs(c)
             /\ Finish(r, "mismatch")
          \/ /\ step[r] <= Len(Changelog[r]) /\ Admits(r, c) /\ ~Recorded(c.version)
             /\ phase' = [phase EXCEPT ![r] = "applying"]
             /\ UNCHANGED <<step, outcome>>
       /\ UNCHANGED <<schemaVars, holder, faults, restarts>>

\* The row insert_history writes.
HistoryRow(r, c) == [version |-> c.version, checksum |-> c.checksum, applied_by |-> r]

\* Mutant: the history row is not unique by version.
ApplyAgain(r) ==
    LET c == Changelog[r][step[r]]
    IN /\ phase[r] = "applying"
       /\ history' = history \cup {HistoryRow(r, c)}
       /\ ddl' = [ddl EXCEPT ![c.version] = @ + 1]
       /\ Advance(r)
       /\ UNCHANGED <<holder, faults, restarts>>

\* The changeset's statements, its history row and the commit.  The primary key
\* refuses a version another runner has recorded since the history was read; the
\* answer to the commit may be lost.
Apply(r) ==
    LET c == Changelog[r][step[r]]
    IN /\ phase[r] = "applying"
       /\ \/ /\ ~Recorded(c.version)
             /\ history' = history \cup {HistoryRow(r, c)}
             /\ ddl' = [ddl EXCEPT ![c.version] = @ + 1]
             /\ \/ Advance(r) /\ UNCHANGED faults
                \/ Fault("answer") /\ Finish(r, "failed")
          \/ /\ Recorded(c.version)
             /\ Finish(r, "failed")
             /\ UNCHANGED <<schemaVars, faults>>
       /\ UNCHANGED <<holder, restarts>>

\* A statement fails and its transaction with it.
StatementFails(r) ==
    /\ phase[r] \in {"checking", "applying"}
    /\ Fault("database")
    /\ Finish(r, "failed")
    /\ UNCHANGED <<schemaVars, holder, restarts>>

\* Mutant: a run that failed is reported as done once the lock is released.
ReleaseDone(r) ==
    /\ phase[r] = "releasing"
    /\ phase' = [phase EXCEPT ![r] = IF holder = r THEN "done" ELSE "failed"]
    /\ holder' = Vacated(r)
    /\ UNCHANGED <<schemaVars, step, outcome, faults, restarts>>

\* SchemaLock::release: the run's own error, or that of a rollback on a session
\* that is gone.
Release(r) ==
    /\ phase[r] = "releasing"
    /\ phase' = [phase EXCEPT ![r] =
          IF outcome[r] = "done" /\ holder # r THEN "failed" ELSE outcome[r]]
    /\ holder' = Vacated(r)
    /\ UNCHANGED <<schemaVars, step, outcome, faults, restarts>>

-----------------------------------------------------------------------------
(* Faults *)

\* The server ends the idle session that holds the lock; the runner, busy on its
\* other connection, does not notice.
LockLost(r) ==
    /\ holder = r /\ phase[r] \in {"locked", "checking", "applying", "releasing"}
    /\ Fault("session")
    /\ holder' = Nobody
    /\ UNCHANGED <<schemaVars, phase, step, outcome, restarts>>

\* Mutant: the lock is the session's, and the pooled session lives on.
CancelKeepsLock(r) ==
    /\ phase[r] \notin Ended \cup {"idle"}
    /\ Fault("cancel")
    /\ phase' = [phase EXCEPT ![r] = "down"]
    /\ UNCHANGED <<schemaVars, holder, step, outcome, restarts>>

\* The call is dropped, or its process dies: open transactions are rolled back.
Cancel(r) ==
    /\ phase[r] \notin Ended \cup {"idle"}
    /\ Fault("cancel")
    /\ phase' = [phase EXCEPT ![r] = "down"]
    /\ holder' = Vacated(r)
    /\ UNCHANGED <<schemaVars, step, outcome, restarts>>

\* The call is made again, or the replica it is part of boots again.
Restart(r) ==
    /\ phase[r] \in Ended \cup {"idle"}
    /\ restarts[r] < MaxRestarts[r]
    /\ restarts' = [restarts EXCEPT ![r] = @ + 1]
    /\ phase' = [phase EXCEPT ![r] = "idle"]
    /\ step' = [step EXCEPT ![r] = 0]
    /\ outcome' = [outcome EXCEPT ![r] = "none"]
    /\ UNCHANGED <<schemaVars, holder, faults>>

Run(r) ==
    \/ Begin(r) \/ Lock(r) \/ TryLock(r) \/ Preview(r) \/ Bootstrap(r)
    \/ AcquireTimesOut(r) \/ Check(r) \/ Apply(r) \/ Release(r)

Interrupt(r) == StatementFails(r) \/ LockLost(r) \/ Cancel(r)

Next == \E r \in Runners : Run(r) \/ Interrupt(r) \/ Restart(r)

Spec == Init /\ [][Next]_vars

-----------------------------------------------------------------------------
(* Properties *)

\* Every variable has its type.
TypeOK ==
    /\ history \subseteq {HistoryRow(r, c) : r \in Runners, c \in Changesets}
    /\ ddl \in [Versions -> Nat]
    /\ holder \in Runners \cup {Nobody}
    /\ phase \in [Runners -> Phases]
    /\ step \in [Runners -> Nat]
    /\ outcome \in [Runners -> Outcomes]
    /\ faults \in 0 .. MaxFaults
    /\ restarts \in [Runners -> Nat] /\ \A r \in Runners : restarts[r] <= MaxRestarts[r]

\* A version's statements are committed once, together with the one row that
\* records it, even by runners that overlap because a lock's session was lost,
\* were cancelled half way or never heard that their commit succeeded.
AppliedOnce ==
    /\ \A v \in Versions : ddl[v] = IF Recorded(v) THEN 1 ELSE 0
    /\ \A h, g \in history : h.version = g.version => h = g

\* Changesets are applied in order: whoever applied one found or made every
\* earlier one of its changelog, unchanged, first.  A run stops at the first
\* changeset that was edited after it was applied.
AppliedInOrder ==
    \A h \in history : LET r == h.applied_by IN
        \A i, j \in 1 .. Len(Changelog[r]) :
            /\ i < j /\ Changelog[r][j].version = h.version
            /\ Admits(r, Changelog[r][i])
            => RecordedAs(Changelog[r][i])

\* A migration that reports success leaves its whole changelog recorded, as this
\* build declares it.
DoneMeansMigrated ==
    \A r \in Runners : phase[r] = "done" =>
        \A i \in 1 .. Len(Changelog[r]) :
            Admits(r, Changelog[r][i]) => RecordedAs(Changelog[r][i])
=============================================================================
