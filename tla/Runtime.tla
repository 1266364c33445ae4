------------------------------ MODULE Runtime ------------------------------
(***************************************************************************)
(* Supervision: the loops of a runtime run as tasks of one set under one   *)
(* cancellation token.  The host waits for the first to end, or stops them *)
(* itself; then all are cancelled, drained up to a deadline and aborted.   *)
(* Runtimes of one process may share a token, and share one slot for the   *)
(* loop that samples queue depth.                                          *)
(***************************************************************************)
EXTENDS Integers, Sequences, FiniteSets

CONSTANTS
    Services,       \* runtimes, or HTTP services, of one process
    Loops,          \* loop names
    Sampler,        \* the name of the queue-metrics loop
    NoLoop,
    LoopsOf,        \* per service, its loops
    Tokens,
    TokenOf,        \* per service, its cancellation token
    Supervised,     \* the services whose host calls run; the others' call shutdown
    EndKinds,       \* how loops end by themselves: "err", "panic", "ok"
    MaxFaults       \* bound: loops that end by themselves or get stuck

ASSUME LoopsAssumption == LoopsOf \in [Services -> SUBSET Loops] /\ NoLoop \notin Loops
ASSUME TokensAssumption == TokenOf \in [Services -> Tokens]
ASSUME KindsAssumption == EndKinds \subseteq {"err", "panic", "ok"} /\ Supervised \subseteq Services
ASSUME MaxFaultsAssumption == MaxFaults \in Nat

VARIABLES
    task,       \* per service and loop, where its task is
    running,    \* RUNNING: whether the process has a sampler
    cancelled,  \* the tokens that are cancelled
    asked,      \* history: those a host cancelled
    pc,         \* per service, where its host is
    joined,     \* the loops it has joined
    zero,       \* whether it drains with a timeout of zero
    waited,     \* what wait returned
    first,      \* the first failure of the drain
    result,     \* what run or shutdown returned
    failures,   \* history: the failures in the order they were joined
    faults

taskVars == <<task, running, faults>>
hostVars == <<pc, joined, zero, waited, first, result, failures>>
vars == <<taskVars, cancelled, asked, hostVars>>

Live == {"starting", "cycling", "blocked", "parked"}
Ends == {"ok", "err", "panic", "aborted"}

\* Results: Ok(()), an error that names a loop, or a drain that ran out of time.
Ok == <<"ok", NoLoop>>
DrainTimeout == <<"drain_timeout", NoLoop>>
Errors == {"err", "panic", "exited"} \X Loops
Results == Errors \cup {Ok, DrainTimeout}

Cancelled(s) == TokenOf[s] \in cancelled

\* Whether a service's sampler holds the process's slot.
Sampling(s) == Sampler \in LoopsOf[s] /\ task[s][Sampler] = "cycling"

\* Every kind of loop a host may ask for, and the choice that leaves purging out.
Subsystems == {"relay", "ingest", "dispatch", "purge", "queue-metrics"}
Pipeline == Subsystems \ {"purge"}

\* One loop per type of what the host asked for.
PerType(wanted, kind, types) == IF wanted THEN {<<kind, m>> : m \in types} ELSE {}

\* One sampler covers all the tables of a runtime, if it has any.
Sampled(subsystems, types) == IF "queue-metrics" \in subsystems /\ types # {} THEN {Sampler} ELSE {}

\* into_tasks_with: the loops its roles imply, of the subsystems asked for.
LoopsFor(subsystems, published, consumed, retention) ==
    PerType("relay" \in subsystems, "relay", published)
    \cup PerType("purge" \in subsystems /\ retention, "purger", published)
    \cup PerType("ingest" \in subsystems, "ingester", consumed)
    \cup PerType("dispatch" \in subsystems, "dispatcher", consumed)
    \cup Sampled(subsystems, published \cup consumed)

\* into_tasks_with spawns every loop at once; the sampler's first step is its claim.
Spawned == [s \in Services |-> [l \in Loops |-> IF l = Sampler THEN "starting" ELSE "cycling"]]

Init ==
    /\ task = Spawned
    /\ running = FALSE
    /\ cancelled = {} /\ asked = {}
    /\ pc = [s \in Services |-> IF s \in Supervised THEN "waiting" ELSE "serving"]
    /\ joined = [s \in Services |-> {}]
    /\ zero = [s \in Services |-> FALSE]
    /\ waited = [s \in Services |-> Ok]
    /\ first = [s \in Services |-> Ok]
    /\ result = [s \in Services |-> Ok]
    /\ failures = [s \in Services |-> << >>]
    /\ faults = 0

-----------------------------------------------------------------------------
(* The loops *)

Becomes(s, l, state) == task' = [task EXCEPT ![s][l] = state]

\* A task ends, in whatever way: its SamplerSlot is dropped with it.
Exits(s, l, end) ==
    /\ Becomes(s, l, end)
    /\ running' = (running /\ ~(l = Sampler /\ Sampling(s)))

Fault == faults < MaxFaults /\ faults' = faults + 1

\* Mutant: the guard of a refused claim is dropped like any other.
StartSamplerDropping(s) ==
    /\ Sampler \in LoopsOf[s] /\ task[s][Sampler] = "starting"
    /\ Becomes(s, Sampler, IF running THEN "parked" ELSE "cycling")
    /\ running' = ~running
    /\ UNCHANGED <<cancelled, asked, hostVars, faults>>

\* SamplerSlot::claim; a second sampler of the process parks until shutdown.
StartSampler(s) ==
    /\ Sampler \in LoopsOf[s] /\ task[s][Sampler] = "starting"
    /\ Becomes(s, Sampler, IF running THEN "parked" ELSE "cycling")
    /\ running' = TRUE
    /\ UNCHANGED <<cancelled, asked, hostVars, faults>>

\* A loop that sees its token cancelled, before a cycle, asleep or parked, returns.
Notices(s, l) ==
    /\ l \in LoopsOf[s] /\ task[s][l] \in {"cycling", "parked"}
    /\ Cancelled(s)
    /\ Exits(s, l, "ok")
    /\ UNCHANGED <<cancelled, asked, hostVars, faults>>

\* A cycle fails for good or panics, or the loop returns too early.
EndsEarly(s, l) ==
    /\ l \in LoopsOf[s] /\ task[s][l] = "cycling"
    /\ Fault
    /\ \E kind \in EndKinds : Exits(s, l, kind)
    /\ UNCHANGED <<cancelled, asked, hostVars>>

\* A cycle waits for a broker or a database that does not answer, perhaps for ever;
\* the sampler's queries have a timeout.
Blocks(s, l) ==
    /\ l \in LoopsOf[s] \ {Sampler} /\ task[s][l] = "cycling"
    /\ Fault
    /\ Becomes(s, l, "blocked")
    /\ UNCHANGED <<running, cancelled, asked, hostVars>>

Unblocks(s, l) ==
    /\ l \in LoopsOf[s] \ {Sampler} /\ task[s][l] = "blocked"
    /\ Becomes(s, l, "cycling")
    /\ UNCHANGED <<running, cancelled, asked, hostVars, faults>>

\* The set is dropped with its owner, after abort_all: tasks end where they wait.
Aborts(s, l) ==
    /\ pc[s] = "ended"
    /\ l \in LoopsOf[s] /\ task[s][l] \in Live
    /\ Exits(s, l, "aborted")
    /\ UNCHANGED <<cancelled, asked, hostVars, faults>>

-----------------------------------------------------------------------------
(* The host *)

\* The host cancels a token it owns.
Cancel(t) ==
    /\ t \notin cancelled
    /\ cancelled' = cancelled \cup {t}
    /\ asked' = asked \cup {t}
    /\ UNCHANGED <<taskVars, hostVars>>

Ready(s) == {l \in LoopsOf[s] \ joined[s] : task[s][l] \in Ends}

\* Mutant: a clean exit is never a failure.
ClassifyLenient(s, l, early) ==
    CASE task[s][l] = "err" -> <<"err", l>>
      [] task[s][l] = "panic" -> <<"panic", l>>
      [] OTHER -> Ok

\* classify_completion.
Classify(s, l, early) ==
    CASE task[s][l] = "err" -> <<"err", l>>
      [] task[s][l] = "panic" -> <<"panic", l>>
      [] task[s][l] = "ok" /\ early -> <<"exited", l>>
      [] OTHER -> Ok

Join(s, l, early) ==
    /\ joined' = [joined EXCEPT ![s] = @ \cup {l}]
    /\ failures' = [failures EXCEPT ![s] =
          IF Classify(s, l, early) = Ok THEN @ ELSE Append(@, Classify(s, l, early))]

\* Mutant: wait returns once every loop has ended.
WaitForAll(s) ==
    /\ pc[s] = "waiting"
    /\ Ready(s) = LoopsOf[s]
    /\ \E l \in Ready(s) :
          /\ Join(s, l, ~Cancelled(s))
          /\ waited' = [waited EXCEPT ![s] = Classify(s, l, ~Cancelled(s))]
    /\ pc' = [pc EXCEPT ![s] = "stopping"]
    /\ UNCHANGED <<taskVars, cancelled, asked, zero, first, result>>

\* RuntimeTasks::wait, the first half of run.
Wait(s) ==
    /\ pc[s] = "waiting"
    /\ \E l \in Ready(s) :
          /\ Join(s, l, ~Cancelled(s))
          /\ waited' = [waited EXCEPT ![s] = Classify(s, l, ~Cancelled(s))]
    /\ pc' = [pc EXCEPT ![s] = "stopping"]
    /\ UNCHANGED <<taskVars, cancelled, asked, zero, first, result>>

\* A host of its own calls shutdown_with_timeout when it likes.
CallShutdown(s) ==
    /\ pc[s] = "serving"
    /\ zero' \in {[zero EXCEPT ![s] = z] : z \in BOOLEAN}
    /\ pc' = [pc EXCEPT ![s] = "stopping"]
    /\ UNCHANGED <<taskVars, cancelled, asked, joined, waited, first, result, failures>>

\* shutdown_with_timeout, which looks at the token once.
Stop(s) ==
    /\ pc[s] = "stopping"
    /\ pc' = [pc EXCEPT ![s] = IF Cancelled(s) THEN "draining" ELSE "readying"]
    /\ UNCHANGED <<taskVars, cancelled, asked, joined, zero, waited, first, result, failures>>

\* Mutant: a later failure replaces an earlier one.
KeepLast(s, l, early) ==
    first' = [first EXCEPT ![s] = IF Classify(s, l, early) = Ok THEN @ ELSE Classify(s, l, early)]

\* A joined loop's failure is kept if it is the first.
KeepFirst(s, l, early) ==
    first' = [first EXCEPT ![s] = IF @ = Ok THEN Classify(s, l, early) ELSE @]

\* drain_ready_before_shutdown: one loop that has ended, or no more.
JoinReady(s) ==
    /\ pc[s] = "readying"
    /\ \/ \E l \in Ready(s) : /\ Join(s, l, TRUE)
                              /\ KeepFirst(s, l, TRUE)
                              /\ UNCHANGED pc
       \/ /\ Ready(s) = {}
          /\ pc' = [pc EXCEPT ![s] = "cancelling"]
          /\ UNCHANGED <<joined, failures, first>>
    /\ UNCHANGED <<taskVars, cancelled, asked, zero, waited, result>>

CancelAll(s) ==
    /\ pc[s] = "cancelling"
    /\ cancelled' = cancelled \cup {TokenOf[s]}
    /\ pc' = [pc EXCEPT ![s] = "draining"]
    /\ UNCHANGED <<taskVars, asked, joined, zero, waited, first, result, failures>>

\* drain: the next loop to end.
DrainJoin(s) ==
    /\ pc[s] = "draining" /\ ~zero[s]
    /\ \E l \in Ready(s) : Join(s, l, FALSE) /\ KeepFirst(s, l, FALSE)
    /\ UNCHANGED <<taskVars, cancelled, asked, pc, zero, waited, result>>

\* run returns first.and(drained).
Return(s, drained) ==
    /\ result' = [result EXCEPT ![s] = IF waited[s] # Ok THEN waited[s] ELSE drained]
    /\ pc' = [pc EXCEPT ![s] = "ended"]
    /\ UNCHANGED <<taskVars, cancelled, asked, joined, zero, waited, first, failures>>

\* drain: nothing is left, or the timeout is zero.
Drained(s) ==
    /\ pc[s] = "draining"
    /\ zero[s] \/ joined[s] = LoopsOf[s]
    /\ Return(s, first[s])

\* Mutant: a drain that ran out of time is as good as one that did not.
DrainTimesOutQuietly(s) ==
    /\ pc[s] = "draining" /\ ~zero[s]
    /\ joined[s] # LoopsOf[s] /\ Ready(s) = {}
    /\ Return(s, first[s])

\* drain: the deadline passes, and no loop is ready to be joined.
DrainTimesOut(s) ==
    /\ pc[s] = "draining" /\ ~zero[s]
    /\ joined[s] # LoopsOf[s] /\ Ready(s) = {}
    /\ Return(s, IF first[s] # Ok THEN first[s] ELSE DrainTimeout)

Host(s) ==
    \/ Wait(s) \/ Stop(s) \/ JoinReady(s) \/ CancelAll(s)
    \/ DrainJoin(s) \/ Drained(s) \/ DrainTimesOut(s)

Next ==
    \/ \E s \in Services : Host(s) \/ CallShutdown(s) \/ StartSampler(s)
    \/ \E s \in Services : \E l \in LoopsOf[s] :
          Notices(s, l) \/ EndsEarly(s, l) \/ Blocks(s, l) \/ Unblocks(s, l) \/ Aborts(s, l)
    \/ \E t \in Tokens : Cancel(t)

Spec == Init /\ [][Next]_vars

\* Tasks and hosts that can go on do, and deadlines pass.  Nothing makes a call
\* that blocks return, a loop end or a host stop.
FairSpec ==
    /\ Spec
    /\ \A s \in Services : WF_vars(Host(s)) /\ WF_vars(StartSampler(s))
    /\ \A s \in Services : \A l \in LoopsOf[s] : WF_vars(Notices(s, l)) /\ WF_vars(Aborts(s, l))

-----------------------------------------------------------------------------
(* Properties *)

\* Every variable has its type.
TypeOK ==
    /\ task \in [Services -> [Loops -> Live \cup Ends]]
    /\ running \in BOOLEAN
    /\ cancelled \subseteq Tokens /\ asked \subseteq Tokens
    /\ pc \in [Services -> {"waiting", "serving", "stopping", "readying", "cancelling",
                            "draining", "ended"}]
    /\ joined \in [Services -> SUBSET Loops]
    /\ zero \in [Services -> BOOLEAN]
    /\ waited \in [Services -> Results] /\ first \in [Services -> Results]
    /\ result \in [Services -> Results]
    /\ failures \in [Services -> Seq(Errors)]
    /\ faults \in 0 .. MaxFaults

\* One loop of the process samples queue depth, and the slot is taken exactly
\* while it does: a sampler that was refused, stopped, failed, panicked or was
\* aborted neither keeps the slot nor frees the one another runtime holds.
OneSampler ==
    /\ running <=> \E s \in Services : Sampling(s)
    /\ \A s, u \in Services : Sampling(s) /\ Sampling(u) => s = u

\* A runtime reports a clean stop only if every loop stopped of its own accord: no
\* failure, no panic, nothing still running when the deadline passed.
OkMeansStopped ==
    \A s \in Services : pc[s] = "ended" /\ ~zero[s] /\ result[s] = Ok =>
        \A l \in LoopsOf[s] : task[s][l] = "ok"

\* Whether someone other than s asked for its token to be cancelled: a host, or
\* another runtime under the same token that stopped.
StopRequested(s) ==
    \/ TokenOf[s] \in asked
    \/ \E u \in Services \ {s} : TokenOf[u] = TokenOf[s] /\ pc[u] \in {"draining", "ended"}

\* run reports a clean stop only if a stop was asked for: a loop that ends by
\* itself, however quietly, makes run fail.
OkMeansAsked ==
    \A s \in Supervised : pc[s] = "ended" /\ result[s] = Ok => StopRequested(s)

\* What is reported is the first failure that was joined, in wait or in the drain;
\* neither a later failure nor the deadline hides it.
ReportsFirst ==
    \A s \in Services : pc[s] = "ended" =>
        IF failures[s] # << >> THEN result[s] = Head(failures[s])
        ELSE result[s] = IF zero[s] \/ joined[s] = LoopsOf[s] THEN Ok ELSE DrainTimeout

\* The first loop of a supervised runtime to end, in any way, ends the service
\* and every loop in it, even those that are blocked.
FirstDeathStopsAll ==
    \A s \in Supervised : \A l \in LoopsOf[s] :
        task[s][l] \in Ends ~> /\ pc[s] = "ended"
                               /\ \A k \in LoopsOf[s] : task[s][k] \in Ends

\* "A blocked broker call, stuck database query, or task that forgot to watch the
\* token must not make process shutdown wait forever": a runtime that is asked to
\* stop returns from run.
StopReturns == \A s \in Supervised : Cancelled(s) ~> pc[s] = "ended"
=============================================================================
