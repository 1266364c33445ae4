--------------------------- MODULE RuntimeProofs ---------------------------
(***************************************************************************)
(* What a runtime reports, for any number of runtimes, loops and tokens.   *)
(* The inductive invariant adds to the properties what a host knows of the *)
(* loops it has joined: they ended by themselves, and without a failure if *)
(* none has been kept.                                                     *)
(***************************************************************************)
EXTENDS Runtime, TLAPS

\* A loop that was joined had ended, and only an owner that is gone aborts one.
JoinedEnded ==
    \A s \in Services : \A l \in LoopsOf[s] :
        /\ l \in joined[s] => task[s][l] \in {"ok", "err", "panic"}
        /\ task[s][l] = "aborted" => pc[s] = "ended"

\* A host that has kept no failure has joined only loops that returned cleanly.
JoinedClean ==
    \A s \in Services : (pc[s] = "waiting" \/ waited[s] = Ok) /\ first[s] = Ok =>
        \A l \in joined[s] : task[s][l] = "ok"

\* A host that reports Ok kept no failure and, unless told not to drain, has
\* joined every loop.
OkMeansJoined ==
    \A s \in Services : pc[s] = "ended" /\ result[s] = Ok =>
        waited[s] = Ok /\ first[s] = Ok /\ (zero[s] \/ joined[s] = LoopsOf[s])

JoinedOwn == \A s \in Services : joined[s] \subseteq LoopsOf[s]

\* A cancelled token was cancelled by a host or by a runtime that stopped.
CancelledBySomeone ==
    \A s \in Services : Cancelled(s) =>
        \/ TokenOf[s] \in asked
        \/ \E u \in Services : TokenOf[u] = TokenOf[s] /\ pc[u] \in {"draining", "ended"}

\* A supervised host for which wait returned Ok was asked to stop.
WaitedMeansAsked ==
    \A s \in Supervised :
        /\ pc[s] # "serving"
        /\ pc[s] # "waiting" /\ waited[s] = Ok => StopRequested(s)

RunInv == /\ TypeOK /\ OneSampler /\ JoinedOwn /\ JoinedEnded /\ JoinedClean
          /\ OkMeansJoined /\ CancelledBySomeone /\ WaitedMeansAsked

-----------------------------------------------------------------------------
(* The loops *)

\* Moving one task moves no other.
LEMMA Becoming ==
    ASSUME TypeOK, NEW s \in Services, NEW l \in Loops, NEW state \in Live \cup Ends,
           Becomes(s, l, state)
    PROVE  /\ task' \in [Services -> [Loops -> Live \cup Ends]]
           /\ task'[s][l] = state
           /\ \A u \in Services, k \in Loops : u # s \/ k # l => task'[u][k] = task[u][k]
<1> DEFINE new == [task[s] EXCEPT ![l] = state]
<1>1. task[s] \in [Loops -> Live \cup Ends]
  BY Zenon DEF TypeOK
<1>2. new \in [Loops -> Live \cup Ends] /\ new[l] = state /\ \A k \in Loops : k # l => new[k] = task[s][k]
  BY <1>1, Zenon
<1>3. task' = [task EXCEPT ![s] = new]
  BY Zenon DEF Becomes
<1> HIDE DEF new
<1> QED BY <1>2, <1>3, Zenon DEF TypeOK

\* The slot follows a sampler that ends, whoever it is.
LEMMA SlotFreed ==
    ASSUME TypeOK, OneSampler, NEW s \in Services, NEW l \in LoopsOf[s], NEW end \in Ends,
           Exits(s, l, end)
    PROVE  OneSampler' /\ running' \in BOOLEAN
<1>0. l \in Loops /\ \A u \in Services : LoopsOf[u] \subseteq Loops
  BY LoopsAssumption, Zenon
<1>1. /\ task'[s][l] = end
      /\ \A u \in Services, k \in Loops : u # s \/ k # l => task'[u][k] = task[u][k]
  BY <1>0, Becoming, Zenon DEF Exits
<1>2. end # "cycling"
  BY Zenon DEF Ends
<1>3. CASE l = Sampler /\ Sampling(s)
  <2>1. ~Sampling(s)'
    BY <1>1, <1>2, <1>3, Zenon DEF Sampling
  <2>2. \A u \in Services : u # s => (Sampling(u)' <=> Sampling(u))
    BY <1>0, <1>1, Zenon DEF Sampling
  <2>3. running' = FALSE
    BY <1>3, Zenon DEF Exits, TypeOK
  <2> QED BY <1>3, <2>1, <2>2, <2>3, Zenon DEF OneSampler
<1>4. CASE ~(l = Sampler /\ Sampling(s))
  <2>1. Sampling(s)' <=> Sampling(s)
    BY <1>0, <1>1, <1>2, <1>4, Zenon DEF Sampling
  <2>2. \A u \in Services : u # s => (Sampling(u)' <=> Sampling(u))
    BY <1>0, <1>1, Zenon DEF Sampling
  <2>3. running' = running
    BY <1>4, Zenon DEF Exits, TypeOK
  <2> QED BY <2>1, <2>2, <2>3, Zenon DEF OneSampler, TypeOK
<1> QED BY <1>3, <1>4, Zenon

\* A step of one live task leaves what the hosts know as it was.
LEMMA HostsKeep ==
    ASSUME RunInv, UNCHANGED <<cancelled, asked, hostVars>>,
           NEW s \in Services, NEW l \in LoopsOf[s], NEW state \in Live \cup Ends,
           Becomes(s, l, state), task[s][l] \in Live,
           state = "aborted" => pc[s] = "ended"
    PROVE  /\ JoinedOwn' /\ JoinedEnded' /\ JoinedClean' /\ OkMeansJoined'
           /\ CancelledBySomeone' /\ WaitedMeansAsked'
<1>0. l \in Loops /\ \A u \in Services : LoopsOf[u] \subseteq Loops
  BY LoopsAssumption, Zenon
<1>1. /\ task'[s][l] = state
      /\ \A u \in Services, k \in Loops : u # s \/ k # l => task'[u][k] = task[u][k]
  BY <1>0, Becoming, Zenon DEF RunInv
<1>2. l \notin joined[s]
  BY Zenon DEF RunInv, JoinedEnded, Live
<1>3. JoinedOwn' /\ OkMeansJoined' /\ CancelledBySomeone' /\ WaitedMeansAsked'
  BY Zenon DEF RunInv, JoinedOwn, OkMeansJoined, CancelledBySomeone, WaitedMeansAsked, StopRequested,
         Cancelled, hostVars
<1>4. \A u \in Services : \A k \in joined[u] : task'[u][k] = task[u][k]
  BY <1>0, <1>1, <1>2, Zenon DEF RunInv, JoinedOwn
<1>5. JoinedEnded'
  BY <1>0, <1>1, <1>4 DEF RunInv, JoinedEnded, hostVars
<1>6. JoinedClean'
  BY <1>4 DEF RunInv, JoinedClean, hostVars
<1> QED BY <1>3, <1>5, <1>6, Zenon

\* A task that ends keeps the invariant.
LEMMA ExitStep ==
    ASSUME RunInv, UNCHANGED <<cancelled, asked, hostVars>>, faults' \in 0 .. MaxFaults,
           NEW s \in Services, NEW l \in LoopsOf[s], NEW end \in Ends,
           Exits(s, l, end), task[s][l] \in Live,
           end = "aborted" => pc[s] = "ended"
    PROVE  RunInv'
<1>1. OneSampler' /\ running' \in BOOLEAN
  BY SlotFreed, Zenon DEF RunInv
<1>2. l \in Loops /\ Becomes(s, l, end)
  BY LoopsAssumption, Zenon DEF Exits
<1>3. TypeOK'
  BY <1>1, <1>2, Becoming, Zenon DEF RunInv, TypeOK, hostVars
<1> QED BY <1>1, <1>2, <1>3, HostsKeep, Zenon DEF RunInv

\* A task that stays alive, and holds or lacks the slot as before, keeps it too.
LEMMA StayStep ==
    ASSUME RunInv, UNCHANGED <<running, cancelled, asked, hostVars>>, faults' \in 0 .. MaxFaults,
           NEW s \in Services, NEW l \in LoopsOf[s], NEW state \in Live,
           Becomes(s, l, state), task[s][l] \in Live,
           l = Sampler => state # "cycling" /\ task[s][l] # "cycling"
    PROVE  RunInv'
<1>0. l \in Loops /\ \A u \in Services : LoopsOf[u] \subseteq Loops
  BY LoopsAssumption, Zenon
<1>1. /\ task' \in [Services -> [Loops -> Live \cup Ends]]
      /\ task'[s][l] = state
      /\ \A u \in Services, k \in Loops : u # s \/ k # l => task'[u][k] = task[u][k]
  BY <1>0, Becoming, Zenon DEF RunInv
<1>2. TypeOK'
  BY <1>1, Zenon DEF RunInv, TypeOK, hostVars
<1>3. \A u \in Services : Sampling(u)' <=> Sampling(u)
  BY <1>0, <1>1, Zenon DEF Sampling
<1>4. OneSampler'
  BY <1>3, Zenon DEF RunInv, OneSampler
<1>5. state # "aborted"
  BY Zenon DEF Live
<1> QED BY <1>2, <1>4, <1>5, HostsKeep, Zenon DEF RunInv

\* A sampler that starts takes the slot, or parks without it.
LEMMA SamplerStep ==
    ASSUME RunInv, NEW s \in Services, StartSampler(s)
    PROVE  RunInv'
<1>0. Sampler \in LoopsOf[s] /\ Sampler \in Loops /\ \A u \in Services : LoopsOf[u] \subseteq Loops
  BY LoopsAssumption, Zenon DEF StartSampler
<1>t. running \in BOOLEAN /\ faults \in 0 .. MaxFaults
  BY Zenon DEF RunInv, TypeOK
<1>1. CASE running
  <2>1. Becomes(s, Sampler, "parked") /\ running' = running
    BY <1>1, <1>t, Zenon DEF StartSampler
  <2>2. task[s][Sampler] \in Live /\ task[s][Sampler] # "cycling" /\ "parked" \in Live
    BY Zenon DEF StartSampler, Live
  <2> QED BY <1>0, <1>t, <2>1, <2>2, StayStep, Zenon DEF StartSampler
<1>2. CASE ~running
  <2>1. Becomes(s, Sampler, "cycling") /\ running' = TRUE
    BY <1>2, Zenon DEF StartSampler
  <2>2. task[s][Sampler] \in Live /\ "cycling" \in Live \cup Ends /\ "cycling" # "aborted"
    BY Zenon DEF StartSampler, Live
  <2>3. /\ task' \in [Services -> [Loops -> Live \cup Ends]]
        /\ task'[s][Sampler] = "cycling"
        /\ \A u \in Services, k \in Loops : u # s \/ k # Sampler => task'[u][k] = task[u][k]
    BY <1>0, <2>1, <2>2, Becoming, Zenon DEF RunInv
  <2>4. TypeOK'
    BY <2>1, <2>3, Zenon DEF RunInv, TypeOK, StartSampler, hostVars
  <2>5. \A u \in Services : Sampling(u)' <=> u = s
    BY <1>0, <1>2, <2>3, Zenon DEF Sampling, RunInv, OneSampler
  <2>6. OneSampler'
    BY <2>1, <2>5, Zenon DEF OneSampler
  <2> QED BY <1>0, <2>1, <2>2, <2>4, <2>6, HostsKeep, Zenon DEF RunInv, StartSampler
<1> QED BY <1>1, <1>2, Zenon

\* Every other step of a loop is one of these.
LEMMA LoopStep ==
    ASSUME RunInv, NEW s \in Services, NEW l \in LoopsOf[s],
           Notices(s, l) \/ EndsEarly(s, l) \/ Blocks(s, l) \/ Unblocks(s, l) \/ Aborts(s, l)
    PROVE  RunInv'
<1>0. /\ faults \in 0 .. MaxFaults
      /\ Fault => faults' \in 0 .. MaxFaults
  BY MaxFaultsAssumption DEF RunInv, TypeOK, Fault
<1>1. CASE Notices(s, l)
  <2>1. Exits(s, l, "ok") /\ task[s][l] \in Live /\ "ok" \in Ends /\ "ok" # "aborted"
        /\ UNCHANGED <<cancelled, asked, hostVars, faults>>
    BY <1>1, Zenon DEF Notices, Live, Ends
  <2> QED BY <1>0, <2>1, ExitStep, Zenon
<1>2. CASE EndsEarly(s, l)
  <2>1. PICK kind \in EndKinds : Exits(s, l, kind)
    BY <1>2, Zenon DEF EndsEarly
  <2>2. kind \in Ends /\ kind # "aborted" /\ task[s][l] \in Live
        /\ UNCHANGED <<cancelled, asked, hostVars>> /\ faults' \in 0 .. MaxFaults
    BY <1>0, <1>2, KindsAssumption, Zenon DEF EndsEarly, Ends, Live
  <2> QED BY <2>1, <2>2, ExitStep, Zenon
<1>3. CASE Blocks(s, l)
  <2>1. Becomes(s, l, "blocked") /\ task[s][l] \in Live /\ "blocked" \in Live /\ l # Sampler
        /\ UNCHANGED <<running, cancelled, asked, hostVars>> /\ faults' \in 0 .. MaxFaults
    BY <1>0, <1>3, Zenon DEF Blocks, Live
  <2> QED BY <2>1, StayStep, Zenon
<1>4. CASE Unblocks(s, l)
  <2>1. Becomes(s, l, "cycling") /\ task[s][l] \in Live /\ "cycling" \in Live /\ l # Sampler
        /\ UNCHANGED <<running, cancelled, asked, hostVars>> /\ faults' \in 0 .. MaxFaults
    BY <1>0, <1>4, Zenon DEF Unblocks, Live
  <2> QED BY <2>1, StayStep, Zenon
<1>5. CASE Aborts(s, l)
  <2>1. Exits(s, l, "aborted") /\ task[s][l] \in Live /\ "aborted" \in Ends /\ pc[s] = "ended"
        /\ UNCHANGED <<cancelled, asked, hostVars, faults>>
    BY <1>5, Zenon DEF Aborts, Ends
  <2> QED BY <1>0, <2>1, ExitStep, Zenon
<1> QED BY <1>1, <1>2, <1>3, <1>4, <1>5, Zenon

-----------------------------------------------------------------------------
(* The hosts *)

\* What classify_completion says of a loop a host that is still there joins.
LEMMA Classified ==
    ASSUME RunInv, NEW s \in Services, NEW l \in Ready(s), NEW early \in BOOLEAN, pc[s] # "ended"
    PROVE  /\ l \in LoopsOf[s] /\ l \in Loops
           /\ task[s][l] \in {"ok", "err", "panic"}
           /\ Classify(s, l, early) \in Errors \cup {Ok}
           /\ Classify(s, l, early) = Ok => task[s][l] = "ok" /\ ~early
<1>1. l \in LoopsOf[s] /\ l \in Loops
  BY LoopsAssumption, Zenon DEF Ready
<1>2. task[s][l] \in {"ok", "err", "panic"}
  BY <1>1, Zenon DEF Ready, Ends, RunInv, JoinedEnded
<1> QED BY <1>1, <1>2, Zenon DEF Classify, Errors, Ok

\* Joining a loop leaves the types as they are.
LEMMA JoinTypes ==
    ASSUME RunInv, NEW s \in Services, NEW l \in Ready(s), NEW early \in BOOLEAN,
           pc[s] # "ended", Join(s, l, early)
    PROVE  /\ joined' \in [Services -> SUBSET Loops]
           /\ failures' \in [Services -> Seq(Errors)]
           /\ joined'[s] = joined[s] \cup {l}
           /\ \A u \in Services : u # s => joined'[u] = joined[u]
           /\ JoinedOwn'
<1> DEFINE c == Classify(s, l, early)
           more == IF c = Ok THEN failures[s] ELSE Append(failures[s], c)
<1>1. l \in LoopsOf[s] /\ l \in Loops /\ c \in Errors \cup {Ok}
  BY Classified, Zenon
<1>2. joined' \in [Services -> SUBSET Loops] /\ joined'[s] = joined[s] \cup {l}
      /\ \A u \in Services : u # s => joined'[u] = joined[u]
  BY <1>1, Zenon DEF Join, RunInv, TypeOK
<1>3. failures' = [failures EXCEPT ![s] = more]
  BY Zenon DEF Join
<1>4. failures[s] \in Seq(Errors) /\ failures \in [Services -> Seq(Errors)]
  BY Zenon DEF RunInv, TypeOK
<1> HIDE DEF c
<1>5. more \in Seq(Errors)
  BY <1>1, <1>4
<1> HIDE DEF more
<1>6. failures' \in [Services -> Seq(Errors)]
  BY <1>3, <1>4, <1>5, Zenon
<1>7. JoinedOwn'
  BY <1>1, <1>2, Zenon DEF RunInv, JoinedOwn
<1> QED BY <1>2, <1>6, <1>7, Zenon

\* Requests to stop are not withdrawn.
LEMMA RequestsStay ==
    ASSUME asked \subseteq asked',
           \A u \in Services : pc[u] \in {"draining", "ended"} => pc'[u] \in {"draining", "ended"},
           NEW s \in Services, StopRequested(s)
    PROVE  StopRequested(s)'
BY Zenon DEF StopRequested

\* The first loop to end ends the wait; that it was no failure means that someone
\* else cancelled the token.
LEMMA WaitStep ==
    ASSUME RunInv, NEW s \in Services, Wait(s)
    PROVE  RunInv'
<1>1. PICK l \in Ready(s) : /\ Join(s, l, ~Cancelled(s))
                            /\ waited' = [waited EXCEPT ![s] = Classify(s, l, ~Cancelled(s))]
  BY Zenon DEF Wait
<1>2. pc[s] = "waiting" /\ pc' = [pc EXCEPT ![s] = "stopping"]
      /\ UNCHANGED <<taskVars, cancelled, asked, zero, first, result>>
  BY Zenon DEF Wait
<1>3. (~Cancelled(s)) \in BOOLEAN /\ pc[s] # "ended"
  BY <1>2, Zenon DEF Cancelled
<1> DEFINE c == Classify(s, l, ~Cancelled(s))
<1>4. /\ l \in LoopsOf[s] /\ l \in Loops /\ task[s][l] \in {"ok", "err", "panic"}
      /\ c \in Errors \cup {Ok}
      /\ c = Ok => task[s][l] = "ok" /\ Cancelled(s)
  BY <1>3, Classified, Zenon
<1>5. /\ joined' \in [Services -> SUBSET Loops] /\ failures' \in [Services -> Seq(Errors)]
      /\ joined'[s] = joined[s] \cup {l}
      /\ \A u \in Services : u # s => joined'[u] = joined[u]
      /\ JoinedOwn'
  BY <1>1, <1>3, JoinTypes, Zenon
<1>6. waited' = [waited EXCEPT ![s] = c]
  BY <1>1, Zenon
<1> HIDE DEF c
<1>7. waited' \in [Services -> Results] /\ waited'[s] = c
      /\ \A u \in Services : u # s => waited'[u] = waited[u]
  BY <1>4, <1>6, Zenon DEF RunInv, TypeOK, Results
<1>8. TypeOK'
  BY <1>2, <1>5, <1>7, Zenon DEF RunInv, TypeOK, taskVars
<1>9. OneSampler'
  BY <1>2, Zenon DEF RunInv, OneSampler, Sampling, taskVars
<1>10. JoinedEnded'
  BY <1>2, <1>4, <1>5 DEF RunInv, TypeOK, JoinedEnded, taskVars
<1>11. JoinedClean'
  BY <1>2, <1>4, <1>5, <1>7 DEF RunInv, TypeOK, JoinedClean, taskVars
<1>12. OkMeansJoined'
  BY <1>2, <1>5, <1>7, Zenon DEF RunInv, TypeOK, OkMeansJoined
<1>13. \A u \in Services : pc[u] \in {"draining", "ended"} => pc'[u] \in {"draining", "ended"}
  BY <1>2, Zenon DEF RunInv, TypeOK
<1>14. CancelledBySomeone'
  BY <1>2, <1>13, Zenon DEF RunInv, CancelledBySomeone, Cancelled
<1>15. c = Ok => StopRequested(s)
  BY <1>2, <1>4, Zenon DEF RunInv, CancelledBySomeone, StopRequested
<1>16. WaitedMeansAsked'
  <2>1. \A u \in Services : StopRequested(u) => StopRequested(u)'
    BY <1>2, <1>13, RequestsStay, Zenon
  <2> QED BY <1>2, <1>7, <1>15, <2>1, KindsAssumption, Zenon DEF RunInv, TypeOK, WaitedMeansAsked
<1> QED BY <1>5, <1>8, <1>9, <1>10, <1>11, <1>12, <1>14, <1>16, Zenon DEF RunInv

\* The drain joins a loop: before the token is cancelled or after it.
LEMMA DrainStep ==
    ASSUME RunInv, NEW s \in Services, NEW l \in Ready(s), NEW early \in BOOLEAN,
           pc[s] \in {"readying", "draining"},
           Join(s, l, early), KeepFirst(s, l, early),
           UNCHANGED <<taskVars, cancelled, asked, pc, zero, waited, result>>
    PROVE  RunInv'
<1> DEFINE c == Classify(s, l, early)
<1>0. pc[s] # "ended"
  BY Zenon
<1>1. /\ l \in LoopsOf[s] /\ l \in Loops /\ task[s][l] \in {"ok", "err", "panic"}
      /\ c \in Errors \cup {Ok}
      /\ c = Ok => task[s][l] = "ok"
  BY <1>0, Classified, Zenon
<1>2. /\ joined' \in [Services -> SUBSET Loops] /\ failures' \in [Services -> Seq(Errors)]
      /\ joined'[s] = joined[s] \cup {l}
      /\ \A u \in Services : u # s => joined'[u] = joined[u]
      /\ JoinedOwn'
  BY <1>0, JoinTypes
<1>3. first' = [first EXCEPT ![s] = IF first[s] = Ok THEN c ELSE first[s]]
  BY Zenon DEF KeepFirst
<1> HIDE DEF c
<1>4. /\ first' \in [Services -> Results]
      /\ first'[s] = Ok => first[s] = Ok /\ c = Ok
      /\ \A u \in Services : u # s => first'[u] = first[u]
  BY <1>1, <1>3, Zenon DEF RunInv, TypeOK, Results
<1>5. TypeOK' /\ OneSampler'
  BY <1>2, <1>4, Zenon DEF RunInv, TypeOK, OneSampler, Sampling, taskVars
<1>6. JoinedEnded'
  <2>1. \A u \in Services : \A k \in joined'[u] : k \in joined[u] \/ (u = s /\ k = l)
    BY <1>2, Zenon
  <2> QED BY <1>1, <2>1 DEF RunInv, JoinedEnded, taskVars
<1>7. JoinedClean'
  BY <1>1, <1>2, <1>4, Zenon DEF RunInv, JoinedClean, taskVars
<1>8. OkMeansJoined'
  BY <1>0, <1>2, <1>4, Zenon DEF RunInv, OkMeansJoined
<1>9. CancelledBySomeone' /\ WaitedMeansAsked'
  BY Zenon DEF RunInv, CancelledBySomeone, WaitedMeansAsked, StopRequested, Cancelled
<1> QED BY <1>2, <1>5, <1>6, <1>7, <1>8, <1>9, Zenon DEF RunInv

\* A step of a host that only moves it on, before it returns.
LEMMA MoveStep ==
    ASSUME RunInv, NEW s \in Services,
           NEW to \in {"stopping", "readying", "cancelling", "draining"},
           pc[s] \notin {"waiting", "ended"}, pc[s] = "draining" => to = "draining",
           pc' = [pc EXCEPT ![s] = to],
           zero' \in [Services -> BOOLEAN],
           \A u \in Services : u # s => zero'[u] = zero[u],
           cancelled' = cancelled \/ (to = "draining" /\ cancelled' = cancelled \cup {TokenOf[s]}),
           UNCHANGED <<taskVars, asked, joined, waited, first, result, failures>>
    PROVE  RunInv'
<1>1. pc'[s] = to /\ \A u \in Services : u # s => pc'[u] = pc[u]
  BY Zenon DEF RunInv, TypeOK
<1>2. TypeOK'
  <2>1. TypeOK
    BY Zenon DEF RunInv
  <2>2. cancelled' \subseteq Tokens
    BY <2>1, TokensAssumption DEF TypeOK
  <2>3. pc' \in [Services -> {"waiting", "serving", "stopping", "readying", "cancelling",
                             "draining", "ended"}]
    BY <2>1, Zenon DEF TypeOK
  <2> QED BY <2>1, <2>2, <2>3, Zenon DEF TypeOK, taskVars
<1>3. OneSampler' /\ JoinedOwn'
  BY Zenon DEF RunInv, OneSampler, Sampling, taskVars, JoinedOwn
<1>4. JoinedEnded' /\ JoinedClean' /\ OkMeansJoined'
  BY <1>1 DEF RunInv, JoinedEnded, JoinedClean, OkMeansJoined, taskVars
<1>5. \A u \in Services : pc[u] \in {"draining", "ended"} => pc'[u] \in {"draining", "ended"}
  BY <1>1, Zenon
<1>6. CancelledBySomeone'
  <2> SUFFICES ASSUME NEW u \in Services, Cancelled(u)'
               PROVE  \/ TokenOf[u] \in asked
                      \/ \E v \in Services : TokenOf[v] = TokenOf[u] /\ pc'[v] \in {"draining", "ended"}
    BY Zenon DEF CancelledBySomeone
  <2>1. CASE TokenOf[u] \in cancelled
    BY <1>5, <2>1, Zenon DEF RunInv, CancelledBySomeone, Cancelled
  <2>2. CASE TokenOf[u] \notin cancelled
    <3>1. TokenOf[u] = TokenOf[s] /\ to = "draining"
      BY <2>2, Zenon DEF Cancelled
    <3> QED BY <1>1, <3>1, Zenon
  <2> QED BY <2>1, <2>2, Zenon
<1>7. WaitedMeansAsked'
  <2>1. \A u \in Services : StopRequested(u) => StopRequested(u)'
    BY <1>5, RequestsStay, Zenon
  <2> QED BY <1>1, <2>1, KindsAssumption, Zenon DEF RunInv, WaitedMeansAsked
<1> QED BY <1>2, <1>3, <1>4, <1>6, <1>7, Zenon DEF RunInv

\* run or shutdown returns, Ok only if wait and the drain said so.
LEMMA ReturnStep ==
    ASSUME RunInv, NEW s \in Services, NEW drained \in Results,
           pc[s] = "draining", Return(s, drained),
           drained = Ok => first[s] = Ok /\ (zero[s] \/ joined[s] = LoopsOf[s])
    PROVE  RunInv'
<1>1. /\ pc'[s] = "ended" /\ \A u \in Services : u # s => pc'[u] = pc[u]
      /\ result' \in [Services -> Results]
      /\ result'[s] = Ok => waited[s] = Ok /\ drained = Ok
      /\ \A u \in Services : u # s => result'[u] = result[u]
  BY Zenon DEF RunInv, TypeOK, Return
<1>2. UNCHANGED <<taskVars, cancelled, asked, joined, zero, waited, first, failures>>
  BY Zenon DEF Return
<1>3. TypeOK'
  BY <1>1, <1>2, Zenon DEF RunInv, TypeOK, taskVars, Return
<1>4. OneSampler' /\ JoinedOwn'
  BY <1>2, Zenon DEF RunInv, OneSampler, Sampling, taskVars, JoinedOwn
<1>5. JoinedEnded' /\ JoinedClean' /\ OkMeansJoined'
  BY <1>1, <1>2 DEF RunInv, JoinedEnded, JoinedClean, OkMeansJoined, taskVars
<1>6. \A u \in Services : pc[u] \in {"draining", "ended"} => pc'[u] \in {"draining", "ended"}
  BY <1>1, Zenon
<1>7. CancelledBySomeone'
  BY <1>2, <1>6, Zenon DEF RunInv, CancelledBySomeone, Cancelled
<1>8. WaitedMeansAsked'
  <2>1. \A u \in Services : StopRequested(u) => StopRequested(u)'
    BY <1>2, <1>6, RequestsStay, Zenon
  <2> QED BY <1>1, <1>2, <2>1, KindsAssumption, Zenon DEF RunInv, WaitedMeansAsked
<1> QED BY <1>3, <1>4, <1>5, <1>7, <1>8, Zenon DEF RunInv

\* Every step of a host keeps the invariant.
LEMMA HostStep ==
    ASSUME RunInv, NEW s \in Services, Host(s) \/ CallShutdown(s)
    PROVE  RunInv'
<1>t. /\ pc \in [Services -> {"waiting", "serving", "stopping", "readying", "cancelling",
                              "draining", "ended"}]
      /\ zero \in [Services -> BOOLEAN]
      /\ first \in [Services -> Results]
  BY Zenon DEF RunInv, TypeOK
<1>1. CASE Wait(s)
  BY <1>1, WaitStep, Zenon
<1>2. CASE CallShutdown(s)
  <2>1. /\ pc[s] = "serving" /\ pc' = [pc EXCEPT ![s] = "stopping"]
        /\ zero' \in [Services -> BOOLEAN] /\ \A u \in Services : u # s => zero'[u] = zero[u]
        /\ UNCHANGED <<taskVars, cancelled, asked, joined, waited, first, result, failures>>
    BY <1>2, <1>t, Zenon DEF CallShutdown
  <2> QED BY <2>1, MoveStep, Zenon
<1>3. CASE Stop(s)
  <2>1. /\ pc[s] = "stopping"
        /\ UNCHANGED <<taskVars, cancelled, asked, joined, zero, waited, first, result, failures>>
        /\ \/ pc' = [pc EXCEPT ![s] = "draining"]
           \/ pc' = [pc EXCEPT ![s] = "readying"]
    BY <1>3, Zenon DEF Stop
  <2> QED BY <1>t, <2>1, MoveStep, Zenon
<1>4. CASE JoinReady(s)
  <2>1. pc[s] = "readying" /\ UNCHANGED <<taskVars, cancelled, asked, zero, waited, result>>
    BY <1>4, Zenon DEF JoinReady
  <2>2. CASE \E l \in Ready(s) : Join(s, l, TRUE) /\ KeepFirst(s, l, TRUE) /\ UNCHANGED pc
    BY <2>1, <2>2, DrainStep, Zenon
  <2>3. CASE pc' = [pc EXCEPT ![s] = "cancelling"] /\ UNCHANGED <<joined, failures, first>>
    BY <1>t, <2>1, <2>3, MoveStep, Zenon
  <2> QED BY <1>4, <2>2, <2>3, Zenon DEF JoinReady
<1>5. CASE CancelAll(s)
  <2>1. /\ pc[s] = "cancelling" /\ pc' = [pc EXCEPT ![s] = "draining"]
        /\ cancelled' = cancelled \cup {TokenOf[s]}
        /\ UNCHANGED <<taskVars, asked, joined, zero, waited, first, result, failures>>
    BY <1>5, Zenon DEF CancelAll
  <2> QED BY <1>t, <2>1, MoveStep, Zenon
<1>6. CASE DrainJoin(s)
  <2>1. PICK l \in Ready(s) : Join(s, l, FALSE) /\ KeepFirst(s, l, FALSE)
    BY <1>6, Zenon DEF DrainJoin
  <2>2. pc[s] = "draining" /\ UNCHANGED <<taskVars, cancelled, asked, pc, zero, waited, result>>
    BY <1>6, Zenon DEF DrainJoin
  <2> QED BY <2>1, <2>2, DrainStep, Zenon
<1>7. CASE Drained(s)
  <2>1. pc[s] = "draining" /\ Return(s, first[s]) /\ (zero[s] \/ joined[s] = LoopsOf[s])
        /\ first[s] \in Results
    BY <1>7, <1>t, Zenon DEF Drained
  <2> QED BY <2>1, ReturnStep, Zenon
<1>8. CASE DrainTimesOut(s)
  <2> DEFINE drained == IF first[s] # Ok THEN first[s] ELSE DrainTimeout
  <2>1. pc[s] = "draining" /\ Return(s, drained)
    BY <1>8, Zenon DEF DrainTimesOut
  <2>2. drained \in Results /\ drained # Ok
    BY <1>t, Zenon DEF Results, Ok, DrainTimeout
  <2> HIDE DEF drained
  <2> QED BY <2>1, <2>2, ReturnStep, Zenon
<1> QED BY <1>1, <1>2, <1>3, <1>4, <1>5, <1>6, <1>7, <1>8, Zenon DEF Host

\* So does a host that cancels a token.
LEMMA CancelStep ==
    ASSUME RunInv, NEW t \in Tokens, Cancel(t)
    PROVE  RunInv'
<1>1. /\ cancelled' = cancelled \cup {t} /\ asked' = asked \cup {t}
      /\ UNCHANGED <<task, running, faults, pc, joined, zero, waited, first, result, failures>>
  BY Zenon DEF Cancel, taskVars, hostVars
<1>2. TypeOK'
  BY <1>1, Zenon DEF RunInv, TypeOK
<1>3. OneSampler' /\ JoinedOwn' /\ JoinedEnded' /\ JoinedClean' /\ OkMeansJoined'
  BY <1>1, Zenon DEF RunInv, OneSampler, Sampling, JoinedOwn, JoinedEnded, JoinedClean, OkMeansJoined
<1>4. CancelledBySomeone'
  BY <1>1, Zenon DEF RunInv, CancelledBySomeone, Cancelled
<1>5. WaitedMeansAsked'
  BY <1>1, Zenon DEF RunInv, WaitedMeansAsked, StopRequested
<1> QED BY <1>2, <1>3, <1>4, <1>5, Zenon DEF RunInv

-----------------------------------------------------------------------------
(* The theorems *)

\* The runtime starts in the invariant.
LEMMA InitRunInv == Init => RunInv
<1> SUFFICES ASSUME Init PROVE RunInv
  BY Zenon
<1>1. TypeOK
  <2>1. task \in [Services -> [Loops -> Live \cup Ends]]
    BY Zenon DEF Init, Spawned, Live
  <2>2. << >> \in Seq(Errors) /\ 0 \in 0 .. MaxFaults
    BY MaxFaultsAssumption
  <2> QED BY <2>1, <2>2, Zenon DEF Init, TypeOK, Results
<1>2. \A s \in Services : ~Sampling(s)
  BY LoopsAssumption, Zenon DEF Init, Spawned, Sampling
<1>3. OneSampler
  BY <1>2, Zenon DEF OneSampler, Init
<1>4. JoinedOwn /\ JoinedClean /\ OkMeansJoined
  BY Zenon DEF Init, JoinedOwn, JoinedClean, OkMeansJoined
<1>5. JoinedEnded
  BY LoopsAssumption, Zenon DEF Init, Spawned, JoinedEnded
<1>6. CancelledBySomeone /\ WaitedMeansAsked
  BY KindsAssumption, Zenon DEF Init, CancelledBySomeone, Cancelled, WaitedMeansAsked
<1> QED BY <1>1, <1>3, <1>4, <1>5, <1>6, Zenon DEF RunInv

\* The invariant always holds.
LEMMA RunInvariant == Spec => []RunInv
<1>1. RunInv /\ [Next]_vars => RunInv'
  <2> SUFFICES ASSUME RunInv, [Next]_vars PROVE RunInv'
    BY Zenon
  <2>1. CASE UNCHANGED vars
    BY <2>1 DEF vars, taskVars, hostVars, RunInv, TypeOK, OneSampler, Sampling, JoinedOwn, JoinedEnded,
                JoinedClean, OkMeansJoined, CancelledBySomeone, Cancelled, WaitedMeansAsked, StopRequested
  <2>2. CASE \E s \in Services : Host(s) \/ CallShutdown(s) \/ StartSampler(s)
    BY <2>2, HostStep, SamplerStep, Zenon
  <2>3. CASE \E s \in Services : \E l \in LoopsOf[s] :
               Notices(s, l) \/ EndsEarly(s, l) \/ Blocks(s, l) \/ Unblocks(s, l) \/ Aborts(s, l)
    BY <2>3, LoopStep, Zenon
  <2>4. CASE \E t \in Tokens : Cancel(t)
    BY <2>4, CancelStep, Zenon
  <2> QED BY <2>1, <2>2, <2>3, <2>4, Zenon DEF Next
<1> QED BY <1>1, InitRunInv, PTL DEF Spec

\* Every variable keeps its type.
THEOREM RuntimeTypes == Spec => []TypeOK
<1>1. RunInv => TypeOK
  BY Zenon DEF RunInv
<1> QED BY <1>1, RunInvariant, PTL

\* However many runtimes a process has, one loop samples, and RUNNING is set
\* exactly while it does.
THEOREM SamplerUnique == Spec => []OneSampler
<1>1. RunInv => OneSampler
  BY Zenon DEF RunInv
<1> QED BY <1>1, RunInvariant, PTL

\* A clean result of run or shutdown means that every loop returned cleanly.
THEOREM CleanMeansStopped == Spec => []OkMeansStopped
<1>1. RunInv => OkMeansStopped
  BY Zenon DEF RunInv, OkMeansJoined, JoinedClean, OkMeansStopped
<1> QED BY <1>1, RunInvariant, PTL

\* A clean result of run means that a stop was asked for.
THEOREM CleanMeansAsked == Spec => []OkMeansAsked
<1>1. RunInv => OkMeansAsked
  BY KindsAssumption, Zenon DEF RunInv, OkMeansJoined, WaitedMeansAsked, OkMeansAsked
<1> QED BY <1>1, RunInvariant, PTL

-----------------------------------------------------------------------------
(* Which failure is reported *)

\* What a host would return of the failures it has joined.
Kept(s) == IF waited[s] # Ok THEN waited[s] ELSE first[s]

\* A host keeps the first failure it joins, in wait or in the drain: wait joins
\* before the drain does, and the drain leaves what it has kept.
KeepsFirst(s) ==
    /\ failures[s] \in Seq(Errors)
    /\ pc[s] \in {"waiting", "serving"} => failures[s] = << >>
    /\ pc[s] \in {"waiting", "serving", "stopping"} => first[s] = Ok
    /\ Kept(s) = IF failures[s] = << >> THEN Ok ELSE Head(failures[s])

\* And returns it, or the timeout if there is none and a loop was left behind.
ReturnsKept(s) ==
    pc[s] = "ended" =>
        IF failures[s] # << >> THEN result[s] = Head(failures[s])
        ELSE result[s] = IF zero[s] \/ joined[s] = LoopsOf[s] THEN Ok ELSE DrainTimeout

ReportInv == \A s \in Services : KeepsFirst(s) /\ ReturnsKept(s)

\* The errors of loops are not Ok.
LEMMA ErrorsNotOk == \A e \in Errors : e # Ok
  BY DEF Errors, Ok

\* A host's step leaves the other hosts where they are.
LEMMA OtherHosts ==
    ASSUME TypeOK, NEW s \in Services, Host(s) \/ CallShutdown(s), NEW u \in Services, u # s
    PROVE  /\ pc'[u] = pc[u] /\ failures'[u] = failures[u] /\ first'[u] = first[u]
           /\ waited'[u] = waited[u] /\ result'[u] = result[u] /\ zero'[u] = zero[u]
           /\ joined'[u] = joined[u]
<1>1. CASE Wait(s)
  BY <1>1, Zenon DEF Wait, Join, TypeOK
<1>2. CASE CallShutdown(s) \/ Stop(s) \/ CancelAll(s)
  BY <1>2, Zenon DEF CallShutdown, Stop, CancelAll, TypeOK
<1>3. CASE JoinReady(s)
  BY <1>3, Zenon DEF JoinReady, Join, KeepFirst, TypeOK
<1>4. CASE DrainJoin(s)
  BY <1>4, Zenon DEF DrainJoin, Join, KeepFirst, TypeOK
<1>5. CASE Drained(s) \/ DrainTimesOut(s)
  BY <1>5, Zenon DEF Drained, DrainTimesOut, Return, TypeOK
<1> QED BY <1>1, <1>2, <1>3, <1>4, <1>5, Zenon DEF Host

\* Appending to a sequence keeps its head, or makes one.
LEMMA AppendKeepsHead ==
    ASSUME NEW S, NEW f \in Seq(S), NEW c \in S
    PROVE  /\ Append(f, c) \in Seq(S) /\ Append(f, c) # << >>
           /\ Head(Append(f, c)) = IF f = << >> THEN c ELSE Head(f)
<1>1. Append(f, c) \in Seq(S) /\ Len(Append(f, c)) = Len(f) + 1 /\ Len(f) \in Nat
  OBVIOUS
<1>2. Append(f, c) # << >>
  BY <1>1
<1>3. Head(Append(f, c)) = Append(f, c)[1]
  BY <1>1, <1>2
<1>4. CASE f = << >>
  BY <1>1, <1>2, <1>3, <1>4
<1>5. CASE f # << >>
  <2>1. Len(f) >= 1 /\ Head(f) = f[1]
    BY <1>1, <1>5
  <2>2. Append(f, c)[1] = f[1]
    BY <2>1
  <2> QED BY <1>1, <1>2, <1>3, <1>5, <2>1, <2>2, Zenon
<1> QED BY <1>4, <1>5, Zenon

\* What joining a loop adds to the failures: its failure, at the end, or nothing.
LEMMA JoinAppends ==
    ASSUME RunInv, NEW s \in Services, NEW l \in Ready(s), NEW early \in BOOLEAN,
           pc[s] # "ended", Join(s, l, early)
    PROVE  /\ failures'[s] \in Seq(Errors)
           /\ Classify(s, l, early) = Ok => failures'[s] = failures[s]
           /\ Classify(s, l, early) # Ok =>
                 /\ failures'[s] # << >>
                 /\ Head(failures'[s]) = IF failures[s] = << >> THEN Classify(s, l, early)
                                         ELSE Head(failures[s])
<1> DEFINE c == Classify(s, l, early)
<1>1. c \in Errors \cup {Ok}
  BY Classified, Zenon
<1>2. failures'[s] = IF c = Ok THEN failures[s] ELSE Append(failures[s], c)
  BY Zenon DEF Join, RunInv, TypeOK
<1>3. failures[s] \in Seq(Errors)
  BY Zenon DEF RunInv, TypeOK
<1> HIDE DEF c
<1>4. c # Ok => /\ Append(failures[s], c) \in Seq(Errors)
                /\ Append(failures[s], c) # << >>
                /\ Head(Append(failures[s], c)) = IF failures[s] = << >> THEN c ELSE Head(failures[s])
  BY <1>1, <1>3, AppendKeepsHead, Zenon
<1>5. /\ failures'[s] \in Seq(Errors)
      /\ c = Ok => failures'[s] = failures[s]
      /\ c # Ok => failures'[s] # << >> /\ Head(failures'[s]) = IF failures[s] = << >> THEN c
                                                               ELSE Head(failures[s])
  BY <1>2, <1>3, <1>4, Zenon
<1> QED BY <1>5, Zenon DEF c

\* A host's step keeps it, for the host that takes it.
LEMMA ReportStep ==
    ASSUME RunInv, NEW s \in Services, KeepsFirst(s), ReturnsKept(s), Host(s) \/ CallShutdown(s)
    PROVE  KeepsFirst(s)' /\ ReturnsKept(s)'
<1>t. /\ s \in DOMAIN pc /\ s \in DOMAIN first /\ s \in DOMAIN waited /\ s \in DOMAIN result
      /\ first[s] \in Results /\ waited[s] \in Results
  BY Zenon DEF RunInv, TypeOK
<1>h. failures[s] # << >> => Head(failures[s]) \in Errors /\ Head(failures[s]) # Ok
  BY ErrorsNotOk DEF KeepsFirst
<1>1. CASE Wait(s)
  <2>1. PICK l \in Ready(s) : /\ Join(s, l, ~Cancelled(s))
                              /\ waited' = [waited EXCEPT ![s] = Classify(s, l, ~Cancelled(s))]
    BY <1>1, Zenon DEF Wait
  <2> DEFINE c == Classify(s, l, ~Cancelled(s))
  <2>2. pc[s] = "waiting" /\ pc'[s] = "stopping" /\ waited'[s] = c /\ first' = first
    BY <1>1, <1>t, <2>1, Zenon DEF Wait
  <2>3. failures[s] = << >> /\ first[s] = Ok
    BY <2>2, Zenon DEF KeepsFirst
  <2>4. (~Cancelled(s)) \in BOOLEAN
    BY Zenon DEF Cancelled
  <2>5. /\ failures'[s] \in Seq(Errors)
        /\ c = Ok => failures'[s] = failures[s]
        /\ c # Ok => failures'[s] # << >> /\ Head(failures'[s]) = c
    BY <2>1, <2>2, <2>3, <2>4, JoinAppends, Zenon
  <2> HIDE DEF c
  <2> QED BY <2>2, <2>3, <2>5, Zenon DEF KeepsFirst, ReturnsKept, Kept
<1>2. CASE CallShutdown(s) \/ Stop(s) \/ CancelAll(s)
  BY <1>2, <1>t, Zenon DEF CallShutdown, Stop, CancelAll, KeepsFirst, ReturnsKept, Kept
<1>3. ASSUME NEW l \in Ready(s), NEW early \in BOOLEAN, Join(s, l, early), KeepFirst(s, l, early),
             pc[s] \in {"readying", "draining"}, UNCHANGED <<pc, waited>>
      PROVE  KeepsFirst(s)' /\ ReturnsKept(s)'
  <2> DEFINE c == Classify(s, l, early)
  <2>1. first'[s] = IF first[s] = Ok THEN c ELSE first[s]
    BY <1>3, <1>t, Zenon DEF KeepFirst
  <2>2. /\ failures'[s] \in Seq(Errors)
        /\ c = Ok => failures'[s] = failures[s]
        /\ c # Ok => failures'[s] # << >> /\ Head(failures'[s]) = IF failures[s] = << >> THEN c
                                                                 ELSE Head(failures[s])
    BY <1>3, JoinAppends, Zenon
  <2> HIDE DEF c
  <2> QED BY <1>3, <1>h, <2>1, <2>2, Zenon DEF KeepsFirst, ReturnsKept, Kept
<1>4. CASE JoinReady(s)
  <2>1. CASE \E l \in Ready(s) : Join(s, l, TRUE) /\ KeepFirst(s, l, TRUE) /\ UNCHANGED pc
    BY <1>3, <1>4, <2>1, Zenon DEF JoinReady
  <2>2. CASE pc' = [pc EXCEPT ![s] = "cancelling"] /\ UNCHANGED <<joined, failures, first>>
    BY <1>4, <1>t, <2>2, Zenon DEF JoinReady, KeepsFirst, ReturnsKept, Kept
  <2> QED BY <1>4, <2>1, <2>2, Zenon DEF JoinReady
<1>5. CASE DrainJoin(s)
  <2>1. PICK l \in Ready(s) : Join(s, l, FALSE) /\ KeepFirst(s, l, FALSE)
    BY <1>5, Zenon DEF DrainJoin
  <2>2. pc[s] \in {"readying", "draining"} /\ UNCHANGED <<pc, waited>>
    BY <1>5, Zenon DEF DrainJoin
  <2> QED BY <1>3, <2>1, <2>2, Zenon
<1>6. ASSUME NEW drained, Return(s, drained), pc[s] = "draining",
             drained = IF first[s] # Ok THEN first[s]
                       ELSE IF zero[s] \/ joined[s] = LoopsOf[s] THEN Ok ELSE DrainTimeout
      PROVE  KeepsFirst(s)' /\ ReturnsKept(s)'
  <2>1. /\ result'[s] = IF waited[s] # Ok THEN waited[s] ELSE drained
        /\ pc'[s] = "ended" /\ UNCHANGED <<joined, zero, waited, first, failures>>
    BY <1>6, <1>t, Zenon DEF Return
  <2> QED BY <1>6, <1>h, <2>1, Zenon DEF KeepsFirst, ReturnsKept, Kept
<1>7. CASE Drained(s)
  BY <1>6, <1>7, Zenon DEF Drained
<1>8. CASE DrainTimesOut(s)
  BY <1>6, <1>8, Zenon DEF DrainTimesOut
<1> QED BY <1>1, <1>2, <1>4, <1>5, <1>7, <1>8, Zenon DEF Host

\* What is reported is the first failure that was joined, by any of any number of
\* runtimes; neither a later failure nor the deadline hides it.
THEOREM FirstFailureReported == Spec => []ReportsFirst
<1>1. Init => ReportInv
  BY DEF Init, ReportInv, KeepsFirst, ReturnsKept, Kept
<1>2. RunInv /\ ReportInv /\ [Next]_vars => ReportInv'
  <2> SUFFICES ASSUME RunInv, ReportInv, [Next]_vars PROVE ReportInv'
    BY Zenon
  <2>1. ASSUME UNCHANGED hostVars PROVE ReportInv'
    BY <2>1, Zenon DEF ReportInv, KeepsFirst, ReturnsKept, Kept, hostVars
  <2>2. ASSUME NEW s \in Services, Host(s) \/ CallShutdown(s) PROVE ReportInv'
    <3> SUFFICES ASSUME NEW u \in Services PROVE KeepsFirst(u)' /\ ReturnsKept(u)'
      BY Zenon DEF ReportInv
    <3>1. CASE u = s
      BY <2>2, <3>1, ReportStep, Zenon DEF ReportInv
    <3>2. CASE u # s
      BY <2>2, <3>2, OtherHosts DEF RunInv, ReportInv, KeepsFirst, ReturnsKept, Kept
    <3> QED BY <3>1, <3>2, Zenon
  <2>3. CASE \E s \in Services : StartSampler(s)
    BY <2>1, <2>3, Zenon DEF StartSampler
  <2>4. CASE \E s \in Services : \E l \in LoopsOf[s] :
               Notices(s, l) \/ EndsEarly(s, l) \/ Blocks(s, l) \/ Unblocks(s, l) \/ Aborts(s, l)
    BY <2>1, <2>4, Zenon DEF Notices, EndsEarly, Blocks, Unblocks, Aborts
  <2>5. CASE (\E t \in Tokens : Cancel(t)) \/ UNCHANGED vars
    BY <2>1, <2>5, Zenon DEF Cancel, vars
  <2> QED BY <2>2, <2>3, <2>4, <2>5, Zenon DEF Next
<1>3. ReportInv => ReportsFirst
  BY Zenon DEF ReportInv, ReturnsKept, ReportsFirst
<1> QED BY <1>1, <1>2, <1>3, RunInvariant, PTL DEF Spec
=============================================================================
