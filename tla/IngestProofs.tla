---------------------------- MODULE IngestProofs ----------------------------
(***************************************************************************)
(* Proofs about the ingester, for any number of partitions, consumers,     *)
(* records and faults.                                                     *)
(***************************************************************************)
EXTENDS Ingest, FiniteSetTheorems, TLAPS

\* The first place exists, so the initial hands are places.
LEMMA SomePlace == (CHOOSE x \in Places : TRUE) \in Places
  <1>1. PICK p \in Partitions : TRUE
    BY MaxOffsetAssumption, Zenon
  <1>2. <<p, 0>> \in Places
    BY MaxOffsetAssumption DEF Places, Offsets
  <1> QED BY <1>2, Zenon

\* The initial state is well typed.
LEMMA TypeInit == Init => TypeOK
  BY SomePlace, MaxOffsetAssumption, MaxFaultsAssumption, MaxRestartsAssumption
     DEF Init, TypeOK, Phases

\* A fault keeps the fault counter within its bound.
LEMMA FaultCounted ==
    ASSUME NEW kind, faults \in 0 .. MaxFaults, Fault(kind)
    PROVE  faults' \in 0 .. MaxFaults
  BY MaxFaultsAssumption DEF Fault

\* Every step of the group and of an ingester keeps the types.
LEMMA TypeStep == TypeOK /\ [Next]_vars => TypeOK'
  <1> SUFFICES ASSUME TypeOK, [Next]_vars PROVE TypeOK'
    BY Zenon
  <1>1. ASSUME NEW p \in Partitions, NEW c \in Consumers, Assign(p, c) PROVE TypeOK'
    BY <1>1, Zenon DEF TypeOK, Assign
  <1>2. ASSUME NEW p \in Partitions, Revoke(p) PROVE TypeOK'
    BY <1>2, FaultCounted, Zenon DEF TypeOK, Revoke
  <1>3. ASSUME NEW c \in Consumers, Recv(c) PROVE TypeOK'
    <2>1. PICK p \in Partitions : /\ pos[c][p] < MaxOffset
                                  /\ hand' = [hand EXCEPT ![c] = <<p, pos[c][p]>>]
                                  /\ pos' = [pos EXCEPT ![c][p] = @ + 1]
      BY <1>3, Zenon DEF Recv
    <2>2. pos[c][p] \in 0 .. MaxOffset /\ pos[c] \in [Partitions -> 0 .. MaxOffset]
      BY Zenon DEF TypeOK
    <2>3. <<p, pos[c][p]>> \in Places
      BY <2>1, <2>2, MaxOffsetAssumption DEF Places, Offsets
    <2>4. pos[c][p] + 1 \in 0 .. MaxOffset
      BY <2>1, <2>2, MaxOffsetAssumption
    <2>5. hand' \in [Consumers -> Places] /\ pos' \in [Consumers -> [Partitions -> 0 .. MaxOffset]]
      BY <2>1, <2>2, <2>3, <2>4, Zenon DEF TypeOK
    <2> QED BY <1>3, <2>5, Zenon DEF TypeOK, Recv, Phases
  <1>4. ASSUME NEW c \in Consumers, Write(c) PROVE TypeOK'
    <2>1. hand[c] \in Places /\ log[hand[c]] \in Records
      BY Zenon DEF TypeOK
    <2>2. Row(hand[c]) \in [at : Places, key : Keys, id : MessageIds]
      BY <2>1, Zenon DEF Row, Records
    <2>3. received' \subseteq [at : Places, key : Keys, id : MessageIds]
      BY <1>4, <2>2, Zenon DEF TypeOK, Write, Quarantine
    <2>4. quarantined' \subseteq Places
      BY <1>4, <2>1, Zenon DEF TypeOK, Write, Quarantine
    <2>5. skips' \in [Consumers -> Nat]
      BY <1>4 DEF TypeOK, Write, Quarantine
    <2>6. phase' \in [Consumers -> Phases] /\ owner' \in [Partitions -> Consumers \cup {Nobody}]
      BY <1>4, Zenon DEF TypeOK, Write, Quarantine, Phases, Freed
    <2> QED BY <1>4, <2>3, <2>4, <2>5, <2>6, Zenon DEF TypeOK, Write, Quarantine
  <1>5. ASSUME NEW c \in Consumers PROVE hand[c][1] \in Partitions /\ hand[c][2] + 1 \in 0 .. MaxOffset
    BY MaxOffsetAssumption DEF TypeOK, Places, Offsets
  <1>6. ASSUME NEW c \in Consumers, Ack(c) PROVE TypeOK'
    BY <1>5, <1>6, Zenon DEF TypeOK, Ack, Phases
  <1>7. ASSUME NEW c \in Consumers, AckFails(c) PROVE TypeOK'
    BY <1>5, <1>7, FaultCounted, Zenon DEF TypeOK, AckFails, Phases
  <1>8. ASSUME NEW c \in Consumers, DatabaseFails(c) PROVE TypeOK'
    <2>1. hand[c] \in Places
      BY Zenon DEF TypeOK
    <2> QED BY <1>8, <2>1, FaultCounted, Zenon DEF TypeOK, DatabaseFails, Phases
  <1>9. ASSUME NEW c \in Consumers, Unwritable(c) PROVE TypeOK'
    <2>1. hand[c] \in Places
      BY Zenon DEF TypeOK
    <2> QED BY <1>9, <2>1, Zenon DEF TypeOK, Unwritable, Phases
  <1>10. ASSUME NEW c \in Consumers, Crash(c) PROVE TypeOK'
    BY <1>10, FaultCounted, Zenon DEF TypeOK, Crash, Phases, Freed
  <1>11. ASSUME NEW c \in Consumers, Restart(c) PROVE TypeOK'
    BY <1>11, MaxRestartsAssumption DEF TypeOK, Restart, Phases
  <1>12. CASE UNCHANGED vars
    BY <1>12, Zenon DEF TypeOK, vars
  <1> QED BY <1>1, <1>2, <1>3, <1>4, <1>6, <1>7, <1>8, <1>9, <1>10, <1>11, <1>12, Zenon
          DEF Next, Cycle

\* The ingester's state is well typed.
THEOREM TypeCorrect == Spec => []TypeOK
  BY TypeInit, TypeStep, PTL DEF Spec

-----------------------------------------------------------------------------
(* A record is stored or quarantined, never both *)

\* What the two tables hold: a row is a good record's, and a record that is
\* quarantined although it decodes has its message id taken by a stored row.
TablesInv ==
    /\ \A row \in received : row = Row(row.at) /\ log[row.at].class = "good"
    /\ \A x \in quarantined :
          \/ log[x].class = "poison"
          \/ \E row \in received : row.id = log[x].id
    /\ StoredOrQuarantined

\* Only Write touches the tables.
LEMMA TablesFrame ==
    ASSUME TablesInv, UNCHANGED <<log, received, quarantined>>
    PROVE  TablesInv'
  BY Zenon DEF TablesInv, StoredOrQuarantined, Row

\* store and quarantine keep the tables apart: a stored record meets its own
\* idempotency key before its message id, and a quarantined one meets the row
\* that conflicted with it again.
LEMMA TablesWrite ==
    ASSUME TypeOK, TablesInv, NEW c \in Consumers, Write(c)
    PROVE  TablesInv'
  <1> DEFINE x == hand[c]
  <1>1. log' = log /\ x \in Places
    BY Zenon DEF Write, Quarantine, TypeOK
  <1>2. CASE Refused(x)
    <2>1. quarantined' = quarantined \cup {x} /\ received' = received
      BY <1>2, Zenon DEF Write, Quarantine
    <2>2. \A row \in received : row.at # x
      BY <1>2 DEF TablesInv, Refused, InsertOutcome, Row
    <2>3. log[x].class = "poison" \/ \E row \in received : row.id = log[x].id
      BY <1>2, Zenon DEF Refused, InsertOutcome
    <2> QED BY <1>1, <2>1, <2>2, <2>3, Zenon DEF TablesInv, StoredOrQuarantined, Row
  <1>3. CASE ~Refused(x) /\ InsertOutcome(x) = "Inserted" /\ log[x].class = "good"
    <2>1. quarantined' = quarantined /\ received' = received \cup {Row(x)}
      BY <1>3, Zenon DEF Write, Quarantine
    <2>2. x \notin quarantined
      BY <1>3, Zenon DEF TablesInv, InsertOutcome
    <2>3. Row(x).at = x
      BY Zenon DEF Row
    <2>4. StoredOrQuarantined'
      BY <2>1, <2>2, <2>3, Zenon DEF TablesInv, StoredOrQuarantined
    <2>5. \A row \in received' : row = Row(row.at) /\ log[row.at].class = "good"
      BY <1>3, <2>1, <2>3, Zenon DEF TablesInv
    <2> QED BY <1>1, <2>1, <2>4, <2>5, Zenon DEF TablesInv, Row
  <1>4. CASE ~Refused(x) /\ ~(InsertOutcome(x) = "Inserted" /\ log[x].class = "good")
    <2>1. log[x].class # "good" => FALSE
      BY <1>1, <1>4, ClassesAssumption, Zenon DEF Refused, Write, Quarantine, TypeOK, Records
    <2> QED BY <1>4, <2>1, <1>1, TablesFrame, Zenon DEF Write, Quarantine
  <1> QED BY <1>2, <1>3, <1>4, Zenon

\* The tables stay apart through every step.
LEMMA TablesStep == TypeOK /\ TablesInv /\ [Next]_vars => TablesInv'
  <1> SUFFICES ASSUME TypeOK, TablesInv, [Next]_vars PROVE TablesInv'
    BY Zenon
  <1>1. CASE \E c \in Consumers : Write(c)
    BY <1>1, TablesWrite, Zenon
  <1>2. CASE ~ \E c \in Consumers : Write(c)
    <2>1. UNCHANGED <<log, received, quarantined>>
      BY <1>2, Zenon DEF Next, Cycle, Assign, Revoke, Recv, Ack, AckFails, DatabaseFails,
                  Unwritable, Crash, Restart, vars
    <2> QED BY <2>1, TablesFrame, Zenon
  <1> QED BY <1>1, <1>2, Zenon

\* No record is both stored and quarantined, whatever is redelivered, whichever
\* ingester writes it and whatever fails.
THEOREM StoredXorQuarantined == Spec => []StoredOrQuarantined
  <1>1. Init => TablesInv
    BY Zenon DEF Init, TablesInv, StoredOrQuarantined
  <1>2. TablesInv => StoredOrQuarantined
    BY Zenon DEF TablesInv
  <1> QED BY <1>1, <1>2, TypeCorrect, TablesStep, PTL DEF Spec

-----------------------------------------------------------------------------
(* No record is skipped *)

\* The inductive invariant.  Everything below the committed offset is accounted
\* for; so is everything an owner's position has passed, but for the record it
\* holds; so is everything below a held record, owner or not; and a record being
\* acknowledged is durable.
ProgressInv ==
    /\ NoneSkipped
    /\ \A c \in Consumers, p \in Partitions : owner[p] = c =>
          \A o \in Offsets : o < pos[c][p] =>
              Accounted(<<p, o>>) \/ (phase[c] = "held" /\ hand[c] = <<p, o>>)
    /\ \A c \in Consumers : phase[c] \in {"held", "acking"} =>
          \A o \in Offsets : o < hand[c][2] => Accounted(<<hand[c][1], o>>)
    /\ \A c \in Consumers : phase[c] = "acking" => Accounted(hand[c])
    /\ FirstCopyKept

\* The tables only grow, so what is accounted for stays so.
LEMMA AccountedStays ==
    ASSUME [Next]_vars, NEW x, Accounted(x)
    PROVE  Accounted(x)'
  <1>1. /\ log' = log /\ received \subseteq received'
        /\ quarantined \subseteq quarantined' /\ failed \subseteq failed'
    BY Zenon DEF Next, Cycle, Assign, Revoke, Recv, Write, Quarantine, Ack, AckFails, DatabaseFails,
           Unwritable, Crash, Restart, vars
  <1> QED BY <1>1, Zenon DEF Accounted, Durable

\* Nothing is accounted for anew, and nothing new is stored, except by Write.
LEMMA FirstCopyFrame ==
    ASSUME FirstCopyKept, UNCHANGED <<log, received, quarantined>>, failed \subseteq failed'
    PROVE  FirstCopyKept'
  BY Zenon DEF FirstCopyKept

\* Committing the record in hand, durable like all below it, skips nothing.
LEMMA CommitSkipsNothing ==
    ASSUME TypeOK, ProgressInv, [Next]_vars, NEW c \in Consumers, phase[c] = "acking",
           \/ committed' = committed
           \/ committed' = [committed EXCEPT ![hand[c][1]] = hand[c][2] + 1]
    PROVE  NoneSkipped'
  <1>1. CASE committed' = committed
    BY <1>1, AccountedStays, Zenon DEF ProgressInv, NoneSkipped
  <1>2. CASE committed' = [committed EXCEPT ![hand[c][1]] = hand[c][2] + 1]
    <2> SUFFICES ASSUME NEW p \in Partitions, NEW o \in Offsets, o < committed'[p]
                 PROVE  Accounted(<<p, o>>)
      BY AccountedStays, Zenon DEF NoneSkipped
    <2>1. hand[c] \in Places /\ hand[c] = <<hand[c][1], hand[c][2]>> /\ hand[c][2] \in Offsets
      BY DEF TypeOK, Places
    <2>2. CASE p # hand[c][1]
      BY <1>2, <2>2, Zenon DEF ProgressInv, NoneSkipped, TypeOK
    <2>3. CASE p = hand[c][1]
      <3>0. committed'[p] = hand[c][2] + 1
        BY <1>2, <2>3, Zenon DEF TypeOK
      <3>1. o < hand[c][2] \/ o = hand[c][2]
        BY <3>0, <2>1, MaxOffsetAssumption DEF Offsets
      <3> QED BY <2>1, <2>3, <3>1 DEF ProgressInv
    <2> QED BY <2>2, <2>3, Zenon
  <1> QED BY <1>1, <1>2, Zenon

\* A record that is written is accounted for: stored, a duplicate or quarantined.
LEMMA WriteAccounts ==
    ASSUME TypeOK, NEW c \in Consumers, Write(c)
    PROVE  Accounted(hand[c])'
  <1> DEFINE x == hand[c]
  <1>1. x \in Places /\ log[x] \in Records /\ log' = log /\ hand' = hand
    BY Zenon DEF TypeOK, Write, Quarantine
  <1>2. CASE Refused(x)
    BY <1>1, <1>2, Zenon DEF Write, Quarantine, Accounted, Durable
  <1>3. CASE ~Refused(x)
    <2>1. log[x].class = "good"
      BY <1>1, <1>3, ClassesAssumption, Zenon DEF Refused, Write, Quarantine, Records
    <2>2. CASE InsertOutcome(x) = "Inserted"
      <3>1. Row(x) \in received' /\ Row(x).key = log[x].key
        BY <1>3, <2>2, Zenon DEF Write, Quarantine, Row
      <3> QED BY <1>1, <2>1, <3>1, Zenon DEF Accounted, Durable
    <2>3. CASE InsertOutcome(x) # "Inserted"
      <3>1. \E row \in received : row.key = log[x].key
        BY <1>3, <2>1, <2>3, Zenon DEF InsertOutcome, Refused
      <3>2. received' = received
        BY <2>3, Zenon DEF Write, Quarantine
      <3> QED BY <1>1, <2>1, <3>1, <3>2, Zenon DEF Accounted, Durable
    <2> QED BY <2>2, <2>3, Zenon
  <1> QED BY <1>2, <1>3, Zenon

\* A row is stored only when no copy below it is accounted for by another row.
LEMMA WriteKeepsFirstCopy ==
    ASSUME TypeOK, ProgressInv, NEW c \in Consumers, Write(c)
    PROVE  FirstCopyKept'
  <1> DEFINE x == hand[c]
  <1>1. /\ log' = log /\ quarantined \subseteq quarantined' /\ failed' = failed
        /\ \A row \in received' : row \in received
              \/ (row = Row(x) /\ ~ \E r \in received : r.key = log[x].key)
    BY Zenon DEF Write, Quarantine, InsertOutcome
  <1>2. \A o \in Offsets : o < x[2] => Accounted(<<x[1], o>>)
    BY Zenon DEF ProgressInv, Write, Quarantine
  <1> SUFFICES ASSUME NEW row \in received', NEW o \in Offsets, o < row.at[2],
                      log[<<row.at[1], o>>].class = "good",
                      log[<<row.at[1], o>>].key = row.key
               PROVE  <<row.at[1], o>> \in quarantined \cup failed
    BY <1>1, Zenon DEF FirstCopyKept
  <1>3. CASE row \in received
    BY <1>3, Zenon DEF ProgressInv, FirstCopyKept
  <1>4. CASE row = Row(x) /\ ~ \E r \in received : r.key = log[x].key
    <2>1. row.at = x /\ row.key = log[x].key
      BY <1>4, Zenon DEF Row
    <2> QED BY <1>2, <1>4, <2>1, Zenon DEF Accounted, Durable
  <1> QED BY <1>1, <1>3, <1>4, Zenon

\* The step of each action keeps the invariant.
LEMMA ProgressStep ==
    ASSUME TypeOK, TypeOK', ProgressInv, [Next]_vars
    PROVE  ProgressInv'
  <1> DEFINE Passed(c, p) == owner[p] = c =>
                 \A o \in Offsets : o < pos[c][p] =>
                     Accounted(<<p, o>>) \/ (phase[c] = "held" /\ hand[c] = <<p, o>>)
             Below(c) == phase[c] \in {"held", "acking"} =>
                 \A o \in Offsets : o < hand[c][2] => Accounted(<<hand[c][1], o>>)
             Durably(c) == phase[c] = "acking" => Accounted(hand[c])
  <1>0. ASSUME NEW d \in Consumers
        PROVE  (\A p \in Partitions : Passed(d, p)) /\ Below(d) /\ Durably(d)
    BY Zenon DEF ProgressInv
  <1>a. ASSUME NoneSkipped', FirstCopyKept',
               \A d \in Consumers : (\A p \in Partitions : Passed(d, p)') /\ Below(d)' /\ Durably(d)'
        PROVE  ProgressInv'
    BY <1>a, Zenon DEF ProgressInv
  <1>b. ASSUME UNCHANGED committed PROVE NoneSkipped'
    BY <1>b, AccountedStays, Zenon DEF ProgressInv, NoneSkipped
  <1>c. ASSUME UNCHANGED <<log, received, quarantined>>, failed \subseteq failed'
        PROVE  FirstCopyKept'
    BY <1>c, FirstCopyFrame, Zenon DEF ProgressInv
  \* An ingester whose own state does not change keeps its part.
  <1>d. ASSUME NEW d \in Consumers, phase'[d] = phase[d], hand'[d] = hand[d]
        PROVE  Below(d)' /\ Durably(d)'
    BY <1>0, <1>d, AccountedStays, Zenon
  <1>e. ASSUME NEW d \in Consumers, NEW p \in Partitions, phase'[d] = phase[d],
               hand'[d] = hand[d], owner'[p] = d => owner[p] = d, pos'[d][p] = pos[d][p]
        PROVE  Passed(d, p)'
    BY <1>0, <1>e, AccountedStays, Zenon
  \* An ingester that drops its record while it holds none keeps its positions.
  <1>f. ASSUME NEW d \in Consumers, NEW p \in Partitions, phase[d] # "held",
               owner'[p] = d => owner[p] = d, pos'[d][p] = pos[d][p]
        PROVE  Passed(d, p)'
    BY <1>0, <1>f, AccountedStays, Zenon
  <1>1. ASSUME NEW q \in Partitions, NEW c \in Consumers, Assign(q, c) PROVE ProgressInv'
    <2>1. UNCHANGED <<log, committed, phase, hand, received, quarantined, failed>>
      BY <1>1, Zenon DEF Assign
    <2>2. ASSUME NEW d \in Consumers, NEW p \in Partitions PROVE Passed(d, p)'
      <3>1. CASE p = q /\ d = c
        <4>1. pos'[d][p] = committed[p]
          BY <1>1, <3>1, Zenon DEF Assign, TypeOK
        <4> QED BY <4>1, AccountedStays, Zenon DEF ProgressInv, NoneSkipped
      <3>2. CASE ~(p = q /\ d = c)
        <4>1. (owner'[p] = d => owner[p] = d) /\ pos'[d][p] = pos[d][p]
          BY <1>1, <3>2, Zenon DEF Assign, TypeOK
        <4> QED BY <2>1, <4>1, <1>e, Zenon
      <3> QED BY <3>1, <3>2, Zenon
    <2> QED BY <2>1, <2>2, <1>a, <1>b, <1>c, <1>d, Zenon
  <1>2. ASSUME NEW q \in Partitions, Revoke(q) PROVE ProgressInv'
    <2>1. UNCHANGED <<log, committed, phase, hand, received, quarantined, failed, pos>>
      BY <1>2, Zenon DEF Revoke
    <2>2. ASSUME NEW d \in Consumers, NEW p \in Partitions PROVE owner'[p] = d => owner[p] = d
      BY <1>2, NobodyAssumption, Zenon DEF Revoke, TypeOK
    <2> QED BY <2>1, <2>2, <1>a, <1>b, <1>c, <1>d, <1>e, Zenon
  <1>3. ASSUME NEW c \in Consumers, Recv(c) PROVE ProgressInv'
    <2>1. UNCHANGED <<log, committed, owner, received, quarantined, failed>> /\ phase[c] = "idle"
      BY <1>3, Zenon DEF Recv
    <2>2. PICK q \in Partitions : /\ owner[q] = c
                                  /\ hand' = [hand EXCEPT ![c] = <<q, pos[c][q]>>]
                                  /\ pos' = [pos EXCEPT ![c][q] = @ + 1]
      BY <1>3, Zenon DEF Recv
    <2>3. phase'[c] = "held" /\ hand'[c] = <<q, pos[c][q]>>
      BY <1>3, <2>2, Zenon DEF Recv, TypeOK
    <2>4. ASSUME NEW o \in Offsets, o < pos[c][q] PROVE Accounted(<<q, o>>)'
      BY <1>0, <2>1, <2>2, <2>4, AccountedStays, Zenon
    <2>5. Below(c)' /\ Durably(c)'
      BY <2>3, <2>4
    <2>6. ASSUME NEW d \in Consumers, d # c
          PROVE  phase'[d] = phase[d] /\ hand'[d] = hand[d] /\ pos'[d] = pos[d]
      BY <1>3, <2>2, <2>6, Zenon DEF Recv, TypeOK
    <2>7. Passed(c, q)'
      <3>1. pos'[c][q] = pos[c][q] + 1 /\ pos[c][q] \in Int
        BY <2>2 DEF TypeOK
      <3>2. \A o \in Offsets : o < pos'[c][q] => o < pos[c][q] \/ o = pos[c][q]
        BY <3>1 DEF Offsets
      <3> QED BY <2>3, <2>4, <3>2, Zenon
    <2>8. ASSUME NEW p \in Partitions, p # q PROVE Passed(c, p)'
      <3>1. pos'[c][p] = pos[c][p]
        BY <2>2, <2>8 DEF TypeOK
      <3> QED BY <2>1, <3>1, <1>f, Zenon
    <2>9. ASSUME NEW d \in Consumers, NEW p \in Partitions PROVE Passed(d, p)'
      BY <2>1, <2>6, <2>7, <2>8, <1>e
    <2> QED BY <2>1, <2>5, <2>6, <2>9, <1>a, <1>b, <1>c, <1>d, Zenon
  <1>4. ASSUME NEW c \in Consumers, Write(c) PROVE ProgressInv'
    <2>1. UNCHANGED <<log, committed, hand, pos>> /\ phase[c] = "held"
          /\ phase'[c] # "held"
      BY <1>4, Zenon DEF Write, Quarantine, TypeOK
    <2>2. Accounted(hand[c])'
      BY <1>4, WriteAccounts, Zenon
    <2>3. ASSUME NEW d \in Consumers, NEW p \in Partitions PROVE owner'[p] = d => owner[p] = d
      BY <1>4, NobodyAssumption, Zenon DEF Write, Quarantine, Freed, TypeOK
    <2>4. ASSUME NEW d \in Consumers, d # c PROVE phase'[d] = phase[d]
      BY <1>4, <2>4, Zenon DEF Write, Quarantine, TypeOK
    <2>5. Below(c)' /\ Durably(c)'
      BY <2>1, <2>2, <1>0, AccountedStays, Zenon
    <2>6. ASSUME NEW p \in Partitions PROVE Passed(c, p)'
      BY <2>1, <2>2, <2>3, <1>0, AccountedStays
    <2>7. FirstCopyKept'
      BY <1>4, WriteKeepsFirstCopy, Zenon
    <2> QED BY <2>1, <2>3, <2>4, <2>5, <2>6, <2>7, <1>a, <1>b, <1>d, <1>e, Zenon
  <1>5. ASSUME NEW c \in Consumers, Ack(c) \/ AckFails(c) PROVE ProgressInv'
    <2>1. UNCHANGED <<log, owner, received, quarantined, failed, hand, pos>>
          /\ phase[c] = "acking" /\ phase' = [phase EXCEPT ![c] = "idle"]
      BY <1>5, Zenon DEF Ack, AckFails
    <2>2. NoneSkipped'
      BY <1>5, <2>1, CommitSkipsNothing, Zenon DEF Ack, AckFails
    <2>3. phase'[c] = "idle" /\ \A d \in Consumers : d # c => phase'[d] = phase[d]
      BY <2>1, Zenon DEF TypeOK
    <2>4. Below(c)' /\ Durably(c)' /\ \A p \in Partitions : Passed(c, p)'
      BY <2>1, <2>3, <1>f, Zenon
    <2> QED BY <2>1, <2>2, <2>3, <2>4, <1>a, <1>c, <1>d, <1>e, Zenon
  <1>6. ASSUME NEW c \in Consumers, DatabaseFails(c) \/ Unwritable(c) PROVE ProgressInv'
    <2>1. UNCHANGED <<log, committed, owner, received, quarantined, hand, pos>>
          /\ failed' = failed \cup {hand[c]} /\ phase' = [phase EXCEPT ![c] = "idle"]
      BY <1>6, Zenon DEF DatabaseFails, Unwritable
    <2>2. phase'[c] = "idle" /\ \A d \in Consumers : d # c => phase'[d] = phase[d]
      BY <2>1, Zenon DEF TypeOK
    <2>3. Accounted(hand[c])'
      BY <2>1, Zenon DEF Accounted
    <2>4. Below(c)' /\ Durably(c)'
      BY <2>2, Zenon
    <2>5. ASSUME NEW p \in Partitions PROVE Passed(c, p)'
      BY <2>1, <2>3, <1>0, AccountedStays, Zenon
    <2> QED BY <2>1, <2>2, <2>4, <2>5, <1>a, <1>b, <1>c, <1>d, <1>e, Zenon
  <1>7. ASSUME NEW c \in Consumers, Crash(c) \/ Restart(c) PROVE ProgressInv'
    <2>1. UNCHANGED <<log, committed, received, quarantined, failed, hand, pos>>
          /\ phase'[c] \in {"down", "idle"}
          /\ \A d \in Consumers : d # c => phase'[d] = phase[d]
      BY <1>7, Zenon DEF Crash, Restart, TypeOK
    <2>2. ASSUME NEW d \in Consumers, NEW p \in Partitions PROVE owner'[p] = d => owner[p] = d
      BY <1>7, NobodyAssumption, Zenon DEF Crash, Restart, Freed, TypeOK
    <2>3. Below(c)' /\ Durably(c)'
      BY <2>1, Zenon
    <2>4. ASSUME NEW p \in Partitions PROVE Passed(c, p)'
      <3>1. CASE Crash(c)
        BY <3>1, NobodyAssumption, Zenon DEF Crash, Freed, TypeOK
      <3>2. CASE Restart(c)
        <4>1. phase[c] # "held"
          BY <3>2, Zenon DEF Restart
        <4> QED BY <2>1, <2>2, <4>1, <1>f, Zenon
      <3> QED BY <1>7, <3>1, <3>2, Zenon
    <2> QED BY <2>1, <2>2, <2>3, <2>4, <1>a, <1>b, <1>c, <1>d, <1>e, Zenon
  <1>8. CASE UNCHANGED vars
    BY <1>8, <1>a, <1>b, <1>c, <1>d, <1>e, Zenon DEF vars
  <1> QED BY <1>1, <1>2, <1>3, <1>4, <1>5, <1>6, <1>7, <1>8, Zenon DEF Next, Cycle

\* The invariant holds from the start.
LEMMA ProgressInit == Init => ProgressInv
  BY NobodyAssumption DEF Init, ProgressInv, NoneSkipped, FirstCopyKept, Offsets

\* Unless the database failed on it, no record is ever lost to a committed
\* offset: not by a crash, a rebalance, a refused commit, a tripped breaker or a
\* member that commits for a partition it has lost.
THEOREM NoRecordSkipped == Spec => []NoneSkipped
  <1>1. TypeOK /\ TypeOK' /\ ProgressInv /\ [Next]_vars => ProgressInv'
    BY ProgressStep, Zenon
  <1>2. ProgressInv => NoneSkipped
    BY Zenon DEF ProgressInv
  <1> QED BY <1>1, <1>2, ProgressInit, TypeCorrect, PTL DEF Spec

\* The stored copy of a message is its first, unless the first was refused or
\* the database failed on it.
THEOREM FirstCopyStored == Spec => []FirstCopyKept
  <1>1. TypeOK /\ TypeOK' /\ ProgressInv /\ [Next]_vars => ProgressInv'
    BY ProgressStep, Zenon
  <1>2. ProgressInv => FirstCopyKept
    BY Zenon DEF ProgressInv
  <1> QED BY <1>1, <1>2, ProgressInit, TypeCorrect, PTL DEF Spec

-----------------------------------------------------------------------------
(* The breaker bounds what a schema break can skip *)

\* Only partition p has good records, the case SkipsBounded is about.
GoodOnlyIn(p) == \A x \in Places : log[x].class = "good" => x[1] = p

\* Poison records passed below offset n of a partition.
Skipped(p, n) == Cardinality(PoisonRun(p, n))

\* What n handovers make room for.
Room(n) == n * (SkipLimit - 1)

\* An ingester that has lost the partition of its record owes a handover.
Lost(c, p) == IF owner[p] = c THEN 0 ELSE SkipLimit - 1

\* Where an owner's position may stand: within the room of past handovers and
\* its own count, the record in its hand left out; a record still held from
\* before the partition came back is worth nothing.
PositionRoom(p, c) ==
    \/ phase[c] # "held" /\ Skipped(p, pos[c][p]) <= Room(Handovers) + skips[c]
    \/ phase[c] = "held" /\ Skipped(p, pos[c][p]) <= Room(Handovers)
    \/ /\ phase[c] = "held" /\ hand[c][1] # p
       /\ Skipped(p, pos[c][p]) <= Room(Handovers) + skips[c]
    \/ phase[c] = "held" /\ hand[c][1] = p /\ pos[c][p] = hand[c][2] + 1

\* What an ingester has in hand, and the record below which it stands.
HandRoom(p, c) ==
    phase[c] \in {"held", "acking"} /\ hand[c][1] = p =>
        /\ Skipped(p, IF phase[c] = "held" THEN hand[c][2] ELSE hand[c][2] + 1)
              + Lost(c, p) <= Room(Handovers) + skips[c]
        /\ owner[p] # c => Handovers > 0

\* The offset stands within the room of the handovers, and its present owner's.
OffsetRoom(p) ==
    Skipped(p, committed[p])
        <= Room(IF owner[p] = Nobody THEN Handovers ELSE Handovers + 1)

\* A running ingester has room for its next skip; a stopped one owns nothing.
Counting ==
    /\ \A c \in Consumers : phase[c] # "down" => skips[c] < SkipLimit
    /\ \A c \in Consumers, p \in Partitions : phase[c] = "down" => owner[p] # c

RoomIn(p) == /\ OffsetRoom(p)
             /\ \A c \in Consumers : HandRoom(p, c) /\ (owner[p] = c => PositionRoom(p, c))

SkipInv == Counting /\ \A p \in Partitions : GoodOnlyIn(p) => RoomIn(p)

\* A run of poison records is finite.
LEMMA RunFinite ==
    ASSUME NEW p, NEW n
    PROVE  IsFiniteSet(PoisonRun(p, n)) /\ Skipped(p, n) \in Nat
  <1>1. IsFiniteSet(Offsets)
    BY FS_Interval, MaxOffsetAssumption DEF Offsets
  <1>2. PoisonRun(p, n) \in SUBSET Offsets
    BY Zenon DEF PoisonRun
  <1>3. IsFiniteSet(PoisonRun(p, n))
    BY <1>1, <1>2, FS_Subset, Zenon
  <1> QED BY <1>3, FS_CardinalityType, Zenon DEF Skipped

\* The run starts anew after any other record.
LEMMA RunBroken ==
    ASSUME NEW p, NEW n \in Offsets, log[<<p, n>>].class # "poison"
    PROVE  Skipped(p, n + 1) = 0
  <1>1. \A o \in Offsets : o < n + 1 => n \in o .. (n + 1) - 1
    BY MaxOffsetAssumption DEF Offsets
  <1>2. PoisonRun(p, n + 1) = {}
    BY <1>1, Zenon DEF PoisonRun
  <1> QED BY <1>2, FS_EmptySet, Zenon DEF Skipped

\* One more record makes the run at most one longer, and no longer at all if a
\* database error was reported for it.
LEMMA RunNext ==
    ASSUME NEW p, NEW n \in Offsets
    PROVE  /\ Skipped(p, n + 1) <= Skipped(p, n) + 1
           /\ <<p, n>> \in failed => Skipped(p, n + 1) <= Skipped(p, n)
  <1>1. \A o \in Offsets : o < n + 1 => o = n \/ (o < n /\ o .. n - 1 \subseteq o .. (n + 1) - 1)
    BY MaxOffsetAssumption DEF Offsets
  <1>2. \A o \in PoisonRun(p, n + 1) : o \in PoisonRun(p, n) \/ (o = n /\ <<p, n>> \notin failed)
    BY <1>1, Zenon DEF PoisonRun
  <1>3. /\ IsFiniteSet(PoisonRun(p, n)) /\ Skipped(p, n) \in Nat
        /\ IsFiniteSet(PoisonRun(p, n + 1)) /\ Skipped(p, n + 1) \in Nat
    BY RunFinite, Zenon
  <1>4. ASSUME <<p, n>> \in failed PROVE Skipped(p, n + 1) <= Skipped(p, n)
    <2>1. PoisonRun(p, n + 1) \in SUBSET PoisonRun(p, n)
      BY <1>2, <1>4, Zenon
    <2> QED BY <2>1, <1>3, FS_Subset, Zenon DEF Skipped
  <1>5. Skipped(p, n + 1) <= Skipped(p, n) + 1
    <2>1. PoisonRun(p, n + 1) \in SUBSET (PoisonRun(p, n) \cup {n})
      BY <1>2, Zenon
    <2>2. /\ IsFiniteSet(PoisonRun(p, n) \cup {n})
          /\ \/ Cardinality(PoisonRun(p, n) \cup {n}) = Skipped(p, n)
             \/ Cardinality(PoisonRun(p, n) \cup {n}) = Skipped(p, n) + 1
      BY <1>3, FS_AddElement, Zenon DEF Skipped
    <2>3. Skipped(p, n + 1) <= Cardinality(PoisonRun(p, n) \cup {n})
      BY <2>1, <2>2, FS_Subset, Zenon DEF Skipped
    <2> QED BY <2>2, <2>3, <1>3
  <1> QED BY <1>4, <1>5, Zenon

\* No step makes a run longer: the topic stays, and errors are only added.
LEMMA RunShrinks ==
    ASSUME log' = log, failed \subseteq failed', NEW p, NEW n
    PROVE  Skipped(p, n)' <= Skipped(p, n) /\ Skipped(p, n)' \in Nat
  <1>1. PoisonRun(p, n)' \in SUBSET PoisonRun(p, n)
    BY Zenon DEF PoisonRun
  <1>2. IsFiniteSet(PoisonRun(p, n))
    BY RunFinite, Zenon
  <1>3. IsFiniteSet(PoisonRun(p, n)') /\ Cardinality(PoisonRun(p, n)') <= Cardinality(PoisonRun(p, n))
    BY <1>1, <1>2, FS_Subset, Zenon
  <1> QED BY <1>3, FS_CardinalityType, Zenon DEF Skipped

\* Each handover makes room for SkipLimit - 1 more.
LEMMA RoomGrows ==
    ASSUME NEW n \in Nat
    PROVE  /\ Room(n) \in Nat /\ Room(n + 1) = Room(n) + (SkipLimit - 1)
           /\ Room(n + 2) = Room(n) + 2 * (SkipLimit - 1)
           /\ SkipLimit - 1 \in Nat /\ n > 0 => SkipLimit - 1 <= Room(n)
  <1> DEFINE k == SkipLimit - 1
  <1>0. k \in Nat
    BY SkipLimitAssumption
  <1>1. \A i, j \in Nat : i * j \in Nat /\ (i + 1) * j = i * j + j /\ (i + 2) * j = i * j + 2 * j
    OBVIOUS
  <1>2. n > 0 => n - 1 \in Nat /\ n = (n - 1) + 1
    OBVIOUS
  <1>3. n > 0 => n * k = (n - 1) * k + k /\ (n - 1) * k \in Nat
    BY <1>0, <1>1, <1>2
  <1> HIDE DEF k
  <1>4. n > 0 => k <= n * k
    BY <1>3, <1>0
  <1>5. n * k \in Nat /\ (n + 1) * k = n * k + k /\ (n + 2) * k = n * k + 2 * k
    BY <1>0, <1>1, Zenon
  <1> QED BY <1>0, <1>4, <1>5, Zenon DEF Room, k

-----------------------------------------------------------------------------
\* The stopped ingesters are finitely many.
LEMMA HandoversType == TypeOK => Handovers \in Nat /\ Stops \in Nat
  <1> SUFFICES ASSUME TypeOK PROVE Handovers \in Nat /\ Stops \in Nat
    BY Zenon
  <1>1. {c \in Consumers : phase[c] = "down"} \in SUBSET Consumers
    BY Zenon
  <1>2. Cardinality({c \in Consumers : phase[c] = "down"}) \in Nat
    BY <1>1, ConsumersAssumption, FS_Subset, FS_CardinalityType, Zenon
  <1>3. faults \in Nat /\ restarts \in Nat
    BY MaxFaultsAssumption, MaxRestartsAssumption DEF TypeOK
  <1> QED BY <1>2, <1>3 DEF Handovers, Stops

\* What a step of one ingester does to the number of handovers.
LEMMA HandoversStep ==
    ASSUME TypeOK, TypeOK', NEW c \in Consumers,
           \A d \in Consumers : d # c => phase'[d] = phase[d]
    PROVE  /\ phase[c] # "down" /\ phase'[c] # "down" /\ restarts' = restarts
                 => Handovers' = Handovers + (faults' - faults)
           /\ phase[c] # "down" /\ phase'[c] = "down" /\ restarts' = restarts
                 => Handovers' = Handovers + (faults' - faults) + 1
           /\ phase[c] = "down" /\ phase'[c] # "down" /\ restarts' = restarts + 1
                 => Handovers' = Handovers + (faults' - faults)
  <1> DEFINE D == {d \in Consumers : phase[d] = "down"}
             E == {d \in Consumers : phase'[d] = "down"}
  <1>0. D \in SUBSET Consumers
    BY Zenon
  <1>1. IsFiniteSet(D) /\ Cardinality(D) \in Nat
    BY <1>0, ConsumersAssumption, FS_Subset, FS_CardinalityType, Zenon
  <1>2. /\ phase[c] # "down" /\ phase'[c] # "down" => E = D
        /\ phase[c] # "down" /\ phase'[c] = "down" => E = D \cup {c} /\ c \notin D
        /\ phase[c] = "down" /\ phase'[c] # "down" => E = D \ {c} /\ c \in D
    OBVIOUS
  <1>3. /\ phase[c] # "down" /\ phase'[c] # "down" => Cardinality(E) = Cardinality(D)
        /\ phase[c] # "down" /\ phase'[c] = "down" => Cardinality(E) = Cardinality(D) + 1
        /\ phase[c] = "down" /\ phase'[c] # "down" => Cardinality(E) = Cardinality(D) - 1
    <2> HIDE DEF D, E
    <2> QED BY <1>1, <1>2, FS_AddElement, FS_RemoveElement
  <1>4. faults \in Nat /\ restarts \in Nat /\ faults' \in Nat
    BY MaxFaultsAssumption, MaxRestartsAssumption DEF TypeOK
  <1>5. Handovers = faults + (restarts + Cardinality(D))
    BY Zenon DEF Handovers, Stops
  <1>6. Handovers' = faults' + (restarts' + Cardinality(E))
    BY Zenon DEF Handovers, Stops
  <1> HIDE DEF D, E
  <1> QED BY <1>1, <1>3, <1>4, <1>5, <1>6

\* The same after a step.
LEMMA HandoversTypeNext == TypeOK' => Handovers' \in Nat
  <1> DEFINE N == Handovers \in Nat
  <1>1. TypeOK => N
    BY HandoversType, Zenon
  <1>2. N' => Handovers' \in Nat
    BY Zenon
  <1> HIDE DEF N
  <1>3. TypeOK' => N'
    BY <1>1, PTL
  <1> QED BY <1>2, <1>3, Zenon

\* More handovers make more room.
LEMMA RoomMonotone ==
    ASSUME NEW m \in Nat, NEW n \in Nat, m <= n
    PROVE  /\ Room(m) \in Nat /\ Room(n) \in Nat /\ Room(m) <= Room(n)
           /\ m < n => Room(m) + (SkipLimit - 1) <= Room(n)
  <1> DEFINE k == SkipLimit - 1
             d == n - m
  <1>0. k \in Nat /\ d \in Nat /\ n = m + d /\ (m < n => d - 1 \in Nat /\ d = (d - 1) + 1)
    BY SkipLimitAssumption
  <1> HIDE DEF k, d
  <1>1. \A i, j \in Nat : i * j \in Nat
    OBVIOUS
  <1>2. \A i, j, l \in Nat : (i + j) * l = i * l + j * l
    OBVIOUS
  <1>3. n * k = m * k + d * k /\ m * k \in Nat /\ d * k \in Nat /\ n * k \in Nat
    BY <1>0, <1>1, <1>2
  <1>4. m < n => d * k = (d - 1) * k + 1 * k /\ (d - 1) * k \in Nat
    BY <1>0, <1>1, <1>2
  <1>5. 1 * k = k
    BY <1>0
  <1> QED BY <1>0, <1>3, <1>4, <1>5 DEF Room, k

\* A database error on the last record of a run takes that record out of it.
LEMMA RunFailed ==
    ASSUME NEW p, NEW n \in Offsets, log' = log, failed' = failed \cup {<<p, n>>}
    PROVE  Skipped(p, n + 1)' <= Skipped(p, n)
  <1>1. \A o \in Offsets : o < n + 1 => o = n \/ (o < n /\ o .. n - 1 \subseteq o .. (n + 1) - 1)
    BY MaxOffsetAssumption DEF Offsets
  <1>2. PoisonRun(p, n + 1)' \in SUBSET PoisonRun(p, n)
    BY <1>1, Zenon DEF PoisonRun
  <1>3. IsFiniteSet(PoisonRun(p, n))
    BY RunFinite, Zenon
  <1> QED BY <1>2, <1>3, FS_Subset, Zenon DEF Skipped

\* An ingester that takes no part in a step keeps its room, and a partition taken
\* from it is a handover.
LEMMA RoomOthers ==
    ASSUME TypeOK, TypeOK', NEW p \in Partitions, RoomIn(p), NEW d \in Consumers,
           log' = log, failed \subseteq failed',
           phase'[d] = phase[d], hand'[d] = hand[d], skips'[d] = skips[d],
           Handovers' >= Handovers,
           owner[p] = d /\ owner'[p] # d => Handovers' > Handovers
    PROVE  /\ HandRoom(p, d)'
           /\ owner[p] = d /\ pos'[d][p] = pos[d][p] => PositionRoom(p, d)'
  <1>h. Handovers \in Nat /\ Handovers' \in Nat
    BY HandoversType, HandoversTypeNext, Zenon
  <1>r. /\ Room(Handovers) \in Nat /\ Room(Handovers') \in Nat
        /\ Room(Handovers) <= Room(Handovers')
        /\ Handovers < Handovers' => Room(Handovers) + (SkipLimit - 1) <= Room(Handovers')
    BY <1>h, RoomMonotone, Zenon
  <1>s. \A n : Skipped(p, n)' <= Skipped(p, n) /\ Skipped(p, n)' \in Nat /\ Skipped(p, n) \in Nat
    BY RunShrinks, RunFinite, Zenon
  <1>k. SkipLimit - 1 \in Nat /\ skips[d] \in Nat
    BY SkipLimitAssumption DEF TypeOK
  <1>1. HandRoom(p, d)'
    <2>1. SUFFICES ASSUME phase[d] \in {"held", "acking"}, hand[d][1] = p
                   PROVE  HandRoom(p, d)'
      BY Zenon DEF HandRoom
    <2> DEFINE n == IF phase[d] = "held" THEN hand[d][2] ELSE hand[d][2] + 1
    <2>2. Skipped(p, n) + Lost(d, p) <= Room(Handovers) + skips[d]
          /\ (owner[p] # d => Handovers > 0)
      BY <2>1, Zenon DEF RoomIn, HandRoom
    <2>3. \/ Lost(d, p)' <= Lost(d, p)
          \/ Lost(d, p)' <= Lost(d, p) + (SkipLimit - 1) /\ Handovers' > Handovers
      BY <1>k DEF Lost
    <2>4. Lost(d, p) \in Nat /\ Lost(d, p)' \in Nat
      BY <1>k, Zenon DEF Lost
    <2>5. PICK m : m = n
      BY Zenon
    <2>6. Skipped(p, m)' <= Skipped(p, m) /\ Skipped(p, m)' \in Nat /\ Skipped(p, m) \in Nat
      BY <1>s, Zenon
    <2>7. Skipped(p, m)' + Lost(d, p)' <= Room(Handovers') + skips[d]
      BY <2>2, <2>3, <2>4, <2>5, <2>6, <1>r, <1>k, <1>h
    <2>8. owner'[p] # d => Handovers' > 0
      BY <2>2, <1>h
    <2>9. Room(Handovers)' = Room(Handovers')
      BY Zenon DEF Room
    <2> QED BY <2>5, <2>7, <2>8, <2>9, Zenon DEF HandRoom
  <1>2. ASSUME owner[p] = d, pos'[d][p] = pos[d][p] PROVE PositionRoom(p, d)'
    <2>1. PositionRoom(p, d)
      BY <1>2, Zenon DEF RoomIn
    <2>2. Room(Handovers)' = Room(Handovers')
      BY Zenon DEF Room
    <2>3. PICK m : m = pos[d][p]
      BY Zenon
    <2>4. Skipped(p, m)' <= Skipped(p, m) /\ Skipped(p, m)' \in Nat /\ Skipped(p, m) \in Nat
      BY <1>s, Zenon
    <2> QED BY <2>1, <2>2, <2>3, <2>4, <1>2, <1>r, <1>k DEF PositionRoom
  <1> QED BY <1>1, <1>2, Zenon

\* An offset no step moves keeps its room; a partition left without an owner is
\* a handover.
LEMMA RoomOffset ==
    ASSUME TypeOK, TypeOK', NEW p \in Partitions, RoomIn(p),
           log' = log, failed \subseteq failed', committed'[p] = committed[p],
           Handovers' >= Handovers,
           owner[p] # Nobody /\ owner'[p] = Nobody => Handovers' > Handovers
    PROVE  OffsetRoom(p)'
  <1>h. Handovers \in Nat /\ Handovers' \in Nat /\ Handovers + 1 \in Nat /\ Handovers' + 1 \in Nat
    BY HandoversType, HandoversTypeNext
  <1>r. /\ Room(Handovers) <= Room(Handovers') /\ Room(Handovers + 1) <= Room(Handovers' + 1)
        /\ Handovers' > Handovers => Room(Handovers + 1) <= Room(Handovers')
        /\ Room(Handovers) <= Room(Handovers + 1)
        /\ Room(Handovers) \in Nat /\ Room(Handovers + 1) \in Nat
        /\ Room(Handovers') \in Nat /\ Room(Handovers' + 1) \in Nat
    BY <1>h, RoomMonotone
  <1>1. PICK m : m = committed[p]
    BY Zenon
  <1>2. Skipped(p, m)' <= Skipped(p, m) /\ Skipped(p, m)' \in Nat /\ Skipped(p, m) \in Nat
    BY RunShrinks, RunFinite, Zenon
  <1>3. Skipped(p, m) <= Room(IF owner[p] = Nobody THEN Handovers ELSE Handovers + 1)
    BY <1>1, Zenon DEF RoomIn, OffsetRoom
  <1>4. Skipped(p, m)' <= Room(IF owner'[p] = Nobody THEN Handovers' ELSE Handovers' + 1)
    BY <1>2, <1>3, <1>r
  <1>5. /\ Room(Handovers)' = Room(Handovers')
        /\ Room(IF owner[p] = Nobody THEN Handovers ELSE Handovers + 1)'
              = Room(IF owner'[p] = Nobody THEN Handovers' ELSE Handovers' + 1)
    BY Zenon DEF Room
  <1> QED BY <1>1, <1>4, <1>5, Zenon DEF OffsetRoom

\* The group's steps.
LEMMA RoomGroup ==
    ASSUME TypeOK, TypeOK', NEW p \in Partitions, RoomIn(p), NEW q \in Partitions,
           Revoke(q) \/ \E c \in Consumers : Assign(q, c)
    PROVE  RoomIn(p)'
  <1>h. Handovers \in Nat /\ Handovers' \in Nat
    BY HandoversType, HandoversTypeNext, Zenon
  <1>1. ASSUME Revoke(q) PROVE RoomIn(p)'
    <2>0. faults \in Nat /\ Stops \in Nat
      BY HandoversType, MaxFaultsAssumption DEF TypeOK
    <2>1. Handovers' = Handovers + 1
      BY <1>1, <2>0 DEF Revoke, Fault, Handovers, Stops
    <2>2. UNCHANGED <<log, committed, pos, phase, hand, skips, failed>>
          /\ owner' = [owner EXCEPT ![q] = Nobody]
      BY <1>1, Zenon DEF Revoke
    <2>3. OffsetRoom(p)'
      BY <2>1, <2>2, <1>h, RoomOffset
    <2>4. ASSUME NEW d \in Consumers PROVE HandRoom(p, d)' /\ (owner'[p] = d => PositionRoom(p, d)')
      <3>1. owner'[p] = d => owner[p] = d
        BY <2>2, NobodyAssumption, Zenon DEF TypeOK
      <3> QED BY <2>1, <2>2, <3>1, <1>h, RoomOthers
    <2> QED BY <2>3, <2>4, Zenon DEF RoomIn
  <1>2. ASSUME NEW c \in Consumers, Assign(q, c) PROVE RoomIn(p)'
    <2>1. Handovers' = Handovers
      BY <1>2, Zenon DEF Assign, Handovers, Stops
    <2>2. /\ UNCHANGED <<log, committed, phase, hand, skips, failed>> /\ owner[q] = Nobody
          /\ owner' = [owner EXCEPT ![q] = c] /\ pos' = [pos EXCEPT ![c][q] = committed[q]]
      BY <1>2, Zenon DEF Assign
    <2>3. OffsetRoom(p)'
      <3>1. owner[p] # Nobody => owner'[p] # Nobody
        BY <2>2, NobodyAssumption, Zenon DEF TypeOK
      <3> QED BY <2>1, <2>2, <3>1, <1>h, RoomOffset
    <2>4. ASSUME NEW d \in Consumers PROVE HandRoom(p, d)' /\ (owner'[p] = d => PositionRoom(p, d)')
      <3>1. owner[p] = d => owner'[p] = d
        BY <2>2, NobodyAssumption, Zenon DEF TypeOK
      <3>2. HandRoom(p, d)' /\ (owner[p] = d /\ pos'[d][p] = pos[d][p] => PositionRoom(p, d)')
        BY <2>1, <2>2, <3>1, <1>h, RoomOthers
      <3>3. CASE owner[p] = d
        <4>1. pos'[d][p] = pos[d][p]
          BY <2>2, <3>3, NobodyAssumption, Zenon DEF TypeOK
        <4> QED BY <3>2, <3>3, <4>1, Zenon
      <3>4. CASE owner[p] # d /\ owner'[p] = d
        <4>1. p = q /\ d = c /\ pos'[d][p] = committed[p]
          BY <2>2, <3>4, Zenon DEF TypeOK
        <4>2. PICK m : m = committed[p]
          BY Zenon
        <4>3. Skipped(p, m)' <= Skipped(p, m) /\ Skipped(p, m)' \in Nat /\ Skipped(p, m) \in Nat
          BY <2>2, RunShrinks, RunFinite, Zenon
        <4>4. Skipped(p, m) <= Room(Handovers)
          BY <4>1, <4>2, <2>2, Zenon DEF RoomIn, OffsetRoom
        <4>5. Room(Handovers) \in Nat /\ skips'[d] \in Nat
          BY <1>h, RoomMonotone DEF TypeOK
        <4>6. Room(Handovers)' = Room(Handovers)
          BY <2>1, Zenon DEF Room
        <4>7. PositionRoom(p, d)'
          BY <4>1, <4>2, <4>3, <4>4, <4>5, <4>6 DEF PositionRoom
        <4> QED BY <3>2, <4>7, Zenon
      <3> QED BY <3>2, <3>3, <3>4, Zenon
    <2> QED BY <2>3, <2>4, Zenon DEF RoomIn
  <1> QED BY <1>1, <1>2, Zenon

\* recv() leaves the room as it is: the record in hand is not yet passed.
LEMMA RoomRecv ==
    ASSUME TypeOK, TypeOK', NEW p \in Partitions, RoomIn(p), NEW c \in Consumers, Recv(c)
    PROVE  RoomIn(p)'
  <1>0. PICK q \in Partitions : /\ owner[q] = c /\ hand' = [hand EXCEPT ![c] = <<q, pos[c][q]>>]
                                /\ pos' = [pos EXCEPT ![c][q] = @ + 1]
    BY Zenon DEF Recv
  <1>1. /\ UNCHANGED <<log, committed, owner, skips, failed, faults, restarts>>
        /\ phase[c] = "idle" /\ phase' = [phase EXCEPT ![c] = "held"]
    BY Zenon DEF Recv
  <1>h. Handovers \in Nat /\ Handovers' = Handovers
    <2>0. phase'[c] # "down" /\ \A d \in Consumers : d # c => phase'[d] = phase[d]
      BY <1>1, Zenon DEF TypeOK
    <2>1. Handovers' = Handovers + (faults' - faults)
      BY <1>1, <2>0, HandoversStep, Zenon
    <2> QED BY <2>1, <1>1, HandoversType, MaxFaultsAssumption DEF TypeOK
  <1>2. OffsetRoom(p)'
    BY <1>1, <1>h, RoomOffset
  <1>3. ASSUME NEW d \in Consumers, d # c
        PROVE  HandRoom(p, d)' /\ (owner'[p] = d => PositionRoom(p, d)')
    <2>1. hand'[d] = hand[d] /\ phase'[d] = phase[d] /\ pos'[d][p] = pos[d][p]
      BY <1>0, <1>1, <1>3, Zenon DEF TypeOK
    <2> QED BY <2>1, <1>1, <1>h, RoomOthers
  <1>4. phase'[c] = "held" /\ hand'[c] = <<q, pos[c][q]>> /\ pos'[c][q] = pos[c][q] + 1
        /\ (q # p => pos'[c][p] = pos[c][p])
    BY <1>0, <1>1 DEF TypeOK
  <1>5. Room(Handovers)' = Room(Handovers) /\ \A n : Skipped(p, n)' = Skipped(p, n)
    BY <1>1, <1>h, Zenon DEF Room, Skipped, PoisonRun
  <1>6. owner[p] = c => Skipped(p, pos[c][p]) <= Room(Handovers) + skips[c]
    BY <1>1, Zenon DEF RoomIn, PositionRoom
  <1>7. HandRoom(p, c)'
    <2>1. CASE q = p
      <3>1. PICK m : m = pos[c][p]
        BY Zenon
      <3>2. Skipped(p, m)' + 0 <= Room(Handovers) + skips[c]
        BY <1>0, <1>5, <1>6, <2>1, <3>1, RunFinite
      <3>3. Lost(c, p)' = 0
        BY <1>0, <1>1, <2>1, Zenon DEF Lost
      <3> QED BY <1>0, <1>1, <1>4, <1>5, <2>1, <3>1, <3>2, <3>3 DEF HandRoom
    <2>2. CASE q # p
      BY <1>4, <2>2 DEF HandRoom
    <2> QED BY <2>1, <2>2, Zenon
  <1>8. owner'[p] = c => PositionRoom(p, c)'
    <2>1. CASE q = p
      BY <1>4, <2>1 DEF PositionRoom
    <2>2. CASE q # p
      <3>1. PICK m : m = pos[c][p]
        BY Zenon
      <3> QED BY <1>1, <1>4, <1>5, <1>6, <2>2, <3>1 DEF PositionRoom
    <2> QED BY <2>1, <2>2, Zenon
  <1> QED BY <1>2, <1>3, <1>7, <1>8, Zenon DEF RoomIn

\* Stopping, by a tripped breaker or a crash, is a handover of every partition.
LEMMA RoomStop ==
    ASSUME TypeOK, TypeOK', NEW p \in Partitions, RoomIn(p), NEW c \in Consumers,
           UNCHANGED <<log, committed, pos, hand, failed, restarts>>,
           \A d \in Consumers : d # c => skips'[d] = skips[d], faults' >= faults,
           phase[c] # "down", phase' = [phase EXCEPT ![c] = "down"], owner' = Freed(c)
    PROVE  RoomIn(p)'
  <1>h. Handovers \in Nat /\ Handovers' \in Nat /\ Handovers' > Handovers
    <2>0. phase'[c] = "down" /\ \A d \in Consumers : d # c => phase'[d] = phase[d]
      BY Zenon DEF TypeOK
    <2>1. Handovers' = Handovers + (faults' - faults) + 1
      BY <2>0, HandoversStep, Zenon
    <2>2. faults \in Nat /\ faults' \in Nat
      BY MaxFaultsAssumption DEF TypeOK
    <2> QED BY <2>1, <2>2, HandoversType, HandoversTypeNext
  <1>1. OffsetRoom(p)'
    BY <1>h, RoomOffset
  <1>2. phase'[c] = "down" /\ owner'[p] # c
    BY NobodyAssumption, Zenon DEF Freed, TypeOK
  <1>3. HandRoom(p, c)'
    BY <1>2, Zenon DEF HandRoom
  <1>4. ASSUME NEW d \in Consumers, d # c
        PROVE  HandRoom(p, d)' /\ (owner'[p] = d => PositionRoom(p, d)')
    <2>1. phase'[d] = phase[d] /\ (owner'[p] = d => owner[p] = d)
      BY <1>4, NobodyAssumption, Zenon DEF Freed, TypeOK
    <2> QED BY <2>1, <1>4, <1>h, RoomOthers
  <1> QED BY <1>1, <1>2, <1>3, <1>4, Zenon DEF RoomIn

\* A new ingester owns nothing and starts its count again.
LEMMA RoomRestart ==
    ASSUME TypeOK, TypeOK', Counting, NEW p \in Partitions, RoomIn(p),
           NEW c \in Consumers, Restart(c)
    PROVE  RoomIn(p)'
  <1>1. /\ UNCHANGED <<log, committed, owner, pos, hand, failed, faults>>
        /\ phase[c] = "down" /\ phase' = [phase EXCEPT ![c] = "idle"]
        /\ restarts' = restarts + 1 /\ skips' = [skips EXCEPT ![c] = 0]
    BY Zenon DEF Restart
  <1>h. Handovers \in Nat /\ Handovers' = Handovers
    <2>0. phase'[c] # "down" /\ \A d \in Consumers : d # c => phase'[d] = phase[d]
      BY <1>1, Zenon DEF TypeOK
    <2>1. Handovers' = Handovers + (faults' - faults)
      BY <1>1, <2>0, HandoversStep, Zenon
    <2> QED BY <2>1, <1>1, HandoversType, MaxFaultsAssumption DEF TypeOK
  <1>2. OffsetRoom(p)'
    BY <1>1, <1>h, RoomOffset
  <1>3. phase'[c] = "idle" /\ owner'[p] # c
    BY <1>1, Zenon DEF Counting, TypeOK
  <1>4. HandRoom(p, c)'
    BY <1>3, Zenon DEF HandRoom
  <1>5. ASSUME NEW d \in Consumers, d # c
        PROVE  HandRoom(p, d)' /\ (owner'[p] = d => PositionRoom(p, d)')
    <2>1. phase'[d] = phase[d] /\ skips'[d] = skips[d]
      BY <1>1, <1>5, Zenon DEF TypeOK
    <2> QED BY <2>1, <1>1, <1>h, RoomOthers
  <1> QED BY <1>2, <1>3, <1>4, <1>5, Zenon DEF RoomIn

\* A record written without tripping the breaker: a refusal adds one to the run and
\* to the count, and anything else ends both.
LEMMA RoomWrite ==
    ASSUME TypeOK, TypeOK', NEW p \in Partitions, RoomIn(p), GoodOnlyIn(p),
           NEW c \in Consumers, Write(c), phase'[c] # "down"
    PROVE  RoomIn(p)'
  <1> DEFINE x == hand[c]
  <1>1. /\ UNCHANGED <<log, committed, owner, pos, hand, failed, faults, restarts>>
        /\ phase[c] = "held" /\ phase' = [phase EXCEPT ![c] = "acking"]
        /\ skips' = [skips EXCEPT ![c] = IF Refused(x) THEN @ + 1 ELSE 0]
        /\ log[x].class # "unwritable"
    BY Zenon DEF Write, TypeOK
  <1>h. Handovers \in Nat /\ Handovers' = Handovers
    <2>0. phase'[c] # "down" /\ \A d \in Consumers : d # c => phase'[d] = phase[d]
      BY <1>1, Zenon DEF TypeOK
    <2>1. Handovers' = Handovers + (faults' - faults)
      BY <1>1, <2>0, HandoversStep, Zenon
    <2> QED BY <2>1, <1>1, HandoversType, MaxFaultsAssumption DEF TypeOK
  <1>2. OffsetRoom(p)'
    BY <1>1, <1>h, RoomOffset
  <1>3. ASSUME NEW d \in Consumers, d # c
        PROVE  HandRoom(p, d)' /\ (owner'[p] = d => PositionRoom(p, d)')
    <2>1. skips'[d] = skips[d] /\ phase'[d] = phase[d]
      BY <1>1, <1>3, Zenon DEF TypeOK
    <2> QED BY <2>1, <1>1, <1>h, RoomOthers
  <1>4. /\ Room(Handovers)' = Room(Handovers) /\ \A n : Skipped(p, n)' = Skipped(p, n)
        /\ Lost(c, p)' = Lost(c, p)
    BY <1>1, <1>h, Zenon DEF Room, Skipped, PoisonRun, Lost
  <1>5. /\ phase'[c] = "acking" /\ skips[c] \in Nat /\ skips'[c] \in Nat
        /\ skips'[c] = IF Refused(x) THEN skips[c] + 1 ELSE 0
    BY <1>1, Zenon DEF TypeOK
  <1>6. /\ x \in Places /\ x = <<x[1], x[2]>> /\ x[2] \in Offsets
        /\ log[x].class \in {"good", "poison", "unwritable"}
    <2>1. x \in Places /\ log[x] \in Records
      BY Zenon DEF TypeOK
    <2>2. x = <<x[1], x[2]>> /\ x[2] \in Offsets
      BY <2>1 DEF Places
    <2>3. log[x].class \in Classes
      BY <2>1, Zenon DEF Records
    <2> QED BY <2>1, <2>2, <2>3, ClassesAssumption, Zenon
  <1>7. /\ ~Refused(x) => log[x].class = "good"
        /\ x[1] # p => Refused(x)
    BY <1>1, <1>6, Zenon DEF Refused, GoodOnlyIn
  <1>k. SkipLimit - 1 \in Nat /\ Room(Handovers) \in Nat
        /\ (Handovers > 0 => SkipLimit - 1 <= Room(Handovers))
        /\ Lost(c, p) \in {0, SkipLimit - 1} /\ (owner[p] = c => Lost(c, p) = 0)
    BY <1>h, RoomGrows, SkipLimitAssumption DEF Lost
  <1> HIDE DEF x
  <1>8. x[1] = p => Skipped(p, x[2] + 1) + Lost(c, p) <= Room(Handovers) + skips'[c]
    <2> SUFFICES ASSUME x[1] = p
                 PROVE  Skipped(p, x[2] + 1) + Lost(c, p) <= Room(Handovers) + skips'[c]
      BY Zenon
    <2>1. Skipped(p, x[2]) + Lost(c, p) <= Room(Handovers) + skips[c]
          /\ (owner[p] # c => Handovers > 0)
      BY <1>1, Zenon DEF RoomIn, HandRoom, x
    <2>2. Skipped(p, x[2] + 1) \in Nat /\ Skipped(p, x[2]) \in Nat
      BY RunFinite, Zenon
    <2>3. CASE Refused(x)
      <3>1. Skipped(p, x[2] + 1) <= Skipped(p, x[2]) + 1
        BY <1>6, RunNext, Zenon
      <3> QED BY <3>1, <2>1, <2>2, <2>3, <1>5, <1>k
    <2>4. CASE ~Refused(x)
      <3>1. Skipped(p, x[2] + 1) = 0
        BY <2>4, <1>6, <1>7, RunBroken, Zenon
      <3> QED BY <3>1, <2>1, <2>4, <1>5, <1>k
    <2> QED BY <2>3, <2>4, Zenon
  <1>9. HandRoom(p, c)'
    <2>1. PICK n : n = x[2] + 1
      BY Zenon
    <2>2. x[1] = p => Skipped(p, n)' + Lost(c, p)' <= Room(Handovers)' + skips'[c]
      BY <2>1, <1>4, <1>8, Zenon
    <2>3. x[1] = p /\ owner'[p] # c => Handovers' > 0
      BY <1>1, <1>h, Zenon DEF RoomIn, HandRoom, x
    <2> QED BY <2>1, <2>2, <2>3, <1>1, <1>5, Zenon DEF HandRoom, x
  <1>10. ASSUME owner'[p] = c PROVE PositionRoom(p, c)'
    <2>1. PICK m : m = pos[c][p]
      BY Zenon
    <2>2. PositionRoom(p, c) /\ Lost(c, p) = 0 /\ Skipped(p, m) \in Nat
          /\ \A n : Skipped(p, n) \in Nat
      BY <1>1, <1>10, <1>k, RunFinite, Zenon DEF RoomIn
    <2>3. Skipped(p, m) <= Room(Handovers) + skips'[c]
      <3>1. CASE Skipped(p, m) <= Room(Handovers)
        BY <3>1, <2>2, <1>5, <1>k
      <3>2. CASE x[1] # p /\ Skipped(p, m) <= Room(Handovers) + skips[c]
        BY <3>2, <2>2, <1>5, <1>7, <1>k
      <3>3. CASE x[1] = p /\ m = x[2] + 1
        BY <3>3, <2>2, <1>8, <1>5, <1>k
      <3> QED BY <2>1, <2>2, <3>1, <3>2, <3>3, <1>1, Zenon DEF PositionRoom, x
    <2> QED BY <2>1, <2>3, <1>1, <1>4, <1>5, Zenon DEF PositionRoom
  <1> QED BY <1>2, <1>3, <1>9, <1>10, Zenon DEF RoomIn

\* The commit: what its ingester had in hand is within the room of the next
\* handover, or of the present ones if the partition was taken from it and waits.
LEMMA RoomAck ==
    ASSUME TypeOK, TypeOK', Counting, NEW p \in Partitions, RoomIn(p),
           NEW c \in Consumers, Ack(c) \/ AckFails(c)
    PROVE  RoomIn(p)'
  <1>1. /\ UNCHANGED <<log, owner, pos, hand, skips, failed, restarts>>
        /\ phase[c] = "acking" /\ phase' = [phase EXCEPT ![c] = "idle"]
        /\ faults' = faults \/ faults' = faults + 1
        /\ \/ committed' = committed
           \/ committed' = [committed EXCEPT ![hand[c][1]] = hand[c][2] + 1]
    BY Zenon DEF Ack, AckFails, Fault
  <1>h. Handovers \in Nat /\ Handovers' \in Nat /\ Handovers' >= Handovers
        /\ Handovers + 1 \in Nat /\ Handovers' + 1 \in Nat
    <2>0. phase'[c] # "down" /\ \A d \in Consumers : d # c => phase'[d] = phase[d]
      BY <1>1, Zenon DEF TypeOK
    <2>1. Handovers' = Handovers + (faults' - faults)
      BY <1>1, <2>0, HandoversStep, Zenon
    <2>2. faults \in Nat
      BY MaxFaultsAssumption DEF TypeOK
    <2> QED BY <2>1, <2>2, <1>1, HandoversType
  <1>r. /\ Room(Handovers) \in Nat /\ Room(Handovers') \in Nat /\ Room(Handovers' + 1) \in Nat
        /\ Room(Handovers) <= Room(Handovers')
        /\ Room(Handovers) + (SkipLimit - 1) <= Room(Handovers' + 1)
    BY <1>h, RoomMonotone
  <1>k. skips[c] \in Nat /\ skips[c] <= SkipLimit - 1 /\ SkipLimit - 1 \in Nat
    BY <1>1, SkipLimitAssumption DEF Counting, TypeOK
  <1>s. \A n : Skipped(p, n)' = Skipped(p, n) /\ Skipped(p, n) \in Nat
    BY <1>1, RunFinite, Zenon DEF Skipped, PoisonRun
  <1>2. ASSUME NEW d \in Consumers, d # c
        PROVE  HandRoom(p, d)' /\ (owner'[p] = d => PositionRoom(p, d)')
    <2>1. phase'[d] = phase[d]
      BY <1>1, <1>2, Zenon DEF TypeOK
    <2> QED BY <2>1, <1>1, <1>h, RoomOthers, Zenon
  <1>3. phase'[c] = "idle"
    BY <1>1, Zenon DEF TypeOK
  <1>4. HandRoom(p, c)'
    BY <1>3, Zenon DEF HandRoom
  <1>5. owner'[p] = c => PositionRoom(p, c)'
    <2>1. PICK m : m = pos[c][p]
      BY Zenon
    <2>2. owner[p] = c => Skipped(p, m)' <= Room(Handovers') + skips[c]
      BY <2>1, <1>1, <1>r, <1>k, <1>s DEF RoomIn, PositionRoom
    <2>3. Room(Handovers)' = Room(Handovers')
      BY Zenon DEF Room
    <2> QED BY <2>1, <2>2, <2>3, <1>1, <1>3, Zenon DEF PositionRoom
  <1>6. OffsetRoom(p)'
    <2>1. CASE committed'[p] = committed[p]
      BY <2>1, <1>1, <1>h, RoomOffset, Zenon
    <2>2. CASE hand[c][1] = p /\ committed'[p] = hand[c][2] + 1
      <3>1. PICK m : m = hand[c][2] + 1
        BY Zenon
      <3>2. Skipped(p, m) + Lost(c, p) <= Room(Handovers) + skips[c]
        BY <3>1, <2>2, <1>1, Zenon DEF RoomIn, HandRoom
      <3>3. owner[p] = Nobody => Lost(c, p) = SkipLimit - 1
        BY NobodyAssumption, Zenon DEF Lost
      <3>4. Lost(c, p) \in Nat /\ Skipped(p, m) \in Nat
        BY <1>k, <1>s, Zenon DEF Lost
      <3>5. Skipped(p, m)' <= Room(IF owner[p] = Nobody THEN Handovers' ELSE Handovers' + 1)
        BY <3>2, <3>3, <3>4, <1>r, <1>k, <1>s
      <3>6. Room(IF owner[p] = Nobody THEN Handovers ELSE Handovers + 1)'
              = Room(IF owner[p] = Nobody THEN Handovers' ELSE Handovers' + 1)
        BY <1>1, Zenon DEF Room
      <3> QED BY <3>1, <3>5, <3>6, <2>2, Zenon DEF OffsetRoom
    <2> QED BY <2>1, <2>2, <1>1, Zenon DEF TypeOK
  <1> QED BY <1>2, <1>4, <1>5, <1>6, Zenon DEF RoomIn

\* A database error: the record is passed without a skip, and is out of the run.
LEMMA RoomFails ==
    ASSUME TypeOK, TypeOK', NEW p \in Partitions, RoomIn(p), NEW c \in Consumers,
           DatabaseFails(c) \/ Unwritable(c)
    PROVE  RoomIn(p)'
  <1> DEFINE x == hand[c]
  <1>1. /\ UNCHANGED <<log, committed, owner, pos, hand, skips, restarts>>
        /\ failed' = failed \cup {x}
        /\ phase[c] = "held" /\ phase' = [phase EXCEPT ![c] = "idle"]
        /\ faults' = faults \/ faults' = faults + 1
    BY Zenon DEF DatabaseFails, Unwritable, Fault
  <1>h. Handovers \in Nat /\ Handovers' \in Nat /\ Handovers' >= Handovers
    <2>0. phase'[c] # "down" /\ \A d \in Consumers : d # c => phase'[d] = phase[d]
      BY <1>1, Zenon DEF TypeOK
    <2>1. Handovers' = Handovers + (faults' - faults)
      BY <1>1, <2>0, HandoversStep, Zenon
    <2>2. faults \in Nat
      BY MaxFaultsAssumption DEF TypeOK
    <2> QED BY <2>1, <2>2, <1>1, HandoversType
  <1>r. /\ Room(Handovers) \in Nat /\ Room(Handovers') \in Nat
        /\ Room(Handovers) <= Room(Handovers') /\ Room(Handovers)' = Room(Handovers')
    BY <1>h, RoomMonotone, Zenon DEF Room
  <1>s. \A n : Skipped(p, n)' <= Skipped(p, n) /\ Skipped(p, n)' \in Nat /\ Skipped(p, n) \in Nat
    BY <1>1, RunShrinks, RunFinite, Zenon
  <1>2. OffsetRoom(p)'
    BY <1>1, <1>h, RoomOffset, Zenon
  <1>3. ASSUME NEW d \in Consumers, d # c
        PROVE  HandRoom(p, d)' /\ (owner'[p] = d => PositionRoom(p, d)')
    <2>1. phase'[d] = phase[d]
      BY <1>1, <1>3, Zenon DEF TypeOK
    <2> QED BY <2>1, <1>1, <1>h, RoomOthers, Zenon
  <1>4. phase'[c] = "idle" /\ skips[c] \in Nat /\ x \in Places
    BY <1>1, Zenon DEF TypeOK
  <1>5. HandRoom(p, c)'
    BY <1>4, Zenon DEF HandRoom
  <1> HIDE DEF x
  <1>6. ASSUME owner'[p] = c PROVE PositionRoom(p, c)'
    <2>1. PICK m : m = pos[c][p]
      BY Zenon
    <2>2. PositionRoom(p, c) /\ Skipped(p, m)' <= Skipped(p, m)
          /\ Skipped(p, m)' \in Nat /\ Skipped(p, m) \in Nat
      BY <1>1, <1>6, <1>s, Zenon DEF RoomIn
    <2>3. Skipped(p, m)' <= Room(Handovers') + skips[c]
      <3>1. CASE \/ Skipped(p, m) <= Room(Handovers)
                 \/ Skipped(p, m) <= Room(Handovers) + skips[c]
        BY <3>1, <2>2, <1>4, <1>r
      <3>2. CASE x[1] = p /\ m = x[2] + 1
        <4>1. x = <<p, x[2]>> /\ x[2] \in Offsets
          BY <3>2, <1>4 DEF Places
        <4>2. PICK n \in Offsets : n = x[2]
          BY <4>1, Zenon
        <4>3. Skipped(p, n + 1)' <= Skipped(p, n)
          BY <4>1, <4>2, <1>1, RunFailed, Zenon
        <4>4. Lost(c, p) = 0 /\ Skipped(p, n) + Lost(c, p) <= Room(Handovers) + skips[c]
          BY <3>2, <4>2, <1>1, <1>6, Zenon DEF RoomIn, HandRoom, Lost, x
        <4>5. Skipped(p, n) \in Nat /\ Skipped(p, n + 1)' \in Nat
          BY <1>s, Zenon
        <4>6. Skipped(p, n + 1)' <= Room(Handovers') + skips[c]
          BY <4>3, <4>4, <4>5, <1>4, <1>r
        <4> QED BY <4>2, <4>6, <3>2, Zenon
      <3> QED BY <2>1, <2>2, <3>1, <3>2, <1>1, Zenon DEF PositionRoom, x
    <2> QED BY <2>1, <2>3, <1>1, <1>4, <1>r, Zenon DEF PositionRoom
  <1> QED BY <1>2, <1>3, <1>5, <1>6, Zenon DEF RoomIn

\* The count stays below the limit in a running ingester.
LEMMA CountingStep == TypeOK /\ TypeOK' /\ Counting /\ [Next]_vars => Counting'
  <1> SUFFICES ASSUME TypeOK, TypeOK', Counting, [Next]_vars PROVE Counting'
    BY Zenon
  <1> USE SkipLimitAssumption, NobodyAssumption
  <1>1. ASSUME NEW q \in Partitions, Revoke(q) \/ \E c \in Consumers : Assign(q, c)
        PROVE  Counting'
    BY <1>1, Zenon DEF Revoke, Assign, Counting, TypeOK
  <1>2. ASSUME NEW c \in Consumers, Recv(c) PROVE Counting'
    BY <1>2, Zenon DEF Recv, Counting, TypeOK
  <1>3. ASSUME NEW c \in Consumers, Write(c) PROVE Counting'
    <2>1. ASSUME NEW d \in Consumers PROVE phase'[d] # "down" => skips'[d] < SkipLimit
      BY <1>3 DEF Write, Trips, Counting, TypeOK
    <2>2. ASSUME NEW d \in Consumers, NEW p \in Partitions PROVE phase'[d] = "down" => owner'[p] # d
      BY <1>3, Zenon DEF Write, Freed, Counting, TypeOK
    <2> QED BY <2>1, <2>2, Zenon DEF Counting
  <1>4. ASSUME NEW c \in Consumers, Ack(c) \/ AckFails(c) PROVE Counting'
    BY <1>4, Zenon DEF Ack, AckFails, Counting, TypeOK
  <1>5. ASSUME NEW c \in Consumers, DatabaseFails(c) \/ Unwritable(c) PROVE Counting'
    BY <1>5, Zenon DEF DatabaseFails, Unwritable, Counting, TypeOK
  <1>6. ASSUME NEW c \in Consumers, Crash(c) PROVE Counting'
    BY <1>6, Zenon DEF Crash, Freed, Counting, TypeOK
  <1>7. ASSUME NEW c \in Consumers, Restart(c) PROVE Counting'
    BY <1>7 DEF Restart, Counting, TypeOK
  <1>8. CASE UNCHANGED vars
    BY <1>8, Zenon DEF vars, Counting
  <1> QED BY <1>1, <1>2, <1>3, <1>4, <1>5, <1>6, <1>7, <1>8, Zenon DEF Next, Cycle

\* Every step stays within the room there is.
LEMMA SkipStep == TypeOK /\ TypeOK' /\ SkipInv /\ [Next]_vars => SkipInv'
  <1> SUFFICES ASSUME TypeOK, TypeOK', SkipInv, [Next]_vars PROVE SkipInv'
    BY Zenon
  <1>0. Counting /\ Counting'
    BY CountingStep, Zenon DEF SkipInv
  <1>1. ASSUME NEW p \in Partitions, GoodOnlyIn(p)' PROVE RoomIn(p)'
    <2>1. log' = log
      BY Zenon DEF Next, Cycle, Revoke, Assign, Recv, Write, Ack, AckFails, DatabaseFails,
             Unwritable, Crash, Restart, vars
    <2>2. GoodOnlyIn(p) /\ RoomIn(p)
      BY <1>1, <2>1, Zenon DEF GoodOnlyIn, SkipInv
    <2>3. ASSUME NEW c \in Consumers, Write(c) PROVE RoomIn(p)'
      <3>1. CASE phase'[c] # "down"
        BY <3>1, <2>2, <2>3, RoomWrite, Zenon
      <3>2. CASE phase'[c] = "down"
        <4>1. /\ UNCHANGED <<log, committed, pos, hand, failed, restarts, faults>>
              /\ phase[c] # "down" /\ phase' = [phase EXCEPT ![c] = "down"] /\ owner' = Freed(c)
          BY <3>2, <2>3, Zenon DEF Write, TypeOK
        <4>2. \A d \in Consumers : d # c => skips'[d] = skips[d]
          BY <2>3, Zenon DEF Write, TypeOK
        <4>3. faults' >= faults
          BY <4>1, MaxFaultsAssumption DEF TypeOK
        <4> QED BY <4>1, <4>2, <4>3, <2>2, RoomStop, Zenon
      <3> QED BY <3>1, <3>2, Zenon
    <2>4. ASSUME NEW c \in Consumers, Crash(c) PROVE RoomIn(p)'
      <3>1. /\ UNCHANGED <<log, committed, pos, hand, failed, restarts>> /\ faults' >= faults
            /\ phase[c] # "down" /\ phase' = [phase EXCEPT ![c] = "down"] /\ owner' = Freed(c)
            /\ \A d \in Consumers : d # c => skips'[d] = skips[d]
        BY <2>4, MaxFaultsAssumption DEF Crash, Fault, TypeOK
      <3> QED BY <3>1, <2>2, RoomStop, Zenon
    <2>5. CASE UNCHANGED vars
      <3>1. Handovers' = Handovers /\ Handovers \in Nat
        BY <2>5, HandoversType, Zenon DEF vars, Handovers, Stops
      <3>2. OffsetRoom(p)'
        BY <3>1, <2>2, <2>5, RoomOffset DEF vars
      <3>3. ASSUME NEW d \in Consumers
            PROVE  HandRoom(p, d)' /\ (owner'[p] = d => PositionRoom(p, d)')
        BY <3>1, <2>2, <2>5, RoomOthers DEF vars
      <3> QED BY <3>2, <3>3, Zenon DEF RoomIn
    <2>6. ASSUME NEW c \in Consumers,
                 Recv(c) \/ Ack(c) \/ AckFails(c) \/ DatabaseFails(c) \/ Unwritable(c) \/ Restart(c)
          PROVE  RoomIn(p)'
      BY <2>6, <2>2, <1>0, RoomRecv, RoomAck, RoomFails, RoomRestart, Zenon
    <2>7. ASSUME NEW q \in Partitions, Revoke(q) \/ \E c \in Consumers : Assign(q, c)
          PROVE  RoomIn(p)'
      BY <2>7, <2>2, RoomGroup, Zenon
    <2> QED BY <2>3, <2>4, <2>5, <2>6, <2>7, Zenon DEF Next, Cycle
  <1> QED BY <1>0, <1>1, Zenon DEF SkipInv

\* Nothing is passed at the start.
LEMMA SkipInit == Init => SkipInv
  <1> SUFFICES ASSUME Init PROVE SkipInv
    BY Zenon
  <1>1. Counting
    BY SkipLimitAssumption, NobodyAssumption DEF Init, Counting
  <1>2. ASSUME NEW p \in Partitions PROVE RoomIn(p)
    <2>0. TypeOK
      BY TypeInit, Zenon
    <2>1. PoisonRun(p, 0) = {}
      BY MaxOffsetAssumption DEF PoisonRun, Offsets
    <2>2. Skipped(p, 0) = 0
      BY <2>1, FS_EmptySet, Zenon DEF Skipped
    <2>3. Room(Handovers) \in Nat /\ committed[p] = 0 /\ owner[p] = Nobody
      BY <2>0, HandoversType, RoomGrows, Zenon DEF Init
    <2> QED BY <2>2, <2>3, NobodyAssumption DEF Init, RoomIn, OffsetRoom, HandRoom
  <1> QED BY <1>1, <1>2, Zenon DEF SkipInv

\* The breaker's bound: with good records in one partition at most, no committed
\* offset stands on more poison than one ingester's count and the handovers so far
\* can have let through, across crashes, rebalances and late commits.
THEOREM BreakerBoundsSkips == Spec => []SkipsBounded
  <1>1. TypeOK /\ TypeOK' /\ SkipInv /\ [Next]_vars => SkipInv'
    BY SkipStep, Zenon
  <1>2. TypeOK /\ SkipInv => SkipsBounded
    <2> SUFFICES ASSUME TypeOK, SkipInv, NEW p \in Partitions, GoodOnlyIn(p)
                 PROVE  Cardinality(PoisonRun(p, committed[p])) <= (1 + Handovers) * (SkipLimit - 1)
      BY Zenon DEF SkipsBounded, GoodOnlyIn
    <2>1. Skipped(p, committed[p]) \in Nat /\ Handovers \in Nat
      BY RunFinite, HandoversType, Zenon
    <2>2. Room(Handovers) \in Nat /\ Room(Handovers) <= Room(Handovers + 1)
          /\ Room(Handovers + 1) \in Nat
      BY <2>1, RoomMonotone
    <2>3. Skipped(p, committed[p]) <= Room(Handovers + 1)
      BY <2>1, <2>2 DEF SkipInv, RoomIn, OffsetRoom
    <2>4. Handovers + 1 = 1 + Handovers
      BY <2>1
    <2> QED BY <2>3, <2>4, Zenon DEF Room, Skipped
  <1> QED BY <1>1, <1>2, SkipInit, TypeCorrect, PTL DEF Spec
=============================================================================
