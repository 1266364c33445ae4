------------------------- MODULE OutboxTopicProofs --------------------------
(***************************************************************************)
(* A single relay, for any number of entities, connections, rows and       *)
(* faults: each entity's rows reach the topic in enqueue order, so the     *)
(* topic only moves forward through committed states and implements        *)
(* SnapshotTopic.                                                          *)
(***************************************************************************)
EXTENDS OutboxProofs

(* One relay publishes each entity in enqueue order *)

Active(i) == status[i] \in {"Pending", "Publishing"}

\* Nothing older than a row in flight or in the topic will still be sent.
InTurn ==
    \A i, j \in Ids : Sibling(i, j) /\ i < j /\ Active(i)
                      => status[j] # "Publishing" /\ j \notin Logged

\* Only committed rows reach the topic.
LoggedCommitted == \A i \in Logged : Accepted(i)

\* No row of i's entity is in flight but i itself, and of those waiting none but
\* rows of S is older.
Foremost(i, S) ==
    \A j \in Ids : Sibling(i, j) => /\ j < i /\ status[j] = "Pending" => j \in S
                                    /\ status[j] = "Publishing" => j = i

\* What relay r has in hand, from its snapshot to its last mark: committed rows,
\* one for each entity, which the topic has not overtaken; the older rows its
\* claim leaves behind are the ones its claim transaction supersedes.
HandInTurn(r) ==
    /\ \A i \in cand[r] \cup batch[r] :
          Accepted(i) /\ \A j \in Logged : Sibling(i, j) => j <= i
    /\ cand[r] # {} => phase[r] = "read"
    /\ phase[r] = "read"
       => \A i \in cand[r] : /\ Foremost(i, seen[r] \cup stale[r])
                             /\ \A j \in cand[r] : Sibling(i, j) => i = j
    /\ phase[r] = "claimed" => \A i \in batch[r] : Foremost(i, stale[r])
    /\ phase[r] \in {"sending", "marking"}
       => \A i \in batch[r] : \A j \in Ids : Sibling(i, j) /\ j < i => ~Active(j)
    /\ \A i, j \in batch[r] : Sibling(i, j) => i = j

TurnInv == /\ InTurn
           /\ LoggedCommitted
           /\ LogOrder
           /\ \A r \in Relays : HandInTurn(r)

\* The invariant holds initially.
LEMMA TurnInit == Init => TurnInv
<1>. SUFFICES ASSUME Init PROVE TurnInv
  BY Zenon
<1>1. log = <<>> /\ Logged = {}
  BY DEF Init, Logged
<1>2. InTurn
  BY <1>1, Zenon DEF Init, InTurn, Active
<1>3. LoggedCommitted /\ LogOrder
  BY <1>1 DEF LoggedCommitted, LogOrder
<1>4. \A r \in Relays : HandInTurn(r)
  BY Zenon DEF Init, HandInTurn
<1>. QED  BY <1>2, <1>3, <1>4, Zenon DEF TurnInv

\* Steps outside the relays: the rows in flight are the same or fewer, and rows
\* that start to wait are newer than all their entity has committed.
LEMMA TurnTable ==
    ASSUME TypeOK, TurnInv, UNCHANGED <<phase, cand, seen, stale, batch, log>>,
           \A i \in Ids : status[i] # "Absent" => /\ status'[i] # "Absent"
                                                  /\ entityOf'[i] = entityOf[i]
                                                  /\ payload'[i] = payload[i],
           \A i \in Ids : status'[i] = "Publishing" => status[i] = "Publishing",
           \A i \in Ids : status'[i] = "Pending" =>
              \/ status[i] = "Pending"
              \/ \A k \in Ids : Accepted(k) /\ entityOf[k] = entityOf'[i] => k < i,
           \A i \in Ids : Active(i) => payload[i] # 0
    PROVE  TurnInv'
<1>. USE MaxRowsAssumption
<1>l. Logged' = Logged /\ Logged \subseteq Ids
  BY DEF Logged, TypeOK
<1>a. \A i \in Ids : Accepted(i) => Accepted(i)' /\ entityOf'[i] = entityOf[i]
  BY Zenon DEF Accepted
<1>b. \A i \in Ids : Active(i) => Accepted(i)
  BY Zenon DEF Active, Accepted
<1>n. \A i \in Ids : Active(i)' =>
         \/ Active(i) /\ entityOf'[i] = entityOf[i]
         \/ \A k \in Ids : Accepted(k) /\ entityOf[k] = entityOf'[i] => k < i
  BY Zenon DEF Active
<1>i. \A i, k \in Ids : ~(i < k /\ k < i)
  BY DEF Ids
<1>1. InTurn'
  <2>. SUFFICES ASSUME NEW i \in Ids, NEW j \in Ids, entityOf'[i] = entityOf'[j], i < j,
                       Active(i)', status'[j] = "Publishing" \/ j \in Logged'
                PROVE  FALSE
    BY Zenon DEF InTurn, Sibling
  <2>1. status[j] = "Publishing" \/ j \in Logged
    BY <1>l, Zenon
  <2>2. Accepted(j) /\ entityOf'[j] = entityOf[j]
    <3>1. Accepted(j)
      BY <2>1, <1>b, Zenon DEF TurnInv, LoggedCommitted, Active
    <3>. QED  BY <3>1, <1>a, Zenon
  <2>3. CASE Active(i) /\ entityOf'[i] = entityOf[i]
    BY <2>1, <2>2, <2>3, Zenon DEF TurnInv, InTurn, Sibling
  <2>4. CASE \A k \in Ids : Accepted(k) /\ entityOf[k] = entityOf'[i] => k < i
    BY <2>2, <2>4, <1>i, Zenon
  <2>. QED  BY <2>3, <2>4, <1>n, Zenon
<1>2. LoggedCommitted'
  BY <1>l, <1>a, Zenon DEF TurnInv, LoggedCommitted
<1>3. LogOrder'
  <2>1. \A k \in 1 .. Len(log) : log[k] \in Logged
    BY Zenon DEF Logged
  <2>2. \A k \in 1 .. Len(log) : entityOf'[log[k]] = entityOf[log[k]]
    BY <2>1, <1>l, <1>a, Zenon DEF TurnInv, LoggedCommitted
  <2>. QED  BY <2>2 DEF TurnInv, LogOrder, Sibling
<1>4. ASSUME NEW r \in Relays PROVE HandInTurn(r)'
  <2>h. HandInTurn(r) /\ cand[r] \in SUBSET Ids /\ batch[r] \in SUBSET Ids
    BY Zenon DEF TurnInv, TypeOK
  <2>c. \A i \in cand[r] \cup batch[r] : i \in Ids /\ Accepted(i)
    BY <2>h, Zenon DEF HandInTurn
  <2>s. \A i, j \in cand[r] \cup batch[r] : Sibling(i, j)' => Sibling(i, j)
    BY <2>c, <1>a, Zenon DEF Sibling
  <2>1. \A i \in cand[r] \cup batch[r] :
           Accepted(i)' /\ \A j \in Logged : Sibling(i, j)' => j <= i
    BY <2>c, <2>h, <1>a, <1>l, Zenon DEF HandInTurn, TurnInv, LoggedCommitted, Sibling
  <2>f. ASSUME NEW i \in cand[r] \cup batch[r], NEW S, Foremost(i, S), NEW j \in Ids,
               Sibling(i, j)'
        PROVE  /\ j < i /\ status'[j] = "Pending" => j \in S
               /\ status'[j] = "Publishing" => j = i
    <3>1. Accepted(i) /\ i \in Ids /\ entityOf'[i] = entityOf[i]
      BY <2>c, <1>a, Zenon
    <3>2. ASSUME j < i, status'[j] = "Pending" PROVE j \in S
      <4>0. entityOf'[j] = entityOf[i]
        BY <3>1, <2>f, Zenon DEF Sibling
      <4>1. status[j] = "Pending"
        BY <4>0, <3>1, <3>2, <1>i, Zenon
      <4>. QED  BY <4>1, <3>1, <3>2, <2>f, Zenon DEF Foremost, Sibling
    <3>3. ASSUME status'[j] = "Publishing" PROVE j = i
      <4>1. status[j] = "Publishing"
        BY <3>3, Zenon
      <4>. QED  BY <4>1, <3>1, <2>f, Zenon DEF Foremost, Sibling
    <3>. QED  BY <3>2, <3>3, Zenon
  <2>2. ASSUME phase[r] = "read", NEW i \in cand[r]
        PROVE  Foremost(i, seen[r] \cup stale[r])'
    <3>1. Foremost(i, seen[r] \cup stale[r])
      BY <2>2, <2>h, Zenon DEF HandInTurn
    <3>2. \A j \in Ids : Sibling(i, j)' =>
             /\ j < i /\ status'[j] = "Pending" => j \in seen[r] \cup stale[r]
             /\ status'[j] = "Publishing" => j = i
      BY <3>1, <2>f, Zenon
    <3>. QED  BY <3>2, Zenon DEF Foremost
  <2>3. phase[r] = "claimed" => \A i \in batch[r] : Foremost(i, stale[r])'
    BY <2>f, <2>h, Zenon DEF HandInTurn, Foremost
  <2>4. ASSUME phase[r] \in {"sending", "marking"}, NEW i \in batch[r], NEW j \in Ids,
               Sibling(i, j)', j < i, Active(j)'
        PROVE  FALSE
    <3>1. Accepted(i) /\ i \in Ids /\ entityOf'[i] = entityOf[i]
      BY <2>c, <1>a, Zenon
    <3>2. Active(j) /\ entityOf'[j] = entityOf[j]
      BY <3>1, <2>4, <1>n, <1>i, Zenon DEF Sibling
    <3>3. Sibling(i, j)
      BY <3>1, <3>2, <2>4, Zenon DEF Sibling
    <3>4. ~Active(j)
      BY <3>3, <2>4, <2>h, Zenon DEF HandInTurn
    <3>. QED  BY <3>2, <3>4, Zenon
  <2>5. /\ cand[r] # {} => phase[r] = "read"
        /\ phase[r] = "read" => \A i, j \in cand[r] : Sibling(i, j)' => i = j
        /\ \A i, j \in batch[r] : Sibling(i, j)' => i = j
    BY <2>s, <2>h, Zenon DEF HandInTurn
  <2>6. phase[r] = "read" => \A i \in cand[r] : Foremost(i, seen[r] \cup stale[r])'
    BY <2>2, Zenon
  <2>. HIDE DEF Foremost, Sibling, Accepted, Active
  <2>. QED  BY <2>1, <2>3, <2>4, <2>5, <2>6, <1>l, Zenon DEF HandInTurn
<1>. QED  BY <1>1, <1>2, <1>3, <1>4, Zenon DEF TurnInv

\* The relay's own steps, when it is the only one.
LEMMA TurnRelay ==
    ASSUME OrderInv, TurnInv, NEW r \in Relays, \A q \in Relays : q = r,
           RelayStep(r) \/ Abandon(r)
    PROVE  TurnInv'
<1>. USE MaxRowsAssumption
<1>t. TypeOK /\ RowInHand /\ InTurn /\ LoggedCommitted /\ LogOrder /\ HandInTurn(r)
  BY Zenon DEF OrderInv, TypeInv, TurnInv
<1>u. UNCHANGED <<entityOf, payload>>
  BY Zenon DEF RelayStep, Collapse, ClaimRead, ClaimWrite, ClaimCommit, Publish, PublishRow,
         Mark, Abandon, rowVars
<1>b. /\ cand[r] \in SUBSET Ids /\ batch[r] \in SUBSET Ids /\ seen[r] \in SUBSET Ids
      /\ stale[r] \in SUBSET Ids /\ Logged \subseteq Ids
  BY <1>t DEF TypeOK, Logged
<1>p. \A i \in Ids : Active(i) => Accepted(i)
  BY Zenon DEF Active, Accepted, OrderInv, Core, Carries
<1>i. \A i, j \in Ids : (i < j \/ j < i \/ i = j) /\ (~(j < i) <=> i <= j)
  BY DEF Ids
<1>f. ASSUME UNCHANGED <<status, log>> PROVE InTurn' /\ LoggedCommitted' /\ LogOrder'
  BY Zenon, <1>f, <1>t, <1>u
     DEF InTurn, LoggedCommitted, LogOrder, Sibling, Active, Logged, Accepted
<1>1. CASE Collapse(r) \/ Abandon(r)
  <2>1. UNCHANGED <<status, log>> /\ phase'[r] \in {"idle", "collapsed"}
    BY <1>1, <1>t, Zenon DEF Collapse, Abandon, rowVars, TypeOK
  <2>2. cand'[r] = {} /\ batch'[r] \subseteq batch[r]
    BY <1>1, <1>t, Zenon DEF Collapse, Abandon, HandInTurn, TypeOK
  <2>3. HandInTurn(r)'
    BY <2>1, <2>2, <1>t, <1>u DEF HandInTurn, Sibling, Logged, Accepted
  <2>. QED  BY <2>1, <2>3, <1>f, Zenon DEF TurnInv
<1>2. CASE ClaimRead(r)
  <2>1. /\ UNCHANGED <<status, log>> /\ phase'[r] = "read"
        /\ UNCHANGED <<stale, batch>>
        /\ cand'[r] = Claimable(r, ripe[r]) \cup (Publishing \cap ripe[r])
        /\ seen'[r] = Pending \ stale[r]
    BY <1>2, <1>t, Zenon DEF ClaimRead, PendingFor, rowVars, TypeOK
  <2>2. \A i \in cand'[r] :
           /\ i \in Ids
           /\ \/ status[i] = "Publishing"
              \/ /\ status[i] = "Pending" /\ i \notin stale[r]
                 /\ \A j \in Ids : status[j] = "Pending" /\ j \notin stale[r] /\ Sibling(i, j)
                                   => j <= i
                 /\ \A j \in Ids : status[j] = "Publishing" => ~Sibling(i, j)
    BY <2>1, Zenon DEF Claimable, PendingFor, Pending, Publishing
  <2>3. \A i, j \in Ids : status[i] = "Publishing" /\ status[j] = "Publishing"
                          /\ Sibling(i, j) => i = j
    BY <1>t, <1>i, Zenon DEF InTurn, Active, Sibling
  <2>4. \A i \in cand'[r] : Accepted(i) /\ \A j \in Logged : Sibling(i, j) => j <= i
    <3>1. \A i \in cand'[r] : i \in Ids /\ Active(i)
      BY <2>2, Zenon DEF Active
    <3>. QED  BY <3>1, <1>t, <1>p, <1>i, <1>b, Zenon DEF InTurn
  <2>5. \A i \in cand'[r] : Foremost(i, seen'[r] \cup stale[r])
    BY <2>1, <2>2, <2>3, Zenon DEF Foremost, Pending
  <2>6. \A i, j \in cand'[r] : Sibling(i, j) => i = j
    BY <2>2, <2>3, <1>i, Zenon DEF Sibling
  <2>7. HandInTurn(r)'
    <3>1. \A i \in cand'[r] \cup batch[r] :
             Accepted(i)' /\ \A j \in Logged' : Sibling(i, j)' => j <= i
      BY <2>1, <2>4, <1>t, <1>u DEF HandInTurn, Accepted, Sibling, Logged
    <3>2. \A i \in cand'[r] : Foremost(i, seen[r] \cup stale[r])'
      BY <2>1, <2>5, <1>u, Zenon DEF Foremost, Sibling
    <3>. QED  BY <3>1, <3>2, <2>1, <2>6, <1>t, <1>u, Zenon DEF HandInTurn, Sibling
  <2>. QED  BY <2>1, <2>7, <1>f, Zenon DEF TurnInv
<1>3. CASE ClaimWrite(r)
  <2>1. /\ UNCHANGED <<status, log>> /\ phase[r] = "read" /\ phase'[r] = "claimed"
        /\ cand'[r] = {} /\ batch'[r] = Picks(r)
        /\ stale'[r] = stale[r] \cup OvertakenByPicks(r)
    BY <1>3, <1>t, Zenon DEF ClaimWrite, rowVars, TypeOK
  <2>2. Picks(r) \subseteq cand[r]
    BY FirstNSubset, Zenon DEF Picks
  <2>3. \A i \in Picks(r) : \A j \in Ids : Sibling(i, j) =>
           /\ j < i /\ status[j] = "Pending" => j \in stale'[r]
           /\ status[j] = "Publishing" => j = i
    <3>. SUFFICES ASSUME NEW i \in Picks(r), NEW j \in Ids, Sibling(i, j)
                  PROVE  /\ j < i /\ status[j] = "Pending" => j \in stale'[r]
                         /\ status[j] = "Publishing" => j = i
      BY Zenon
    <3>1. Foremost(i, seen[r] \cup stale[r])
      BY <2>1, <2>2, <1>t, Zenon DEF HandInTurn
    <3>2. ASSUME j < i, status[j] = "Pending", j \in seen[r] PROVE j \in OvertakenByPicks(r)
      BY <3>2, Zenon DEF OvertakenByPicks, Overtaken, Pending
    <3>. QED  BY <3>1, <3>2, <2>1, Zenon DEF Foremost
  <2>4. HandInTurn(r)'
    <3>1. \A i \in batch'[r] : Foremost(i, stale[r])'
      BY <2>1, <2>3, <1>u, Zenon DEF Foremost, Sibling
    <3>2. \A i \in batch'[r] : Accepted(i)' /\ \A j \in Logged' : Sibling(i, j)' => j <= i
      BY <2>1, <2>2, <1>t, <1>u DEF HandInTurn, Accepted, Sibling, Logged
    <3>3. \A i, j \in batch'[r] : Sibling(i, j)' => i = j
      BY <2>1, <2>2, <1>t, <1>u, Zenon DEF HandInTurn, Sibling
    <3>4. phase'[r] = "claimed" /\ cand'[r] = {}
      BY <2>1, Zenon
    <3>. QED  BY <3>1, <3>2, <3>3, <3>4, Zenon DEF HandInTurn
  <2>. QED  BY <2>1, <2>4, <1>f, Zenon DEF TurnInv
<1>4. CASE ClaimCommit(r)
  <2>1. /\ phase[r] = "claimed" /\ phase'[r] \in {"idle", "sending"}
        /\ UNCHANGED <<cand, batch, log>>
        /\ \A i \in Ids : status'[i] = IF i \in batch[r] THEN "Publishing"
                                       ELSE IF i \in stale[r] THEN "Superseded"
                                       ELSE status[i]
    BY <1>4, <1>t, Zenon DEF ClaimCommit, TypeOK
  <2>l. Logged' = Logged
    BY <2>1, Zenon DEF Logged
  <2>a. \A i \in Ids : Accepted(i) => Accepted(i)'
    BY <2>1, <1>u, Zenon DEF Accepted
  <2>2. ASSUME NEW i \in Ids, NEW j \in batch[r], Sibling(i, j), i < j
        PROVE  ~Active(i)'
    <3>1. j \in Ids /\ Foremost(j, stale[r])
      BY <2>1, <1>t, <1>b, Zenon DEF HandInTurn
    <3>2. i \notin batch[r]
      BY <2>2, <3>1, <1>t DEF HandInTurn, Ids
    <3>3. status[i] # "Publishing" /\ (status[i] = "Pending" => i \in stale[r])
      BY <2>2, <3>1 DEF Foremost, Sibling, Ids
    <3>. QED  BY <3>2, <3>3, <2>1, Zenon DEF Active
  <2>3. InTurn'
    <3>. SUFFICES ASSUME NEW i \in Ids, NEW j \in Ids, Sibling(i, j), i < j, Active(i)',
                         status'[j] = "Publishing" \/ j \in Logged
                  PROVE  FALSE
      BY <1>u, <2>l, Zenon DEF InTurn, Sibling
    <3>1. j \notin batch[r]
      BY <2>2, Zenon
    <3>2. status[j] = "Publishing" \/ j \in Logged
      BY <3>1, <2>1, Zenon
    <3>3. CASE i \in batch[r]
      <4>1. Foremost(i, stale[r]) /\ \A k \in Logged : Sibling(i, k) => k <= i
        BY <3>3, <2>1, <1>t, Zenon DEF HandInTurn
      <4>. QED  BY <4>1, <3>2 DEF Foremost, Ids
    <3>4. CASE i \notin batch[r]
      <4>1. Active(i)
        BY <3>4, <2>1, Zenon DEF Active
      <4>. QED  BY <4>1, <3>2, <1>t, Zenon DEF InTurn
    <3>. QED  BY <3>3, <3>4, Zenon
  <2>4. LoggedCommitted' /\ LogOrder'
    BY <2>1, <2>l, <2>a, <1>t, <1>u, <1>b, Zenon DEF LoggedCommitted, LogOrder, Sibling
  <2>5. HandInTurn(r)'
    <3>1. \A i \in cand[r] \cup batch[r] :
             Accepted(i)' /\ \A j \in Logged' : Sibling(i, j)' => j <= i
      BY <2>a, <2>l, <1>t, <1>u, <1>b, Zenon DEF HandInTurn, Sibling
    <3>2. \A i \in batch[r] : \A j \in Ids : Sibling(i, j)' /\ j < i => ~Active(j)'
      BY <2>2, <1>u, Zenon DEF Sibling
    <3>. QED  BY <3>1, <3>2, <2>1, <1>t, <1>u, Zenon DEF HandInTurn, Sibling
  <2>. QED  BY <2>3, <2>4, <2>5, Zenon DEF TurnInv
<1>5. CASE Publish(r)
  <2>. DEFINE o == Oldest(batch[r])
  <2>0. PICK appended \in BOOLEAN : log' = IF appended THEN Append(log, o) ELSE log
    BY <1>5, Zenon DEF Publish, PublishRow
  <2>1. /\ phase[r] = "sending" /\ phase'[r] = "marking"
        /\ UNCHANGED <<status, cand, batch>>
    BY <1>5, <1>t, Zenon DEF Publish, rowVars, TypeOK
  <2>2. o \in batch[r] /\ o \in Ids
    BY <2>1, <1>t, <1>b, OldestIsLeast, Zenon DEF RowInHand
  <2>. HIDE DEF o
  <2>3. CASE log' = log
    <3>1. HandInTurn(r)'
      BY <2>1, <2>3, <1>t, <1>u DEF HandInTurn, Sibling, Logged, Accepted, Active
    <3>. QED  BY <3>1, <2>1, <2>3, <1>f, Zenon DEF TurnInv
  <2>4. CASE log' = Append(log, o)
    <3>1. /\ Len(log') = Len(log) + 1 /\ Len(log) \in Nat /\ log'[Len(log) + 1] = o
          /\ \A k \in 1 .. Len(log) : log'[k] = log[k] /\ log[k] \in Logged
      BY <2>2, <2>4, <1>t, LoggedAppend, Zenon
    <3>2. Logged' = Logged \cup {o}
      BY <2>2, <2>4, <1>t, LoggedAppend, Zenon
    <3>3. Accepted(o) /\ \A j \in Logged : Sibling(o, j) => j <= o
      BY <2>2, <1>t, Zenon DEF HandInTurn
    <3>4. InTurn'
      <4>1. \A i \in Ids : Sibling(o, i) /\ i < o => ~Active(i)
        BY <2>1, <2>2, <1>t, Zenon DEF HandInTurn
      <4>. QED  BY <4>1, <3>2, <2>1, <1>t, <1>u, Zenon DEF InTurn, Sibling, Active
    <3>5. LoggedCommitted'
      BY <3>2, <3>3, <2>1, <1>t, <1>u, Zenon DEF LoggedCommitted, Accepted
    <3>6. LogOrder'
      <4>. SUFFICES ASSUME NEW k \in 1 .. Len(log'), NEW l \in 1 .. Len(log'), k < l,
                           entityOf[log'[k]] = entityOf[log'[l]]
                    PROVE  log'[k] <= log'[l]
        BY <1>u, Zenon DEF LogOrder, Sibling
      <4>1. k \in 1 .. Len(log)
        BY <3>1
      <4>2. CASE l \in 1 .. Len(log)
        BY <4>1, <4>2, <3>1, <1>t, Zenon DEF LogOrder, Sibling
      <4>3. CASE l = Len(log) + 1
        BY <4>1, <4>3, <3>1, <3>3, Zenon DEF Sibling
      <4>. QED  BY <4>2, <4>3, <3>1
    <3>7. HandInTurn(r)'
      <4>1. \A i \in batch[r] : Sibling(i, o) => i = o
        BY <2>2, <1>t, Zenon DEF HandInTurn
      <4>a. \A i \in cand[r] \cup batch[r] : Accepted(i)'
        BY <2>1, <1>t, <1>u, Zenon DEF HandInTurn, Accepted
      <4>2. \A i \in cand[r] \cup batch[r] : \A j \in Logged' : Sibling(i, j)' => j <= i
        <5>. SUFFICES ASSUME NEW i \in cand[r] \cup batch[r], NEW j \in Logged',
                             Sibling(i, j)
                      PROVE  j <= i
          BY <1>u, Zenon DEF Sibling
        <5>1. Accepted(i) /\ \A k \in Logged : Sibling(i, k) => k <= i
          BY <1>t, Zenon DEF HandInTurn
        <5>2. CASE j = o
          <6>1. CASE i \in batch[r]
            BY <6>1, <5>1, <5>2, <4>1, <2>2 DEF Ids
          <6>2. CASE i \in cand[r]
            BY <6>2, <2>1, <1>t, Zenon DEF HandInTurn
          <6>. QED  BY <6>1, <6>2, Zenon
        <5>. QED  BY <5>1, <5>2, <3>2, Zenon
      <4>3. \A i \in batch[r] : \A j \in Ids : Sibling(i, j)' /\ j < i => ~Active(j)'
        BY <2>1, <1>t, <1>u, Zenon DEF HandInTurn, Sibling, Active
      <4>. QED  BY <4>a, <4>2, <4>3, <2>1, <1>t, <1>u, Zenon DEF HandInTurn, Sibling
    <3>. QED  BY <3>4, <3>5, <3>6, <3>7, Zenon DEF TurnInv
  <2>. QED  BY <2>0, <2>3, <2>4, Zenon
<1>6. CASE Mark(r)
  <2>. DEFINE o == Oldest(batch[r])
  <2>0. /\ phase[r] = "marking" /\ phase'[r] \in {"idle", "sending"}
        /\ UNCHANGED <<cand, log>> /\ batch'[r] \subseteq batch[r]
    BY <1>6, <1>t, Zenon DEF Mark, TypeOK
  <2>1. \/ status' = status
        \/ /\ status[o] = "Publishing"
           /\ status' = [status EXCEPT ![o] = MarkedAs(outcome[r] = "ok")]
    BY <1>6, Zenon DEF Mark, Holds
  <2>2. \A i \in Ids : /\ Active(i)' => Active(i)
                       /\ status'[i] = "Publishing" => status[i] = "Publishing"
                       /\ status[i] # "Absent" => status'[i] # "Absent"
    BY <2>1, <1>t, Zenon DEF MarkedAs, TypeOK, Active
  <2>3. Logged' = Logged /\ \A i \in Ids : Accepted(i) => Accepted(i)'
    BY <2>0, <2>2, <1>u, Zenon DEF Logged, Accepted
  <2>4. InTurn'
    BY <2>2, <2>3, <1>t, <1>u, Zenon DEF InTurn, Sibling
  <2>5. LoggedCommitted' /\ LogOrder'
    BY <2>0, <2>3, <1>t, <1>u, <1>b, Zenon DEF LoggedCommitted, LogOrder, Sibling
  <2>6. HandInTurn(r)'
    BY <2>0, <2>2, <2>3, <1>t, <1>u, <1>b, Zenon DEF HandInTurn, Sibling
  <2>. QED  BY <2>4, <2>5, <2>6, Zenon DEF TurnInv
<1>. QED  BY <1>1, <1>2, <1>3, <1>4, <1>5, <1>6, Zenon DEF RelayStep

\* Every step keeps the rows of an entity in turn when there is one relay.
LEMMA TurnStep ==
    ASSUME \A q, r \in Relays : q = r
    PROVE  OrderInv /\ TurnInv /\ [Next]_vars => TurnInv'
<1>. SUFFICES ASSUME OrderInv, TurnInv, [Next]_vars PROVE TurnInv'
  BY Zenon
<1>. USE MaxRowsAssumption
<1>t. TypeOK /\ \A i \in Ids : Active(i) => payload[i] # 0
  BY Zenon DEF OrderInv, TypeInv, Core, Carries, Active
<1>1. CASE UNCHANGED vars
  <2>1. UNCHANGED <<status, entityOf, payload, phase, cand, seen, stale, batch, log>>
    BY <1>1, Zenon DEF vars, rowVars, relayVars
  <2>. QED  BY <2>1, <1>t, TurnTable, Zenon
<1>2. ASSUME NEW w \in Writers, Commit(w) PROVE TurnInv'
  <2>1. \A i \in Ids : status'[i] = IF i \in tx[w].ins THEN "Pending"
                                    ELSE IF i \in tx[w].sup \cup tx[w].dead THEN "Superseded"
                                    ELSE IF i \in tx[w].audit THEN "Failed"
                                    ELSE status[i]
    BY <1>2, Zenon DEF Commit
  <2>2. UNCHANGED <<entityOf, payload, phase, cand, seen, stale, batch, log>>
    BY <1>2, Zenon DEF Commit
  <2>3. \A i \in tx[w].ins : \A k \in Ids : Accepted(k) /\ entityOf[k] = entityOf[i] => k < i
    BY Zenon DEF OrderInv, Order, Ahead, Sibling
  <2>4. /\ \A i \in Ids : status[i] # "Absent" => status'[i] # "Absent"
        /\ \A i \in Ids : status'[i] = "Publishing" => status[i] = "Publishing"
        /\ \A i \in Ids : status'[i] = "Pending" =>
              \/ status[i] = "Pending"
              \/ \A k \in Ids : Accepted(k) /\ entityOf[k] = entityOf'[i] => k < i
    BY <2>1, <2>2, <2>3, Zenon
  <2>. QED  BY <2>2, <2>4, <1>t, TurnTable, Zenon
<1>3. ASSUME NEW w \in Writers, WriterNext(w), ~Commit(w) PROVE TurnInv'
  BY <1>3, <1>t, OpenTxKeepsRows, TurnTable, Zenon
<1>4. ASSUME NEW r \in Relays, RelayStep(r) \/ Abandon(r) PROVE TurnInv'
  BY <1>4, TurnRelay, Zenon
<1>5. ASSUME \/ \E i \in Ids : LeaseExpire(i) \/ BecomeDue(i)
             \/ \E S \in SUBSET Ids : Purge(S)
      PROVE  TurnInv'
  <2>1. UNCHANGED <<entityOf, payload, phase, cand, seen, stale, batch, log>>
    BY <1>5, Zenon DEF LeaseExpire, BecomeDue, Purge, relayVars
  <2>2. \A i \in Ids : status'[i] = status[i] \/ status'[i] = "Purged"
    BY <1>5, Zenon DEF LeaseExpire, BecomeDue, Purge
  <2>. QED  BY <2>1, <2>2, <1>t, TurnTable, Zenon
<1>. QED  BY <1>1, <1>2, <1>3, <1>4, <1>5, Zenon DEF Next

\* A single relay puts the rows of an entity into the topic in enqueue order, for
\* any number of rows, writers and faults: through failed and unanswered
\* publishes, abandoned batches and expired leases a newer row is never followed
\* by an older one.  (Two relays can break this: see the run outbox_log_order.)
THEOREM OneRelayKeepsOrder ==
    ASSUME \A q, r \in Relays : q = r
    PROVE  Spec => []LogOrder
<1>1. Init => OrderInv /\ TurnInv
  BY TypeInit, CoreInit, OrderInit, TurnInit, Zenon DEF OrderInv
<1>2. OrderInv /\ TurnInv /\ [Next]_vars => OrderInv' /\ TurnInv'
  BY OrderStep, TurnStep, Zenon
<1>3. TurnInv => LogOrder
  BY Zenon DEF TurnInv
<1>. QED  BY <1>1, <1>2, <1>3, PTL DEF Spec

-----------------------------------------------------------------------------
(* With one relay the topic only moves forward through committed states *)

\* States grow with enqueue_order: a row carries a state no older than those of
\* the rows before it and no newer than its owner's, and what an open
\* transaction has inserted is at least as new as what is committed.
Climbs ==
    /\ \A e \in Entities : domain[e] < nextOrder
    /\ \A w \in Writers : \A i \in tx[w].dead : tx[w].load = 0 /\ payload[i] = i
    /\ \A w \in Writers : \A i \in tx[w].ins \cup tx[w].dead :
          domain[entityOf[i]] <= payload[i]
    /\ \A i \in Ids : Accepted(i) => payload[i] <= domain[entityOf[i]]
    /\ \A i, j \in Ids : Accepted(i) /\ Accepted(j) /\ Sibling(i, j) /\ i < j
                         => payload[i] <= payload[j]

\* Nothing is committed or inserted at first.
LEMMA ClimbsInit == Init => Climbs
<1>. SUFFICES ASSUME Init PROVE Climbs
  BY Zenon
<1>1. \A w \in Writers : tx[w].ins = {} /\ tx[w].dead = {}
  BY Zenon DEF Init, NoTx
<1>2. \A i \in Ids : ~Accepted(i)
  BY Zenon DEF Init, Accepted
<1>3. \A e \in Entities : domain[e] < nextOrder
  BY DEF Init
<1>. QED  BY <1>1, <1>2, <1>3, Zenon DEF Climbs

\* Steps that insert nothing and commit nothing.
LEMMA ClimbsFrame ==
    ASSUME TypeOK, Climbs, UNCHANGED <<entityOf, payload, domain, nextOrder>>,
           \A i \in Ids : Accepted(i)' => Accepted(i),
           \A w \in Writers : \/ tx'[w] = tx[w]
                              \/ tx'[w].ins = {} /\ tx'[w].dead = {}
    PROVE  Climbs'
<1>1. \A w \in Writers : /\ \A i \in tx'[w].dead : i \in tx[w].dead /\ tx'[w] = tx[w]
                         /\ \A i \in tx'[w].ins : i \in tx[w].ins
  BY Zenon
<1>2. \A w \in Writers : \A i \in tx'[w].dead : tx'[w].load = 0 /\ payload'[i] = i
  BY <1>1, Zenon DEF Climbs
<1>3. \A w \in Writers : \A i \in tx'[w].ins \cup tx'[w].dead :
         domain'[entityOf'[i]] <= payload'[i]
  BY <1>1, Zenon DEF Climbs
<1>4. \A i \in Ids : Accepted(i)' => payload'[i] <= domain'[entityOf'[i]]
  BY Zenon DEF Climbs
<1>5. \A i, j \in Ids : Accepted(i)' /\ Accepted(j)' /\ Sibling(i, j)' /\ i < j
                        => payload'[i] <= payload'[j]
  BY Zenon DEF Climbs, Sibling
<1>6. \A e \in Entities : domain'[e] < nextOrder'
  BY Zenon DEF Climbs
<1>. QED  BY <1>2, <1>3, <1>4, <1>5, <1>6, Zenon DEF Climbs

\* An enqueue inserts its own ordinal, newer than every state there is, or the
\* committed state a resync loaded under the entity's lock.
LEMMA ClimbsInsert ==
    ASSUME OrderInv, Climbs, NEW w \in Writers, NEW e \in Entities, NEW state \in States,
           InsertPending(w, e, state),
           \/ tx[w].load = 0 /\ state = nextOrder
           \/ tx[w].load # 0 /\ state = tx[w].load /\ tx[w].ins = {} /\ e \in tx[w].locks
    PROVE  Climbs'
<1>. USE MaxRowsAssumption
<1>t. tx \in [Writers -> Txs] /\ TypeOK /\ Order
  BY Zenon DEF OrderInv, TypeInv, TypeOK
<1>n. nextOrder \in Ids /\ nextOrder' = nextOrder + 1
  BY Zenon DEF InsertPending
<1>u. UNCHANGED <<status, domain>>
  BY Zenon DEF InsertPending
<1>c. \A i \in Ids : i # nextOrder => /\ payload'[i] = payload[i]
                                      /\ entityOf'[i] = entityOf[i]
  BY <1>t, Zenon DEF InsertPending, TypeOK
<1>d. payload'[nextOrder] = state /\ entityOf'[nextOrder] = e
  BY <1>t, <1>n, Zenon DEF InsertPending, TypeOK
<1>0. \A v \in Writers : tx'[v] = IF v = w THEN AfterInsert(w, e) ELSE tx[v]
  BY <1>t, Zenon DEF InsertPending
<1>f. /\ AfterInsert(w, e).load = tx[w].load
      /\ AfterInsert(w, e).dead = tx[w].dead \cup {i \in tx[w].ins : entityOf[i] = e}
      /\ AfterInsert(w, e).ins = {i \in tx[w].ins : entityOf[i] # e} \cup {nextOrder}
  BY <1>t, Zenon DEF AfterInsert, Txs
<1>x. \A v \in Writers : tx[v].ins \in SUBSET Ids /\ tx[v].dead \in SUBSET Ids
  BY <1>t, Zenon DEF Txs
<1>o. \A i \in Ids : i < nextOrder => i # nextOrder
  BY <1>n DEF Ids
<1>s. \A v \in Writers : \A i \in tx[v].ins \cup tx[v].dead :
         i # nextOrder /\ entityOf'[i] = entityOf[i] /\ payload'[i] = payload[i]
  BY <1>x, <1>c, <1>o, Zenon DEF OrderInv, Core, Allocated
<1>a. \A i \in Ids : Accepted(i)' => /\ Accepted(i) /\ entityOf'[i] = entityOf[i]
                                     /\ payload'[i] = payload[i]
  <2>1. \A i \in Ids : status[i] # "Absent" => i < nextOrder
    BY Zenon DEF OrderInv, Core, Allocated
  <2>. QED  BY <2>1, <1>c, <1>u, <1>o, Zenon DEF Accepted
<1>1. \A f \in Entities : domain'[f] < nextOrder'
  <2>1. \A f \in Entities : domain[f] \in Int /\ domain[f] < nextOrder
    BY <1>t DEF Climbs, TypeOK, States
  <2>. QED  BY <2>1, <1>n, <1>u DEF Ids
<1>2. \A v \in Writers : \A i \in tx'[v].dead : tx'[v].load = 0 /\ payload'[i] = i
  <2>. SUFFICES ASSUME NEW v \in Writers, NEW i \in tx'[v].dead
                PROVE  tx'[v].load = 0 /\ payload'[i] = i
    BY Zenon
  <2>1. CASE i \in tx[v].dead
    BY <2>1, <1>0, <1>f, <1>s, Zenon DEF Climbs
  <2>2. CASE i \notin tx[v].dead
    <3>1. v = w /\ i \in tx[w].ins
      BY <2>2, <1>0, <1>f, Zenon
    <3>. QED  BY <3>1, <1>0, <1>f, <1>s, <1>t, Zenon DEF Order, Loaded
  <2>. QED  BY <2>1, <2>2, Zenon
<1>3. \A v \in Writers : \A i \in tx'[v].ins \cup tx'[v].dead :
         domain'[entityOf'[i]] <= payload'[i]
  <2>. SUFFICES ASSUME NEW v \in Writers, NEW i \in tx'[v].ins \cup tx'[v].dead
                PROVE  domain[entityOf'[i]] <= payload'[i]
    BY <1>u, Zenon
  <2>1. CASE i \in tx[v].ins \cup tx[v].dead
    BY <2>1, <1>s, Zenon DEF Climbs
  <2>2. CASE i \notin tx[v].ins \cup tx[v].dead
    <3>1. i = nextOrder
      BY <2>2, <1>0, <1>f
    <3>2. domain[e] \in Int /\ domain[e] <= state
      <4>1. CASE tx[w].load = 0 /\ state = nextOrder
        BY <4>1, <1>t, <1>n DEF Climbs, TypeOK, States, Ids
      <4>2. CASE tx[w].load # 0 /\ state = tx[w].load /\ e \in tx[w].locks
        BY <4>2, <1>t DEF Order, Loaded, TypeOK, States
      <4>. QED  BY <4>1, <4>2, Zenon
    <3>. QED  BY <3>1, <3>2, <1>d, Zenon
  <2>. QED  BY <2>1, <2>2, Zenon
<1>4. \A i \in Ids : Accepted(i)' => payload'[i] <= domain'[entityOf'[i]]
  BY <1>a, <1>u, Zenon DEF Climbs
<1>5. \A i, j \in Ids : Accepted(i)' /\ Accepted(j)' /\ Sibling(i, j)' /\ i < j
                        => payload'[i] <= payload'[j]
  BY <1>a, Zenon DEF Climbs, Sibling
<1>. QED  BY <1>1, <1>2, <1>3, <1>4, <1>5, Zenon DEF Climbs

\* An audit row changes no state.
LEMMA ClimbsReject ==
    ASSUME OrderInv, Climbs, NEW w \in Writers, NEW e \in Entities, EnqueueRejected(w, e)
    PROVE  Climbs'
<1>. USE MaxRowsAssumption
<1>t. tx \in [Writers -> Txs] /\ TypeOK
  BY Zenon DEF OrderInv, TypeInv, TypeOK
<1>u. UNCHANGED <<status, payload, domain>> /\ nextOrder' = nextOrder + 1
  BY Zenon DEF EnqueueRejected
<1>f. \A v \in Writers : /\ tx'[v].load = tx[v].load /\ tx'[v].dead = tx[v].dead
                         /\ tx'[v].ins = tx[v].ins
  BY <1>t, Zenon DEF EnqueueRejected, Txs
<1>x. \A v \in Writers : tx[v].ins \in SUBSET Ids /\ tx[v].dead \in SUBSET Ids
  BY <1>t, Zenon DEF Txs
<1>c. \A i \in Ids : i < nextOrder => entityOf'[i] = entityOf[i]
  BY <1>t DEF EnqueueRejected, TypeOK, Ids
<1>s. \A v \in Writers : \A i \in tx[v].ins \cup tx[v].dead : entityOf'[i] = entityOf[i]
  BY <1>x, <1>c, Zenon DEF OrderInv, Core, Allocated
<1>a. \A i \in Ids : Accepted(i)' => Accepted(i) /\ entityOf'[i] = entityOf[i]
  BY <1>c, <1>u, Zenon DEF Accepted, OrderInv, Core, Allocated
<1>1. \A f \in Entities : domain'[f] < nextOrder'
  <2>1. \A f \in Entities : domain[f] \in Int /\ domain[f] < nextOrder
    BY <1>t DEF Climbs, TypeOK, States
  <2>2. nextOrder \in Int
    BY <1>t DEF TypeOK
  <2>. QED  BY <2>1, <2>2, <1>u
<1>2. \A v \in Writers : \A i \in tx'[v].dead : tx'[v].load = 0 /\ payload'[i] = i
  BY <1>f, <1>u, Zenon DEF Climbs
<1>3. \A v \in Writers : \A i \in tx'[v].ins \cup tx'[v].dead :
         domain'[entityOf'[i]] <= payload'[i]
  BY <1>f, <1>s, <1>u, Zenon DEF Climbs
<1>4. \A i \in Ids : Accepted(i)' => payload'[i] <= domain'[entityOf'[i]]
  BY <1>a, <1>u, Zenon DEF Climbs
<1>5. \A i, j \in Ids : Accepted(i)' /\ Accepted(j)' /\ Sibling(i, j)' /\ i < j
                        => payload'[i] <= payload'[j]
  BY <1>a, <1>u, Zenon DEF Climbs, Sibling
<1>. QED  BY <1>1, <1>2, <1>3, <1>4, <1>5, Zenon DEF Climbs

\* What a commit makes of the owner's state: its own row for the entity, if it
\* is a live write that has one, and nothing else.
LEMMA CommitAdvances ==
    ASSUME OrderInv, Climbs, NEW w \in Writers, Commit(w), NEW e \in Entities
    PROVE  /\ domain'[e] \in States /\ domain'[e] < nextOrder /\ domain[e] <= domain'[e]
           /\ e \notin tx[w].locks => domain'[e] = domain[e]
           /\ \A i \in tx[w].ins \cup tx[w].dead :
                 entityOf[i] = e => payload[i] <= domain'[e]
<1>. USE MaxRowsAssumption
<1>t. tx \in [Writers -> Txs] /\ TypeOK /\ Order
  BY Zenon DEF OrderInv, TypeInv, TypeOK
<1>x. tx[w].ins \in SUBSET Ids /\ tx[w].dead \in SUBSET Ids
  BY <1>t, Zenon DEF Txs
<1>d. domain'[e] = CommittedState(w, e)
  BY Zenon DEF Commit
<1>g. domain[e] \in States /\ domain[e] < nextOrder
  BY <1>t, Zenon DEF TypeOK, Climbs
<1>1. CASE tx[w].load = 0 /\ \E i \in tx[w].ins : entityOf[i] = e
  <2>1. PICK j \in tx[w].ins : entityOf[j] = e /\ domain'[e] = j
    BY <1>1, <1>d, Zenon DEF CommittedState
  <2>2. j \in Ids /\ j < nextOrder /\ j \in States /\ e \in tx[w].locks
    BY <2>1, <1>x, <1>t DEF OrderInv, Core, Allocated, Ids, States, Order, Exclusive
  <2>3. payload[j] = j /\ domain[e] <= payload[j]
    BY <2>1, <1>1, <1>t, Zenon DEF Order, Loaded, Climbs
  <2>4. ASSUME NEW i \in tx[w].ins, entityOf[i] = e PROVE payload[i] <= j
    <3>1. i = j
      BY <2>1, <2>4, <1>t, Zenon DEF Order, Supersedes, Sibling
    <3>. QED  BY <3>1, <2>3, <2>2 DEF Ids
  <2>5. ASSUME NEW i \in tx[w].dead, entityOf[i] = e PROVE payload[i] <= j
    <3>1. PICK k \in tx[w].ins : i < k /\ entityOf[i] = entityOf[k]
      BY Zenon DEF OrderInv, Core, WriterReplaces, Sibling
    <3>2. k = j
      BY <3>1, <2>1, <2>5, <1>t, Zenon DEF Order, Supersedes, Sibling
    <3>3. payload[i] = i /\ i \in Ids
      BY <1>x, Zenon DEF Climbs
    <3>. QED  BY <3>1, <3>2, <3>3, <2>2 DEF Ids
  <2>. QED  BY <2>1, <2>2, <2>3, <2>4, <2>5, Zenon
<1>2. CASE ~(tx[w].load = 0 /\ \E i \in tx[w].ins : entityOf[i] = e)
  <2>1. domain'[e] = domain[e]
    BY <1>2, <1>d, Zenon DEF CommittedState
  <2>2. ASSUME NEW i \in tx[w].ins \cup tx[w].dead, entityOf[i] = e
        PROVE  payload[i] <= domain[e]
    <3>1. tx[w].load # 0
      <4>. SUFFICES ASSUME i \in tx[w].dead PROVE tx[w].load # 0
        BY <2>2, <1>2, Zenon
      <4>1. PICK k \in tx[w].ins : entityOf[i] = entityOf[k]
        BY Zenon DEF OrderInv, Core, WriterReplaces, Sibling
      <4>. QED  BY <4>1, <2>2, <1>2, Zenon
    <3>2. i \in tx[w].ins
      BY <3>1, <2>2, Zenon DEF Climbs
    <3>3. payload[i] = tx[w].load /\ domain[entityOf[i]] = tx[w].load
      BY <3>1, <3>2, <1>t, Zenon DEF Order, Loaded, Exclusive
    <3>. QED  BY <3>3, <2>2, <1>g DEF States
  <2>. QED  BY <2>1, <2>2, <1>g DEF States
<1>. QED  BY <1>1, <1>2, Zenon

\* A commit appends the transaction's rows to the entity's history.
LEMMA ClimbsCommit ==
    ASSUME OrderInv, Climbs, NEW w \in Writers, Commit(w)
    PROVE  Climbs'
<1>. USE MaxRowsAssumption
<1>t. tx \in [Writers -> Txs] /\ TypeOK /\ Order
  BY Zenon DEF OrderInv, TypeInv, TypeOK
<1>u. UNCHANGED <<entityOf, payload, nextOrder>>
  BY Zenon DEF Commit
<1>0. \A v \in Writers : tx'[v] = IF v = w THEN NoTx ELSE tx[v]
  BY <1>t, Zenon DEF Commit
<1>n. NoTx.ins = {} /\ NoTx.dead = {}
  BY Zenon DEF NoTx
<1>x. \A v \in Writers : tx[v].ins \in SUBSET Ids /\ tx[v].dead \in SUBSET Ids
  BY <1>t, Zenon DEF Txs
<1>y. /\ \A i \in Ids : entityOf[i] \in Entities /\ payload[i] \in Int
      /\ \A e \in Entities : domain[e] \in Int /\ domain'[e] \in Int
  BY <1>t, CommitAdvances DEF TypeOK, States
<1>a. \A i \in Ids : Accepted(i)' => Accepted(i) \/ i \in tx[w].ins \cup tx[w].dead
  BY CommitAccepts, Zenon
<1>1. \A e \in Entities : domain'[e] < nextOrder'
  BY <1>u, CommitAdvances, Zenon
<1>2. \A v \in Writers : \A i \in tx'[v].dead : tx'[v].load = 0 /\ payload'[i] = i
  BY <1>0, <1>n, <1>u, Zenon DEF Climbs
<1>3. \A v \in Writers : \A i \in tx'[v].ins \cup tx'[v].dead :
         domain'[entityOf'[i]] <= payload'[i]
  <2>. SUFFICES ASSUME NEW v \in Writers, NEW i \in tx'[v].ins \cup tx'[v].dead
                PROVE  domain'[entityOf[i]] <= payload[i]
    BY <1>u, Zenon
  <2>1. v # w /\ i \in tx[v].ins \cup tx[v].dead /\ i \in Ids
    BY <1>0, <1>n, <1>x, Zenon
  <2>2. entityOf[i] \in Entities /\ entityOf[i] \notin tx[w].locks
    BY <2>1, <1>t, <1>y, Zenon DEF Order, Exclusive
  <2>3. domain'[entityOf[i]] = domain[entityOf[i]]
    BY <2>2, CommitAdvances, Zenon
  <2>. QED  BY <2>1, <2>3, Zenon DEF Climbs
<1>4. \A i \in Ids : Accepted(i)' => payload'[i] <= domain'[entityOf'[i]]
  <2>. SUFFICES ASSUME NEW i \in Ids, Accepted(i)' PROVE payload[i] <= domain'[entityOf[i]]
    BY <1>u, Zenon
  <2>1. CASE Accepted(i)
    <3>1. payload[i] <= domain[entityOf[i]] /\ domain[entityOf[i]] <= domain'[entityOf[i]]
      BY <2>1, <1>y, CommitAdvances, Zenon DEF Climbs
    <3>. QED  BY <3>1, <1>y
  <2>2. CASE i \in tx[w].ins \cup tx[w].dead
    BY <2>2, <1>y, CommitAdvances, Zenon
  <2>. QED  BY <2>1, <2>2, <1>a, Zenon
<1>5. \A i, j \in Ids : Accepted(i)' /\ Accepted(j)' /\ Sibling(i, j)' /\ i < j
                        => payload'[i] <= payload'[j]
  <2>. SUFFICES ASSUME NEW i \in Ids, NEW j \in Ids, Accepted(i)', Accepted(j)',
                       Sibling(i, j), i < j
                PROVE  payload[i] <= payload[j]
    BY <1>u, Zenon DEF Sibling
  <2>1. CASE Accepted(i) /\ Accepted(j)
    BY <2>1, Zenon DEF Climbs
  <2>2. CASE Accepted(i) /\ j \in tx[w].ins \cup tx[w].dead
    <3>1. payload[i] <= domain[entityOf[i]] /\ domain[entityOf[j]] <= payload[j]
      BY <2>2, Zenon DEF Climbs
    <3>. QED  BY <3>1, <1>y DEF Sibling
  <2>3. CASE i \in tx[w].ins \cup tx[w].dead /\ Accepted(j)
    <3>1. j < i
      BY <2>3, <1>t, Zenon DEF Order, Ahead, Sibling
    <3>. QED  BY <3>1 DEF Ids
  <2>4. CASE i \in tx[w].ins \cup tx[w].dead /\ j \in tx[w].ins \cup tx[w].dead
    <3>1. CASE tx[w].load = 0
      <4>1. payload[i] = i /\ payload[j] = j
        BY <3>1, <2>4, <1>t, Zenon DEF Order, Loaded, Climbs
      <4>. QED  BY <4>1 DEF Ids
    <3>2. CASE tx[w].load # 0
      <4>1. i \in tx[w].ins /\ j \in tx[w].ins
        BY <3>2, <2>4, Zenon DEF Climbs
      <4>2. i = j
        BY <4>1, <1>t, Zenon DEF Order, Supersedes
      <4>. QED  BY <4>2 DEF Ids
    <3>. QED  BY <3>1, <3>2, Zenon
  <2>. QED  BY <2>1, <2>2, <2>3, <2>4, <1>a, Zenon
<1>. QED  BY <1>1, <1>2, <1>3, <1>4, <1>5, Zenon DEF Climbs

\* Every step of the system keeps the states climbing, whatever the number of
\* relays.
LEMMA ClimbsStep == OrderInv /\ Climbs /\ [Next]_vars => Climbs'
<1>. SUFFICES ASSUME OrderInv, Climbs, [Next]_vars PROVE Climbs'
  BY Zenon
<1>. USE MaxRowsAssumption
<1>t. tx \in [Writers -> Txs] /\ TypeOK /\ Committed
  BY Zenon DEF OrderInv, TypeInv, TypeOK
<1>1. CASE UNCHANGED vars
  <2>1. UNCHANGED <<status, entityOf, payload, domain, nextOrder, tx>>
    BY <1>1, Zenon DEF vars, rowVars
  <2>. QED  BY <2>1, <1>t, ClimbsFrame, Zenon DEF Accepted
<1>2. ASSUME NEW w \in Writers, WriterNext(w) PROVE Climbs'
  <2>1. CASE \/ \E iso \in Isolation : Begin(w, iso)
             \/ \E e \in Entities : ResyncLoad(w, e)
             \/ Rollback(w)
    <3>1. UNCHANGED <<status, entityOf, payload, domain, nextOrder>>
      BY <2>1, Zenon DEF Begin, ResyncLoad, Rollback, rowVars
    <3>2. \A v \in Writers : v # w => tx'[v] = tx[v]
      BY <2>1, <1>t, Zenon DEF Begin, ResyncLoad, Rollback
    <3>3. tx'[w].ins = {} /\ tx'[w].dead = {}
      <4>1. CASE \E iso \in Isolation : Begin(w, iso)
        BY <4>1, <1>t DEF Begin, NoTx
      <4>2. CASE \E e \in Entities : ResyncLoad(w, e)
        BY <4>2, <1>t, Zenon DEF ResyncLoad, NoTx
      <4>3. CASE Rollback(w)
        BY <4>3, <1>t, Zenon DEF Rollback, NoTx
      <4>. QED  BY <2>1, <4>1, <4>2, <4>3, Zenon
    <3>. QED  BY <3>1, <3>2, <3>3, <1>t, ClimbsFrame, Zenon DEF Accepted
  <2>2. ASSUME NEW e \in Entities, Enqueue(w, e) PROVE Climbs'
    <3>1. nextOrder \in States /\ tx[w].load = 0 /\ InsertPending(w, e, nextOrder)
      BY <2>2 DEF Enqueue, InsertPending, Ids, States
    <3>. QED  BY <3>1, ClimbsInsert, Zenon
  <2>3. ASSUME NEW e \in Entities, ResyncEnqueue(w, e) PROVE Climbs'
    <3>1. /\ tx[w].load \in States /\ tx[w].load # 0 /\ tx[w].ins = {}
          /\ e \in tx[w].locks /\ InsertPending(w, e, tx[w].load)
      BY <2>3, <1>t, Zenon DEF ResyncEnqueue, Txs
    <3>. QED  BY <3>1, ClimbsInsert, Zenon
  <2>. QED  BY <2>1, <2>2, <2>3, <1>2, ClimbsReject, ClimbsCommit, Zenon DEF WriterNext
<1>3. ASSUME NEW r \in Relays, RelayStep(r) \/ Abandon(r) PROVE Climbs'
  <2>1. UNCHANGED <<entityOf, payload, domain, nextOrder, tx>>
    BY <1>3, Zenon DEF RelayStep, Collapse, ClaimRead, ClaimWrite, ClaimCommit, Publish,
                PublishRow, Mark, Abandon, rowVars
  <2>2. \A i \in Ids : Accepted(i)' => Accepted(i)
    BY <2>1, <1>3, <1>t, RelayKeepsRows, Zenon DEF Accepted
  <2>. QED  BY <2>1, <2>2, <1>t, ClimbsFrame, Zenon
<1>4. ASSUME \/ \E i \in Ids : LeaseExpire(i) \/ BecomeDue(i)
             \/ \E S \in SUBSET Ids : Purge(S)
      PROVE  Climbs'
  <2>1. UNCHANGED <<entityOf, payload, domain, nextOrder, tx>>
    BY <1>4, Zenon DEF LeaseExpire, BecomeDue, Purge
  <2>2. \A i \in Ids : Accepted(i)' => Accepted(i)
    BY <2>1, <1>4, <1>t, TimeKeepsRows, Zenon DEF Accepted
  <2>. QED  BY <2>1, <2>2, <1>t, ClimbsFrame, Zenon
<1>. QED  BY <1>1, <1>2, <1>3, <1>4, Zenon DEF Next

\* A non-empty set of positions has a last one.
LEMMA LastPosition ==
    ASSUME NEW n \in Nat, NEW S \in SUBSET (1 .. n), S # {}
    PROVE  \E k \in S : \A l \in S : l <= k
<1>. DEFINE T == {n - k : k \in S}
<1>a. \A k \in S : n - k \in Nat
  OBVIOUS
<1>0. T \subseteq Nat /\ T # {}
  BY <1>a, Zenon
<1>1. \E x \in T : \A y \in T : ~ (<<y, x>> \in OpToRel(<, Nat))
  BY <1>0, NatLessThanWellFounded, WFMin, Zenon
<1>b. \A x, y \in T : ~ (<<y, x>> \in OpToRel(<, Nat)) => x <= y
  <2>. HIDE DEF T
  <2>. QED  BY <1>0 DEF OpToRel
<1>2. PICK x \in T : \A y \in T : x <= y
  <2>. HIDE DEF T
  <2>. QED  BY <1>1, <1>b, Zenon
<1>3. PICK k \in S : x = n - k
  BY <1>2, Zenon
<1>4. \A l \in S : n - k <= n - l
  BY <1>2, <1>3, Zenon
<1>. QED  BY <1>3, <1>4

\* What a compacted topic retains for an entity: nothing, or the state of the
\* last record with its key.
LEMMA RetainedIs ==
    ASSUME log \in Seq(Ids), NEW e
    PROVE  \/ /\ \A k \in 1 .. Len(log) : entityOf[log[k]] # e
              /\ Retained(e) = 0
           \/ \E k \in 1 .. Len(log) :
                 /\ entityOf[log[k]] = e
                 /\ \A l \in 1 .. Len(log) : entityOf[log[l]] = e => l <= k
                 /\ Retained(e) = payload[log[k]]
<1>. DEFINE at == {k \in 1 .. Len(log) : entityOf[log[k]] = e}
<1>0. Len(log) \in Nat /\ at \in SUBSET (1 .. Len(log))
  OBVIOUS
<1>1. CASE at = {}
  BY <1>1, Zenon DEF Retained
<1>2. CASE at # {}
  <2>1. \E k \in at : \A l \in at : l <= k
    BY <1>0, <1>2, LastPosition, Zenon
  <2>2. PICK k \in at : /\ k = CHOOSE m \in at : \A l \in at : l <= m
                        /\ \A l \in at : l <= k
    BY <2>1, Zenon
  <2>3. Retained(e) = payload[log[k]]
    BY <2>2, <1>2, Zenon DEF Retained
  <2>. QED  BY <2>2, <2>3, Zenon
<1>. QED  BY <1>1, <1>2, Zenon

\* Records keep what they retain while the topic and the rows in it stay.
LEMMA RetainedStays ==
    ASSUME log \in Seq(Ids), log' = log, NEW e,
           \A i \in Logged : entityOf'[i] = entityOf[i] /\ payload'[i] = payload[i]
    PROVE  Retained(e)' = Retained(e)
<1>. DEFINE at == {k \in 1 .. Len(log) : entityOf[log[k]] = e}
            at2 == {k \in 1 .. Len(log') : entityOf'[log'[k]] = e}
<1>1. \A k \in 1 .. Len(log) : log[k] \in Logged
  BY Zenon DEF Logged
<1>2. at2 = at
  BY <1>1, Zenon
<1>3. Retained(e) = IF at = {} THEN 0
                    ELSE payload[log[CHOOSE k \in at : \A l \in at : l <= k]]
  BY Zenon DEF Retained
<1>4. Retained(e)' = IF at2 = {} THEN 0
                     ELSE payload'[log'[CHOOSE k \in at2 : \A l \in at2 : l <= k]]
  BY Zenon DEF Retained
<1>5. at # {} => (CHOOSE k \in at : \A l \in at : l <= k) \in at
  <2>1. Len(log) \in Nat /\ at \in SUBSET (1 .. Len(log))
    OBVIOUS
  <2>2. at # {} => \E k \in at : \A l \in at : l <= k
    BY <2>1, LastPosition, Zenon
  <2>. HIDE DEF at
  <2>. QED  BY <2>2, Zenon
<1>6. at # {} => log[CHOOSE k \in at : \A l \in at : l <= k] \in Logged
  BY <1>1, <1>5, Zenon
<1>. HIDE DEF at, at2
<1>. QED  BY <1>2, <1>3, <1>4, <1>6

\* One more record: its entity's state is now the record's, the others stay.
LEMMA RetainedAppend ==
    ASSUME TypeOK, NEW i \in Ids, log' = Append(log, i), UNCHANGED <<entityOf, payload>>,
           NEW e
    PROVE  Retained(e)' = IF e = entityOf[i] THEN payload[i] ELSE Retained(e)
<1>. DEFINE n == Len(log)
            at == {k \in 1 .. Len(log) : entityOf[log[k]] = e}
            at2 == {k \in 1 .. Len(log') : entityOf'[log'[k]] = e}
<1>0. /\ n \in Nat /\ Len(log') = n + 1 /\ log'[n + 1] = i
      /\ \A k \in 1 .. n : log'[k] = log[k]
  BY LoggedAppend, Zenon
<1>1. Retained(e) = IF at = {} THEN 0
                    ELSE payload[log[CHOOSE k \in at : \A l \in at : l <= k]]
  BY Zenon DEF Retained
<1>2. Retained(e)' = IF at2 = {} THEN 0
                     ELSE payload'[log'[CHOOSE k \in at2 : \A l \in at2 : l <= k]]
  BY Zenon DEF Retained
<1>3. CASE e = entityOf[i]
  <2>1. n + 1 \in at2 /\ \A l \in at2 : l \in Int /\ l <= n + 1
    BY <1>0, <1>3
  <2>2. \A k \in at2 : (\A l \in at2 : l <= k) => k = n + 1
    <3>. HIDE DEF at2, n
    <3>. QED  BY <2>1, <1>0
  <2>3. (CHOOSE k \in at2 : \A l \in at2 : l <= k) = n + 1
    <3>. HIDE DEF at2, n
    <3>. QED  BY <2>1, <2>2, Zenon
  <2>4. at2 # {}
    BY <2>1, Zenon
  <2>. HIDE DEF at2, at, n
  <2>. QED  BY <1>0, <1>2, <1>3, <2>3, <2>4, Zenon
<1>4. CASE e # entityOf[i]
  <2>1. at2 = at
    BY <1>0, <1>4
  <2>2. at # {} => (CHOOSE k \in at : \A l \in at : l <= k) \in at
    <3>1. at \in SUBSET (1 .. n)
      BY Zenon
    <3>2. at # {} => \E k \in at : \A l \in at : l <= k
      BY <3>1, <1>0, LastPosition, Zenon
    <3>. HIDE DEF at
    <3>. QED  BY <3>2, Zenon
  <2>3. \A k \in at : log'[k] = log[k]
    BY <1>0, Zenon
  <2>. DEFINE m == CHOOSE k \in at : \A l \in at : l <= k
  <2>4. Retained(e) = IF at = {} THEN 0 ELSE payload[log[m]]
    BY <1>1, Zenon
  <2>5. Retained(e)' = IF at = {} THEN 0 ELSE payload'[log'[m]]
    BY <1>2, <2>1, Zenon
  <2>6. at # {} => m \in at
    BY <2>2, Zenon
  <2>. HIDE DEF at2, at, n, m
  <2>. QED  BY <1>4, <2>3, <2>4, <2>5, <2>6, Zenon
<1>. QED  BY <1>3, <1>4, Zenon

\* A publish that reaches the topic moves its entity on, or repeats the state
\* the topic already retains.
LEMMA PublishAnnounces ==
    ASSUME OrderInv, TurnInv, Climbs, NEW r \in Relays, Publish(r), log' # log
    PROVE  \/ \E e \in Entities : Topic!Announce(e)
           \/ UNCHANGED <<domain, [e \in Entities |-> Retained(e)]>>
<1>. USE MaxRowsAssumption
<1>t. TypeOK /\ RowInHand /\ LoggedCommitted /\ HandInTurn(r)
  BY Zenon DEF OrderInv, TypeInv, TurnInv
<1>u. UNCHANGED <<entityOf, payload, domain>> /\ phase[r] = "sending"
  BY Zenon DEF Publish, rowVars
<1>o. PICK o \in Ids : o \in batch[r] /\ log' = Append(log, o)
  <2>1. batch[r] # {} /\ batch[r] \in SUBSET Ids
    BY <1>u, <1>t, Zenon DEF RowInHand, TypeOK
  <2>2. Oldest(batch[r]) \in Ids /\ Oldest(batch[r]) \in batch[r]
    BY <2>1, OldestIsLeast, Zenon
  <2>. QED  BY <2>2, Zenon DEF Publish, PublishRow
<1>e. PICK e \in Entities : e = entityOf[o]
  BY <1>o, <1>t, Zenon DEF TypeOK
<1>1. \A f \in Entities : Retained(f)' = IF f = e THEN payload[o] ELSE Retained(f)
  BY <1>t, <1>o, <1>u, <1>e, RetainedAppend, Zenon
<1>2. Accepted(o) /\ payload[o] \in States /\ domain[e] \in States /\ payload[o] <= domain[e]
  BY <1>o, <1>e, <1>t, Zenon DEF HandInTurn, Climbs, TypeOK
<1>3. Retained(e) \in States /\ Retained(e) <= payload[o]
  <2>1. CASE Retained(e) = 0
    BY <2>1, <1>2 DEF States
  <2>2. ASSUME NEW k \in 1 .. Len(log), entityOf[log[k]] = e,
               Retained(e) = payload[log[k]]
        PROVE  Retained(e) \in States /\ Retained(e) <= payload[o]
    <3>1. log[k] \in Logged /\ log[k] \in Ids
      BY <1>t DEF Logged, TypeOK
    <3>2. Accepted(log[k]) /\ payload[log[k]] \in States
      BY <3>1, <1>t, Zenon DEF LoggedCommitted, TypeOK
    <3>3. log[k] <= o
      BY <3>1, <2>2, <1>o, <1>e, <1>t, Zenon DEF HandInTurn, Sibling
    <3>4. CASE log[k] = o
      BY <3>4, <2>2, <1>2 DEF States
    <3>5. CASE log[k] # o
      <4>1. log[k] < o
        BY <3>1, <3>3, <3>5 DEF Ids
      <4>. QED  BY <4>1, <3>1, <3>2, <2>2, <1>2, <1>e, Zenon DEF Climbs, Sibling
    <3>. QED  BY <3>4, <3>5, Zenon
  <2>. QED  BY <2>1, <2>2, <1>t, RetainedIs, Zenon DEF TypeOK
<1>. DEFINE tail == [f \in Entities |-> Retained(f)]
            tail2 == [f \in Entities |-> Retained(f)']
<1>4. CASE Retained(e) = payload[o]
  <2>1. tail2 = tail
    BY <1>1, <1>4, Zenon
  <2>. QED  BY <2>1, <1>u, Zenon
<1>5. CASE Retained(e) # payload[o]
  <2>1. tail[e] < payload[o]
    BY <1>3, <1>2, <1>5 DEF States
  <2>2. tail2 = [tail EXCEPT ![e] = payload[o]]
    BY <1>1, Zenon
  <2>3. Topic!Announce(e)
    BY <2>1, <2>2, <1>2, <1>u, Zenon DEF Topic!Announce, Topic!States, States
  <2>. QED  BY <2>3, Zenon
<1>. QED  BY <1>4, <1>5, Zenon

\* A commit moves some entities to later states, or none; the topic stays.
LEMMA CommitChanges ==
    ASSUME OrderInv, Climbs, NEW w \in Writers, Commit(w)
    PROVE  \/ Topic!Change
           \/ UNCHANGED <<domain, [e \in Entities |-> Retained(e)]>>
<1>. USE MaxRowsAssumption
<1>t. TypeOK
  BY Zenon DEF OrderInv, TypeInv
<1>1. \A e \in Entities : Retained(e)' = Retained(e)
  BY <1>t, RetainedStays, Zenon DEF Commit, TypeOK
<1>2. UNCHANGED [e \in Entities |-> Retained(e)]
  BY <1>1, Zenon
<1>3. domain' \in [Entities -> Topic!States] /\ \A e \in Entities : domain[e] <= domain'[e]
  <2>1. domain' = [e \in Entities |-> CommittedState(w, e)]
    BY Zenon DEF Commit
  <2>2. \A e \in Entities : domain'[e] \in Topic!States /\ domain[e] <= domain'[e]
    BY CommitAdvances, Zenon DEF States, Topic!States
  <2>. QED  BY <2>1, <2>2, Zenon
<1>4. CASE domain' # domain
  BY <1>2, <1>3, <1>4, Zenon DEF Topic!Change
<1>5. CASE domain' = domain
  BY <1>2, <1>5, Zenon
<1>. QED  BY <1>4, <1>5, Zenon

\* Every step of the outbox is a step of the promise, or is invisible to it.
LEMMA TopicStep ==
    OrderInv /\ TurnInv /\ Climbs /\ [Next]_vars
    => [Topic!Next]_<<domain, [e \in Entities |-> Retained(e)]>>
<1>. SUFFICES ASSUME OrderInv, TurnInv, Climbs, [Next]_vars
              PROVE  [Topic!Next]_<<domain, [e \in Entities |-> Retained(e)]>>
  BY Zenon
<1>t. TypeOK /\ LoggedCommitted /\ log \in Seq(Ids)
  BY Zenon DEF OrderInv, TypeInv, TurnInv, TypeOK
<1>q. ASSUME UNCHANGED <<domain, log>>,
             \A i \in Logged : entityOf'[i] = entityOf[i] /\ payload'[i] = payload[i]
      PROVE  UNCHANGED <<domain, [e \in Entities |-> Retained(e)]>>
  <2>1. \A e \in Entities : Retained(e)' = Retained(e)
    BY <1>q, <1>t, RetainedStays, Zenon
  <2>. QED  BY <2>1, <1>q, Zenon
<1>1. CASE UNCHANGED vars
  BY <1>1, <1>q, Zenon DEF vars, rowVars
<1>2. ASSUME NEW w \in Writers, Commit(w)
      PROVE  [Topic!Next]_<<domain, [e \in Entities |-> Retained(e)]>>
  BY <1>2, CommitChanges, Zenon DEF Topic!Next
<1>3. ASSUME NEW w \in Writers, WriterNext(w), ~Commit(w)
      PROVE  [Topic!Next]_<<domain, [e \in Entities |-> Retained(e)]>>
  <2>1. log' = log /\ \A i \in Ids : status[i] # "Absent" => /\ entityOf'[i] = entityOf[i]
                                                             /\ payload'[i] = payload[i]
    BY <1>3, OpenTxKeepsRows, Zenon
  <2>2. domain' = domain
    BY <1>3, Zenon DEF WriterNext, Begin, Enqueue, EnqueueRejected, ResyncLoad, ResyncEnqueue,
                InsertPending, Rollback
  <2>3. \A i \in Logged : i \in Ids /\ status[i] # "Absent"
    BY <1>t DEF LoggedCommitted, Accepted, Logged
  <2>. QED  BY <2>1, <2>2, <2>3, <1>q, Zenon
<1>4. ASSUME NEW r \in Relays, RelayStep(r) \/ Abandon(r)
      PROVE  [Topic!Next]_<<domain, [e \in Entities |-> Retained(e)]>>
  <2>1. UNCHANGED <<entityOf, payload, domain>>
    BY <1>4, Zenon DEF RelayStep, Collapse, ClaimRead, ClaimWrite, ClaimCommit, Publish,
                PublishRow, Mark, Abandon, rowVars
  <2>2. CASE log' = log
    BY <2>1, <2>2, <1>q, Zenon
  <2>3. CASE log' # log
    <3>1. Publish(r)
      BY <1>4, <2>3, Zenon DEF RelayStep, Collapse, ClaimRead, ClaimWrite, ClaimCommit, Mark,
                        Abandon
    <3>. QED  BY <3>1, <2>3, PublishAnnounces, Zenon DEF Topic!Next
  <2>. QED  BY <2>2, <2>3, Zenon
<1>5. ASSUME \/ \E i \in Ids : LeaseExpire(i) \/ BecomeDue(i)
             \/ \E S \in SUBSET Ids : Purge(S)
      PROVE  [Topic!Next]_<<domain, [e \in Entities |-> Retained(e)]>>
  <2>1. UNCHANGED <<entityOf, payload, domain, log>>
    BY <1>5, Zenon DEF LeaseExpire, BecomeDue, Purge
  <2>. QED  BY <2>1, <1>q, Zenon
<1>. QED  BY <1>1, <1>2, <1>3, <1>4, <1>5, Zenon DEF Next

\* With one relay the outbox implements the safety part of SnapshotTopic for any
\* number of entities, writers, rows and faults: seen through a compacted topic,
\* every entity only moves forward, and only through states its owner committed.
\* (That it arrives at the last one is liveness: ImplementsSnapshotTopic, checked
\* by the run outbox_single.)
THEOREM OneRelayImplementsTopic ==
    ASSUME \A q, r \in Relays : q = r
    PROVE  Spec => Topic!Safety
<1>1. Init => OrderInv /\ TurnInv /\ Climbs
  BY TypeInit, CoreInit, OrderInit, TurnInit, ClimbsInit, Zenon DEF OrderInv
<1>2. OrderInv /\ TurnInv /\ Climbs /\ [Next]_vars => OrderInv' /\ TurnInv' /\ Climbs'
  BY OrderStep, TurnStep, ClimbsStep, Zenon
<1>3. Init => Topic!Init
  <2>. SUFFICES ASSUME Init PROVE Topic!Init
    BY Zenon
  <2>1. log = <<>> /\ Len(log) = 0 /\ domain = [e \in Entities |-> 0]
    BY Zenon DEF Init
  <2>2. \A e \in Entities : Retained(e) = 0
    <3>. TAKE e \in Entities
    <3>1. {k \in 1 .. Len(log) : entityOf[log[k]] = e} = {}
      BY <2>1
    <3>. QED  BY <3>1, Zenon DEF Retained
  <2>. QED  BY <2>1, <2>2, Zenon DEF Topic!Init
<1>. QED  BY <1>1, <1>2, <1>3, TopicStep, PTL DEF Spec, Topic!Safety
=============================================================================
