----------------------------- MODULE Storefront -----------------------------
(***************************************************************************)
(* The two example services, each the owner of one entity and a reader of  *)
(* the other's: `order` admits orders against its cache of products, and   *)
(* `product` derives what is available from its cache of orders and        *)
(* announces the result back.                                              *)
(*                                                                         *)
(* Between them are two kafkaman pipelines, taken here at what the other   *)
(* modules establish: the topic moves forward through committed states     *)
(* (SnapshotTopic), every announced state becomes one received row         *)
(* (Ingest), and rows are dispatched in any order behind an offset guard   *)
(* (Dispatch).  A version is the position of a state in its entity's       *)
(* history; within an entity versions and offsets agree.                   *)
(*                                                                         *)
(* Statements of one transaction that other transactions can fall between  *)
(* are steps of their own; READ COMMITTED decides what each one sees.      *)
(***************************************************************************)
EXTENDS Integers, Sequences, FiniteSets

CONSTANTS
    Products,
    Orders,
    ProductOf,    \* what an order asks for ...
    Quantity,     \* ... and how many of it
    Listings,     \* the <<status, on_hand>> pairs products are created with
    Clients,      \* HTTP requests being served at a time
    Dispatchers,  \* loops dispatching orders at `product`
    Serving,      \* those in the process that serves the fault routes
    MaxVersion,   \* versions an announcement may carry
    Budgets,      \* the `remaining` values a fault is armed with
    MaxRequests,  \* bound on order transitions and withdrawals begun
    MaxMishaps,   \* bound on faults armed and dispatchers crashed
    MaxRedrives

\* A status that is none of the named ones is kept as it is.
ProductStatus == {"Draft", "Available", "Discontinued", "Unrecognized"}
OrderStatus == {"Placed", "Fulfilled", "Cancelled"}
Target == {"Fulfilled", "Cancelled"}

ASSUME StorefrontAssumption ==
    /\ IsFiniteSet(Orders)
    /\ ProductOf \in [Orders -> Products]
    /\ Quantity \in [Orders -> Int]
    /\ Listings \subseteq [status : ProductStatus, onHand : Nat]
    /\ Serving \subseteq Dispatchers
    /\ MaxVersion \in Nat
    /\ Budgets \subseteq Nat \cup {-1}

VARIABLES
    products,      \* the states of each product, oldest first; the row is the last
    orders,        \* the statuses of each order, oldest first
    productCache,  \* the version of each product the order service caches
    orderTail,     \* the newest version of each order in its topic
    received,      \* the product service's row for each order version; Pending and
                   \* Retryable rows are both due
    orderCache,
    txn,           \* the open transaction of each dispatcher
    request,       \* the open transaction of each client
    faults,        \* the fault switch
    requests,
    mishaps,
    redrives

vars == <<products, orders, productCache, orderTail, received, orderCache, txn,
          request, faults, requests, mishaps, redrives>>

OrderVersions == 1 .. 3
OrderRows == Orders \X OrderVersions

ProductTopic == INSTANCE SnapshotTopic WITH
    Entities <- Products, MaxState <- MaxVersion, tail <- productCache,
    domain <- [p \in Products |-> Len(products[p])]

OrderTopic == INSTANCE SnapshotTopic WITH
    Entities <- Orders, MaxState <- MaxVersion, tail <- orderTail,
    domain <- [o \in Orders |-> Len(orders[o])]

NoTxn == [step |-> "idle"]
NoRequest == [kind |-> "none"]
Unlimited == -1
Off == [mode |-> "off", remaining |-> Unlimited]

Init ==
    /\ products = [p \in Products |-> << >>]
    /\ orders = [o \in Orders |-> << >>]
    /\ productCache = [p \in Products |-> 0]
    /\ orderTail = [o \in Orders |-> 0]
    /\ received = [r \in OrderRows |-> "absent"]
    /\ orderCache = [o \in Orders |-> 0]
    /\ txn = [d \in Dispatchers |-> NoTxn]
    /\ request = [c \in Clients |-> NoRequest]
    /\ faults = Off
    /\ requests = 0
    /\ mishaps = 0
    /\ redrives = 0

pipeline == <<productCache, orderTail, received>>
owners == <<products, orders>>

-----------------------------------------------------------------------------
(* The product service's requests. *)

\* Mutant: a plain SELECT.
LockedNever(kind, id) == FALSE

\* The row is locked by SELECT ... FOR UPDATE until the request ends.
Locked(kind, id) == \E c \in Clients : request[c].kind = kind /\ request[c].id = id

\* POST /products: insert the row and enqueue its snapshot in one transaction.
\* A second insert of the id is refused.
CreateProduct(p) ==
    /\ products[p] = << >>
    /\ \E l \in Listings :
          products' = [products EXCEPT ![p] =
              <<[status |-> l.status, onHand |-> l.onHand, available |-> l.onHand]>>]
    /\ UNCHANGED <<orders, pipeline, orderCache, txn, request, faults, requests, mishaps, redrives>>

Begin(c, r) ==
    /\ requests < MaxRequests
    /\ requests' = requests + 1
    /\ request[c] = NoRequest
    /\ request' = [request EXCEPT ![c] = r]
    /\ UNCHANGED <<owners, pipeline, orderCache, txn, faults, mishaps, redrives>>

End(c) ==
    /\ request' = [request EXCEPT ![c] = NoRequest]
    /\ UNCHANGED <<pipeline, orderCache, txn, faults, requests, mishaps, redrives>>

\* POST /products/{id}/discontinue: SELECT ... FOR UPDATE.
LockProduct(c, p) ==
    /\ products[p] # << >>
    /\ ~Locked("discontinue", p)
    /\ Begin(c, [kind |-> "discontinue", id |-> p, seen |-> products[p][Len(products[p])].status])

\* ... then UPDATE, enqueue and COMMIT, or COMMIT alone if already withdrawn.
FinishDiscontinue(c) ==
    /\ request[c].kind = "discontinue"
    /\ LET p == request[c].id
           now == products[p][Len(products[p])]
       IN  products' = IF request[c].seen = "Discontinued" THEN products
                       ELSE [products EXCEPT ![p] = Append(@, [now EXCEPT !.status = "Discontinued"])]
    /\ End(c)
    /\ UNCHANGED orders

-----------------------------------------------------------------------------
(* The order service's requests. *)

cached_product(p) == products[p][productCache[p]]

is_orderable(state, quantity) ==
    state.status = "Available" /\ state.available >= quantity

\* Mutant: admits an order without looking at the cache.
ReadOfferUncached(c, o) ==
    /\ Quantity[o] > 0
    /\ orders[o] = << >>
    /\ request[c] = NoRequest
    /\ request' = [request EXCEPT ![c] = [kind |-> "create", id |-> o]]
    /\ UNCHANGED <<owners, pipeline, orderCache, txn, faults, requests, mishaps, redrives>>

\* POST /orders: the cached product must allow the order ...
ReadOffer(c, o) ==
    LET p == ProductOf[o] IN
    /\ Quantity[o] > 0
    /\ orders[o] = << >>
    /\ productCache[p] # 0
    /\ is_orderable(cached_product(p), Quantity[o])
    /\ request[c] = NoRequest
    /\ request' = [request EXCEPT ![c] = [kind |-> "create", id |-> o]]
    /\ UNCHANGED <<owners, pipeline, orderCache, txn, faults, requests, mishaps, redrives>>

\* ... and the row is inserted and announced, unless the id was taken meanwhile.
InsertOrder(c) ==
    /\ request[c].kind = "create"
    /\ LET o == request[c].id
       IN  orders' = IF orders[o] # << >> THEN orders
                     ELSE [orders EXCEPT ![o] = <<"Placed">>]
    /\ End(c)
    /\ UNCHANGED products

is_legal_transition(from, to) ==
    <<from, to>> \in {<<"Placed", "Fulfilled">>, <<"Placed", "Cancelled">>,
                      <<"Fulfilled", "Cancelled">>}

\* POST /orders/{id}/fulfil and /cancel: SELECT ... FOR UPDATE.
LockOrder(c, o, target) ==
    /\ orders[o] # << >>
    /\ ~Locked("transition", o)
    /\ Begin(c, [kind |-> "transition", id |-> o, target |-> target,
                 seen |-> orders[o][Len(orders[o])]])

\* ... then UPDATE, enqueue and COMMIT; a repeated or illegal target changes nothing.
FinishTransition(c) ==
    /\ request[c].kind = "transition"
    /\ LET r == request[c]
       IN  orders' = IF ~is_legal_transition(r.seen, r.target) THEN orders
                     ELSE [orders EXCEPT ![r.id] = Append(@, r.target)]
    /\ End(c)
    /\ UNCHANGED products

\* A client hangs up, or its process dies: the transaction rolls back.
DropRequest(c) ==
    /\ request[c] # NoRequest
    /\ End(c)
    /\ UNCHANGED owners

-----------------------------------------------------------------------------
(* The pipelines. *)

\* The order service keeps products in a cache with no handler: all that shows
\* of relaying, storing and dispatching them is that the cache moves forward.
CacheProduct(p) ==
    /\ UNCHANGED owners
    /\ ProductTopic!Announce(p)
    /\ UNCHANGED <<orderTail, received, orderCache, txn, request, faults, requests,
                   mishaps, redrives>>

\* A snapshot of an order is relayed and stored as a received row.
AnnounceOrder(o) ==
    /\ UNCHANGED owners
    /\ OrderTopic!Announce(o)
    /\ received' = [received EXCEPT ![<<o, orderTail'[o]>>] = "due"]
    /\ UNCHANGED <<productCache, orderCache, txn, request, faults, requests, mishaps, redrives>>

-----------------------------------------------------------------------------
(* The product service's dispatchers. *)

\* A claimed row is skipped by the other dispatchers, and the cache row of its
\* order is locked by the upsert until the transaction ends.
Claimable(d, o, v) ==
    /\ received[<<o, v>>] = "due"
    /\ txn[d] = NoTxn
    /\ \A e \in Dispatchers : txn[e] # NoTxn => txn[e].order # o

Processed(o, v) ==
    received' = [received EXCEPT ![<<o, v>>] = "Processed"]

\* The upsert finds the cache at or past this row: no handler runs.
IgnoreRow(d, o, v) ==
    /\ Claimable(d, o, v)
    /\ v <= orderCache[o]
    /\ Processed(o, v)
    /\ UNCHANGED <<owners, productCache, orderTail, orderCache,
                   txn, request, faults, requests, mishaps, redrives>>

\* Mutant: the upsert replaces whatever the cache holds.
ApplyRowUnguarded(d, o, v) ==
    /\ Claimable(d, o, v)
    /\ txn' = [txn EXCEPT ![d] = [step |-> "applied", order |-> o, version |-> v, fulfilled |-> 0]]
    /\ UNCHANGED <<owners, pipeline, orderCache, request, faults, requests, mishaps, redrives>>

\* The upsert moves the cache, within the open transaction.
ApplyRow(d, o, v) ==
    /\ Claimable(d, o, v)
    /\ v > orderCache[o]
    /\ txn' = [txn EXCEPT ![d] = [step |-> "applied", order |-> o, version |-> v, fulfilled |-> 0]]
    /\ UNCHANGED <<owners, pipeline, orderCache, request, faults, requests, mishaps, redrives>>

Fires(d) == d \in Serving /\ faults.mode # "off"

\* Mutant: the last firing leaves the switch armed.
claim_fault_stays ==
    IF faults.remaining = Unlimited THEN faults ELSE [faults EXCEPT !.remaining = @ - 1]

\* claim_fault: one unit of a bounded budget, and off when that was the last.
claim_fault ==
    CASE faults.remaining = Unlimited -> faults
      [] faults.remaining # Unlimited /\ faults.remaining - 1 = 0 -> Off
      [] OTHER -> [faults EXCEPT !.remaining = @ - 1]

\* faults::check fails the handler before it reads or writes anything; the
\* savepoint takes the upsert back and the attempt is recorded, leaving the row
\* to be retried or, if Dispatch counts it as the last, dead.
FailRow(d) ==
    /\ txn[d].step = "applied"
    /\ Fires(d)
    /\ faults' = claim_fault
    /\ \E outcome \in {"due", "Failed"} :
          received' = [received EXCEPT ![<<txn[d].order, txn[d].version>>] = outcome]
    /\ txn' = [txn EXCEPT ![d] = NoTxn]
    /\ UNCHANGED <<owners, productCache, orderTail, orderCache,
                   request, requests, mishaps, redrives>>

\* The cache rows the query matches, in a given view of the cache.
FulfilledOrders(p, cache) ==
    {o \in Orders : /\ ProductOf[o] = p
                    /\ cache[o] # 0
                    /\ orders[o][cache[o]] = "Fulfilled"}

\* SUM(quantity): the units of these orders, counted.
Units(os) == Cardinality(UNION {{o} \X (1 .. Quantity[o]) : o \in os})

\* Mutant: the handler runs before the upsert and adds nothing back.
ViewBeforeUpsert(d) == orderCache

\* What a statement of d's transaction sees: what is committed, and its own row.
View(d) == [orderCache EXCEPT ![txn[d].order] = txn[d].version]

\* recompute_availability: SELECT SUM(quantity) ...
SumFulfilled(d) ==
    /\ txn[d].step = "applied"
    /\ ~Fires(d)
    /\ txn' = [txn EXCEPT ![d].step = "summed",
                          ![d].fulfilled = Units(FulfilledOrders(ProductOf[txn[d].order], View(d)))]
    /\ UNCHANGED <<owners, pipeline, orderCache, request, faults, requests, mishaps, redrives>>

\* Mutant: no floor at zero.
GreatestUnclamped(a, b) == a

Greatest(a, b) == IF a >= b THEN a ELSE b

\* Mutant: writes the row back from the snapshot last seen in the topic.
RepublishAnnounced(d) ==
    LET o == txn[d].order
        p == ProductOf[o]
        now == products[p][Len(products[p])]
    IN  /\ txn[d].step = "summed"
        /\ ~Locked("discontinue", p)
        /\ products' = IF products[p] = << >> THEN products
                       ELSE [products EXCEPT ![p] = Append(@,
                                [products[p][IF productCache[p] = 0 THEN 1 ELSE productCache[p]] EXCEPT !.available = Greatest(now.onHand - txn[d].fulfilled, 0)])]
        /\ orderCache' = [orderCache EXCEPT ![o] = txn[d].version]
        /\ Processed(o, txn[d].version)
        /\ txn' = [txn EXCEPT ![d] = NoTxn]
        /\ UNCHANGED <<orders, productCache, orderTail, request,
                       faults, requests, mishaps, redrives>>

\* ... then UPDATE products, enqueue and COMMIT.  The UPDATE waits for the row
\* and computes from what it finds there; it matches nothing for an unknown
\* product, and then there is nothing to announce.
Republish(d) ==
    LET o == txn[d].order
        p == ProductOf[o]
        now == products[p][Len(products[p])]
    IN  /\ txn[d].step = "summed"
        /\ ~Locked("discontinue", p)
        /\ products' = IF products[p] = << >> THEN products
                       ELSE [products EXCEPT ![p] = Append(@,
                                [now EXCEPT !.available = Greatest(now.onHand - txn[d].fulfilled, 0)])]
        /\ orderCache' = [orderCache EXCEPT ![o] = txn[d].version]
        /\ Processed(o, txn[d].version)
        /\ txn' = [txn EXCEPT ![d] = NoTxn]
        /\ UNCHANGED <<orders, productCache, orderTail, request,
                       faults, requests, mishaps, redrives>>

\* The dispatcher's process dies, or its connection is lost.
CrashDispatcher(d) ==
    /\ txn[d] # NoTxn
    /\ mishaps < MaxMishaps
    /\ mishaps' = mishaps + 1
    /\ txn' = [txn EXCEPT ![d] = NoTxn]
    /\ UNCHANGED <<owners, pipeline, orderCache, request, faults, requests, redrives>>

-----------------------------------------------------------------------------
(* The operator. *)

\* POST /faults refuses a budget of zero.
ArmFault ==
    /\ mishaps < MaxMishaps
    /\ mishaps' = mishaps + 1
    /\ \E n \in Budgets : /\ n # 0
                          /\ faults' = [mode |-> "error", remaining |-> n]
    /\ UNCHANGED <<owners, pipeline, orderCache, txn, request, requests, redrives>>

DisarmFault ==
    /\ faults.mode # "off"
    /\ faults' = Off
    /\ UNCHANGED <<owners, pipeline, orderCache, txn, request, requests, mishaps, redrives>>

\* POST /dlq/redrive returns dead-lettered rows to the dispatchers.
RedriveDlq ==
    /\ redrives < MaxRedrives
    /\ redrives' = redrives + 1
    /\ \E rows \in SUBSET {r \in OrderRows : received[r] = "Failed"} \ {{}} :
          received' = [r \in OrderRows |->
              IF r \in rows THEN "due" ELSE received[r]]
    /\ UNCHANGED <<owners, productCache, orderTail, orderCache,
                   txn, request, faults, requests, mishaps>>

-----------------------------------------------------------------------------
Product(p) ==
    \/ CreateProduct(p)
    \/ CacheProduct(p)
    \/ \E c \in Clients : LockProduct(c, p)

Order(o) ==
    \/ AnnounceOrder(o)
    \/ \E c \in Clients : ReadOffer(c, o)
    \/ \E c \in Clients, target \in Target : LockOrder(c, o, target)

Client(c) ==
    \/ FinishDiscontinue(c)
    \/ InsertOrder(c)
    \/ FinishTransition(c)
    \/ DropRequest(c)

Dispatcher(d) ==
    \/ \E o \in Orders, v \in OrderVersions : IgnoreRow(d, o, v) \/ ApplyRow(d, o, v)
    \/ FailRow(d)
    \/ SumFulfilled(d)
    \/ Republish(d)
    \/ CrashDispatcher(d)

Operator == ArmFault \/ DisarmFault \/ RedriveDlq

Next ==
    \/ \E p \in Products : Product(p)
    \/ \E o \in Orders : Order(o)
    \/ \E c \in Clients : Client(c)
    \/ \E d \in Dispatchers : Dispatcher(d)
    \/ Operator

Spec == Init /\ [][Next]_vars

\* Requests end, relays and dispatchers keep working.  Nobody has to send a
\* request, arm or disarm a fault, or redrive a row.
FairSpec ==
    /\ Spec
    /\ \A p \in Products : WF_vars(CacheProduct(p))
    /\ \A o \in Orders : WF_vars(AnnounceOrder(o))
    /\ \A c \in Clients : WF_vars(Client(c))
    /\ \A d \in Dispatchers : WF_vars(Dispatcher(d))

-----------------------------------------------------------------------------
(* Properties. *)

Idle(d) == txn[d] = NoTxn

ProductState == [status : ProductStatus, onHand : Nat, available : Nat]

DispatchTxn ==
    {NoTxn} \cup [step : {"applied", "summed"}, order : Orders, version : OrderVersions,
                 fulfilled : Nat]

ClientTxn ==
    {NoRequest}
      \cup [kind : {"discontinue"}, id : Products, seen : ProductStatus]
      \cup [kind : {"create"}, id : Orders]
      \cup [kind : {"transition"}, id : Orders, target : Target, seen : OrderStatus]

\* Every variable holds a value of its kind: a history is a sequence of states
\* of its service, a transaction that is open names an order and a version.
TypeOK ==
    /\ products \in [Products -> Seq(ProductState)]
    /\ orders \in [Orders -> Seq(OrderStatus)]
    /\ productCache \in [Products -> Nat]
    /\ orderTail \in [Orders -> Nat]
    /\ received \in [OrderRows -> {"absent", "due", "Processed", "Failed"}]
    /\ orderCache \in [Orders -> 0 .. 3]
    /\ txn \in [Dispatchers -> DispatchTxn]
    /\ request \in [Clients -> ClientTxn]
    /\ faults \in [mode : {"off", "error"}, remaining : Nat \cup {Unlimited}]
    /\ requests \in Nat
    /\ mishaps \in Nat
    /\ redrives \in Nat

\* Every two consecutive states of an order are a legal transition, whatever
\* transitions of it were requested at the same time: `transition` decides on a
\* status it read earlier, and the row lock keeps that status current.
LegalHistory ==
    \A o \in Orders : \A i \in 1 .. Len(orders[o]) - 1 :
        is_legal_transition(orders[o][i], orders[o][i + 1])

\* A product once withdrawn is withdrawn in every later state, although the
\* dispatch handler rewrites the row while `discontinue` does.
WithdrawnForGood ==
    \A p \in Products : \A i, j \in 1 .. Len(products[p]) :
        (i < j /\ products[p][i].status = "Discontinued")
            => products[p][j].status = "Discontinued"

\* recompute_availability's equation: what a product offers is its stock less
\* the fulfilled orders in the cache, whatever was retried, dead-lettered,
\* redriven, crashed or dispatched out of order.
AvailabilityDerived ==
    \A p \in Products : products[p] # << >> =>
        LET now == products[p][Len(products[p])]
        IN  now.available = Greatest(now.onHand - Units(FulfilledOrders(p, orderCache)), 0)

\* "No orders exist for a product that has just been created": no order is
\* admitted, cached or being applied before its product exists, so starting at
\* available = on_hand is right and an order never names an unknown product.
NoOrderBeforeProduct ==
    \A o \in Orders :
        (\/ orders[o] # << >>
         \/ orderCache[o] # 0
         \/ \E d \in Dispatchers : ~Idle(d) /\ txn[d].order = o)
            => products[ProductOf[o]] # << >>

\* An armed fault has something left to fire: claim_fault decrements the budget
\* without looking, on the strength of arm refusing zero and of the last firing
\* switching it off.
ArmedHasBudget ==
    faults.mode # "off" => faults.remaining # 0

InStep ==
    /\ \A p \in Products : productCache[p] = Len(products[p])
    /\ \A o \in Orders : orderCache[o] = Len(orders[o])

\* The loop closes and terminates: once no order row is dead-lettered for good,
\* each service's cache ends on the other's current state and stays there.
Converges ==
    <>[]((\A r \in OrderRows : received[r] # "Failed") => InStep)

=============================================================================
