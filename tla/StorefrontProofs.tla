--------------------------- MODULE StorefrontProofs -------------------------
(***************************************************************************)
(* The example services for any number of products, orders, clients and,   *)
(* except for the availability equation, dispatchers.                      *)
(***************************************************************************)
EXTENDS Storefront, TLAPS

\* A product being withdrawn exists, and is locked by one client at a time.
HeldProducts ==
    \A c \in Clients : request[c].kind = "discontinue" => products[request[c].id] # << >>

-----------------------------------------------------------------------------
(* Types *)

\* The units of a set of orders can be counted: SUM(quantity) is a number.
Countable == Units({}) = 0 /\ \A os \in SUBSET Orders : Units(os) \in Nat

\* The last state of a history is a state.
LEMMA LastState ==
    ASSUME NEW S, NEW s \in Seq(S), s # << >>
    PROVE  s[Len(s)] \in S /\ Len(s) \in Nat \ {0}
  OBVIOUS

\* A state added to a history comes last and leaves the others where they are.
LEMMA Appended ==
    ASSUME NEW S, NEW s \in Seq(S), NEW x \in S
    PROVE  /\ Append(s, x) \in Seq(S)
           /\ Append(s, x) # << >>
           /\ Len(Append(s, x)) = Len(s) + 1
           /\ Len(s) \in Nat
           /\ Append(s, x)[Len(s) + 1] = x
           /\ \A i \in 1 .. Len(s) : Append(s, x)[i] = s[i]
  OBVIOUS

\* An open request names an entity of its kind.
LEMMA RequestKinds ==
    ASSUME TypeOK, NEW c \in Clients
    PROVE  /\ request[c].kind = "discontinue" => request[c].id \in Products
           /\ request[c].kind = "create" => request[c].id \in Orders
           /\ request[c].kind = "transition" =>
                  /\ request[c].id \in Orders
                  /\ request[c].target \in Target
                  /\ request[c].seen \in OrderStatus
<1>1. request[c] \in ClientTxn
  BY Zenon DEF TypeOK
<1>2. CASE request[c] = NoRequest
  BY <1>2 DEF NoRequest
<1>3. CASE request[c] \in [kind : {"discontinue"}, id : Products, seen : ProductStatus]
  BY <1>3, Zenon
<1>4. CASE request[c] \in [kind : {"create"}, id : Orders]
  BY <1>4, Zenon
<1>5. CASE request[c] \in [kind : {"transition"}, id : Orders, target : Target, seen : OrderStatus]
  BY <1>5, Zenon
<1> QED BY <1>1, <1>2, <1>3, <1>4, <1>5, Zenon DEF ClientTxn

\* The requests of either service preserve the types.
LEMMA ClientTypes ==
    ASSUME TypeOK, HeldProducts,
           \/ \E p \in Products : CreateProduct(p)
           \/ \E c \in Clients, p \in Products : LockProduct(c, p)
           \/ \E c \in Clients, o \in Orders : ReadOffer(c, o)
           \/ \E c \in Clients, o \in Orders, target \in Target : LockOrder(c, o, target)
           \/ \E c \in Clients : Client(c)
    PROVE  TypeOK'
<1> USE DEF TypeOK
<1>1. ASSUME NEW p \in Products, CreateProduct(p) PROVE TypeOK'
  <2>1. PICK l \in Listings : products' = [products EXCEPT ![p] =
              <<[status |-> l.status, onHand |-> l.onHand, available |-> l.onHand]>>]
    BY Zenon, <1>1 DEF CreateProduct
  <2>2. [status |-> l.status, onHand |-> l.onHand, available |-> l.onHand] \in ProductState
    BY StorefrontAssumption, Zenon DEF ProductState
  <2>3. products' \in [Products -> Seq(ProductState)]
    BY <2>1, <2>2
  <2> QED BY <1>1, <2>3, Zenon DEF CreateProduct, pipeline
<1>2. ASSUME NEW c \in Clients, NEW p \in Products, LockProduct(c, p) PROVE TypeOK'
  <2> DEFINE r == [kind |-> "discontinue", id |-> p, seen |-> products[p][Len(products[p])].status]
  <2>1. products[p][Len(products[p])] \in ProductState
    BY <1>2, LastState, Zenon DEF LockProduct
  <2>2. r \in ClientTxn
    BY <2>1, Zenon DEF ClientTxn, ProductState
  <2>3. request' = [request EXCEPT ![c] = r]
    BY <1>2, Zenon DEF LockProduct, Begin
  <2>4. request' \in [Clients -> ClientTxn]
    BY <2>2, <2>3, Zenon
  <2> QED BY <1>2, <2>4 DEF LockProduct, Begin, pipeline, owners
<1>3. ASSUME NEW c \in Clients, NEW o \in Orders, ReadOffer(c, o) PROVE TypeOK'
  <2>1. [kind |-> "create", id |-> o] \in ClientTxn
    BY Zenon DEF ClientTxn
  <2> QED BY <1>3, <2>1, Zenon DEF ReadOffer, pipeline, owners
<1>4. ASSUME NEW c \in Clients, NEW o \in Orders, NEW target \in Target, LockOrder(c, o, target)
      PROVE TypeOK'
  <2> DEFINE r == [kind |-> "transition", id |-> o, target |-> target, seen |-> orders[o][Len(orders[o])]]
  <2>1. orders[o][Len(orders[o])] \in OrderStatus
    BY <1>4, LastState, Zenon DEF LockOrder
  <2>2. r \in ClientTxn
    BY <2>1, Zenon DEF ClientTxn
  <2>3. request' = [request EXCEPT ![c] = r]
    BY <1>4, Zenon DEF LockOrder, Begin
  <2>4. request' \in [Clients -> ClientTxn]
    BY <2>2, <2>3, Zenon
  <2> QED BY <1>4, <2>4 DEF LockOrder, Begin, pipeline, owners
<1>5. ASSUME NEW c \in Clients, End(c),
             products' \in [Products -> Seq(ProductState)], orders' \in [Orders -> Seq(OrderStatus)]
      PROVE TypeOK'
  <2>1. NoRequest \in ClientTxn
    BY Zenon DEF ClientTxn
  <2> QED BY <1>5, <2>1, Zenon DEF End, pipeline
<1>6. ASSUME NEW c \in Clients, FinishDiscontinue(c) PROVE TypeOK'
  <2> DEFINE p == request[c].id
             now == products[p][Len(products[p])]
  <2>1. p \in Products
    BY <1>6, RequestKinds, Zenon DEF FinishDiscontinue
  <2>2. products' \in [Products -> Seq(ProductState)]
    <3>1. CASE products' = products
      BY <3>1, Zenon
    <3>2. CASE products' = [products EXCEPT ![p] = Append(@, [now EXCEPT !.status = "Discontinued"])]
      <4>1. products[p] # << >>
        BY <1>6, Zenon DEF HeldProducts, FinishDiscontinue
      <4>2. now \in ProductState
        BY Zenon, <2>1, <4>1, LastState
      <4>3. [now EXCEPT !.status = "Discontinued"] \in ProductState
        BY Zenon, <4>2 DEF ProductState, ProductStatus
      <4> QED BY <3>2, <4>3, <2>1
    <3> QED BY <1>6, <3>1, <3>2, Zenon DEF FinishDiscontinue
  <2>3. orders' \in [Orders -> Seq(OrderStatus)] /\ End(c)
    BY <1>6, Zenon DEF FinishDiscontinue
  <2> QED BY Zenon, <1>5, <2>2, <2>3
<1>7. ASSUME NEW c \in Clients, InsertOrder(c) PROVE TypeOK'
  <2>1. request[c].id \in Orders
    BY <1>7, RequestKinds, Zenon DEF InsertOrder
  <2>2. <<"Placed">> \in Seq(OrderStatus)
    BY DEF OrderStatus
  <2>3. orders' \in [Orders -> Seq(OrderStatus)]
    BY <1>7, <2>1, <2>2, Zenon DEF InsertOrder
  <2>4. products' \in [Products -> Seq(ProductState)] /\ End(c)
    BY <1>7, Zenon DEF InsertOrder
  <2> QED BY Zenon, <1>5, <2>3, <2>4
<1>8. ASSUME NEW c \in Clients, FinishTransition(c) PROVE TypeOK'
  <2>1. request[c].id \in Orders /\ request[c].target \in OrderStatus
    BY <1>8, RequestKinds, Zenon DEF FinishTransition, Target, OrderStatus
  <2>2. Append(orders[request[c].id], request[c].target) \in Seq(OrderStatus)
    BY <2>1
  <2>3. orders' \in [Orders -> Seq(OrderStatus)]
    BY <1>8, <2>1, <2>2, Zenon DEF FinishTransition
  <2>4. products' \in [Products -> Seq(ProductState)] /\ End(c)
    BY <1>8, Zenon DEF FinishTransition
  <2> QED BY Zenon, <1>5, <2>3, <2>4
<1>9. ASSUME NEW c \in Clients, DropRequest(c) PROVE TypeOK'
  BY Zenon, <1>5, <1>9 DEF DropRequest, owners
<1> QED BY <1>1, <1>2, <1>3, <1>4, <1>6, <1>7, <1>8, <1>9, Zenon DEF Client

\* An open dispatch transaction names a row.
LEMMA TxnKinds ==
    ASSUME TypeOK, NEW d \in Dispatchers
    PROVE  /\ txn[d].step \in {"applied", "summed"} => txn[d] # NoTxn
           /\ txn[d] # NoTxn => /\ txn[d].step \in {"applied", "summed"}
                               /\ txn[d].order \in Orders
                               /\ txn[d].version \in OrderVersions
                               /\ txn[d].fulfilled \in Nat
<1>1. txn[d] \in DispatchTxn
  BY Zenon DEF TypeOK
<1>2. CASE txn[d] = NoTxn
  BY <1>2 DEF NoTxn
<1>3. CASE txn[d] \in [step : {"applied", "summed"}, order : Orders, version : OrderVersions,
                       fulfilled : Nat]
  BY <1>3 DEF NoTxn
<1> QED BY <1>1, <1>2, <1>3, Zenon DEF DispatchTxn

\* The types of what a dispatch touches, on their own.
LEMMA DispatchShapes ==
    ASSUME TypeOK
    PROVE  /\ txn \in [Dispatchers -> DispatchTxn]
           /\ received \in [OrderRows -> {"absent", "due", "Processed", "Failed"}]
           /\ orderCache \in [Orders -> 0 .. 3]
  BY Zenon DEF TypeOK

\* Dispatching, caching and relaying preserve the types.
LEMMA DispatchTypes ==
    ASSUME TypeOK, Countable,
           \/ \E p \in Products : CacheProduct(p)
           \/ \E o \in Orders : AnnounceOrder(o)
           \/ \E d \in Dispatchers : Dispatcher(d)
    PROVE  TypeOK'
<1> USE DEF TypeOK
<1>1. ASSUME NEW p \in Products, CacheProduct(p) PROVE TypeOK'
  <2>1. PICK v \in 0 .. MaxVersion : productCache' = [productCache EXCEPT ![p] = v]
    BY Zenon, <1>1 DEF CacheProduct, ProductTopic!Announce, ProductTopic!States
  <2>2. productCache' \in [Products -> Nat]
    BY <2>1, StorefrontAssumption
  <2> QED BY <1>1, <2>2, Zenon DEF CacheProduct, owners
<1>2. ASSUME NEW o \in Orders, AnnounceOrder(o) PROVE TypeOK'
  <2>1. PICK v \in 0 .. MaxVersion : orderTail' = [orderTail EXCEPT ![o] = v]
    BY Zenon, <1>2 DEF AnnounceOrder, OrderTopic!Announce, OrderTopic!States
  <2>2. orderTail' \in [Orders -> Nat]
    BY <2>1, StorefrontAssumption
  <2> QED BY Zenon, <1>2, <2>2 DEF AnnounceOrder, owners
<1>3. ASSUME NEW d \in Dispatchers, NEW o \in Orders, NEW v \in OrderVersions, IgnoreRow(d, o, v)
      PROVE TypeOK'
  BY Zenon, <1>3 DEF IgnoreRow, Processed, owners
<1>4. ASSUME NEW d \in Dispatchers, NEW o \in Orders, NEW v \in OrderVersions, ApplyRow(d, o, v)
      PROVE TypeOK'
  <2>1. [step |-> "applied", order |-> o, version |-> v, fulfilled |-> 0] \in DispatchTxn
    BY Zenon DEF DispatchTxn
  <2> QED BY <1>4, <2>1, Zenon DEF ApplyRow, owners, pipeline
<1>5. NoTxn \in DispatchTxn
  BY Zenon DEF DispatchTxn
<1>6. ASSUME NEW d \in Dispatchers, FailRow(d) PROVE TypeOK'
  <2>1. faults' \in [mode : {"off", "error"}, remaining : Nat \cup {Unlimited}]
    <3>1. faults.remaining \in Nat \cup {-1} /\ faults.mode \in {"off", "error"}
      BY Zenon DEF Unlimited
    <3>2. CASE faults.remaining = -1
      BY <1>6, <3>2, Zenon DEF FailRow, claim_fault, Unlimited
    <3>3. CASE faults.remaining = 1
      <4>1. faults' = Off
        BY <1>6, <3>3 DEF FailRow, claim_fault, Unlimited
      <4> QED BY <4>1, Zenon DEF Off
    <3>4. CASE faults.remaining # -1 /\ faults.remaining # 1
      <4>1. faults' = [faults EXCEPT !.remaining = @ - 1]
        BY <1>6, <3>1, <3>4 DEF FailRow, claim_fault, Unlimited
      <4>2. faults.remaining - 1 \in Nat \cup {Unlimited}
        BY <3>1, <3>4 DEF Unlimited
      <4> QED BY Zenon, <4>1, <4>2
    <3> QED BY <3>1, <3>2, <3>3, <3>4, Zenon
  <2>2. received' \in [OrderRows -> {"absent", "due", "Processed", "Failed"}]
    BY Zenon, <1>6 DEF FailRow
  <2> QED BY <1>5, <1>6, <2>1, <2>2, Zenon DEF FailRow, owners
<1>7. ASSUME NEW d \in Dispatchers, SumFulfilled(d) PROVE TypeOK'
  <2> DEFINE n == Units(FulfilledOrders(ProductOf[txn[d].order], View(d)))
  <2>1. n \in Nat
    BY Zenon DEF Countable, FulfilledOrders
  <2>2. txn[d] \in [step : {"applied", "summed"}, order : Orders, version : OrderVersions,
                    fulfilled : Nat]
    BY <1>7, TxnKinds, Zenon DEF SumFulfilled, DispatchTxn
  <2>3. [[txn[d] EXCEPT !.step = "summed"] EXCEPT !.fulfilled = n] \in DispatchTxn
    BY Zenon, <2>1, <2>2 DEF DispatchTxn
  <2>4. txn' = [txn EXCEPT ![d] = [[txn[d] EXCEPT !.step = "summed"] EXCEPT !.fulfilled = n]]
    BY Zenon, <1>7 DEF SumFulfilled
  <2>5. txn' \in [Dispatchers -> DispatchTxn]
    BY <2>3, <2>4, Zenon
  <2> QED BY <1>7, <2>5, Zenon DEF SumFulfilled, owners, pipeline
<1>8. ASSUME NEW d \in Dispatchers, Republish(d) PROVE TypeOK'
  <2> DEFINE p == ProductOf[txn[d].order]
             now == products[p][Len(products[p])]
             n == Greatest(now.onHand - txn[d].fulfilled, 0)
  <2>1. txn[d].order \in Orders /\ txn[d].version \in 0 .. 3 /\ txn[d].fulfilled \in Nat
    <3>1. txn[d].step = "summed"
      BY <1>8, Zenon DEF Republish
    <3>2. txn[d] # NoTxn
      BY <3>1 DEF NoTxn
    <3> QED BY <3>2, TxnKinds DEF OrderVersions
  <2>2. p \in Products
    BY <2>1, StorefrontAssumption, Zenon
  <2>3. products' \in [Products -> Seq(ProductState)]
    <3>1. CASE products[p] = << >>
      BY <1>8, <3>1, Zenon DEF Republish
    <3>2. CASE products[p] # << >>
      <4>1. now \in ProductState
        BY <2>2, <3>2, LastState, Zenon
      <4>2. n \in Nat
        BY SMTT(30), <2>1, <4>1 DEF ProductState, Greatest
      <4>3. [now EXCEPT !.available = n] \in ProductState
        BY Zenon, <4>1, <4>2 DEF ProductState
      <4>4. products' = [products EXCEPT ![p] = Append(@, [now EXCEPT !.available = n])]
        BY Zenon, <1>8, <3>2 DEF Republish
      <4>5. Append(products[p], [now EXCEPT !.available = n]) \in Seq(ProductState)
        BY Zenon, <2>2, <4>3, Appended
      <4> HIDE DEF n, now
      <4> QED BY <2>2, <4>4, <4>5, Zenon
    <3> QED BY <3>1, <3>2, Zenon
  <2>4. orderCache' \in [Orders -> 0 .. 3]
    BY Zenon, <1>8, <2>1 DEF Republish
  <2>5. received' \in [OrderRows -> {"absent", "due", "Processed", "Failed"}]
    BY Zenon, <1>8 DEF Republish, Processed
  <2> QED BY Zenon, <1>5, <1>8, <2>3, <2>4, <2>5 DEF Republish
<1>9. ASSUME NEW d \in Dispatchers, CrashDispatcher(d) PROVE TypeOK'
  BY <1>5, <1>9 DEF CrashDispatcher, owners, pipeline
<1>10. ASSUME NEW d \in Dispatchers, Dispatcher(d) PROVE TypeOK'
  <2>1. CASE \E o \in Orders, v \in OrderVersions : IgnoreRow(d, o, v) \/ ApplyRow(d, o, v)
    BY Zenon, <1>3, <1>4, <2>1
  <2>2. CASE FailRow(d) \/ SumFulfilled(d) \/ Republish(d) \/ CrashDispatcher(d)
    BY <1>6, <1>7, <1>8, <1>9, <2>2, Zenon
  <2> QED BY Zenon, <1>10, <2>1, <2>2 DEF Dispatcher
<1> QED BY <1>1, <1>2, <1>10, Zenon

\* So do the operator's actions.
LEMMA OperatorTypes ==
    ASSUME TypeOK, Operator
    PROVE  TypeOK'
<1> USE DEF TypeOK
<1>1. CASE ArmFault
  <2>1. PICK n \in Budgets : faults' = [mode |-> "error", remaining |-> n]
    BY <1>1, Zenon DEF ArmFault
  <2>2. n \in Nat \cup {Unlimited}
    BY StorefrontAssumption, Zenon DEF Unlimited
  <2>3. faults' \in [mode : {"off", "error"}, remaining : Nat \cup {Unlimited}]
    BY <2>1, <2>2, Zenon
  <2> QED BY <1>1, <2>3 DEF ArmFault, owners, pipeline
<1>2. CASE DisarmFault
  <2>1. Off \in [mode : {"off", "error"}, remaining : Nat \cup {Unlimited}]
    BY Zenon DEF Off
  <2> QED BY <1>2, <2>1, Zenon DEF DisarmFault, owners, pipeline
<1>3. CASE RedriveDlq
  BY <1>3 DEF RedriveDlq, owners
<1> QED BY <1>1, <1>2, <1>3, Zenon DEF Operator

\* No step loses a product or an order: every history only grows.
Grows ==
    /\ \A p \in Products : \/ products'[p] = products[p]
                           \/ \E x \in ProductState : products'[p] = Append(products[p], x)
    /\ \A o \in Orders : \/ orders'[o] = orders[o]
                         \/ \E x \in OrderStatus : orders'[o] = Append(orders[o], x)

\* A client's requests add at most one state to a history.
LEMMA ClientsGrow ==
    ASSUME TypeOK, HeldProducts, NEW c \in Clients, Client(c)
    PROVE  Grows
<1> USE DEF TypeOK
<1>1. CASE FinishDiscontinue(c)
  <2> DEFINE p == request[c].id
             now == products[p][Len(products[p])]
             x == [now EXCEPT !.status = "Discontinued"]
  <2>1. p \in Products /\ products[p] # << >>
    BY <1>1, RequestKinds, Zenon DEF FinishDiscontinue, HeldProducts
  <2>2. now \in ProductState
    BY <2>1, LastState, Zenon
  <2>3. x \in ProductState
    BY Zenon, <2>2 DEF ProductState, ProductStatus
  <2>4. products' = products \/ products' = [products EXCEPT ![p] = Append(products[p], x)]
    BY <1>1, Zenon DEF FinishDiscontinue
  <2>5. orders' = orders
    BY <1>1, Zenon DEF FinishDiscontinue
  <2> HIDE DEF p, x
  <2> QED BY Zenon, <2>1, <2>3, <2>4, <2>5 DEF Grows
<1>2. CASE InsertOrder(c)
  <2> DEFINE o == request[c].id
  <2>1. o \in Orders /\ "Placed" \in OrderStatus
    BY <1>2, RequestKinds, Zenon DEF InsertOrder, OrderStatus
  <2>2. orders' = orders \/ (orders[o] = << >> /\ orders' = [orders EXCEPT ![o] = <<"Placed">>])
    BY <1>2, Zenon DEF InsertOrder
  <2>3. orders[o] = << >> => Append(orders[o], "Placed") = <<"Placed">>
    OBVIOUS
  <2>4. products' = products
    BY <1>2, Zenon DEF InsertOrder
  <2> HIDE DEF o
  <2> QED BY Zenon, <2>1, <2>2, <2>3, <2>4 DEF Grows
<1>3. CASE FinishTransition(c)
  <2> DEFINE o == request[c].id
             x == request[c].target
  <2>1. o \in Orders /\ x \in OrderStatus
    BY <1>3, RequestKinds, Zenon DEF FinishTransition, Target, OrderStatus
  <2>2. orders' = orders \/ orders' = [orders EXCEPT ![o] = Append(orders[o], x)]
    BY <1>3, Zenon DEF FinishTransition
  <2>3. products' = products
    BY <1>3, Zenon DEF FinishTransition
  <2> HIDE DEF o, x
  <2> QED BY Zenon, <2>1, <2>2, <2>3 DEF Grows
<1>4. CASE DropRequest(c)
  BY <1>4, Zenon DEF DropRequest, owners, Grows
<1> QED BY <1>1, <1>2, <1>3, <1>4, Zenon DEF Client

\* Every step of the system does.
LEMMA StepGrows ==
    ASSUME TypeOK, HeldProducts, [Next]_vars
    PROVE  Grows
<1> USE DEF TypeOK
<1>1. ASSUME UNCHANGED owners PROVE Grows
  BY <1>1, Zenon DEF owners, Grows
<1>2. ASSUME NEW p \in Products, CreateProduct(p) PROVE Grows
  <2>1. PICK l \in Listings : products' = [products EXCEPT ![p] =
              <<[status |-> l.status, onHand |-> l.onHand, available |-> l.onHand]>>]
    BY Zenon, <1>2 DEF CreateProduct
  <2> DEFINE x == [status |-> l.status, onHand |-> l.onHand, available |-> l.onHand]
  <2>2. x \in ProductState
    BY StorefrontAssumption, Zenon DEF ProductState
  <2>3. products[p] = << >> /\ orders' = orders /\ products' = [products EXCEPT ![p] = <<x>>]
    BY Zenon, <1>2, <2>1 DEF CreateProduct
  <2> HIDE DEF x
  <2>4. products'[p] = Append(products[p], x)
    BY <2>3
  <2> QED BY Zenon, <2>2, <2>3, <2>4 DEF Grows
<1>3. ASSUME NEW d \in Dispatchers, Republish(d) PROVE Grows
  <2> DEFINE p == ProductOf[txn[d].order]
             now == products[p][Len(products[p])]
             x == [now EXCEPT !.available = Greatest(now.onHand - txn[d].fulfilled, 0)]
  <2>1. p \in Products /\ txn[d].fulfilled \in Nat
    BY Zenon, <1>3, TxnKinds, StorefrontAssumption DEF Republish
  <2>2. products[p] # << >> => x \in ProductState
    <3>1. products[p] # << >> => now \in ProductState
      BY <2>1, LastState, Zenon
    <3>2. \A y \in ProductState : Greatest(y.onHand - txn[d].fulfilled, 0) \in Nat
      BY <2>1 DEF ProductState, Greatest
    <3>3. \A y \in ProductState, n \in Nat : [y EXCEPT !.available = n] \in ProductState
      BY Zenon DEF ProductState
    <3> HIDE DEF now
    <3> QED BY Zenon, <3>1, <3>2, <3>3
  <2>3. \/ products' = products
        \/ products[p] # << >> /\ products' = [products EXCEPT ![p] = Append(products[p], x)]
    BY Zenon, <1>3 DEF Republish
  <2>4. orders' = orders
    BY <1>3, Zenon DEF Republish
  <2> HIDE DEF p, x
  <2> QED BY Zenon, <2>1, <2>2, <2>3, <2>4 DEF Grows
<1>4. ASSUME NEW p \in Products, Product(p) PROVE Grows
  BY Zenon, <1>1, <1>2, <1>4 DEF Product, CacheProduct, LockProduct, Begin
<1>5. ASSUME NEW o \in Orders, Order(o) PROVE Grows
  BY <1>1, <1>5, Zenon DEF Order, AnnounceOrder, ReadOffer, LockOrder, Begin
<1>6. ASSUME NEW d \in Dispatchers, Dispatcher(d) PROVE Grows
  BY <1>1, <1>3, <1>6, Zenon DEF Dispatcher, IgnoreRow, ApplyRow, FailRow, SumFulfilled, CrashDispatcher
<1>7. CASE Operator
  BY <1>1, <1>7, Zenon DEF Operator, ArmFault, DisarmFault, RedriveDlq
<1>8. CASE UNCHANGED vars
  BY <1>1, <1>8, Zenon DEF vars, owners
<1> QED BY <1>4, <1>5, <1>6, <1>7, <1>8, ClientsGrow, Zenon DEF Next

\* A client's open transaction changes only when it begins or ends.
LEMMA RequestSteps ==
    ASSUME TypeOK, [Next]_vars, NEW c \in Clients
    PROVE  \/ request'[c] = request[c]
           \/ request'[c] = NoRequest
           \/ \E p \in Products : LockProduct(c, p)
           \/ \E o \in Orders : ReadOffer(c, o)
           \/ \E o \in Orders, target \in Target : LockOrder(c, o, target)
<1> USE DEF TypeOK
<1>1. ASSUME NEW p \in Products, Product(p), request'[c] # request[c]
      PROVE \E q \in Products : LockProduct(c, q)
  BY Zenon, <1>1 DEF Product, CreateProduct, CacheProduct, LockProduct, Begin
<1>2. ASSUME NEW o \in Orders, Order(o), request'[c] # request[c]
      PROVE \/ \E q \in Orders : ReadOffer(c, q)
            \/ \E q \in Orders, target \in Target : LockOrder(c, q, target)
  BY Zenon, <1>2 DEF Order, AnnounceOrder, ReadOffer, LockOrder, Begin
<1>3. ASSUME NEW e \in Clients, Client(e), request'[c] # request[c]
      PROVE request'[c] = NoRequest
  BY Zenon, <1>3 DEF Client, FinishDiscontinue, InsertOrder, FinishTransition, DropRequest, End
<1>4. ASSUME NEW d \in Dispatchers, Dispatcher(d) PROVE request' = request
  BY Zenon, <1>4 DEF Dispatcher, IgnoreRow, ApplyRow, FailRow, SumFulfilled, Republish, CrashDispatcher
<1>5. Operator => request' = request
  BY Zenon DEF Operator, ArmFault, DisarmFault, RedriveDlq
<1>6. UNCHANGED vars => request' = request
  BY Zenon DEF vars
<1> QED BY Zenon, <1>1, <1>2, <1>3, <1>4, <1>5, <1>6 DEF Next

\* Types are preserved, with the products being withdrawn in place.
LEMMA TypeStep ==
    ASSUME TypeOK, Countable, HeldProducts, [Next]_vars
    PROVE  TypeOK' /\ HeldProducts'
<1>1. TypeOK'
  <2>1. ASSUME NEW p \in Products, Product(p) PROVE TypeOK'
    BY <2>1, ClientTypes, DispatchTypes, Zenon DEF Product
  <2>2. ASSUME NEW o \in Orders, Order(o) PROVE TypeOK'
    BY <2>2, ClientTypes, DispatchTypes, Zenon DEF Order
  <2>3. CASE UNCHANGED vars
    BY Zenon, <2>3 DEF vars, TypeOK
  <2> QED BY <2>1, <2>2, <2>3, ClientTypes, DispatchTypes, OperatorTypes, Zenon DEF Next
<1>2. ASSUME NEW c \in Clients, request'[c].kind = "discontinue"
      PROVE  products'[request'[c].id] # << >>
  <2>1. \A p \in Products : products[p] # << >> => products'[p] # << >>
    <3> TAKE p \in Products
    <3>1. products[p] \in Seq(ProductState)
      BY Zenon DEF TypeOK
    <3>2. \A x \in ProductState : Append(products[p], x) # << >>
      BY <3>1, Appended
    <3> QED BY Zenon, <3>2, StepGrows DEF Grows
  <2>2. CASE request'[c] = request[c]
    BY <1>2, <2>1, <2>2, RequestKinds, Zenon DEF HeldProducts
  <2>3. CASE request'[c] = NoRequest
    BY SMTT(30), <1>2, <2>3 DEF NoRequest
  <2>4. ASSUME NEW p \in Products, LockProduct(c, p) PROVE products'[request'[c].id] # << >>
    <3>1. request'[c].id = p
      BY Zenon, <2>4 DEF LockProduct, Begin, TypeOK
    <3> QED BY <2>1, <2>4, <3>1, Zenon DEF LockProduct
  <2>5. ASSUME NEW o \in Orders, ReadOffer(c, o) PROVE FALSE
    BY <1>2, <2>5, Zenon DEF ReadOffer, TypeOK
  <2>6. ASSUME NEW o \in Orders, NEW target \in Target, LockOrder(c, o, target) PROVE FALSE
    BY <1>2, <2>6, Zenon DEF LockOrder, Begin, TypeOK
  <2> QED BY Zenon, <2>2, <2>3, <2>4, <2>5, <2>6, RequestSteps
<1> QED BY <1>1, <1>2, Zenon DEF HeldProducts

-----------------------------------------------------------------------------
(* A product stays withdrawn *)

\* A state added to a product keeps its status or withdraws it.
LEMMA StatusKept ==
    ASSUME TypeOK, HeldProducts, [Next]_vars, NEW p \in Products, products[p] # << >>
    PROVE  \/ products'[p] = products[p]
           \/ \E x \in ProductState :
                  /\ products'[p] = Append(products[p], x)
                  /\ x.status \in {products[p][Len(products[p])].status, "Discontinued"}
<1> USE DEF TypeOK
<1> DEFINE now == products[p][Len(products[p])]
<1>1. now \in ProductState
  BY Zenon, LastState
<1>2. ASSUME NEW c \in Clients, FinishDiscontinue(c), products'[p] # products[p]
      PROVE  products'[p] = Append(products[p], [now EXCEPT !.status = "Discontinued"])
  <2>1. request[c].id \in Products
    BY <1>2, RequestKinds, Zenon DEF FinishDiscontinue
  <2> QED BY Zenon, <1>2, <2>1 DEF FinishDiscontinue
<1>3. ASSUME NEW d \in Dispatchers, Republish(d), products'[p] # products[p]
      PROVE  products'[p] = Append(products[p],
                 [now EXCEPT !.available = Greatest(now.onHand - txn[d].fulfilled, 0)])
  <2>1. ProductOf[txn[d].order] \in Products
    BY Zenon, <1>3, TxnKinds, StorefrontAssumption DEF Republish
  <2> QED BY Zenon, <1>3, <2>1 DEF Republish
<1>4. ASSUME NEW y \in ProductState
      PROVE  /\ [y EXCEPT !.status = "Discontinued"] \in ProductState
             /\ [y EXCEPT !.status = "Discontinued"].status = "Discontinued"
  BY Zenon DEF ProductState, ProductStatus
<1>5. ASSUME NEW y \in ProductState, NEW n \in Nat
      PROVE  /\ Greatest(y.onHand - n, 0) \in Nat
             /\ [y EXCEPT !.available = Greatest(y.onHand - n, 0)] \in ProductState
             /\ [y EXCEPT !.available = Greatest(y.onHand - n, 0)].status = y.status
  <2>1. Greatest(y.onHand - n, 0) \in Nat
    BY DEF ProductState, Greatest
  <2> QED BY Zenon, <2>1 DEF ProductState
<1>6. ASSUME NEW c \in Clients, Client(c), products'[p] # products[p] PROVE FinishDiscontinue(c)
  BY Zenon, <1>6 DEF Client, InsertOrder, FinishTransition, DropRequest, owners
<1>7. ASSUME NEW d \in Dispatchers, Dispatcher(d), products'[p] # products[p] PROVE Republish(d)
  BY Zenon, <1>7 DEF Dispatcher, IgnoreRow, ApplyRow, FailRow, SumFulfilled, CrashDispatcher, owners
<1>8. ASSUME NEW q \in Products, Product(q) PROVE products'[p] = products[p]
  BY Zenon, <1>8 DEF Product, CreateProduct, CacheProduct, LockProduct, Begin, owners
<1>9. ASSUME NEW o \in Orders, Order(o) PROVE products'[p] = products[p]
  BY Zenon, <1>9 DEF Order, AnnounceOrder, ReadOffer, LockOrder, Begin, owners
<1>10. Operator \/ UNCHANGED vars => products'[p] = products[p]
  BY Zenon DEF Operator, ArmFault, DisarmFault, RedriveDlq, owners, vars
<1>11. ASSUME NEW d \in Dispatchers, Republish(d) PROVE txn[d].fulfilled \in Nat
  BY Zenon, <1>11, TxnKinds DEF Republish
<1> HIDE DEF now
<1>12. CASE \E c \in Clients : FinishDiscontinue(c)
  BY Zenon, <1>1, <1>2, <1>4, <1>12
<1>13. CASE \E d \in Dispatchers : Republish(d)
  <2>1. PICK d \in Dispatchers : Republish(d)
    BY <1>13, Zenon
  <2> DEFINE x == [now EXCEPT !.available = Greatest(now.onHand - txn[d].fulfilled, 0)]
  <2>2. x \in ProductState /\ x.status = now.status
    BY Zenon, <1>1, <1>5, <1>11, <2>1
  <2>3. products'[p] # products[p] => products'[p] = Append(products[p], x)
    BY <1>3, <2>1, Zenon
  <2> HIDE DEF x
  <2> QED BY Zenon, <2>2, <2>3 DEF now
<1> QED BY Zenon, <1>6, <1>7, <1>8, <1>9, <1>10, <1>12, <1>13 DEF Next

\* Adding such a state to a history in which withdrawal is final keeps it final.
LEMMA WithdrawnAppended ==
    ASSUME NEW s \in Seq(ProductState), s # << >>, NEW x \in ProductState,
           \A i, j \in 1 .. Len(s) :
               (i < j /\ s[i].status = "Discontinued") => s[j].status = "Discontinued",
           x.status \in {s[Len(s)].status, "Discontinued"}
    PROVE  \A i, j \in 1 .. Len(Append(s, x)) :
               (i < j /\ Append(s, x)[i].status = "Discontinued")
                   => Append(s, x)[j].status = "Discontinued"
<1> DEFINE t == Append(s, x)
<1>1. /\ Len(t) = Len(s) + 1 /\ Len(s) \in Nat \ {0}
      /\ t[Len(s) + 1] = x /\ \A i \in 1 .. Len(s) : t[i] = s[i]
  BY Appended, LastState
<1> HIDE DEF t
<1> SUFFICES ASSUME NEW i \in 1 .. Len(t), NEW j \in 1 .. Len(t), i < j,
                    t[i].status = "Discontinued"
             PROVE  t[j].status = "Discontinued"
  BY Zenon DEF t
<1>2. i \in 1 .. Len(s) /\ s[i].status = "Discontinued"
  BY <1>1
<1>3. CASE j \in 1 .. Len(s)
  BY <1>1, <1>2, <1>3, Zenon
<1>4. CASE j = Len(s) + 1
  <2>1. s[Len(s)].status = "Discontinued"
    BY <1>1, <1>2
  <2> QED BY <1>1, <1>4, <2>1, Zenon
<1> QED BY <1>1, <1>3, <1>4

\* No step brings a withdrawn product back.
LEMMA WithdrawnStep ==
    ASSUME TypeOK, HeldProducts, WithdrawnForGood, [Next]_vars
    PROVE  WithdrawnForGood'
<1> SUFFICES ASSUME NEW p \in Products
             PROVE  \A i, j \in 1 .. Len(products'[p]) :
                        (i < j /\ products'[p][i].status = "Discontinued")
                            => products'[p][j].status = "Discontinued"
  BY Zenon DEF WithdrawnForGood
<1>1. CASE products[p] = << >>
  <2>1. Len(products'[p]) \in 0 .. 1
    <3>1. \/ products'[p] = << >>
          \/ \E x \in ProductState : products'[p] = Append(<< >>, x)
      BY <1>1, StepGrows, Zenon DEF Grows
    <3>2. << >> \in Seq(ProductState) /\ Len(<< >>) = 0
      OBVIOUS
    <3>3. \A x \in ProductState : Len(Append(<< >>, x)) = 1
      BY <3>2, Appended
    <3>4. Len(products'[p]) = 0 \/ Len(products'[p]) = 1
      BY <3>1, <3>2, <3>3, Zenon
    <3> QED BY <3>4
  <2> QED BY <2>1
<1>2. CASE products[p] # << >>
  <2>1. CASE products'[p] = products[p]
    BY Zenon, <2>1 DEF WithdrawnForGood
  <2>2. ASSUME NEW x \in ProductState, products'[p] = Append(products[p], x),
               x.status \in {products[p][Len(products[p])].status, "Discontinued"}
        PROVE  \A i, j \in 1 .. Len(products'[p]) :
                   (i < j /\ products'[p][i].status = "Discontinued")
                       => products'[p][j].status = "Discontinued"
    <3>1. products[p] \in Seq(ProductState)
      BY Zenon DEF TypeOK
    <3>2. \A i, j \in 1 .. Len(products[p]) :
              (i < j /\ products[p][i].status = "Discontinued")
                  => products[p][j].status = "Discontinued"
      BY Zenon DEF WithdrawnForGood
    <3> QED BY <1>2, <2>2, <3>1, <3>2, WithdrawnAppended, Zenon
  <2> QED BY <1>2, <2>1, <2>2, StatusKept, Zenon
<1> QED BY <1>1, <1>2, Zenon

-----------------------------------------------------------------------------
(* Orders move legally *)

\* The client that holds an order's row decides on its current status, and is
\* the only one that does.
HeldOrders ==
    \A c \in Clients : request[c].kind = "transition" =>
        /\ orders[request[c].id] # << >>
        /\ request[c].seen = orders[request[c].id][Len(orders[request[c].id])]
        /\ \A e \in Clients : e # c /\ request[e].kind = "transition"
                             => request[e].id # request[c].id

\* An order changes by being inserted or by a legal transition, of the client
\* that holds it.
LEMMA OrderSteps ==
    ASSUME TypeOK, [Next]_vars, NEW o \in Orders
    PROVE  \/ orders'[o] = orders[o]
           \/ \E c \in Clients : /\ InsertOrder(c)
                                 /\ request[c].id = o
                                 /\ orders[o] = << >>
                                 /\ orders'[o] = <<"Placed">>
           \/ \E c \in Clients : /\ FinishTransition(c)
                                 /\ request[c].id = o
                                 /\ is_legal_transition(request[c].seen, request[c].target)
                                 /\ orders'[o] = Append(orders[o], request[c].target)
<1> USE DEF TypeOK
<1>1. ASSUME NEW c \in Clients, InsertOrder(c), orders'[o] # orders[o]
      PROVE  request[c].id = o /\ orders[o] = << >> /\ orders'[o] = <<"Placed">>
  BY <1>1, Zenon DEF InsertOrder
<1>2. ASSUME NEW c \in Clients, FinishTransition(c), orders'[o] # orders[o]
      PROVE  /\ request[c].id = o
             /\ is_legal_transition(request[c].seen, request[c].target)
             /\ orders'[o] = Append(orders[o], request[c].target)
  <2>1. request[c].id \in Orders
    BY Zenon, <1>2, RequestKinds DEF FinishTransition
  <2> QED BY <1>2, <2>1, Zenon DEF FinishTransition
<1>3. ASSUME NEW c \in Clients, Client(c), orders'[o] # orders[o]
      PROVE  InsertOrder(c) \/ FinishTransition(c)
  BY Zenon, <1>3 DEF Client, FinishDiscontinue, DropRequest, owners
<1>4. ASSUME NEW d \in Dispatchers, Dispatcher(d) PROVE orders' = orders
  BY Zenon, <1>4 DEF Dispatcher, IgnoreRow, ApplyRow, FailRow, SumFulfilled, Republish,
              CrashDispatcher, owners
<1>5. ASSUME NEW p \in Products, Product(p) PROVE orders' = orders
  BY Zenon, <1>5 DEF Product, CreateProduct, CacheProduct, LockProduct, Begin, owners
<1>6. ASSUME NEW q \in Orders, Order(q) PROVE orders' = orders
  BY Zenon, <1>6 DEF Order, AnnounceOrder, ReadOffer, LockOrder, Begin, owners
<1>7. Operator \/ UNCHANGED vars => orders' = orders
  BY Zenon DEF Operator, ArmFault, DisarmFault, RedriveDlq, owners, vars
<1> QED BY Zenon, <1>1, <1>2, <1>3, <1>4, <1>5, <1>6, <1>7 DEF Next

\* The row lock survives every step.
LEMMA HeldStep ==
    ASSUME TypeOK, HeldOrders, [Next]_vars
    PROVE  HeldOrders'
<1>1. ASSUME NEW c \in Clients, request'[c].kind = "transition"
      PROVE  request'[c] = request[c] \/ \E o \in Orders, target \in Target : LockOrder(c, o, target)
  <2>1. request'[c] # NoRequest
    BY SMTT(30), <1>1 DEF NoRequest
  <2>2. ASSUME NEW p \in Products, LockProduct(c, p) PROVE FALSE
    BY Zenon, <1>1, <2>2 DEF LockProduct, Begin, TypeOK
  <2>3. ASSUME NEW o \in Orders, ReadOffer(c, o) PROVE FALSE
    BY Zenon, <1>1, <2>3 DEF ReadOffer, TypeOK
  <2> QED BY Zenon, <2>1, <2>2, <2>3, RequestSteps
<1>2. ASSUME NEW c \in Clients, NEW o \in Orders, NEW target \in Target, LockOrder(c, o, target)
      PROVE  /\ request'[c].id = o /\ orders' = orders /\ orders[o] # << >>
             /\ request'[c].seen = orders[o][Len(orders[o])]
             /\ \A e \in Clients : e # c => request'[e] = request[e]
             /\ \A e \in Clients : e # c /\ request[e].kind = "transition" => request[e].id # o
  BY Zenon, <1>2 DEF LockOrder, Begin, Locked, TypeOK, owners
<1>3. ASSUME NEW c \in Clients, request'[c].kind = "transition", request'[c] = request[c]
      PROVE  orders'[request[c].id] = orders[request[c].id]
  <2>1. request[c].id \in Orders /\ orders[request[c].id] # << >>
    BY <1>3, RequestKinds, Zenon DEF HeldOrders
  <2>2. ASSUME NEW e \in Clients, FinishTransition(e), request[e].id = request[c].id PROVE FALSE
    <3>1. e = c
      BY Zenon, <1>3, <2>2 DEF HeldOrders, FinishTransition
    <3>2. request'[c] = NoRequest
      BY Zenon, <2>2, <3>1 DEF FinishTransition, End, TypeOK
    <3> QED BY SMTT(30), <1>3, <3>2 DEF NoRequest
  <2> QED BY Zenon, <2>1, <2>2, OrderSteps
<1> SUFFICES ASSUME NEW c \in Clients, request'[c].kind = "transition"
             PROVE  /\ orders'[request'[c].id] # << >>
                    /\ request'[c].seen = orders'[request'[c].id][Len(orders'[request'[c].id])]
                    /\ \A e \in Clients : e # c /\ request'[e].kind = "transition"
                                         => request'[e].id # request'[c].id
  BY Zenon DEF HeldOrders
<1>4. CASE \E o \in Orders, target \in Target : LockOrder(c, o, target)
  <2>1. PICK o \in Orders, target \in Target : LockOrder(c, o, target)
    BY Zenon, <1>4
  <2>2. /\ request'[c].id = o /\ orders' = orders /\ orders[o] # << >>
        /\ request'[c].seen = orders[o][Len(orders[o])]
        /\ \A e \in Clients : e # c => request'[e] = request[e]
        /\ \A e \in Clients : e # c /\ request[e].kind = "transition" => request[e].id # o
    BY Zenon, <1>2, <2>1
  <2>3. orders'[request'[c].id] # << >>
        /\ request'[c].seen = orders'[request'[c].id][Len(orders'[request'[c].id])]
    BY <2>2, Zenon
  <2>4. ASSUME NEW e \in Clients, e # c, request'[e].kind = "transition"
        PROVE  request'[e].id # request'[c].id
    BY <2>2, <2>4, Zenon
  <2> QED BY <2>3, <2>4, Zenon
<1>5. CASE request'[c] = request[c]
  <2>1. orders'[request'[c].id] # << >>
        /\ request'[c].seen = orders'[request'[c].id][Len(orders'[request'[c].id])]
    BY SMTT(30), <1>3, <1>5 DEF HeldOrders
  <2>2. ASSUME NEW e \in Clients, e # c, request'[e].kind = "transition"
        PROVE  request'[e].id # request'[c].id
    <3>1. CASE request'[e] = request[e]
      BY Zenon, <1>5, <2>2, <3>1 DEF HeldOrders
    <3>2. CASE \E o \in Orders, target \in Target : LockOrder(e, o, target)
      BY <1>2, <1>5, <2>2, <3>2
    <3> QED BY Zenon, <1>1, <2>2, <3>1, <3>2
  <2> QED BY <2>1, <2>2, Zenon
<1> QED BY Zenon, <1>1, <1>4, <1>5

\* No step moves an order against the rules.
LEMMA LegalStep ==
    ASSUME TypeOK, HeldOrders, LegalHistory, [Next]_vars
    PROVE  LegalHistory'
<1> SUFFICES ASSUME NEW o \in Orders
             PROVE  \A i \in 1 .. Len(orders'[o]) - 1 :
                        is_legal_transition(orders'[o][i], orders'[o][i + 1])
  BY Zenon DEF LegalHistory, is_legal_transition
<1>1. orders[o] \in Seq(OrderStatus)
  BY Zenon DEF TypeOK
<1>2. CASE orders'[o] = orders[o]
  BY <1>2, Zenon DEF LegalHistory
<1>3. CASE orders'[o] = <<"Placed">>
  BY SMTT(30), <1>3
<1>4. ASSUME NEW c \in Clients, FinishTransition(c), request[c].id = o,
             is_legal_transition(request[c].seen, request[c].target),
             orders'[o] = Append(orders[o], request[c].target)
      PROVE  \A i \in 1 .. Len(orders'[o]) - 1 :
                 is_legal_transition(orders'[o][i], orders'[o][i + 1])
  <2>1. request[c].kind = "transition"
    BY <1>4, Zenon DEF FinishTransition
  <2>2. orders[o] # << >> /\ request[c].seen = orders[o][Len(orders[o])]
    BY <1>4, <2>1, Zenon DEF HeldOrders
  <2>3. request[c].target \in OrderStatus
    BY <2>1, RequestKinds, Zenon DEF Target, OrderStatus
  <2> DEFINE s == orders[o]
             t == Append(orders[o], request[c].target)
  <2>4. /\ Len(t) = Len(s) + 1 /\ Len(s) \in Nat
        /\ t[Len(s) + 1] = request[c].target /\ \A i \in 1 .. Len(s) : t[i] = s[i]
    BY SMTT(30), <1>1, <2>3, Appended
  <2>5. \A i \in 1 .. Len(s) - 1 : is_legal_transition(s[i], s[i + 1])
    BY Zenon DEF LegalHistory
  <2>6. orders'[o] = t /\ request[c].seen = s[Len(s)]
    BY <1>4, <2>2, Zenon
  <2> HIDE DEF s, t
  <2> TAKE i \in 1 .. Len(orders'[o]) - 1
  <2>7. i \in 1 .. Len(s)
    BY SMTT(30), <2>4, <2>6
  <2>8. CASE i = Len(s)
    BY Zenon, <1>4, <2>4, <2>6, <2>7, <2>8
  <2>9. CASE i \in 1 .. Len(s) - 1
    <3>1. t[i] = s[i] /\ t[i + 1] = s[i + 1]
      BY SMTT(30), <2>4, <2>9
    <3> QED BY Zenon, <2>5, <2>6, <2>9, <3>1
  <2> QED BY SMTT(30), <2>4, <2>7, <2>8, <2>9
<1> QED BY <1>2, <1>3, <1>4, OrderSteps, Zenon

-----------------------------------------------------------------------------
(* No order comes before its product *)

\* What is known downstream exists upstream: a cached product, an order being
\* admitted, a received row, a cached order and one being applied.
Upstream ==
    /\ \A p \in Products : productCache[p] # 0 => products[p] # << >>
    /\ \A c \in Clients : request[c].kind = "create" => products[ProductOf[request[c].id]] # << >>
    /\ \A o \in Orders : orders[o] # << >> => products[ProductOf[o]] # << >>
    /\ \A o \in Orders, v \in OrderVersions : received[<<o, v>>] # "absent" => v <= Len(orders[o])
    /\ \A d \in Dispatchers : txn[d] # NoTxn => txn[d].version <= Len(orders[txn[d].order])
    /\ \A o \in Orders : orderCache[o] <= Len(orders[o])

\* Histories do not shrink.
LEMMA Longer ==
    ASSUME TypeOK, Grows
    PROVE  /\ \A p \in Products : products[p] # << >> => products'[p] # << >>
           /\ \A o \in Orders : /\ Len(orders[o]) \in Nat /\ Len(orders'[o]) \in Nat
                                /\ Len(orders[o]) <= Len(orders'[o])
                                /\ \A i \in 1 .. Len(orders[o]) : orders'[o][i] = orders[o][i]
<1>1. ASSUME NEW p \in Products, products[p] # << >> PROVE products'[p] # << >>
  <2>1. products[p] \in Seq(ProductState)
    BY Zenon DEF TypeOK
  <2>2. \A x \in ProductState : Append(products[p], x) # << >>
    BY <2>1, Appended
  <2> QED BY <1>1, <2>2, Zenon DEF Grows
<1>2. ASSUME NEW o \in Orders
      PROVE  /\ Len(orders[o]) \in Nat /\ Len(orders'[o]) \in Nat
             /\ Len(orders[o]) <= Len(orders'[o])
             /\ \A i \in 1 .. Len(orders[o]) : orders'[o][i] = orders[o][i]
  <2>1. orders[o] \in Seq(OrderStatus)
    BY Zenon DEF TypeOK
  <2>2. CASE orders'[o] = orders[o]
    BY <2>1, <2>2
  <2>3. ASSUME NEW x \in OrderStatus, orders'[o] = Append(orders[o], x)
        PROVE  /\ Len(orders[o]) \in Nat /\ Len(orders'[o]) \in Nat
               /\ Len(orders[o]) <= Len(orders'[o])
               /\ \A i \in 1 .. Len(orders[o]) : orders'[o][i] = orders[o][i]
    <3>1. /\ Len(Append(orders[o], x)) = Len(orders[o]) + 1 /\ Len(orders[o]) \in Nat
          /\ \A i \in 1 .. Len(orders[o]) : Append(orders[o], x)[i] = orders[o][i]
      BY SMTT(30), <2>1, Appended
    <3> QED BY SMTT(30), <2>3, <3>1
  <2> QED BY <2>2, <2>3, Zenon DEF Grows
<1> QED BY <1>1, <1>2, Zenon

\* The cache of products only holds products that exist.
LEMMA CachedStep ==
    ASSUME TypeOK, HeldProducts, Upstream, [Next]_vars
    PROVE  \A p \in Products : productCache'[p] # 0 => products'[p] # << >>
<1> SUFFICES ASSUME NEW p \in Products, productCache'[p] # 0 PROVE products'[p] # << >>
  BY Zenon
<1>1. CASE productCache'[p] = productCache[p]
  BY <1>1, StepGrows, Longer, Zenon DEF Upstream
<1>2. ASSUME NEW q \in Products, CacheProduct(q), productCache'[p] # productCache[p]
      PROVE  products'[p] # << >>
  <2>1. q = p /\ products' = products
    BY <1>2, Zenon DEF CacheProduct, ProductTopic!Announce, TypeOK, owners
  <2>2. \E v \in 0 .. MaxVersion : productCache[p] < v /\ v <= Len(products[p])
    BY <1>2, <2>1, Zenon DEF CacheProduct, ProductTopic!Announce, ProductTopic!States
  <2>3. Len(products[p]) > 0
    BY <2>2, StorefrontAssumption DEF TypeOK
  <2>4. Len(<< >>) = 0
    BY Zenon
  <2> QED BY SMTT(30), <2>1, <2>3, <2>4
<1>3. productCache' = productCache \/ \E q \in Products : CacheProduct(q)
  BY Zenon DEF Next, Product, CreateProduct, LockProduct, Begin, Order, AnnounceOrder, ReadOffer,
         LockOrder, Client, FinishDiscontinue, InsertOrder, FinishTransition, DropRequest, End,
         Dispatcher, IgnoreRow, ApplyRow, FailRow, SumFulfilled, Republish, CrashDispatcher,
         Operator, ArmFault, DisarmFault, RedriveDlq, pipeline, owners, vars
<1> QED BY Zenon, <1>1, <1>2, <1>3

\* So do requests to create an order, and the orders admitted.
LEMMA AdmittedStep ==
    ASSUME TypeOK, HeldProducts, HeldOrders, Upstream, [Next]_vars
    PROVE  /\ \A c \in Clients : request'[c].kind = "create"
                                => products'[ProductOf[request'[c].id]] # << >>
           /\ \A o \in Orders : orders'[o] # << >> => products'[ProductOf[o]] # << >>
<1>1. \A p \in Products : products[p] # << >> => products'[p] # << >>
  BY StepGrows, Longer, Zenon
<1>2. \A o \in Orders : ProductOf[o] \in Products
  BY Zenon, StorefrontAssumption
<1>3. ASSUME NEW c \in Clients, request'[c].kind = "create"
      PROVE  products'[ProductOf[request'[c].id]] # << >>
  <2>1. CASE request'[c] = request[c]
    BY Zenon, <1>1, <1>2, <1>3, <2>1, RequestKinds DEF Upstream
  <2>2. CASE request'[c] = NoRequest
    BY SMTT(30), <1>3, <2>2 DEF NoRequest
  <2>3. ASSUME NEW p \in Products, LockProduct(c, p) PROVE FALSE
    BY Zenon, <1>3, <2>3 DEF LockProduct, Begin, TypeOK
  <2>4. ASSUME NEW o \in Orders, ReadOffer(c, o) PROVE products'[ProductOf[request'[c].id]] # << >>
    <3>1. request'[c].id = o /\ productCache[ProductOf[o]] # 0
      BY Zenon, <2>4 DEF ReadOffer, TypeOK
    <3> QED BY Zenon, <1>1, <1>2, <3>1 DEF Upstream
  <2>5. ASSUME NEW o \in Orders, NEW target \in Target, LockOrder(c, o, target) PROVE FALSE
    BY Zenon, <1>3, <2>5 DEF LockOrder, Begin, TypeOK
  <2> QED BY Zenon, <2>1, <2>2, <2>3, <2>4, <2>5, RequestSteps
<1>4. ASSUME NEW o \in Orders, orders[o] = << >>, orders'[o] # << >>
      PROVE  \E c \in Clients : request[c].kind = "create" /\ request[c].id = o
  <2>1. ASSUME NEW c \in Clients, FinishTransition(c), request[c].id = o PROVE FALSE
    BY <1>4, <2>1, Zenon DEF FinishTransition, HeldOrders
  <2> QED BY Zenon, <1>4, <2>1, OrderSteps DEF InsertOrder
<1> QED BY <1>1, <1>2, <1>3, <1>4 DEF Upstream

\* A row is received for a version its order has reached, and keeps its place.
LEMMA ReceivedStep ==
    ASSUME TypeOK, Upstream, [Next]_vars, NEW o \in Orders, NEW v \in OrderVersions,
           received'[<<o, v>>] # "absent"
    PROVE  v <= Len(orders[o])
<1>1. CASE received[<<o, v>>] # "absent"
  BY Zenon, <1>1 DEF Upstream
<1>2. ASSUME received' # received, received'[<<o, v>>] # received[<<o, v>>]
      PROVE  v <= Len(orders[o])
  <2>1. ASSUME NEW q \in Orders, AnnounceOrder(q) PROVE v <= Len(orders[o])
    <3>1. PICK w \in 0 .. MaxVersion : w <= Len(orders[q]) /\ orderTail' = [orderTail EXCEPT ![q] = w]
      BY Zenon, <2>1 DEF AnnounceOrder, OrderTopic!Announce, OrderTopic!States
    <3>2. received' = [received EXCEPT ![<<q, w>>] = "due"]
      <4>1. received' = [received EXCEPT ![<<q, orderTail'[q]>>] = "due"]
        BY Zenon, <2>1 DEF AnnounceOrder
      <4>2. orderTail'[q] = w
        BY <3>1, Zenon DEF TypeOK
      <4> QED BY <4>1, <4>2, Zenon
    <3>3. <<o, v>> = <<q, w>>
      BY <1>2, <3>2, DispatchShapes, Zenon DEF OrderRows
    <3> QED BY <3>1, <3>3, Zenon
  <2>2. ASSUME NEW d \in Dispatchers, NEW q \in Orders, NEW w \in OrderVersions, IgnoreRow(d, q, w)
        PROVE  v <= Len(orders[o])
    <3>1. <<o, v>> = <<q, w>>
      BY Zenon, <1>2, <2>2, DispatchShapes DEF IgnoreRow, Processed, OrderRows
    <3> QED BY <2>2, <3>1, Zenon DEF IgnoreRow, Claimable, Upstream
  <2>3. ASSUME NEW d \in Dispatchers, FailRow(d) \/ Republish(d) PROVE v <= Len(orders[o])
    <3>1. txn[d] # NoTxn /\ <<txn[d].order, txn[d].version>> = <<o, v>>
      <4>1. txn[d] # NoTxn
        BY Zenon, <2>3, TxnKinds DEF FailRow, Republish
      <4>2. \E status \in {"Processed", "Failed", "due"} :
                received' = [received EXCEPT ![<<txn[d].order, txn[d].version>>] = status]
        BY Zenon, <1>2, <2>3 DEF FailRow, Republish, Processed
      <4> QED BY <1>2, <4>1, <4>2, DispatchShapes, Zenon DEF OrderRows
    <3> QED BY Zenon, <3>1 DEF Upstream
  <2>4. ASSUME RedriveDlq PROVE v <= Len(orders[o])
    <3>1. received[<<o, v>>] = "Failed"
      <4>1. PICK rows \in SUBSET {r \in OrderRows : received[r] = "Failed"} :
                received' = [r \in OrderRows |-> IF r \in rows THEN "due" ELSE received[r]]
        BY Zenon, <2>4 DEF RedriveDlq
      <4>2. <<o, v>> \in OrderRows
        BY Zenon DEF OrderRows
      <4> QED BY <1>2, <4>1, <4>2, Zenon
    <3> QED BY Zenon, <3>1 DEF Upstream
  <2>5. \/ \E q \in Orders : AnnounceOrder(q)
        \/ \E d \in Dispatchers : \/ FailRow(d) \/ Republish(d)
                                  \/ \E q \in Orders, w \in OrderVersions : IgnoreRow(d, q, w)
        \/ RedriveDlq
    BY Zenon, <1>2 DEF Next, Product, CreateProduct, CacheProduct, LockProduct, Begin, Order, ReadOffer,
         LockOrder, Client, FinishDiscontinue, InsertOrder, FinishTransition, DropRequest, End,
         Dispatcher, ApplyRow, SumFulfilled, CrashDispatcher,
         Operator, ArmFault, DisarmFault, pipeline, owners, vars
  <2> QED BY Zenon, <2>1, <2>2, <2>3, <2>4, <2>5
<1> QED BY Zenon, <1>1, <1>2

\* A dispatch transaction stays on its row, and starts on a received one.
LEMMA TxnStep ==
    ASSUME TypeOK, Upstream, [Next]_vars, NEW d \in Dispatchers, txn'[d] # NoTxn
    PROVE  /\ txn'[d].order \in Orders
           /\ txn'[d].version <= Len(orders[txn'[d].order])
<1>1. CASE txn'[d] = txn[d]
  BY Zenon, <1>1, TxnKinds DEF Upstream
<1>2. ASSUME NEW q \in Orders, NEW w \in OrderVersions, ApplyRow(d, q, w)
      PROVE  txn'[d].order \in Orders /\ txn'[d].version <= Len(orders[txn'[d].order])
  <2>1. txn'[d].order = q /\ txn'[d].version = w
    BY Zenon, <1>2, DispatchShapes DEF ApplyRow
  <2> QED BY Zenon, <1>2, <2>1 DEF ApplyRow, Claimable, Upstream
<1>3. ASSUME SumFulfilled(d)
      PROVE  txn'[d].order \in Orders /\ txn'[d].version <= Len(orders[txn'[d].order])
  <2>1. txn[d] # NoTxn
    BY <1>3, TxnKinds, Zenon DEF SumFulfilled
  <2>2. txn'[d].order = txn[d].order /\ txn'[d].version = txn[d].version
    <3>1. txn' = [txn EXCEPT ![d] = [[txn[d] EXCEPT !.step = "summed"] EXCEPT !.fulfilled =
                      Units(FulfilledOrders(ProductOf[txn[d].order], View(d)))]]
      BY Zenon, <1>3 DEF SumFulfilled
    <3> QED BY <3>1, <2>1, DispatchShapes, Zenon DEF DispatchTxn
  <2> QED BY Zenon, <2>1, <2>2, TxnKinds DEF Upstream
<1>4. txn' # txn => \E e \in Dispatchers : Dispatcher(e)
  BY Zenon DEF Next, Product, CreateProduct, CacheProduct, LockProduct, Begin, Order, AnnounceOrder,
         ReadOffer, LockOrder, Client, FinishDiscontinue, InsertOrder, FinishTransition,
         DropRequest, End, Operator, ArmFault, DisarmFault, RedriveDlq, pipeline, owners, vars
<1>5. ASSUME NEW e \in Dispatchers, Dispatcher(e), txn'[d] # txn[d]
      PROVE  \/ SumFulfilled(d)
             \/ \E q \in Orders, w \in OrderVersions : ApplyRow(d, q, w)
  <2>1. e = d
    <3>1. txn' = txn \/ \E x \in DispatchTxn \cup {NoTxn} \cup {txn'[e]} : txn' = [txn EXCEPT ![e] = x]
      BY Zenon, <1>5, DispatchShapes
         DEF Dispatcher, IgnoreRow, ApplyRow, FailRow, SumFulfilled, Republish, CrashDispatcher
    <3> QED BY <1>5, <3>1, DispatchShapes, Zenon
  <2>2. ASSUME txn' = [txn EXCEPT ![e] = NoTxn] PROVE FALSE
    BY <2>1, <2>2, DispatchShapes, Zenon
  <2> QED BY Zenon, <1>5, <2>1, <2>2 DEF Dispatcher, IgnoreRow, FailRow, Republish, CrashDispatcher
<1> QED BY Zenon, <1>1, <1>2, <1>3, <1>4, <1>5

\* The cache moves only when an applied row commits.
LEMMA CacheStep ==
    ASSUME TypeOK, [Next]_vars, NEW o \in Orders, orderCache'[o] # orderCache[o]
    PROVE  \E d \in Dispatchers : /\ Republish(d) /\ txn[d] # NoTxn
                                  /\ txn[d].order = o /\ orderCache'[o] = txn[d].version
<1>1. PICK d \in Dispatchers : Republish(d)
  BY Zenon DEF Next, Product, CreateProduct, CacheProduct, LockProduct, Begin, Order, AnnounceOrder,
         ReadOffer, LockOrder, Client, FinishDiscontinue, InsertOrder, FinishTransition,
         DropRequest, End, Dispatcher, IgnoreRow, ApplyRow, FailRow, SumFulfilled,
         CrashDispatcher, Operator, ArmFault, DisarmFault, RedriveDlq, pipeline, owners, vars
<1>2. txn[d] # NoTxn
  BY Zenon, <1>1, TxnKinds DEF Republish
<1>3. orderCache' = [orderCache EXCEPT ![txn[d].order] = txn[d].version]
  BY Zenon, <1>1 DEF Republish
<1> QED BY <1>1, <1>2, <1>3, DispatchShapes, Zenon

\* What is known downstream goes on existing upstream.
LEMMA UpstreamStep ==
    ASSUME TypeOK, Countable, HeldProducts, HeldOrders, Upstream, [Next]_vars
    PROVE  Upstream'
<1>1. \A o \in Orders : Len(orders[o]) \in Nat /\ Len(orders'[o]) \in Nat
                        /\ Len(orders[o]) <= Len(orders'[o])
  BY StepGrows, Longer, Zenon
<1>2. ASSUME NEW o \in Orders, NEW v \in OrderVersions, received'[<<o, v>>] # "absent"
      PROVE  v <= Len(orders'[o])
  <2>1. v <= Len(orders[o])
    BY Zenon, <1>2, ReceivedStep
  <2> QED BY <1>1, <2>1 DEF OrderVersions
<1>3. ASSUME NEW d \in Dispatchers, txn'[d] # NoTxn
      PROVE  txn'[d].version <= Len(orders'[txn'[d].order])
  <2>1. txn'[d].order \in Orders /\ txn'[d].version <= Len(orders[txn'[d].order])
    BY <1>3, TxnStep, Zenon
  <2>2. TypeOK'
    BY Zenon, TypeStep
  <2>3. txn'[d] \in DispatchTxn /\ txn'[d] # [step |-> "idle"]
    <3>1. txn' \in [Dispatchers -> DispatchTxn]
      BY <2>2, Zenon DEF TypeOK
    <3> QED BY <1>3, <3>1, Zenon DEF NoTxn
  <2>4. txn'[d].version \in OrderVersions
    BY Zenon, <2>3 DEF DispatchTxn, NoTxn
  <2> QED BY <1>1, <2>1, <2>4 DEF OrderVersions
<1>4. ASSUME NEW o \in Orders PROVE orderCache'[o] <= Len(orders'[o])
  <2>1. CASE orderCache'[o] = orderCache[o]
    <3>1. orderCache[o] \in 0 .. 3
      BY Zenon DEF TypeOK
    <3>2. orderCache[o] <= Len(orders[o])
      BY Zenon DEF Upstream
    <3> QED BY <1>1, <2>1, <3>1, <3>2
  <2>2. CASE orderCache'[o] # orderCache[o]
    <3>1. PICK d \in Dispatchers : txn[d] # NoTxn /\ txn[d].order = o /\ orderCache'[o] = txn[d].version
      BY Zenon, <2>2, CacheStep
    <3>2. txn[d].version \in OrderVersions /\ txn[d].version <= Len(orders[o])
      BY Zenon, <3>1, TxnKinds DEF Upstream
    <3> QED BY SMTT(30), <1>1, <3>1, <3>2 DEF OrderVersions
  <2> QED BY <2>1, <2>2, Zenon
<1> QED BY Zenon, <1>2, <1>3, <1>4, CachedStep, AdmittedStep DEF Upstream, NoTxn, OrderVersions

\* Nothing is upstream or downstream of an empty system.
LEMMA UpstreamInit == Init => HeldOrders /\ Upstream
<1> SUFFICES ASSUME Init PROVE HeldOrders /\ Upstream
  BY Zenon
<1>1. HeldOrders
  BY Zenon DEF Init, HeldOrders, NoRequest
<1>2. Len(<< >>) = 0
  BY Zenon
<1>3. \A o \in Orders : orders[o] = << >> /\ orderCache[o] = 0
  BY Zenon DEF Init
<1>4. \A o \in Orders : orderCache[o] <= Len(orders[o])
  <2> TAKE o \in Orders
  <2>1. Len(orders[o]) = 0
    BY <1>2, <1>3, Zenon
  <2>2. orderCache[o] = 0
    BY <1>3, Zenon
  <2> QED BY <2>1, <2>2
<1>5. \A p \in Products : productCache[p] = 0
  BY Zenon DEF Init
<1>6. \A c \in Clients : request[c].kind # "create"
  BY Zenon DEF Init, NoRequest
<1>7. \A o \in Orders, v \in OrderVersions : received[<<o, v>>] = "absent"
  BY Zenon DEF Init, OrderRows
<1>8. \A d \in Dispatchers : txn[d] = NoTxn
  BY Zenon DEF Init
<1> QED BY Zenon, <1>1, <1>3, <1>4, <1>5, <1>6, <1>7, <1>8 DEF Upstream

\* With everything known downstream in place upstream, products come first.
LEMMA ProductsFirst ==
    ASSUME TypeOK, Upstream
    PROVE  NoOrderBeforeProduct
<1> SUFFICES ASSUME NEW o \in Orders,
                    \/ orders[o] # << >>
                    \/ orderCache[o] # 0
                    \/ \E d \in Dispatchers : txn[d] # NoTxn /\ txn[d].order = o
             PROVE  orders[o] # << >>
  BY Zenon DEF NoOrderBeforeProduct, Idle, Upstream
<1>1. Len(<< >>) = 0
  BY Zenon
<1>2. CASE orderCache[o] # 0
  <2>1. orderCache[o] \in 0 .. 3 /\ orderCache[o] <= Len(orders[o])
    BY Zenon DEF TypeOK, Upstream
  <2> QED BY SMTT(30), <1>1, <1>2, <2>1
<1>3. ASSUME NEW d \in Dispatchers, txn[d] # NoTxn, txn[d].order = o PROVE orders[o] # << >>
  <2>1. txn[d].version \in 1 .. 3
    BY Zenon, <1>3, TxnKinds DEF OrderVersions
  <2>2. txn[d].version <= Len(orders[o])
    BY Zenon, <1>3 DEF Upstream
  <2> QED BY SMTT(30), <1>1, <2>1, <2>2
<1> QED BY Zenon, <1>2, <1>3

-----------------------------------------------------------------------------
(* What a product offers *)

\* A sum still holds when it is used: nothing it counted has changed since.
Summed ==
    \A d \in Dispatchers : txn[d].step = "summed" =>
        txn[d].fulfilled = Units(FulfilledOrders(ProductOf[txn[d].order], View(d)))

\* A cached version does not change its meaning as the order moves on.
LEMMA CountKept ==
    ASSUME TypeOK, Grows, NEW p, NEW cache \in [Orders -> 0 .. 3],
           \A o \in Orders : cache[o] <= Len(orders[o])
    PROVE  {o \in Orders : /\ ProductOf[o] = p
                           /\ cache[o] # 0
                           /\ orders'[o][cache[o]] = "Fulfilled"} = FulfilledOrders(p, cache)
<1>1. ASSUME NEW o \in Orders, cache[o] # 0 PROVE orders'[o][cache[o]] = orders[o][cache[o]]
  <2>1. Len(orders[o]) \in Nat /\ \A i \in 1 .. Len(orders[o]) : orders'[o][i] = orders[o][i]
    BY Longer, Zenon
  <2>2. cache[o] \in 1 .. Len(orders[o])
    BY SMTT(30), <1>1, <2>1
  <2> QED BY <2>1, <2>2, Zenon
<1> QED BY <1>1, Zenon DEF FulfilledOrders

\* While the cache stands still, so does what is counted for every product.
LEMMA CachedCountKept ==
    ASSUME TypeOK, Upstream, Grows, orderCache' = orderCache, NEW p
    PROVE  FulfilledOrders(p, orderCache)' = FulfilledOrders(p, orderCache)
<1>1. orderCache \in [Orders -> 0 .. 3] /\ \A o \in Orders : orderCache[o] <= Len(orders[o])
  BY Zenon DEF TypeOK, Upstream
<1>2. {o \in Orders : /\ ProductOf[o] = p
                      /\ orderCache[o] # 0
                      /\ orders'[o][orderCache[o]] = "Fulfilled"} = FulfilledOrders(p, orderCache)
  BY <1>1, CountKept, Zenon
<1> QED BY Zenon, <1>2 DEF FulfilledOrders

\* A transaction's view of the cache is a cache of versions that exist.
LEMMA ViewType ==
    ASSUME TypeOK, Upstream, NEW d \in Dispatchers, txn[d] # NoTxn
    PROVE  /\ View(d) \in [Orders -> 0 .. 3]
           /\ \A o \in Orders : View(d)[o] <= Len(orders[o])
<1>1. txn[d].order \in Orders /\ txn[d].version \in 1 .. 3
  BY TxnKinds, Zenon DEF OrderVersions
<1>2. txn[d].version <= Len(orders[txn[d].order])
  BY Zenon DEF Upstream
<1>3. orderCache \in [Orders -> 0 .. 3] /\ \A o \in Orders : orderCache[o] <= Len(orders[o])
  BY Zenon DEF TypeOK, Upstream
<1> QED BY SMTT(30), <1>1, <1>2, <1>3 DEF View

\* A sum outlives every step that leaves its transaction and the cache alone.
LEMMA SumKept ==
    ASSUME TypeOK, Upstream, Grows, Summed, orderCache' = orderCache,
           NEW d \in Dispatchers, txn'[d] = txn[d], txn[d].step = "summed"
    PROVE  txn'[d].fulfilled = Units(FulfilledOrders(ProductOf[txn[d].order], View(d)))'
<1>1. txn[d] # NoTxn
  BY Zenon, TxnKinds
<1> DEFINE p == ProductOf[txn[d].order]
           cache == [orderCache EXCEPT ![txn[d].order] = txn[d].version]
<1>2. /\ cache \in [Orders -> 0 .. 3]
      /\ \A o \in Orders : cache[o] <= Len(orders[o])
  BY Zenon, <1>1, ViewType DEF View
<1>3. {o \in Orders : /\ ProductOf[o] = p
                      /\ cache[o] # 0
                      /\ orders'[o][cache[o]] = "Fulfilled"} = FulfilledOrders(p, cache)
  <2> HIDE DEF cache, p
  <2> QED BY Zenon, <1>2, CountKept
<1>4. FulfilledOrders(ProductOf[txn[d].order], View(d))' = FulfilledOrders(p, cache)
  <2>1. View(d)' = cache /\ ProductOf[txn'[d].order] = p
    BY Zenon DEF View
  <2> HIDE DEF cache, p
  <2> QED BY <1>3, <2>1, Zenon DEF FulfilledOrders
<1>5. txn[d].fulfilled = Units(FulfilledOrders(p, cache))
  BY Zenon DEF Summed, View
<1>6. Units(FulfilledOrders(ProductOf[txn[d].order], View(d)))' = Units(FulfilledOrders(p, cache))
  <2> HIDE DEF cache, p
  <2> QED BY Zenon, <1>4 DEF Units
<1> QED BY <1>5, <1>6, Zenon

\* What one product offers agrees with its stock and the cache.
Balanced(p) ==
    products[p] # << >> =>
        products[p][Len(products[p])].available =
            Greatest(products[p][Len(products[p])].onHand - Units(FulfilledOrders(p, orderCache)), 0)

\* Steps that write no product and leave the cache alone keep every balance.
LEMMA BalanceKept ==
    ASSUME TypeOK, Upstream, Grows, orderCache' = orderCache, NEW p \in Products, Balanced(p),
           products'[p] = products[p]
    PROVE  Balanced(p)'
<1>1. FulfilledOrders(p, orderCache)' = FulfilledOrders(p, orderCache)
  BY Zenon, CachedCountKept
<1>2. Units(FulfilledOrders(p, orderCache))' = Units(FulfilledOrders(p, orderCache))
  BY Zenon, <1>1 DEF Units
<1> QED BY Zenon, <1>2 DEF Balanced

\* A product is created in balance: no cached order names it yet.
LEMMA CreatedBalanced ==
    ASSUME TypeOK, Countable, Upstream, NEW p \in Products, CreateProduct(p)
    PROVE  Balanced(p)'
<1>1. products[p] = << >> /\ orders' = orders /\ orderCache' = orderCache
  BY Zenon DEF CreateProduct
<1>2. ASSUME NEW o \in Orders, ProductOf[o] = p PROVE orderCache[o] = 0
  <2>1. orders[o] = << >>
    BY Zenon, <1>1, <1>2 DEF Upstream
  <2>2. Len(<< >>) = 0
    BY Zenon
  <2>3. orderCache[o] \in 0 .. 3 /\ orderCache[o] <= Len(orders[o])
    BY Zenon DEF TypeOK, Upstream
  <2> QED BY SMTT(30), <2>1, <2>2, <2>3
<1>3. FulfilledOrders(p, orderCache)' = {}
  BY <1>1, <1>2, Zenon DEF FulfilledOrders
<1>4. Units(FulfilledOrders(p, orderCache))' = 0
  <2>1. Units({})' = 0
    BY Zenon DEF Countable, Units
  <2> QED BY <1>3, <2>1, Zenon DEF Units
<1>5. PICK l \in Listings : products'[p] =
              <<[status |-> l.status, onHand |-> l.onHand, available |-> l.onHand]>>
  BY Zenon DEF CreateProduct, TypeOK
<1>6. l.onHand \in Nat
  BY StorefrontAssumption, Zenon
<1> DEFINE s == [status |-> l.status, onHand |-> l.onHand, available |-> l.onHand]
<1>7. Len(<<s>>) = 1 /\ <<s>>[1] = s
  BY Zenon
<1>8. products'[p][Len(products'[p])] = s
  BY Zenon, <1>5, <1>7
<1>9. products'[p][Len(products'[p])].available = l.onHand
      /\ products'[p][Len(products'[p])].onHand = l.onHand
  BY <1>8
<1>10. Greatest(l.onHand - 0, 0) = l.onHand
  BY SMTT(30), <1>6 DEF Greatest
<1> QED BY Zenon, <1>4, <1>9, <1>10 DEF Balanced, Greatest

\* Withdrawing a product changes neither its stock nor what it offers.
LEMMA DiscontinuedBalanced ==
    ASSUME TypeOK, HeldProducts, Upstream, Grows, NEW c \in Clients, FinishDiscontinue(c),
           NEW p \in Products, Balanced(p)
    PROVE  Balanced(p)'
<1>1. orderCache' = orderCache
  BY Zenon DEF FinishDiscontinue, End
<1>2. CASE products'[p] = products[p]
  BY Zenon, <1>1, <1>2, BalanceKept
<1>3. CASE products'[p] # products[p]
  <2> DEFINE now == products[p][Len(products[p])]
             next == [now EXCEPT !.status = "Discontinued"]
  <2>1. request[c].id = p /\ products'[p] = Append(products[p], next)
    BY Zenon, <1>3 DEF FinishDiscontinue, TypeOK
  <2>2. products[p] # << >> /\ products[p] \in Seq(ProductState)
    BY <2>1, Zenon DEF HeldProducts, FinishDiscontinue, TypeOK
  <2>3. now \in ProductState
    BY <2>2, LastState, Zenon
  <2>4. next \in ProductState /\ next.available = now.available /\ next.onHand = now.onHand
    BY <2>3, Zenon DEF ProductState, ProductStatus
  <2>5. products'[p][Len(products'[p])] = next
    <3> HIDE DEF next
    <3>1. Len(Append(products[p], next)) = Len(products[p]) + 1
          /\ Append(products[p], next)[Len(products[p]) + 1] = next
      BY SMTT(30), <2>2, <2>4, Appended
    <3> QED BY Zenon, <2>1, <3>1
  <2>6. Units(FulfilledOrders(p, orderCache))' = Units(FulfilledOrders(p, orderCache))
    <3>1. FulfilledOrders(p, orderCache)' = FulfilledOrders(p, orderCache)
      BY Zenon, <1>1, CachedCountKept
    <3> QED BY <3>1, Zenon DEF Units
  <2>7. now.available = Greatest(now.onHand - Units(FulfilledOrders(p, orderCache)), 0)
    BY Zenon, <2>2 DEF Balanced
  <2> HIDE DEF now, next
  <2> QED BY Zenon, <2>4, <2>5, <2>6, <2>7 DEF Balanced, Greatest
<1> QED BY Zenon, <1>2, <1>3

\* Committing an applied row restores the balance of its product, from a sum
\* that is still right, and touches no other product's.
LEMMA RepublishedBalanced ==
    ASSUME TypeOK, Summed, NEW d \in Dispatchers, Republish(d), NEW p \in Products, Balanced(p)
    PROVE  Balanced(p)'
<1>1. /\ txn[d] # NoTxn /\ txn[d].order \in Orders /\ txn[d].fulfilled \in Nat
      /\ txn[d].step = "summed"
  BY Zenon, TxnKinds DEF Republish
<1>2. orderCache' = View(d) /\ orders' = orders
  BY Zenon DEF Republish, View
<1>3. CASE p # ProductOf[txn[d].order]
  <2>1. products'[p] = products[p]
    BY Zenon, <1>1, <1>3, StorefrontAssumption DEF Republish, TypeOK
  <2>2. \A o \in Orders : ProductOf[o] = p => orderCache'[o] = orderCache[o]
    BY Zenon, <1>1, <1>2, <1>3 DEF View, TypeOK
  <2>3. FulfilledOrders(p, orderCache)' = FulfilledOrders(p, orderCache)
    BY Zenon, <1>2, <2>2 DEF FulfilledOrders
  <2>4. Units(FulfilledOrders(p, orderCache))' = Units(FulfilledOrders(p, orderCache))
    BY Zenon, <2>3 DEF Units
  <2> QED BY Zenon, <2>1, <2>4 DEF Balanced
<1>4. CASE p = ProductOf[txn[d].order]
  <2>1. CASE products[p] = << >>
    BY Zenon, <1>4, <2>1 DEF Republish, Balanced
  <2>2. CASE products[p] # << >>
    <3> DEFINE now == products[p][Len(products[p])]
               left == Greatest(now.onHand - txn[d].fulfilled, 0)
               next == [now EXCEPT !.available = left]
    <3>1. products[p] \in Seq(ProductState)
      BY Zenon DEF TypeOK
    <3>2. now \in ProductState
      BY Zenon, <2>2, <3>1, LastState
    <3>3. left \in Nat
      BY <1>1, <3>2 DEF Greatest, ProductState
    <3>4. next \in ProductState /\ next.available = left /\ next.onHand = now.onHand
      <4> HIDE DEF left
      <4> QED BY Zenon, <3>2, <3>3 DEF ProductState
    <3>5. products'[p] = Append(products[p], next)
      BY Zenon, <1>4, <2>2 DEF Republish, TypeOK
    <3>6. products'[p][Len(products'[p])] = next
      <4> HIDE DEF next
      <4>1. Len(Append(products[p], next)) = Len(products[p]) + 1
            /\ Append(products[p], next)[Len(products[p]) + 1] = next
        BY SMTT(30), <3>1, <3>4, Appended
      <4> QED BY Zenon, <3>5, <4>1
    <3>7. FulfilledOrders(p, orderCache)' = FulfilledOrders(p, View(d))
      BY Zenon, <1>2 DEF FulfilledOrders
    <3>8. Units(FulfilledOrders(p, orderCache))' = txn[d].fulfilled
      <4>1. txn[d].fulfilled = Units(FulfilledOrders(p, View(d)))
        BY Zenon, <1>1, <1>4 DEF Summed
      <4> QED BY Zenon, <3>7, <4>1 DEF Units
    <3>9. left = Greatest(next.onHand - Units(FulfilledOrders(p, orderCache))', 0)
      BY Zenon, <3>4, <3>8
    <3> HIDE DEF now, left, next
    <3> QED BY <3>4, <3>6, <3>9, Zenon DEF Balanced, Greatest
  <2> QED BY Zenon, <2>1, <2>2
<1> QED BY Zenon, <1>3, <1>4

\* A sum is taken over the cache as the transaction sees it.
LEMMA SumTaken ==
    ASSUME TypeOK, Upstream, Grows, Summed, NEW d \in Dispatchers, SumFulfilled(d)
    PROVE  Summed'
<1>1. orders' = orders /\ orderCache' = orderCache
  BY Zenon DEF SumFulfilled, owners
<1>2. txn[d] # NoTxn /\ txn[d].step \in {"applied", "summed"}
  BY TxnKinds, Zenon DEF SumFulfilled
<1>3. /\ txn'[d].order = txn[d].order
      /\ txn'[d].version = txn[d].version
      /\ txn'[d].fulfilled = Units(FulfilledOrders(ProductOf[txn[d].order], View(d)))
  <2>1. txn[d] \in [step : {"applied", "summed"}, order : Orders, version : OrderVersions,
                    fulfilled : Nat]
    BY Zenon, <1>2 DEF TypeOK, DispatchTxn
  <2> QED BY Zenon, <2>1 DEF SumFulfilled, TypeOK
<1>4. View(d)' = View(d)
  BY Zenon, <1>1, <1>3 DEF View
<1>5. Units(FulfilledOrders(ProductOf[txn[d].order], View(d)))'
        = Units(FulfilledOrders(ProductOf[txn[d].order], View(d)))
  BY <1>1, <1>3, <1>4, Zenon DEF Units, FulfilledOrders
<1>6. ASSUME NEW e \in Dispatchers, e # d PROVE txn'[e] = txn[e]
  BY Zenon, <1>6 DEF SumFulfilled, TypeOK
<1>7. ASSUME NEW e \in Dispatchers, txn'[e].step = "summed"
      PROVE  txn'[e].fulfilled = Units(FulfilledOrders(ProductOf[txn[e].order], View(e)))'
  <2>1. CASE e = d
    BY Zenon, <1>3, <1>5, <2>1
  <2>2. CASE e # d
    <3>1. txn'[e] = txn[e] /\ txn[e].step = "summed"
      BY Zenon, <1>6, <1>7, <2>2
    <3> QED BY Zenon, <1>1, <3>1, SumKept
  <2> QED BY Zenon, <2>1, <2>2
<1> QED BY <1>7, Zenon DEF Summed

\* Every step keeps the balances and, with one dispatcher, the sum in hand.
LEMMA BalanceStep ==
    ASSUME NEW k, Dispatchers = {k},
           TypeOK, Countable, HeldProducts, Upstream, Summed, \A p \in Products : Balanced(p),
           [Next]_vars
    PROVE  Summed' /\ \A p \in Products : Balanced(p)'
<1>1. Grows
  BY Zenon, StepGrows
<1>2. ASSUME orderCache' = orderCache, txn' = txn PROVE Summed'
  <2>1. ASSUME NEW d \in Dispatchers, txn'[d].step = "summed"
        PROVE  txn'[d].fulfilled = Units(FulfilledOrders(ProductOf[txn[d].order], View(d)))'
    BY Zenon, <1>1, <1>2, <2>1, SumKept
  <2> QED BY Zenon, <2>1 DEF Summed
<1>3. ASSUME orderCache' = orderCache, products' = products PROVE \A p \in Products : Balanced(p)'
  BY <1>1, <1>3, BalanceKept, Zenon
<1>4. ASSUME NEW p \in Products, CreateProduct(p) PROVE Summed' /\ \A q \in Products : Balanced(q)'
  <2>1. orderCache' = orderCache /\ txn' = txn
    BY Zenon, <1>4 DEF CreateProduct
  <2>2. \A q \in Products : q # p => products'[q] = products[q]
    BY Zenon, <1>4 DEF CreateProduct, TypeOK
  <2>3. \A q \in Products : Balanced(q)'
    BY Zenon, <1>1, <1>4, <2>1, <2>2, CreatedBalanced, BalanceKept
  <2> QED BY Zenon, <1>2, <2>1, <2>3
<1>5. ASSUME NEW c \in Clients, FinishDiscontinue(c) PROVE Summed' /\ \A p \in Products : Balanced(p)'
  <2>1. orderCache' = orderCache /\ txn' = txn
    BY <1>5, Zenon DEF FinishDiscontinue, End
  <2> QED BY Zenon, <1>1, <1>2, <1>5, <2>1, DiscontinuedBalanced
<1>6. ASSUME NEW d \in Dispatchers, SumFulfilled(d)
      PROVE  Summed' /\ \A p \in Products : Balanced(p)'
  <2>1. orderCache' = orderCache /\ products' = products
    BY Zenon, <1>6 DEF SumFulfilled, owners
  <2> QED BY <1>1, <1>3, <1>6, <2>1, SumTaken, Zenon
<1>7. ASSUME NEW d \in Dispatchers, txn'[d].step # "summed" PROVE Summed'
  BY Zenon, <1>7 DEF Summed
<1>8. ASSUME NEW d \in Dispatchers, Republish(d) PROVE Summed' /\ \A p \in Products : Balanced(p)'
  <2>1. txn'[d].step # "summed"
    <3>1. txn'[d] = NoTxn
      <4>1. txn' = [txn EXCEPT ![d] = NoTxn]
        BY Zenon, <1>8 DEF Republish
      <4> QED BY <4>1, DispatchShapes, Zenon
    <3> QED BY <3>1 DEF NoTxn
  <2> QED BY Zenon, <1>7, <1>8, <2>1, RepublishedBalanced
<1>9. ASSUME NEW d \in Dispatchers, FailRow(d) \/ CrashDispatcher(d)
      PROVE  Summed' /\ \A p \in Products : Balanced(p)'
  <2>1. txn'[d].step # "summed" /\ orderCache' = orderCache /\ products' = products
    BY <1>9 DEF FailRow, CrashDispatcher, NoTxn, TypeOK, owners
  <2> QED BY Zenon, <1>3, <1>7, <2>1
<1>10. ASSUME NEW d \in Dispatchers, NEW o \in Orders, NEW v \in OrderVersions,
              IgnoreRow(d, o, v) \/ ApplyRow(d, o, v)
       PROVE  Summed' /\ \A p \in Products : Balanced(p)'
  <2>1. orderCache' = orderCache /\ products' = products
    BY <1>10, Zenon DEF IgnoreRow, ApplyRow, owners
  <2>2. txn' = txn \/ txn'[d].step # "summed"
    BY SMTT(30), <1>10 DEF IgnoreRow, ApplyRow, TypeOK
  <2> QED BY <1>2, <1>3, <1>7, <2>1, <2>2, Zenon
<1>11. \/ UNCHANGED <<orderCache, products, txn>>
       \/ \E p \in Products : CreateProduct(p)
       \/ \E c \in Clients : FinishDiscontinue(c)
       \/ \E d \in Dispatchers : Dispatcher(d)
  BY Zenon DEF Next, Product, CacheProduct, LockProduct, Begin, Order, AnnounceOrder,
         ReadOffer, LockOrder, Client, InsertOrder, FinishTransition,
         DropRequest, End, Operator, ArmFault, DisarmFault, RedriveDlq, pipeline, owners, vars
<1>12. CASE UNCHANGED <<orderCache, products, txn>>
  BY <1>2, <1>3, <1>12, Zenon
<1>13. CASE \E d \in Dispatchers : Dispatcher(d)
  BY <1>6, <1>8, <1>9, <1>10, <1>13, Zenon DEF Dispatcher
<1> QED BY <1>4, <1>5, <1>11, <1>12, <1>13, Zenon

\* An empty store is in balance.
LEMMA BalanceInit == Init => Summed /\ \A p \in Products : Balanced(p)
<1> SUFFICES ASSUME Init PROVE Summed /\ \A p \in Products : Balanced(p)
  BY Zenon
<1>1. /\ \A d \in Dispatchers : txn[d].step # "summed"
      /\ \A p \in Products : products[p] = << >>
  BY Zenon DEF Init, NoTxn
<1>2. Summed
  BY <1>1, Zenon DEF Summed
<1>3. \A p \in Products : Balanced(p)
  BY <1>1, Zenon DEF Balanced
<1> QED BY <1>2, <1>3, Zenon

-----------------------------------------------------------------------------
(* The fault switch *)

\* No step leaves an armed fault without budget.
LEMMA BudgetStep ==
    ASSUME TypeOK, ArmedHasBudget, [Next]_vars
    PROVE  ArmedHasBudget'
<1>1. faults.remaining \in Nat \cup {-1} /\ faults \in [mode : {"off", "error"}, remaining : Nat \cup {-1}]
  BY Zenon DEF TypeOK, Unlimited
<1>2. ASSUME NEW d \in Dispatchers, FailRow(d) PROVE ArmedHasBudget'
  <2>1. faults.remaining # 0 /\ faults' = claim_fault
    BY <1>2, Zenon DEF FailRow, Fires, ArmedHasBudget
  <2>2. CASE faults.remaining = -1
    BY <2>1, <2>2, Zenon DEF claim_fault, Unlimited, ArmedHasBudget
  <2>3. CASE faults.remaining = 1
    <3>1. faults' = Off
      BY <2>1, <2>3 DEF claim_fault, Unlimited
    <3> QED BY <3>1, Zenon DEF Off, ArmedHasBudget
  <2>4. CASE faults.remaining # -1 /\ faults.remaining # 1
    <3>1. faults' = [faults EXCEPT !.remaining = @ - 1]
      BY <1>1, <2>1, <2>4 DEF claim_fault, Unlimited
    <3>2. faults'.remaining = faults.remaining - 1
      BY Zenon, <1>1, <3>1
    <3> QED BY <1>1, <2>1, <2>4, <3>2 DEF ArmedHasBudget
  <2> QED BY Zenon, <2>2, <2>3, <2>4
<1>3. ASSUME ArmFault \/ DisarmFault PROVE ArmedHasBudget'
  BY SMTT(30), <1>3 DEF ArmFault, DisarmFault, Off, ArmedHasBudget
<1>4. faults' = faults \/ ArmFault \/ DisarmFault \/ \E d \in Dispatchers : FailRow(d)
  BY Zenon DEF Next, Product, CreateProduct, CacheProduct, LockProduct, Begin, Order, AnnounceOrder,
         ReadOffer, LockOrder, Client, FinishDiscontinue, InsertOrder, FinishTransition,
         DropRequest, End, Dispatcher, IgnoreRow, ApplyRow, SumFulfilled, Republish,
         CrashDispatcher, Operator, RedriveDlq, vars
<1> QED BY Zenon, <1>2, <1>3, <1>4 DEF ArmedHasBudget

-----------------------------------------------------------------------------
(* The theorems *)

INSTANCE FiniteSetTheorems

\* The units of a set of orders can be counted: SUM(quantity) is a number.
LEMMA UnitsType ==
    ASSUME NEW os \in SUBSET Orders
    PROVE  Units(os) \in Nat
<1>1. IsFiniteSet(os)
  BY FS_Subset, StorefrontAssumption, Zenon
<1> DEFINE lots == {{o} \X (1 .. Quantity[o]) : o \in os}
<1>2. IsFiniteSet(lots)
  <2> DEFINE f == [o \in os |-> {o} \X (1 .. Quantity[o])]
  <2>1. f \in Surjection(os, lots)
    BY Zenon DEF Surjection
  <2> QED BY <1>1, <2>1, FS_Surjection, Zenon DEF ExistsSurjection
<1>3. ASSUME NEW lot \in lots PROVE IsFiniteSet(lot)
  <2>1. PICK o \in os : lot = {o} \X (1 .. Quantity[o])
    BY Zenon
  <2>2. Quantity[o] \in Int
    BY StorefrontAssumption, Zenon
  <2>3. IsFiniteSet(1 .. Quantity[o])
    BY <2>2, FS_Interval
  <2>4. IsFiniteSet({o})
    BY Zenon, FS_Singleton
  <2> QED BY Zenon, <2>1, <2>3, <2>4, FS_Product
<1>4. IsFiniteSet(UNION lots)
  BY Zenon, <1>2, <1>3, FS_UNION
<1> QED BY <1>4, FS_CardinalityType, Zenon DEF Units

\* The empty set of orders has no units.
LEMMA NoUnits == Units({}) = 0
<1>1. UNION {{o} \X (1 .. Quantity[o]) : o \in {}} = {}
  BY Zenon
<1> QED BY <1>1, FS_EmptySet, Zenon DEF Units

\* SUM(quantity) over any orders is a number, and zero over none.
LEMMA UnitsCountable == Countable
  BY UnitsType, NoUnits, Zenon DEF Countable

\* Every reachable state of the two services is well typed, whatever the
\* entities, clients and dispatchers.
THEOREM StorefrontTyped == Spec => [](TypeOK /\ HeldProducts)
<1>1. ASSUME Init PROVE TypeOK /\ HeldProducts
  <2>1. NoRequest \in ClientTxn /\ NoTxn \in DispatchTxn
    BY Zenon DEF ClientTxn, DispatchTxn
  <2>2. Off \in [mode : {"off", "error"}, remaining : Nat \cup {Unlimited}]
    BY Zenon DEF Off
  <2>3. TypeOK
    BY SMTT(30), <1>1, <2>1, <2>2 DEF Init, TypeOK
  <2> QED BY <1>1, <2>3, Zenon DEF Init, HeldProducts, NoRequest
<1> QED BY <1>1, TypeStep, UnitsCountable, PTL DEF Spec

\* A product once withdrawn stays withdrawn, however `discontinue` and the
\* dispatch handler interleave on its row.
THEOREM WithdrawnStays == Spec => []WithdrawnForGood
<1>1. Init => WithdrawnForGood
  BY DEF Init, WithdrawnForGood
<1>2. UNCHANGED vars /\ WithdrawnForGood => WithdrawnForGood'
  BY Zenon DEF vars, WithdrawnForGood
<1> QED BY <1>1, <1>2, WithdrawnStep, StorefrontTyped, PTL DEF Spec

\* Every order moves through legal transitions only, whatever transitions of it
\* are requested at the same time: the row lock is enough.
THEOREM OrdersMoveLegally == Spec => []LegalHistory
<1>1. Init => HeldOrders /\ LegalHistory
  <2>1. Init => HeldOrders
    BY DEF Init, HeldOrders, NoRequest
  <2>2. ASSUME Init PROVE LegalHistory
    <3>1. \A o \in Orders : orders[o] = << >>
      BY <2>2, Zenon DEF Init
    <3>2. Len(<< >>) = 0
      BY Zenon
    <3>3. \A o \in Orders : Len(orders[o]) = 0
      BY <3>1, <3>2, Zenon
    <3> QED BY <3>3 DEF LegalHistory
  <2> QED BY <2>1, <2>2, Zenon
<1> QED BY <1>1, LegalStep, HeldStep, StorefrontTyped, PTL DEF Spec

\* No order is admitted, cached or applied before its product exists.
THEOREM OrdersHaveProducts == Spec => []NoOrderBeforeProduct
<1> QED BY ProductsFirst, UnitsCountable, UpstreamInit, UpstreamStep, HeldStep,
           StorefrontTyped, PTL DEF Spec

\* With one dispatcher at `product`, what a product offers is its stock less the
\* fulfilled orders in the cache, whatever else is going on: recompute_availability
\* sums, and updates with that sum, in two statements of one transaction.
THEOREM AvailabilityOfOneDispatcher ==
    ASSUME NEW k, Dispatchers = {k}
    PROVE  Spec => []AvailabilityDerived
<1>1. ASSUME TypeOK, HeldProducts, Upstream, Summed, \A p \in Products : Balanced(p), [Next]_vars
      PROVE  Summed' /\ (\A p \in Products : Balanced(p))'
  BY <1>1, BalanceStep, UnitsCountable, Zenon
<1>2. (\A p \in Products : Balanced(p)) => AvailabilityDerived
  BY Zenon DEF Balanced, AvailabilityDerived
<1> QED BY <1>1, <1>2, BalanceInit, UnitsCountable, UpstreamInit, UpstreamStep, HeldStep,
           StorefrontTyped, PTL DEF Spec

\* However many dispatchers fire an armed fault, and however often it is armed
\* and disarmed meanwhile, claim_fault never takes a unit that is not there.
THEOREM FaultsHaveBudget == Spec => []ArmedHasBudget
<1>1. Init => ArmedHasBudget
  BY DEF Init, Off, ArmedHasBudget
<1> QED BY <1>1, BudgetStep, StorefrontTyped, PTL DEF Spec
=============================================================================
