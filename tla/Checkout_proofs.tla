--------------------------- MODULE Checkout_proofs ---------------------------
(***************************************************************************)
(* Proofs about Checkout, for every number of customers, products,         *)
(* processes, orders and payments, with or without free products.          *)
(***************************************************************************)
EXTENDS Checkout, FiniteSetTheorems, TLAPS

USE DEF Orders, Baskets, Payments

\* What TypeOK needs of each step is in the definition of the step itself.
\* The operators every action of a request ends with.
LEMMA EndRequestTypes ==
  ASSUME TypeOK, NEW w \in Workers, EndRequest(w)
  PROVE  /\ pc' \in [Workers -> Stages]
         /\ wbasket' \in [Workers -> Baskets \cup {None}]
         /\ wvers' \in [Workers -> SUBSET ProductVersions]
         /\ word' \in [Workers -> Orders \cup {None}]
         /\ wpay' \in [Workers -> Payments \cup {None}]
         /\ wout' \in [Workers -> FinalStates \cup {None}]
BY DEF TypeOK, EndRequest, Stages

LEMMA UnlockType ==
  ASSUME TypeOK, NEW w \in Workers, Unlock(w)
  PROVE  lock' \in [Orders -> Workers \cup {None}]
BY DEF TypeOK, Unlock

LEMMA EstablishTypes ==
  ASSUME TypeOK, NEW own \in Owners, NEW b \in Baskets, Establish(own, b)
  PROVE  /\ bowner' \in [Baskets -> Owners \cup {None}]
         /\ blive' \subseteq Baskets
BY DEF TypeOK, Establish

LEMMA FulfillTypes ==
  ASSUME TypeOK, NEW w \in Workers, NEW o \in Orders, NEW basketsOf \in SUBSET Baskets,
         NEW broker \in BrokerFaults, Fulfill(w, o, basketsOf, broker)
  PROVE  /\ faults' \in 0 .. MaxFaults
         /\ webhook' \in [Orders -> Nat]
         /\ mail' \in [Orders -> Nat]
         /\ wout' \in [Workers -> FinalStates \cup {None}]
         /\ wbasket' \in [Workers -> Baskets \cup {None}]
         /\ pc' \in [Workers -> Stages]
<1>1. faults' \in 0 .. MaxFaults
  BY BoundsAssumption DEF TypeOK, Fulfill
<1>2. webhook' \in [Orders -> Nat] /\ mail' \in [Orders -> Nat]
  BY DEF TypeOK, Fulfill
<1>3. wout' \in [Workers -> FinalStates \cup {None}]
  BY DEF TypeOK, Fulfill, StateAfter, FinalStates
<1>4. wbasket' \in [Workers -> Baskets \cup {None}]
  BY DEF TypeOK, Fulfill
<1>5. pc' \in [Workers -> Stages]
  BY DEF TypeOK, Fulfill, Stages
<1>6. QED BY <1>1, <1>2, <1>3, <1>4, <1>5

-----------------------------------------------------------------------------
(* Type correctness.                                                       *)

LEMMA InitTypes == Init => TypeOK
<1>1. /\ 1 \in 1 .. MaxVersion
      /\ 1 \in 1 .. (MaxOrders + 1)
      /\ 0 \in 0 .. MaxFaults
  BY BoundsAssumption
<1>2. QED BY <1>1, FS_EmptySet DEF Init, TypeOK, Stages, OrderStates

\* The customer's requests and the catalogue's.
LEMMA ShopTypes ==
  ASSUME TypeOK, Customer \/ \E p \in Products : UpdateProduct(p)
  PROVE  TypeOK'
<1>1. ASSUME NEW own \in Owners, NEW b \in Baskets, NEW p \in Products,
             NEW code \in Discounts \cup {None}, AddItem(own, b, p, code)
      PROVE  TypeOK'
  <2>1. bowner' \in [Baskets -> Owners \cup {None}] /\ blive' \subseteq Baskets
    BY <1>1, EstablishTypes DEF AddItem
  <2>2. bitems' \in [Baskets -> SUBSET Products] /\ bcodes' \in [Baskets -> SUBSET Discounts]
    BY <1>1 DEF AddItem, TypeOK
  <2>3. QED BY <1>1, <2>1, <2>2 DEF AddItem, TypeOK, orders, outside, queues, requests
<1>2. ASSUME NEW own \in Owners, NEW b \in Baskets, NEW d \in Discounts,
             AddDiscount(own, b, d)
      PROVE  TypeOK'
  <2>1. bowner' \in [Baskets -> Owners \cup {None}] /\ blive' \subseteq Baskets
    BY <1>2, EstablishTypes DEF AddDiscount
  <2>2. bcodes' \in [Baskets -> SUBSET Discounts]
    BY <1>2 DEF AddDiscount, TypeOK
  <2>3. QED BY <1>2, <2>1, <2>2 DEF AddDiscount, TypeOK, orders, outside, queues, requests
<1>3. ASSUME NEW b \in Baskets, NEW p \in Products, RemoveItem(b, p)
      PROVE  TypeOK'
  BY <1>3 DEF RemoveItem, TypeOK, orders, outside, queues, requests
<1>4. ASSUME NEW b \in Baskets, ClearBasket(b)
      PROVE  TypeOK'
  BY <1>4 DEF ClearBasket, TypeOK, orders, outside, queues, requests
<1>5. ASSUME NEW p \in Products, UpdateProduct(p)
      PROVE  TypeOK'
  <2>1. ver' \in [Products -> 1 .. MaxVersion]
    BY <1>5, BoundsAssumption DEF UpdateProduct, TypeOK
  <2>2. QED BY <1>5, <2>1 DEF UpdateProduct, TypeOK, orders, outside, queues, requests
<1>6. QED BY <1>1, <1>2, <1>3, <1>4, <1>5 DEF Customer

\* The gateway's decision.
LEMMA GatewayTypes ==
  ASSUME TypeOK, Gateway
  PROVE  TypeOK'
<1>1. PICK i \in Payments, f \in forms, decision \in Decisions, txid \in TxIdPresent :
        Pay(i, f, decision, txid)
  BY DEF Gateway
<1>2. [order |-> f.order, items |-> f.items, decision |-> decision, txid |-> txid] \in PayData
  BY ConstantsAssumption DEF TypeOK, Forms, PayData
<1>3. payment' \in [Payments -> PayData \cup {None}]
  BY <1>1, <1>2 DEF Pay, TypeOK
<1>4. QED BY <1>1, <1>3 DEF Pay, TypeOK, tables, orders, queues, requests

\* Rows can be counted.
LEMMA CountIsNat ==
  ASSUME TypeOK, NEW d
  PROVE  TimesRedeemed(d) + 1 \in Nat
<1>1. IsFiniteSet({r \in redeemed : r.code = d})
  BY FS_Subset DEF TypeOK
<1>2. QED BY <1>1, FS_CardinalityType DEF TimesRedeemed

\* A step of a checkout.
LEMMA CheckoutTypes ==
  ASSUME TypeOK, Assigned, NEW w \in Workers,
         (\E b \in Baskets : CheckoutBegin(w, b)) \/ CheckoutStep(w)
  PROVE  TypeOK'
<1>1. ASSUME NEW b \in Baskets, CheckoutBegin(w, b)
      PROVE  TypeOK'
  <2>1. {<<p, ver[p]>> : p \in bitems[b]} \in SUBSET ProductVersions
    BY DEF TypeOK, ProductVersions
  <2>2. /\ pc' \in [Workers -> Stages]
        /\ wbasket' \in [Workers -> Baskets \cup {None}]
        /\ wvers' \in [Workers -> SUBSET ProductVersions]
    BY <1>1, <2>1 DEF CheckoutBegin, TypeOK, Stages
  <2>3. QED BY <1>1, <2>2 DEF CheckoutBegin, TypeOK, tables, orders, outside, queues
<1>2. CASE ReuseOrder(w)
  <2>1. word' \in [Workers -> Orders \cup {None}]
    BY <1>2 DEF ReuseOrder, TypeOK, Matching
  <2>2. lock' \in [Orders -> Workers \cup {None}]
    BY <1>2 DEF ReuseOrder, TypeOK
  <2>3. pc' \in [Workers -> Stages]
    BY <1>2 DEF ReuseOrder, TypeOK, Stages
  <2>4. QED BY <1>2, <2>1, <2>2, <2>3 DEF ReuseOrder, TypeOK, tables, orders, outside, queues
<1>3. CASE CreateOrder(w)
  <2>1. nextOrder' \in 1 .. (MaxOrders + 1)
    BY <1>3, BoundsAssumption DEF CreateOrder, TypeOK
  <2>2. /\ word' \in [Workers -> Orders \cup {None}]
        /\ lock' \in [Orders -> Workers \cup {None}]
    BY <1>3 DEF CreateOrder, TypeOK
  <2>3. pc' \in [Workers -> Stages]
    BY <1>3 DEF CreateOrder, TypeOK, Stages
  <2>4. QED BY <1>3, <2>1, <2>2, <2>3 DEF CreateOrder, TypeOK, tables, outside, queues
<1>4. CASE BuildOrder(w)
  <2>1. word[w] \in Orders /\ wbasket[w] \in Baskets
    BY <1>4 DEF BuildOrder, Assigned
  <2>2. /\ ostate' \in [Orders -> OrderStates]
        /\ oowner' \in [Orders -> Owners \cup {None}]
        /\ olines' \in [Orders -> SUBSET ProductVersions]
        /\ opriced' \in [Orders -> SUBSET ProductVersions]
    BY <1>4, <2>1 DEF BuildOrder, BasketTotal, TypeOK, OrderStates
  <2>3. bcodes' \in [Baskets -> SUBSET Discounts]
    BY <1>4, <2>1 DEF BuildOrder, TypeOK
  <2>4. lock' \in [Orders -> Workers \cup {None}]
    BY <1>4, UnlockType DEF BuildOrder
  <2>5. pc' \in [Workers -> Stages]
    BY <1>4 DEF BuildOrder, TypeOK, Stages
  <2>6. QED BY <1>4, <2>2, <2>3, <2>4, <2>5 DEF BuildOrder, TypeOK, outside, queues
<1>5. CASE BuildOrderFails(w)
  <2>1. lock' \in [Orders -> Workers \cup {None}]
    BY <1>5, UnlockType DEF BuildOrderFails
  <2>2. QED BY <1>5, <2>1, EndRequestTypes
            DEF BuildOrderFails, TypeOK, tables, orders, outside, queues
<1>6. CASE Redeem(w)
  <2>1. word[w] \in Orders /\ wbasket[w] \in Baskets
    BY <1>6 DEF Redeem, Assigned
  <2>2. \A d \in Discounts : TimesRedeemed(d) + 1 \in Nat
    BY CountIsNat
  <2> DEFINE row(d) == [code |-> d, order |-> word[w], n |-> TimesRedeemed(d) + 1]
             codes == bcodes[wbasket[w]]
             rows == {row(d) : d \in codes}
             label == [d \in codes |-> row(d)]
  <2>3. redeemed' = redeemed \cup rows
    BY <1>6 DEF Redeem
  <2>6. codes \in SUBSET Discounts
    BY <2>1 DEF TypeOK
  <2>7. rows \subseteq Redemptions
    BY <2>1, <2>2, <2>6 DEF Redemptions
  <2>8. IsFiniteSet(Discounts)
    BY ConstantsAssumption
  <2>9. IsFiniteSet(rows)
    <3>1. IsFiniteSet(codes)
      BY <2>6, <2>8, FS_Subset
    <3>2. label \in Surjection(codes, rows)
      BY DEF Surjection
    <3>3. QED BY <3>1, <3>2, FS_Surjection
  <2>10. redeemed' \subseteq Redemptions /\ IsFiniteSet(redeemed')
    BY <2>3, <2>7, <2>9, FS_Union DEF TypeOK
  <2>4. pc' \in [Workers -> Stages]
    BY <1>6 DEF Redeem, TypeOK, Stages
  <2>5. QED BY <1>6, <2>10, <2>4 DEF Redeem, TypeOK, orders, outside, queues
<1>7. CASE HandOutForm(w)
  <2>3. word[w] \in Orders
    BY <1>7 DEF HandOutForm, Assigned
  <2>4. [order |-> word[w], items |-> olines[word[w]]] \in Forms
    BY <2>3 DEF TypeOK, Forms
  <2>1. forms' \subseteq Forms
    BY <1>7, <2>4 DEF HandOutForm, TypeOK
  <2>2. QED BY <1>7, <2>1, EndRequestTypes DEF HandOutForm, TypeOK, tables, orders, queues
<1>8. CASE SkipGateway(w)
  <2>1. pc' \in [Workers -> Stages]
    BY <1>8 DEF SkipGateway, TypeOK, Stages
  <2>2. QED BY <1>8, <2>1 DEF SkipGateway, TypeOK, tables, orders, outside, queues
<1>9. ASSUME NEW broker \in BrokerFaults, ZeroFulfill(w, broker)
      PROVE  TypeOK'
  <2>1. word[w] \in Orders /\ {wbasket[w]} \in SUBSET Baskets
    BY <1>9 DEF ZeroFulfill, Assigned
  <2>2. Fulfill(w, word[w], {wbasket[w]}, broker)
    BY <1>9 DEF ZeroFulfill
  <2>3. lock' \in [Orders -> Workers \cup {None}]
    BY <1>9 DEF ZeroFulfill, TypeOK
  <2>4. /\ faults' \in 0 .. MaxFaults
        /\ webhook' \in [Orders -> Nat]
        /\ mail' \in [Orders -> Nat]
        /\ wout' \in [Workers -> FinalStates \cup {None}]
        /\ wbasket' \in [Workers -> Baskets \cup {None}]
        /\ pc' \in [Workers -> Stages]
    BY <2>1, <2>2, FulfillTypes
  <2>5. QED BY <1>9, <2>3, <2>4 DEF ZeroFulfill, TypeOK, tables, orders, outside
<1>10. QED
  BY <1>1, <1>2, <1>3, <1>4, <1>5, <1>6, <1>7, <1>8, <1>9 DEF CheckoutStep

\* A step of a callback, the commit, and the crash.
LEMMA CallbackTypes ==
  ASSUME TypeOK, Assigned, NEW w \in Workers,
         \/ \E i \in Payments : CallbackBegin(w, i)
         \/ CallbackStep(w)
         \/ Commit(w)
         \/ Crash(w)
  PROVE  TypeOK'
<1>1. ASSUME NEW i \in Payments, CallbackBegin(w, i)
      PROVE  TypeOK'
  <2>1. payment[i].order \in Orders
    BY <1>1 DEF CallbackBegin, TypeOK, PayData
  <2>2. /\ pc' \in [Workers -> Stages]
        /\ word' \in [Workers -> Orders \cup {None}]
        /\ wpay' \in [Workers -> Payments \cup {None}]
    BY <1>1, <2>1 DEF CallbackBegin, TypeOK, Stages
  <2>3. QED BY <1>1, <2>2 DEF CallbackBegin, TypeOK, tables, orders, outside, queues
<1>2. CASE LoadPending(w)
  <2>1. lock' \in [Orders -> Workers \cup {None}] /\ pc' \in [Workers -> Stages]
    BY <1>2 DEF LoadPending, TypeOK, Stages
  <2>2. QED BY <1>2, <2>1 DEF LoadPending, TypeOK, tables, orders, outside, queues
<1>3. CASE LoadSettled(w)
  BY <1>3, EndRequestTypes DEF LoadSettled, TypeOK, tables, orders, outside, queues
<1>4. CASE ApplyRejection(w)
  <2>1. wout' \in [Workers -> FinalStates \cup {None}] /\ pc' \in [Workers -> Stages]
    BY <1>4 DEF ApplyRejection, Rejection, TypeOK, FinalStates, Stages
  <2>2. QED BY <1>4, <2>1 DEF ApplyRejection, TypeOK, tables, orders, outside, queues
<1>5. ASSUME NEW broker \in BrokerFaults, ApplyAcceptance(w, broker)
      PROVE  TypeOK'
  <2> DEFINE sold == OldestBasket(oowner[word[w]][1])
  <2>1. word[w] \in Orders /\ sold \in SUBSET Baskets
    BY <1>5 DEF ApplyAcceptance, OldestBasket, Assigned, TypeOK
  <2>2. Fulfill(w, word[w], sold, broker)
    BY <1>5 DEF ApplyAcceptance
  <2> HIDE DEF sold
  <2>3. /\ faults' \in 0 .. MaxFaults
        /\ webhook' \in [Orders -> Nat]
        /\ mail' \in [Orders -> Nat]
        /\ wout' \in [Workers -> FinalStates \cup {None}]
        /\ wbasket' \in [Workers -> Baskets \cup {None}]
        /\ pc' \in [Workers -> Stages]
    BY <2>1, <2>2, FulfillTypes
  <2>4. QED BY <1>5, <2>3 DEF ApplyAcceptance, TypeOK, tables, orders, outside
<1>6. CASE Commit(w)
  <2>1. word[w] \in Orders /\ wout[w] \in FinalStates
    BY <1>6 DEF Commit, Assigned, TypeOK
  <2>2. /\ ostate' \in [Orders -> OrderStates]
        /\ opriced' \in [Orders -> SUBSET ProductVersions]
    BY <1>6, <2>1 DEF Commit, TypeOK, OrderStates
  <2>3. NewTxns(w) \subseteq Txns
    BY <2>1 DEF NewTxns, TypeOK, Txns
  <2>4. txns' \subseteq Txns
    BY <1>6, <2>3 DEF Commit, TypeOK
  <2>5. /\ blive' \subseteq Baskets
        /\ bitems' \in [Baskets -> SUBSET Products]
        /\ bcodes' \in [Baskets -> SUBSET Discounts]
    BY <1>6 DEF Commit, TypeOK
  <2>6. lock' \in [Orders -> Workers \cup {None}]
    BY <1>6, UnlockType DEF Commit
  <2>7. EndRequest(w)
    BY <1>6 DEF Commit
  <2>8. QED BY <1>6, <2>2, <2>4, <2>5, <2>6, <2>7, EndRequestTypes
            DEF Commit, TypeOK, outside, queues
<1>7. CASE Crash(w)
  <2>1. lock' \in [Orders -> Workers \cup {None}]
    BY <1>7, UnlockType DEF Crash
  <2>2. faults' \in 0 .. MaxFaults
    BY <1>7, BoundsAssumption DEF Crash, TypeOK
  <2>3. QED BY <1>7, <2>1, <2>2, EndRequestTypes DEF Crash, TypeOK, tables, orders, outside, queues
<1>8. QED BY <1>1, <1>2, <1>3, <1>4, <1>5, <1>6, <1>7 DEF CallbackStep

LEMMA StepTypes ==
  ASSUME TypeOK, Assigned, [Next]_vars
  PROVE  TypeOK'
<1>1. CASE UNCHANGED vars
  BY <1>1 DEF vars, tables, orders, outside, queues, requests, TypeOK
<1>2. CASE Next
  BY <1>2, ShopTypes, GatewayTypes, CheckoutTypes, CallbackTypes DEF Next, Work
<1>3. QED BY <1>1, <1>2

-----------------------------------------------------------------------------
(* Frames: what a step leaves alone.                                       *)

\* The customer, the gateway and the catalogue touch no order and no request,
\* and a decision once made stays.
LEMMA OutsideFrame ==
  ASSUME TypeOK, Customer \/ Gateway \/ \E p \in Products : UpdateProduct(p)
  PROVE  /\ UNCHANGED <<orders, lock, queues, requests>>
         /\ \A i \in Payments : payment[i] # None => payment'[i] = payment[i]
<1>1. CASE Customer
  BY <1>1 DEF Customer, AddItem, AddDiscount, ClearBasket, RemoveItem, outside
<1>2. CASE Gateway
  BY <1>2 DEF Gateway, Pay, TypeOK
<1>3. CASE \E p \in Products : UpdateProduct(p)
  BY <1>3 DEF UpdateProduct, outside
<1>4. QED BY <1>1, <1>2, <1>3

\* A worker changes its own request only, and no payment.
LEMMA WorkFrame ==
  ASSUME TypeOK, NEW w \in Workers, Work(w)
  PROVE  /\ UNCHANGED payment
         /\ \A v \in Workers \ {w} : /\ pc'[v] = pc[v]
                                     /\ word'[v] = word[v]
                                     /\ wpay'[v] = wpay[v]
                                     /\ wout'[v] = wout[v]
                                     /\ wbasket'[v] = wbasket[v]
<1>1. CASE \E b \in Baskets : CheckoutBegin(w, b)
  BY <1>1 DEF CheckoutBegin, TypeOK, outside
<1>2. CASE \E i \in Payments : CallbackBegin(w, i)
  BY <1>2 DEF CallbackBegin, TypeOK, outside
<1>3. CASE CheckoutStep(w)
  <2>1. CASE ReuseOrder(w) \/ CreateOrder(w)
    BY <2>1 DEF ReuseOrder, CreateOrder, TypeOK, outside
  <2>2. CASE BuildOrder(w) \/ BuildOrderFails(w)
    BY <2>2 DEF BuildOrder, BuildOrderFails, EndRequest, TypeOK, outside
  <2>3. CASE Redeem(w) \/ HandOutForm(w) \/ SkipGateway(w)
    BY <2>3 DEF Redeem, HandOutForm, SkipGateway, EndRequest, TypeOK, outside
  <2>4. CASE \E broker \in BrokerFaults : ZeroFulfill(w, broker)
    BY <2>4 DEF ZeroFulfill, Fulfill, TypeOK, outside
  <2>5. QED BY <1>3, <2>1, <2>2, <2>3, <2>4 DEF CheckoutStep
<1>4. CASE CallbackStep(w)
  <2>1. CASE LoadPending(w) \/ LoadSettled(w) \/ ApplyRejection(w)
    BY <2>1 DEF LoadPending, LoadSettled, ApplyRejection, EndRequest, TypeOK, outside
  <2>2. CASE \E broker \in BrokerFaults : ApplyAcceptance(w, broker)
    BY <2>2 DEF ApplyAcceptance, Fulfill, TypeOK, outside
  <2>3. QED BY <1>4, <2>1, <2>2 DEF CallbackStep
<1>5. CASE Commit(w)
  BY <1>5 DEF Commit, EndRequest, TypeOK, outside
<1>6. CASE Crash(w)
  BY <1>6 DEF Crash, EndRequest, TypeOK, outside
<1>7. QED BY <1>1, <1>2, <1>3, <1>4, <1>5, <1>6 DEF Work

-----------------------------------------------------------------------------
(* The conjuncts of the inductive invariant, one lemma each.               *)

LEMMA StepAssigned ==
  ASSUME TypeOK, Assigned, [Next]_vars
  PROVE  Assigned'
<1>1. CASE UNCHANGED vars
  BY <1>1 DEF vars, outside, requests, Assigned
<1>2. CASE Customer \/ Gateway \/ \E p \in Products : UpdateProduct(p)
  BY <1>2, OutsideFrame, NoneAssumption DEF Assigned, requests, TypeOK
<1>3. ASSUME NEW w \in Workers, Work(w)
      PROVE  Assigned'
  <2> DEFINE Mine ==
        /\ pc'[w] \in {"find", "build", "redeem", "price", "zero"} => wbasket'[w] \in Baskets
        /\ pc'[w] \notin {"idle", "find"} => word'[w] \in Orders
        /\ pc'[w] \in {"load", "apply"} => wpay'[w] # None
        /\ pc'[w] \notin {"load", "apply", "commit"} => wpay'[w] = None
        /\ pc'[w] = "commit" => wout'[w] # None
        /\ wpay'[w] # None => /\ payment[wpay'[w]] # None
                              /\ payment[wpay'[w]].order = word'[w]
  <2>1. Mine
    <3>1. CASE EndRequest(w)
      BY <3>1 DEF EndRequest, TypeOK
    <3>2. CASE \E b \in Baskets : CheckoutBegin(w, b)
      BY <3>2 DEF CheckoutBegin, Assigned, TypeOK
    <3>3. CASE \E i \in Payments : CallbackBegin(w, i)
      BY <3>3, NoneAssumption DEF CallbackBegin, Assigned, TypeOK, PayData
    <3>4. CASE ReuseOrder(w) \/ CreateOrder(w)
      BY <3>4 DEF ReuseOrder, CreateOrder, Matching, Assigned, TypeOK
    <3>5. CASE BuildOrder(w) \/ Redeem(w) \/ SkipGateway(w)
      <4>1. /\ pc[w] \in {"build", "redeem", "price"}
            /\ pc' = [pc EXCEPT ![w] = pc'[w]]
            /\ pc'[w] \in {"redeem", "price", "zero"}
            /\ UNCHANGED <<wbasket, word, wpay, wout, payment>>
        BY <3>5 DEF BuildOrder, Redeem, SkipGateway, TypeOK, outside
      <4>2. QED BY <4>1 DEF Assigned
    <3>6. CASE \E broker \in BrokerFaults : ZeroFulfill(w, broker)
      BY <3>6, NoneAssumption
         DEF ZeroFulfill, Fulfill, StateAfter, Assigned, TypeOK, FinalStates
    <3>7. CASE LoadPending(w)
      BY <3>7 DEF LoadPending, Assigned, TypeOK
    <3>8. CASE ApplyRejection(w)
      BY <3>8, NoneAssumption DEF ApplyRejection, Rejection, Assigned, TypeOK, FinalStates
    <3>9. CASE \E broker \in BrokerFaults : ApplyAcceptance(w, broker)
      BY <3>9, NoneAssumption
         DEF ApplyAcceptance, Fulfill, StateAfter, Assigned, TypeOK, FinalStates
    <3>10. QED
      BY <1>3, <3>1, <3>2, <3>3, <3>4, <3>5, <3>6, <3>7, <3>8, <3>9
         DEF Work, CheckoutStep, CallbackStep, BuildOrderFails, HandOutForm, LoadSettled,
             Commit, Crash
  <2>2. QED BY <1>3, <2>1, WorkFrame DEF Assigned
<1>4. QED BY <1>1, <1>2, <1>3 DEF Next

\* A worker writes the state and the lines of one order only, its own, and
\* only when it builds the order or commits.
LEMMA WrittenRows ==
  ASSUME TypeOK, NEW w \in Workers, Work(w), NEW o \in Orders
  PROVE  \/ ostate'[o] = ostate[o] /\ olines'[o] = olines[o]
         \/ BuildOrder(w) /\ o = word[w] /\ ostate'[o] = "pending"
         \/ Commit(w) /\ o = word[w] /\ ostate'[o] = wout[w] /\ olines'[o] = olines[o]
<1>1. CASE \/ \E b \in Baskets : CheckoutBegin(w, b)
           \/ \E i \in Payments : CallbackBegin(w, i)
           \/ Crash(w)
  BY <1>1 DEF CheckoutBegin, CallbackBegin, Crash, orders
<1>2. CASE CheckoutStep(w)
  <2>1. CASE BuildOrder(w)
    BY <2>1 DEF BuildOrder, TypeOK
  <2>2. CASE ~ BuildOrder(w)
    BY <1>2, <2>2 DEF CheckoutStep, ReuseOrder, CreateOrder, BuildOrderFails, Redeem,
                      HandOutForm, SkipGateway, ZeroFulfill, orders
  <2>3. QED BY <2>1, <2>2
<1>3. CASE CallbackStep(w)
  BY <1>3 DEF CallbackStep, LoadPending, LoadSettled, ApplyRejection, ApplyAcceptance, orders
<1>4. CASE Commit(w)
  BY <1>4 DEF Commit, TypeOK
<1>5. QED BY <1>1, <1>2, <1>3, <1>4 DEF Work

\* What a step of worker w does to the row locks.
LEMMA LockedRows ==
  ASSUME TypeOK, NEW w \in Workers, Work(w), NEW o \in Orders
  PROVE  \/ lock'[o] = lock[o]
         \/ lock[o] = w /\ lock'[o] = None
         \/ /\ lock[o] = None /\ lock'[o] = w
            /\ \/ ostate[o] # "absent"
               \/ CreateOrder(w) /\ o = nextOrder
               \/ \E broker \in BrokerFaults : ZeroFulfill(w, broker) /\ o = word[w]
         \/ CreateOrder(w) /\ o = nextOrder
<1>1. CASE Unlock(w)
  BY <1>1 DEF Unlock, TypeOK
<1>2. CASE \/ \E b \in Baskets : CheckoutBegin(w, b)
           \/ \E i \in Payments : CallbackBegin(w, i)
           \/ Redeem(w) \/ HandOutForm(w) \/ SkipGateway(w)
  BY <1>2 DEF CheckoutBegin, CallbackBegin, Redeem, HandOutForm, SkipGateway
<1>3. CASE ReuseOrder(w)
  BY <1>3 DEF ReuseOrder, Matching, TypeOK
<1>4. CASE CreateOrder(w)
  BY <1>4 DEF CreateOrder, TypeOK
<1>5. CASE \E broker \in BrokerFaults : ZeroFulfill(w, broker)
  BY <1>5 DEF ZeroFulfill, TypeOK
<1>6. CASE CallbackStep(w)
  BY <1>6 DEF CallbackStep, LoadPending, LoadSettled, ApplyRejection, ApplyAcceptance, TypeOK
<1>7. QED
  BY <1>1, <1>2, <1>3, <1>4, <1>5, <1>6
     DEF Work, CheckoutStep, BuildOrder, BuildOrderFails, Commit, Crash

\* A row that another worker holds is not touched.
LEMMA HeldRows ==
  ASSUME TypeOK, HoldsRow, Unborn, NEW w \in Workers, Work(w),
         NEW o \in Orders, lock[o] # None, lock[o] # w
  PROVE  lock'[o] = lock[o] /\ ostate'[o] = ostate[o] /\ olines'[o] = olines[o]
<1>1. lock'[o] = lock[o]
  <2>1. CreateOrder(w) => o # nextOrder
    BY DEF Unborn, TypeOK
  <2>2. QED BY <2>1, LockedRows
<1>2. BuildOrder(w) \/ Commit(w) => o # word[w]
  BY DEF BuildOrder, Commit, HoldsRow
<1>3. QED BY <1>1, <1>2, WrittenRows

LEMMA StepHoldsRow ==
  ASSUME TypeOK, Assigned, HoldsRow, Unborn, [Next]_vars
  PROVE  HoldsRow'
<1>1. CASE UNCHANGED vars
  BY <1>1 DEF vars, requests, HoldsRow
<1>2. CASE Customer \/ Gateway \/ \E p \in Products : UpdateProduct(p)
  BY <1>2, OutsideFrame DEF HoldsRow, requests
<1>3. ASSUME NEW w \in Workers, Work(w)
      PROVE  HoldsRow'
  <2>1. ASSUME NEW v \in Workers \ {w}, pc'[v] \in {"build", "apply", "commit"}
        PROVE  lock'[word'[v]] = v
    <3>1. pc[v] = pc'[v] /\ word[v] = word'[v]
      BY <1>3, WorkFrame
    <3>2. word[v] \in Orders /\ lock[word[v]] = v
      BY <2>1, <3>1 DEF HoldsRow, Assigned
    <3>3. lock'[word[v]] = lock[word[v]]
      BY <1>3, <2>1, <3>2, HeldRows, NoneAssumption
    <3>4. QED BY <3>1, <3>2, <3>3
  <2>2. ASSUME pc'[w] \in {"build", "apply", "commit"}
        PROVE  lock'[word'[w]] = w
    <3>1. ~ EndRequest(w)
      BY <2>2 DEF EndRequest, TypeOK
    <3>2. CASE ReuseOrder(w)
      BY <3>2 DEF ReuseOrder, Matching, TypeOK
    <3>3. CASE CreateOrder(w)
      BY <3>3 DEF CreateOrder, TypeOK
    <3>4. CASE LoadPending(w)
      BY <3>4 DEF LoadPending, Assigned, TypeOK
    <3>5. CASE \E broker \in BrokerFaults : ZeroFulfill(w, broker)
      <4>1. lock' = [lock EXCEPT ![word[w]] = w] /\ word' = word
        BY <3>5 DEF ZeroFulfill
      <4>2. word[w] \in Orders
        BY <3>5 DEF ZeroFulfill, Assigned
      <4>3. QED BY <4>1, <4>2 DEF TypeOK
    <3>6. CASE ApplyRejection(w) \/ \E broker \in BrokerFaults : ApplyAcceptance(w, broker)
      BY <3>6 DEF ApplyRejection, ApplyAcceptance, HoldsRow
    <3>7. CASE \/ \E b \in Baskets : CheckoutBegin(w, b)
               \/ \E i \in Payments : CallbackBegin(w, i)
               \/ BuildOrder(w) \/ Redeem(w) \/ SkipGateway(w)
      BY <2>2, <3>7 DEF CheckoutBegin, CallbackBegin, BuildOrder, Redeem, SkipGateway, TypeOK
    <3>8. QED
      BY <1>3, <3>1, <3>2, <3>3, <3>4, <3>5, <3>6, <3>7
         DEF Work, CheckoutStep, CallbackStep, BuildOrderFails, HandOutForm, LoadSettled,
             Commit, Crash
  <2>3. QED BY <2>1, <2>2 DEF HoldsRow
<1>4. QED BY <1>1, <1>2, <1>3 DEF Next

LEMMA StepSeenState ==
  ASSUME TypeOK, Assigned, HoldsRow, SeenState, Unborn, [Next]_vars
  PROVE  SeenState'
<1>1. CASE UNCHANGED vars
  BY <1>1 DEF vars, orders, requests, SeenState
<1>2. CASE Customer \/ Gateway \/ \E p \in Products : UpdateProduct(p)
  BY <1>2, OutsideFrame DEF SeenState, orders, requests
<1>3. ASSUME NEW w \in Workers, Work(w)
      PROVE  SeenState'
  <2> DEFINE Seen(v) ==
        /\ pc'[v] = "build" => ostate'[word'[v]] \in {"absent", "pending"}
        /\ pc'[v] \in {"redeem", "price", "zero", "load", "commit"} => ostate'[word'[v]] # "absent"
        /\ pc'[v] = "apply" => ostate'[word'[v]] = "pending"
        /\ pc'[v] = "commit" /\ wpay'[v] # None => ostate'[word'[v]] = "pending"
  <2>1. ASSUME NEW v \in Workers \ {w}
        PROVE  Seen(v)
    <3>1. pc'[v] = pc[v] /\ word'[v] = word[v] /\ wpay'[v] = wpay[v]
      BY <1>3, WorkFrame
    <3>2. CASE pc[v] \in {"build", "apply", "commit"}
      <4>1. word[v] \in Orders /\ lock[word[v]] = v
        BY <3>2 DEF HoldsRow, Assigned
      <4>2. ostate'[word[v]] = ostate[word[v]]
        BY <1>3, <4>1, HeldRows, NoneAssumption
      <4>3. QED BY <3>1, <4>2 DEF SeenState
    <3>3. CASE pc[v] \in {"redeem", "price", "zero", "load"}
      <4>1. word[v] \in Orders /\ ostate[word[v]] # "absent"
        BY <3>3 DEF Assigned, SeenState
      <4>2. Commit(w) => wout[w] # "absent"
        BY NoneAssumption DEF Commit, Assigned, TypeOK, FinalStates
      <4>3. ostate'[word[v]] # "absent"
        BY <1>3, <4>1, <4>2, WrittenRows
      <4>4. QED BY <3>1, <3>3, <4>3
    <3>4. QED BY <3>1, <3>2, <3>3
  <2>2. Seen(w)
    <3>1. CASE EndRequest(w)
      BY <3>1 DEF EndRequest, TypeOK
    <3>2. CASE \E b \in Baskets : CheckoutBegin(w, b)
      BY <3>2 DEF CheckoutBegin, TypeOK
    <3>3. CASE \E i \in Payments : CallbackBegin(w, i)
      BY <3>3 DEF CallbackBegin, TypeOK, orders
    <3>4. CASE ReuseOrder(w)
      BY <3>4 DEF ReuseOrder, Matching, TypeOK, orders
    <3>5. CASE CreateOrder(w)
      BY <3>5 DEF CreateOrder, Unborn, TypeOK
    <3>6. CASE BuildOrder(w)
      BY <3>6 DEF BuildOrder, Assigned, TypeOK
    <3>7. CASE Redeem(w) \/ SkipGateway(w)
      BY <3>7 DEF Redeem, SkipGateway, SeenState, TypeOK, orders
    <3>8. CASE \E broker \in BrokerFaults : ZeroFulfill(w, broker)
      BY <3>8 DEF ZeroFulfill, Fulfill, StateAfter, Assigned, SeenState, TypeOK, orders
    <3>9. CASE LoadPending(w)
      BY <3>9 DEF LoadPending, TypeOK, orders
    <3>10. CASE ApplyRejection(w)
      BY <3>10 DEF ApplyRejection, SeenState, TypeOK, orders
    <3>11. CASE \E broker \in BrokerFaults : ApplyAcceptance(w, broker)
      BY <3>11 DEF ApplyAcceptance, Fulfill, SeenState, TypeOK, orders
    <3>12. QED
      BY <1>3, <3>1, <3>2, <3>3, <3>4, <3>5, <3>6, <3>7, <3>8, <3>9, <3>10, <3>11
         DEF Work, CheckoutStep, CallbackStep, BuildOrderFails, HandOutForm, LoadSettled,
             Commit, Crash
  <2>3. QED BY <2>1, <2>2 DEF SeenState
<1>4. QED BY <1>1, <1>2, <1>3 DEF Next

LEMMA StepUnborn ==
  ASSUME TypeOK, Assigned, HoldsRow, SeenState, Unborn, [Next]_vars
  PROVE  Unborn'
<1>1. CASE UNCHANGED vars
  BY <1>1 DEF vars, orders, Unborn
<1>2. CASE Customer \/ Gateway \/ \E p \in Products : UpdateProduct(p)
  BY <1>2, OutsideFrame DEF Unborn, orders
<1>3. ASSUME NEW w \in Workers, Work(w)
      PROVE  Unborn'
  <2>1. nextOrder' >= nextOrder /\ (CreateOrder(w) => nextOrder' = nextOrder + 1)
    <3>1. nextOrder \in Nat
      BY DEF TypeOK
    <3>2. CASE CreateOrder(w)
      BY <3>1, <3>2 DEF CreateOrder
    <3>3. CASE ~ CreateOrder(w)
      <4>1. nextOrder' = nextOrder
        BY <1>3, <3>3
           DEF Work, CheckoutBegin, CallbackBegin, CheckoutStep, CallbackStep, Commit, Crash,
               ReuseOrder, BuildOrder, BuildOrderFails, Redeem, HandOutForm, SkipGateway,
               ZeroFulfill, LoadPending, LoadSettled, ApplyRejection, ApplyAcceptance, orders
      <4>2. QED BY <3>1, <3>3, <4>1
    <3>4. QED BY <3>2, <3>3
  <2>2. ASSUME NEW o \in Orders, o >= nextOrder'
        PROVE  ostate'[o] = "absent" /\ lock'[o] = None
    <3>1. o >= nextOrder /\ (CreateOrder(w) => o # nextOrder)
      BY <2>1, <2>2, StepTypes, <1>3 DEF TypeOK, Next
    <3>2. ostate[o] = "absent" /\ lock[o] = None
      BY <3>1 DEF Unborn
    <3>3. BuildOrder(w) \/ Commit(w) => o # word[w]
      BY <3>2, NoneAssumption DEF BuildOrder, Commit, HoldsRow
    <3>4. ~ \E broker \in BrokerFaults : ZeroFulfill(w, broker) /\ o = word[w]
      BY <3>2 DEF ZeroFulfill, SeenState
    <3>5. lock'[o] = None
      BY <1>3, <3>1, <3>2, <3>4, LockedRows
    <3>6. ostate'[o] = "absent"
      BY <1>3, <3>2, <3>3, WrittenRows
    <3>7. QED BY <3>5, <3>6
  <2>3. QED BY <2>2 DEF Unborn
<1>4. QED BY <1>1, <1>2, <1>3 DEF Next

\* A queued task is not taken back, whoever the worker works for.
LEMMA QueuesGrow ==
  ASSUME TypeOK, NEW w \in Workers, Work(w), NEW o \in Orders
  PROVE  mail'[o] >= mail[o] /\ webhook'[o] >= webhook[o]
<1>1. mail[o] \in Nat /\ webhook[o] \in Nat
  BY DEF TypeOK
<1>2. ASSUME NEW broker \in BrokerFaults,
             ZeroFulfill(w, broker) \/ ApplyAcceptance(w, broker)
      PROVE  mail'[o] >= mail[o] /\ webhook'[o] >= webhook[o]
  <2>1. /\ mail' = [mail EXCEPT ![word[w]] = IF broker = "up" THEN @ + 1 ELSE @]
        /\ webhook' = [webhook EXCEPT ![word[w]] =
                         IF Notifies(word[w]) /\ broker # "webhook" THEN @ + 1 ELSE @]
    BY <1>2 DEF ZeroFulfill, ApplyAcceptance, Fulfill
  <2>2. mail'[o] \in {mail[o], mail[o] + 1} /\ webhook'[o] \in {webhook[o], webhook[o] + 1}
    BY <2>1 DEF TypeOK
  <2>3. QED BY <1>1, <2>2
<1>3. CASE ~ \E broker \in BrokerFaults : ZeroFulfill(w, broker) \/ ApplyAcceptance(w, broker)
  <2>1. UNCHANGED <<webhook, mail>>
    BY <1>3 DEF Work, CheckoutBegin, CallbackBegin, CheckoutStep, CallbackStep, Commit, Crash,
           ReuseOrder, CreateOrder, BuildOrder, BuildOrderFails, Redeem, HandOutForm,
           SkipGateway, LoadPending, LoadSettled, ApplyRejection, queues
  <2>2. QED BY <1>1, <2>1
<1>4. QED BY <1>2, <1>3

\* Order.fulfill gives the order FULFILLED only after both its tasks are
\* queued, and ERRORED otherwise.
LEMMA FulfillOutcome ==
  ASSUME TypeOK, NEW w \in Workers, NEW o \in Orders, NEW basketsOf, NEW broker \in BrokerFaults,
         Fulfill(w, o, basketsOf, broker)
  PROVE  /\ wout'[w] \in {"fulfilled", "errored"}
         /\ wout'[w] = "fulfilled" => mail'[o] > 0 /\ (Notifies(o) => webhook'[o] > 0)
<1>1. mail[o] \in Nat /\ webhook[o] \in Nat
  BY DEF TypeOK
<1>2. wout'[w] = IF broker = "up" THEN "fulfilled" ELSE "errored"
  BY DEF Fulfill, StateAfter, TypeOK
<1>3. broker = "up" => mail'[o] = mail[o] + 1 /\ (Notifies(o) => webhook'[o] = webhook[o] + 1)
  BY DEF Fulfill, TypeOK
<1>4. QED BY <1>1, <1>2, <1>3

LEMMA StepOutcome ==
  ASSUME TypeOK, Assigned, HoldsRow, Unborn, Outcome, [Next]_vars
  PROVE  Outcome'
<1>1. CASE UNCHANGED vars
  BY <1>1 DEF vars, orders, outside, queues, requests, Outcome, Notifies
<1>2. CASE Customer \/ Gateway \/ \E p \in Products : UpdateProduct(p)
  <2>1. UNCHANGED <<orders, lock, queues, requests>>
    BY <1>2, OutsideFrame
  <2>2. \A v \in Workers : wpay[v] # None => payment'[wpay[v]] = payment[wpay[v]]
    BY <1>2, OutsideFrame DEF Assigned, TypeOK
  <2>3. \A v \in Workers : Notifies(word[v])' = Notifies(word[v])
    BY <2>1 DEF Notifies, orders, requests
  <2>4. QED BY <2>1, <2>2, <2>3 DEF Outcome, orders, queues, requests
<1>3. ASSUME NEW w \in Workers, Work(w)
      PROVE  Outcome'
  <2> DEFINE Sure(v) ==
        /\ wpay'[v] = None \/ payment'[wpay'[v]].decision = "accepted"
             => wout'[v] \in {"fulfilled", "errored"}
        /\ wout'[v] = "fulfilled" => /\ mail'[word'[v]] > 0
                                     /\ Notifies(word[v])' => webhook'[word'[v]] > 0
  <2>1. ASSUME NEW v \in Workers \ {w}, pc'[v] = "commit"
        PROVE  Sure(v)
    <3>1. /\ pc'[v] = pc[v] /\ word'[v] = word[v]
          /\ wpay'[v] = wpay[v] /\ wout'[v] = wout[v]
          /\ payment' = payment
      BY <1>3, WorkFrame
    <3>2. word[v] \in Orders /\ lock[word[v]] = v
      BY <2>1, <3>1 DEF HoldsRow, Assigned
    <3>3. olines'[word[v]] = olines[word[v]]
      BY <1>3, <3>2, HeldRows, NoneAssumption
    <3>4. Notifies(word[v])' = Notifies(word[v])
      BY <3>1, <3>3 DEF Notifies
    <3>5. mail'[word[v]] >= mail[word[v]] /\ webhook'[word[v]] >= webhook[word[v]]
      BY <1>3, <3>2, QueuesGrow
    <3>6. /\ mail[word[v]] \in Nat /\ mail'[word[v]] \in Nat
          /\ webhook[word[v]] \in Nat /\ webhook'[word[v]] \in Nat
      BY <1>3, <3>2, StepTypes DEF TypeOK, Next
    <3>7. QED BY <2>1, <3>1, <3>4, <3>5, <3>6 DEF Outcome
  <2>2. ASSUME pc'[w] = "commit"
        PROVE  Sure(w)
    <3>1. CASE ApplyRejection(w)
      <4>1. wpay'[w] # None /\ payment'[wpay'[w]].decision # "accepted"
        BY <3>1 DEF ApplyRejection, Assigned, outside
      <4>2. wout'[w] # "fulfilled"
        BY <3>1 DEF ApplyRejection, Rejection, TypeOK
      <4>3. QED BY <4>1, <4>2
    <3>2. ASSUME NEW broker \in BrokerFaults, ApplyAcceptance(w, broker)
          PROVE  Sure(w)
      <4>1. word[w] \in Orders /\ word'[w] = word[w]
        BY <3>2 DEF ApplyAcceptance, Assigned
      <4>2. /\ Fulfill(w, word[w], OldestBasket(oowner[word[w]][1]), broker)
            /\ UNCHANGED olines
        BY <3>2 DEF ApplyAcceptance, orders
      <4>3. Notifies(word[w])' = Notifies(word[w])
        BY <4>1, <4>2 DEF Notifies
      <4>4. QED BY <4>1, <4>2, <4>3, FulfillOutcome
    <3>3. ASSUME NEW broker \in BrokerFaults, ZeroFulfill(w, broker)
          PROVE  Sure(w)
      <4>1. word[w] \in Orders /\ word'[w] = word[w]
        BY <3>3 DEF ZeroFulfill, Assigned
      <4>2. Fulfill(w, word[w], {wbasket[w]}, broker) /\ UNCHANGED olines
        BY <3>3 DEF ZeroFulfill, orders
      <4>3. Notifies(word[w])' = Notifies(word[w])
        BY <4>1, <4>2 DEF Notifies
      <4>4. QED BY <4>1, <4>2, <4>3, FulfillOutcome
    <3>4. CASE EndRequest(w)
      BY <2>2, <3>4 DEF EndRequest, TypeOK
    <3>5. CASE \/ \E b \in Baskets : CheckoutBegin(w, b)
               \/ \E i \in Payments : CallbackBegin(w, i)
               \/ ReuseOrder(w) \/ CreateOrder(w) \/ BuildOrder(w)
               \/ Redeem(w) \/ SkipGateway(w) \/ LoadPending(w)
      BY <2>2, <3>5 DEF CheckoutBegin, CallbackBegin, ReuseOrder, CreateOrder, BuildOrder,
                        Redeem, SkipGateway, LoadPending, TypeOK
    <3>6. QED
      BY <1>3, <3>1, <3>2, <3>3, <3>4, <3>5
         DEF Work, CheckoutStep, CallbackStep, BuildOrderFails, HandOutForm, LoadSettled,
             Commit, Crash
  <2>3. QED BY <2>1, <2>2 DEF Outcome, Notifies
<1>4. QED BY <1>1, <1>2, <1>3 DEF Next

\* Transactions are written by a commit only.
LEMMA TxnsFrame ==
  ASSUME NEW w \in Workers, Work(w)
  PROVE  txns' = txns \/ Commit(w)
BY DEF Work, CheckoutBegin, CallbackBegin, CheckoutStep, CallbackStep, Crash,
       ReuseOrder, CreateOrder, BuildOrder, BuildOrderFails, Redeem, HandOutForm,
       SkipGateway, ZeroFulfill, LoadPending, LoadSettled, ApplyRejection, ApplyAcceptance,
       orders

\* What a committing worker has decided, and what it knows of the order.
LEMMA CommitFacts ==
  ASSUME TypeOK, Assigned, SeenState, Outcome, NEW w \in Workers, Commit(w)
  PROVE  /\ word[w] \in Orders
         /\ wout[w] \in FinalStates
         /\ wpay[w] # None => ostate[word[w]] = "pending"
         /\ wpay[w] = None \/ NewTxns(w) # {} => wout[w] \in {"fulfilled", "errored"}
         /\ \A t \in NewTxns(w) : t.order = word[w] /\ t.pay = wpay[w]
         /\ \A t, u \in NewTxns(w) : t = u
<1>1. word[w] \in Orders /\ wout[w] \in FinalStates
  BY DEF Commit, Assigned, TypeOK
<1>2. wpay[w] # None => ostate[word[w]] = "pending"
  BY DEF Commit, SeenState
<1>3. wpay[w] = None \/ NewTxns(w) # {} => wout[w] \in {"fulfilled", "errored"}
  BY DEF Commit, Outcome, NewTxns
<1>4. /\ \A t \in NewTxns(w) : t.order = word[w] /\ t.pay = wpay[w]
      /\ \A t, u \in NewTxns(w) : t = u
  BY DEF NewTxns
<1>5. QED BY <1>1, <1>2, <1>3, <1>4

LEMMA StepTxns ==
  ASSUME IInv, [Next]_vars
  PROVE  TxnOfSale' /\ PaidOnce'
<1> USE DEF IInv
<1>1. CASE UNCHANGED vars
  BY <1>1 DEF vars, orders, TxnOfSale, PaidOnce
<1>2. CASE Customer \/ Gateway \/ \E p \in Products : UpdateProduct(p)
  BY <1>2, OutsideFrame DEF orders, TxnOfSale, PaidOnce
<1>3. ASSUME NEW w \in Workers, Work(w)
      PROVE  TxnOfSale' /\ PaidOnce'
  <2>1. \A t \in txns : t.order \in Orders
    BY DEF TypeOK, Txns
  <2>2. CASE Commit(w)
    <3>1. txns' = txns \cup NewTxns(w) /\ ostate' = [ostate EXCEPT ![word[w]] = wout[w]]
      BY <2>2 DEF Commit
    <3>2. ASSUME NEW t \in txns'
          PROVE  ostate'[t.order] \in {"fulfilled", "errored"}
      <4>1. CASE t \in NewTxns(w)
        BY <2>2, <3>1, <4>1, CommitFacts DEF TypeOK
      <4>2. CASE t \in txns
        <5>1. ostate[t.order] \in {"fulfilled", "errored"} /\ t.order \in Orders
          BY <2>1, <4>2 DEF TxnOfSale
        <5>2. t.order = word[w] => wpay[w] = None
          BY <2>2, <5>1, CommitFacts
        <5>3. QED BY <2>2, <3>1, <5>1, <5>2, CommitFacts DEF TypeOK
      <4>3. QED BY <3>1, <4>1, <4>2
    <3>3. ASSUME NEW t \in txns', NEW u \in txns', t.order = u.order, t.pay # None, u.pay # None
          PROVE  t = u
      <4>1. ASSUME NEW x \in txns, NEW y \in NewTxns(w), x.order = y.order, y.pay # None
            PROVE  FALSE
        <5>1. ostate[word[w]] = "pending"
          BY <2>2, <4>1, CommitFacts
        <5>2. ostate[word[w]] \in {"fulfilled", "errored"}
          BY <2>2, <4>1, CommitFacts DEF TxnOfSale
        <5>3. QED BY <5>1, <5>2
      <4>2. CASE t \in txns /\ u \in txns
        BY <3>3, <4>2 DEF PaidOnce
      <4>3. CASE t \in NewTxns(w) /\ u \in NewTxns(w)
        BY <2>2, <4>3, CommitFacts
      <4>4. QED BY <3>1, <3>3, <4>1, <4>2, <4>3
    <3>4. QED BY <3>2, <3>3 DEF TxnOfSale, PaidOnce
  <2>3. CASE ~ Commit(w)
    <3>1. txns' = txns
      BY <1>3, <2>3, TxnsFrame
    <3>2. ASSUME NEW t \in txns
          PROVE  ostate'[t.order] = ostate[t.order]
      <4>1. ostate[t.order] \in {"fulfilled", "errored"} /\ t.order \in Orders
        BY <2>1 DEF TxnOfSale
      <4>2. BuildOrder(w) => ostate[word[w]] \in {"absent", "pending"}
        BY DEF BuildOrder, SeenState
      <4>3. QED BY <1>3, <2>3, <4>1, <4>2, WrittenRows
    <3>3. QED BY <3>1, <3>2 DEF TxnOfSale, PaidOnce
  <2>4. QED BY <2>2, <2>3
<1>4. QED BY <1>1, <1>2, <1>3 DEF Next

LEMMA StepAnnounced ==
  ASSUME IInv, [Next]_vars
  PROVE  SaleAnnounced'
<1> USE DEF IInv
<1>1. CASE UNCHANGED vars
  BY <1>1 DEF vars, orders, queues, SaleAnnounced, Notifies
<1>2. CASE Customer \/ Gateway \/ \E p \in Products : UpdateProduct(p)
  BY <1>2, OutsideFrame DEF orders, queues, SaleAnnounced, Notifies
<1>3. ASSUME NEW w \in Workers, Work(w), NEW o \in Orders, ostate'[o] = "fulfilled"
      PROVE  mail'[o] > 0 /\ (Notifies(o)' => webhook'[o] > 0)
  <2>1. olines'[o] = olines[o]
    BY <1>3, WrittenRows
  <2>2. Notifies(o)' = Notifies(o)
    BY <2>1 DEF Notifies
  <2>3. mail[o] > 0 /\ (Notifies(o) => webhook[o] > 0)
    <3>1. CASE ostate[o] = "fulfilled"
      BY <3>1 DEF SaleAnnounced
    <3>2. CASE Commit(w) /\ o = word[w] /\ wout[w] = "fulfilled"
      BY <3>2 DEF Outcome, Commit
    <3>3. QED BY <1>3, <3>1, <3>2, WrittenRows
  <2>4. /\ mail[o] \in Nat /\ mail'[o] \in Nat
        /\ webhook[o] \in Nat /\ webhook'[o] \in Nat
    BY <1>3, StepTypes DEF TypeOK, Next
  <2>5. QED BY <1>3, <2>2, <2>3, <2>4, QueuesGrow
<1>4. QED BY <1>1, <1>2, <1>3 DEF Next, SaleAnnounced

\* Lines are added to an order, never removed.
LEMMA LinesGrow ==
  ASSUME TypeOK, NEW w \in Workers, Work(w), NEW o \in Orders
  PROVE  olines[o] \subseteq olines'[o]
<1>1. CASE BuildOrder(w)
  BY <1>1 DEF BuildOrder, TypeOK
<1>2. CASE ~ BuildOrder(w)
  BY <1>2, WrittenRows
<1>3. QED BY <1>1, <1>2

\* What a worker has read from its basket is its own.
LEMMA OwnVersions ==
  ASSUME TypeOK, NEW w \in Workers, Work(w), NEW v \in Workers \ {w}
  PROVE  wvers'[v] = wvers[v]
BY DEF Work, CheckoutBegin, CallbackBegin, CheckoutStep, CallbackStep, Commit, Crash,
       ReuseOrder, CreateOrder, BuildOrder, BuildOrderFails, Redeem, HandOutForm,
       SkipGateway, ZeroFulfill, LoadPending, LoadSettled, ApplyRejection, ApplyAcceptance,
       EndRequest, TypeOK

\* A basket keeps its owner for good, also when it is deleted.
LEMMA BasketsKeepOwner ==
  ASSUME TypeOK, \A b \in blive : bowner[b] # None, [Next]_vars
  PROVE  /\ \A b \in Baskets : bowner[b] # None => bowner'[b] = bowner[b]
         /\ \A b \in blive' : bowner'[b] # None
<1>1. ASSUME NEW own \in Owners, NEW b \in Baskets, Establish(own, b)
      PROVE  /\ \A c \in Baskets : bowner[c] # None => bowner'[c] = bowner[c]
             /\ \A c \in blive' : bowner'[c] # None
  <2>1. CASE UNCHANGED <<bowner, blive>>
    BY <2>1
  <2>2. CASE /\ bowner[b] = None
             /\ bowner' = [bowner EXCEPT ![b] = own]
             /\ blive' = blive \cup {b}
    <3>1. own # None
      BY NoneAssumption
    <3>2. \A c \in Baskets : bowner'[c] = IF c = b THEN own ELSE bowner[c]
      BY <2>2 DEF TypeOK
    <3>3. blive' \subseteq Baskets
      BY <2>2 DEF TypeOK
    <3>4. QED BY <2>2, <3>1, <3>2, <3>3
  <2>3. QED BY <1>1, <2>1, <2>2 DEF Establish
<1>2. CASE Customer
  <2>1. CASE \E own \in Owners, b \in Baskets : Establish(own, b)
    BY <1>1, <2>1
  <2>2. CASE UNCHANGED bowner /\ blive' \subseteq blive
    BY <2>2
  <2>3. QED BY <1>2, <2>1, <2>2 DEF Customer, AddItem, AddDiscount, ClearBasket, RemoveItem
<1>3. CASE ~ Customer
  <2>1. bowner' = bowner /\ blive' \subseteq blive
    BY <1>3 DEF Next, Gateway, Pay, UpdateProduct, Work, CheckoutBegin, CallbackBegin,
           CheckoutStep, CallbackStep, Commit, Crash, ReuseOrder, CreateOrder, BuildOrder,
           BuildOrderFails, Redeem, HandOutForm, SkipGateway, ZeroFulfill, LoadPending,
           LoadSettled, ApplyRejection, ApplyAcceptance, tables, vars
  <2>2. QED BY <2>1
<1>4. QED BY <1>2, <1>3

\* An order's owner is written by the worker that builds it, and only once.
LEMMA OwnerRows ==
  ASSUME TypeOK, Assigned, NEW w \in Workers, Work(w), NEW o \in Orders
  PROVE  \/ oowner'[o] = oowner[o] /\ ~ (BuildOrder(w) /\ o = word[w])
         \/ /\ BuildOrder(w) /\ o = word[w]
            /\ oowner'[o] = IF oowner[o] = None THEN bowner[wbasket[w]] ELSE oowner[o]
<1>1. CASE BuildOrder(w)
  BY <1>1 DEF BuildOrder, Assigned, TypeOK
<1>2. CASE ~ BuildOrder(w)
  <2>1. oowner' = oowner
    BY <1>2 DEF Work, CheckoutBegin, CallbackBegin, CheckoutStep, CallbackStep, Commit, Crash,
           ReuseOrder, CreateOrder, BuildOrderFails, Redeem, HandOutForm, SkipGateway,
           ZeroFulfill, LoadPending, LoadSettled, ApplyRejection, ApplyAcceptance, orders
  <2>2. QED BY <1>2, <2>1
<1>3. QED BY <1>1, <1>2

LEMMA StepOwned ==
  ASSUME IInv, [Next]_vars
  PROVE  Owned' /\ OwnOrder'
<1> USE DEF IInv
<1>1. /\ \A b \in Baskets : bowner[b] # None => bowner'[b] = bowner[b]
      /\ \A b \in blive' : bowner'[b] # None
  BY BasketsKeepOwner DEF Owned
<1>2. \A v \in Workers : pc[v] \in {"find", "build", "redeem", "price", "zero"} =>
        /\ wbasket[v] \in Baskets
        /\ bowner[wbasket[v]] # None
        /\ bowner'[wbasket[v]] = bowner[wbasket[v]]
  BY <1>1 DEF Assigned, Owned
<1>3. ASSUME UNCHANGED <<orders, requests>>
      PROVE  Owned' /\ OwnOrder'
  BY <1>1, <1>2, <1>3 DEF orders, requests, Owned, OwnOrder
<1>4. CASE UNCHANGED vars
  BY <1>3, <1>4 DEF vars
<1>5. CASE Customer \/ Gateway \/ \E p \in Products : UpdateProduct(p)
  BY <1>3, <1>5, OutsideFrame
<1>6. ASSUME NEW w \in Workers, Work(w)
      PROVE  Owned' /\ OwnOrder'
  <2>1. ASSUME NEW o \in Orders
        PROVE  /\ ostate'[o] = "absent" <=> oowner'[o] = None
               /\ oowner[o] # None => oowner'[o] = oowner[o]
    <3>1. CASE BuildOrder(w) /\ o = word[w]
      <4>1. ostate'[o] = "pending"
        BY <3>1 DEF BuildOrder, TypeOK
      <4>2. pc[w] = "build"
        BY <3>1 DEF BuildOrder
      <4>3. QED BY <1>2, <1>6, <3>1, <4>1, <4>2, OwnerRows
    <3>2. CASE ~ (BuildOrder(w) /\ o = word[w])
      <4>1. oowner'[o] = oowner[o]
        BY <1>6, <3>2, OwnerRows
      <4>2. Commit(w) /\ o = word[w] => ostate[o] # "absent" /\ wout[w] # "absent"
        BY NoneAssumption, CommitFacts DEF Commit, SeenState, FinalStates
      <4>3. ostate'[o] = "absent" <=> ostate[o] = "absent"
        BY <1>6, <3>2, <4>2, WrittenRows
      <4>4. QED BY <4>1, <4>3 DEF Owned
    <3>3. QED BY <3>1, <3>2
  <2> DEFINE Ours(v) ==
        /\ pc'[v] \in {"find", "build", "redeem", "price", "zero"} => bowner'[wbasket'[v]] # None
        /\ pc'[v] = "build" => oowner'[word'[v]] \in {None, bowner'[wbasket'[v]]}
        /\ pc'[v] \in {"redeem", "price", "zero"} => oowner'[word'[v]] = bowner'[wbasket'[v]]
  <2>2. ASSUME NEW v \in Workers \ {w}
        PROVE  Ours(v)
    <3>1. pc'[v] = pc[v] /\ word'[v] = word[v] /\ wbasket'[v] = wbasket[v]
      BY <1>6, WorkFrame
    <3>2. CASE pc[v] = "build"
      <4>1. word[v] \in Orders /\ lock[word[v]] = v
        BY <3>2 DEF HoldsRow, Assigned
      <4>2. ~ (BuildOrder(w) /\ word[v] = word[w])
        BY <4>1 DEF BuildOrder, HoldsRow
      <4>3. oowner'[word[v]] = oowner[word[v]]
        BY <1>6, <4>1, <4>2, OwnerRows
      <4>4. QED BY <1>2, <3>1, <3>2, <4>3 DEF Owned
    <3>3. CASE pc[v] \in {"redeem", "price", "zero"}
      <4>1. word[v] \in Orders /\ oowner[word[v]] = bowner[wbasket[v]]
        BY <3>3 DEF Assigned, OwnOrder
      <4>2. oowner'[word[v]] = oowner[word[v]]
        BY <1>2, <2>1, <3>3, <4>1
      <4>3. QED BY <1>2, <3>1, <3>3, <4>1, <4>2
    <3>4. CASE pc[v] \notin {"build", "redeem", "price", "zero"}
      BY <1>2, <3>1, <3>4
    <3>5. QED BY <3>2, <3>3, <3>4
  <2>3. Ours(w)
    <3>1. CASE EndRequest(w)
      BY <3>1 DEF EndRequest, TypeOK
    <3>2. ASSUME NEW b \in Baskets, CheckoutBegin(w, b)
          PROVE  Ours(w)
      <4>1. pc'[w] = "find" /\ wbasket'[w] = b /\ bowner' = bowner /\ b \in blive
        BY <3>2 DEF CheckoutBegin, tables, TypeOK
      <4>2. QED BY <4>1 DEF Owned
    <3>3. CASE ReuseOrder(w)
      <4>1. /\ pc[w] = "find" /\ pc'[w] = "build" /\ wbasket' = wbasket
            /\ oowner' = oowner /\ word'[w] \in Matching(w)
        BY <3>3 DEF ReuseOrder, Matching, orders, TypeOK
      <4>2. oowner[word'[w]] = bowner[wbasket[w]]
        BY <4>1 DEF Matching
      <4>3. QED BY <1>2, <4>1, <4>2
    <3>4. CASE CreateOrder(w)
      <4>1. /\ pc[w] = "find" /\ pc'[w] = "build" /\ wbasket' = wbasket
            /\ oowner' = oowner /\ word'[w] = nextOrder /\ nextOrder \in Orders
        BY <3>4 DEF CreateOrder, TypeOK
      <4>2. oowner[nextOrder] = None
        BY <4>1 DEF Unborn, Owned, TypeOK
      <4>3. QED BY <1>2, <4>1, <4>2
    <3>5. CASE BuildOrder(w)
      <4>1. /\ pc[w] = "build" /\ pc'[w] = "redeem"
            /\ wbasket' = wbasket /\ word' = word
        BY <3>5 DEF BuildOrder, TypeOK
      <4>2. word[w] \in Orders /\ oowner[word[w]] \in {None, bowner[wbasket[w]]}
        BY <4>1 DEF Owned, Assigned
      <4>3. oowner'[word[w]] = bowner[wbasket[w]]
        BY <1>6, <3>5, <4>2, OwnerRows
      <4>4. QED BY <1>2, <4>1, <4>3
    <3>6. CASE Redeem(w) \/ SkipGateway(w)
      <4>1. /\ pc[w] \in {"redeem", "price"} /\ pc'[w] \in {"price", "zero"}
            /\ wbasket' = wbasket /\ word' = word /\ oowner' = oowner
        BY <3>6 DEF Redeem, SkipGateway, orders, TypeOK
      <4>2. QED BY <1>2, <4>1 DEF OwnOrder
    <3>7. CASE pc'[w] \in {"load", "apply", "commit"}
      BY <3>7
    <3>8. QED
      BY <1>6, <3>1, <3>2, <3>3, <3>4, <3>5, <3>6, <3>7
         DEF Work, CheckoutStep, CallbackStep, BuildOrderFails, HandOutForm, LoadSettled,
             Commit, Crash, CallbackBegin, LoadPending, ApplyRejection, ApplyAcceptance,
             ZeroFulfill, Fulfill, TypeOK
  <2>4. QED BY <1>1, <2>1, <2>2, <2>3 DEF Owned, OwnOrder
<1>7. QED BY <1>4, <1>5, <1>6 DEF Next

\* The total of an order is that of the checkout that built it last, or of
\* the one that costs nothing and saves its own total once more; the lines of
\* either were among the order's when it built it, and have stayed.
LEMMA StepLines ==
  ASSUME IInv, [Next]_vars
  PROVE  LinesBuilt' /\ TotalOfLines'
<1> USE DEF IInv
<1>1. CASE UNCHANGED vars
  BY <1>1 DEF vars, orders, requests, LinesBuilt, TotalOfLines
<1>2. CASE Customer \/ Gateway \/ \E p \in Products : UpdateProduct(p)
  BY <1>2, OutsideFrame DEF orders, requests, LinesBuilt, TotalOfLines
<1>3. ASSUME NEW w \in Workers, Work(w)
      PROVE  LinesBuilt' /\ TotalOfLines'
  <2>1. \A o \in Orders : olines[o] \subseteq olines'[o]
    BY <1>3, LinesGrow
  <2>2. TotalOfLines'
    <3>1. CASE BuildOrder(w)
      <4>1. /\ word[w] \in Orders
            /\ opriced' = [opriced EXCEPT ![word[w]] = wvers[w]]
            /\ olines' = [olines EXCEPT ![word[w]] = @ \cup wvers[w]]
        BY <3>1 DEF BuildOrder, BasketTotal, Assigned
      <4>2. QED BY <4>1 DEF TypeOK, TotalOfLines
    <3>2. CASE Commit(w)
      <4>1. /\ word[w] \in Orders
            /\ opriced' = [opriced EXCEPT ![word[w]] = IF wpay[w] = None THEN wvers[w] ELSE @]
            /\ olines' = olines
            /\ wpay[w] = None => wvers[w] \subseteq olines[word[w]]
        BY <3>2 DEF Commit, Assigned, LinesBuilt
      <4>2. QED BY <4>1 DEF TypeOK, TotalOfLines
    <3>3. CASE ~ BuildOrder(w) /\ ~ Commit(w)
      <4>1. opriced' = opriced
        BY <1>3, <3>3
           DEF Work, CheckoutBegin, CallbackBegin, CheckoutStep, CallbackStep, Crash,
               ReuseOrder, CreateOrder, BuildOrderFails, Redeem, HandOutForm, SkipGateway,
               ZeroFulfill, LoadPending, LoadSettled, ApplyRejection, ApplyAcceptance, orders
      <4>2. QED BY <2>1, <4>1 DEF TotalOfLines
    <3>4. QED BY <3>1, <3>2, <3>3
  <2> DEFINE Built(v) ==
        pc'[v] \in {"redeem", "price", "zero"} \/ (pc'[v] = "commit" /\ wpay'[v] = None)
          => wvers'[v] \subseteq olines'[word'[v]]
  <2>3. ASSUME NEW v \in Workers \ {w}
        PROVE  Built(v)
    <3>1. pc'[v] = pc[v] /\ word'[v] = word[v] /\ wpay'[v] = wpay[v] /\ wvers'[v] = wvers[v]
      BY <1>3, WorkFrame, OwnVersions
    <3>2. pc[v] \in {"redeem", "price", "zero", "commit"} => word[v] \in Orders
      BY DEF Assigned
    <3>3. QED BY <2>1, <3>1, <3>2 DEF LinesBuilt
  <2>4. Built(w)
    <3>1. CASE EndRequest(w)
      BY <3>1 DEF EndRequest, TypeOK
    <3>2. CASE BuildOrder(w)
      <4>1. /\ word[w] \in Orders /\ word' = word /\ wvers' = wvers
            /\ olines' = [olines EXCEPT ![word[w]] = @ \cup wvers[w]]
        BY <3>2 DEF BuildOrder, Assigned
      <4>2. QED BY <4>1 DEF TypeOK
    <3>3. CASE Redeem(w) \/ SkipGateway(w) \/ \E broker \in BrokerFaults : ZeroFulfill(w, broker)
      <4>1. pc[w] \in {"redeem", "price", "zero"} /\ UNCHANGED <<word, wvers, olines>>
        BY <3>3 DEF Redeem, SkipGateway, ZeroFulfill, orders
      <4>2. QED BY <4>1 DEF LinesBuilt
    <3>4. CASE ApplyRejection(w) \/ \E broker \in BrokerFaults : ApplyAcceptance(w, broker)
      <4>1. wpay'[w] # None
        BY <3>4 DEF ApplyRejection, ApplyAcceptance, Assigned
      <4>2. pc'[w] = "commit"
        BY <3>4 DEF ApplyRejection, ApplyAcceptance, Fulfill, TypeOK
      <4>3. QED BY <4>1, <4>2
    <3>5. CASE pc'[w] \in {"find", "build", "load", "apply"}
      BY <3>5
    <3>6. QED
      BY <1>3, <3>1, <3>2, <3>3, <3>4, <3>5
         DEF Work, CheckoutStep, CallbackStep, BuildOrderFails, HandOutForm, LoadSettled,
             Commit, Crash, CheckoutBegin, CallbackBegin, ReuseOrder, CreateOrder,
             LoadPending, TypeOK
  <2>5. QED BY <2>2, <2>3, <2>4 DEF LinesBuilt
<1>4. QED BY <1>1, <1>2, <1>3 DEF Next

LEMMA StepSaleDecided ==
  ASSUME IInv, [Next]_vars
  PROVE  SaleDecided'
<1> USE DEF IInv
<1>1. CASE UNCHANGED vars
  BY <1>1 DEF vars, outside, requests, SaleDecided
<1>2. CASE Customer \/ Gateway \/ \E p \in Products : UpdateProduct(p)
  <2>1. UNCHANGED requests
    BY <1>2, OutsideFrame
  <2>2. \A v \in Workers : wpay[v] # None => payment'[wpay[v]] = payment[wpay[v]]
    BY <1>2, OutsideFrame DEF Assigned, TypeOK
  <2>3. QED BY <2>1, <2>2 DEF SaleDecided, requests
<1>3. ASSUME NEW w \in Workers, Work(w)
      PROVE  SaleDecided'
  <2>1. payment' = payment
    BY <1>3, WorkFrame
  <2>2. \A v \in Workers \ {w} : pc'[v] = pc[v] /\ wpay'[v] = wpay[v] /\ wout'[v] = wout[v]
    BY <1>3, WorkFrame
  <2>3. ASSUME pc'[w] = "commit", wpay'[w] # None, wout'[w] = "fulfilled"
        PROVE  payment'[wpay'[w]].decision = "accepted"
    <3>1. CASE ApplyRejection(w)
      BY <2>3, <3>1 DEF ApplyRejection, Rejection, TypeOK
    <3>2. CASE \E broker \in BrokerFaults : ApplyAcceptance(w, broker)
      BY <2>1, <3>2 DEF ApplyAcceptance
    <3>3. CASE \E broker \in BrokerFaults : ZeroFulfill(w, broker)
      BY <2>3, <3>3 DEF ZeroFulfill, Assigned
    <3>4. CASE EndRequest(w)
      BY <2>3, <3>4 DEF EndRequest, TypeOK
    <3>5. QED
      BY <1>3, <2>3, <3>1, <3>2, <3>3, <3>4
         DEF Work, CheckoutStep, CallbackStep, BuildOrder, BuildOrderFails, HandOutForm,
             LoadSettled, Commit, Crash, CheckoutBegin, CallbackBegin, ReuseOrder, CreateOrder,
             Redeem, SkipGateway, LoadPending, TypeOK
  <2>4. QED BY <2>1, <2>2, <2>3 DEF SaleDecided
<1>4. QED BY <1>1, <1>2, <1>3 DEF Next

-----------------------------------------------------------------------------
(* The theorems.                                                           *)

\* IInv holds of every state a run can reach.
THEOREM Invariance == Spec => []IInv
<1>1. Init => IInv
  <2>1. Init => TypeOK
    BY InitTypes
  <2>2. Init => Assigned /\ HoldsRow /\ SeenState /\ Unborn /\ Outcome
    BY DEF Init, Assigned, HoldsRow, SeenState, Unborn, Outcome
  <2>3. Init => TxnOfSale /\ PaidOnce /\ SaleAnnounced
    BY DEF Init, TxnOfSale, PaidOnce, SaleAnnounced
  <2>4. Init => Owned /\ OwnOrder /\ LinesBuilt /\ TotalOfLines /\ SaleDecided
    BY DEF Init, Owned, OwnOrder, LinesBuilt, TotalOfLines, SaleDecided
  <2>5. QED BY <2>1, <2>2, <2>3, <2>4 DEF IInv
<1>2. IInv /\ [Next]_vars => IInv'
  BY StepTypes, StepAssigned, StepHoldsRow, StepSeenState, StepUnborn, StepOutcome,
     StepTxns, StepAnnounced, StepOwned, StepLines, StepSaleDecided DEF IInv
<1>3. QED BY <1>1, <1>2, PTL DEF Spec

\* Every variable has the type TypeOK gives it.
THEOREM TypeCorrect == Spec => []TypeOK
<1>1. IInv => TypeOK
  BY DEF IInv
<1>2. QED BY <1>1, Invariance, PTL

\* At most one payment is ever recorded as an order's, for any number of
\* callbacks, payments and processes.
THEOREM PaidAtMostOnce == Spec => []PaidOnce
<1>1. IInv => PaidOnce
  BY DEF IInv
<1>2. QED BY <1>1, Invariance, PTL

\* A recorded transaction is that of a fulfilled or errored order.
THEOREM TxnsAreOfSales == Spec => []TxnOfSale
<1>1. IInv => TxnOfSale
  BY DEF IInv
<1>2. QED BY <1>1, Invariance, PTL

\* A fulfilled order has been announced.
THEOREM SalesAreAnnounced == Spec => []SaleAnnounced
<1>1. IInv => SaleAnnounced
  BY DEF IInv
<1>2. QED BY <1>1, Invariance, PTL

\* A checkout past the commit that made or reused its order works on an order
\* of its own customer, whoever else buys the same products at the same time.
THEOREM OrdersAreOwn == Spec => []OwnOrder
<1>1. IInv => OwnOrder
  BY DEF IInv
<1>2. QED BY <1>1, Invariance, PTL

\* Whatever an order's total adds up is among its lines.
THEOREM TotalsAreOfLines == Spec => []TotalOfLines
<1>1. IInv => TotalOfLines
  BY DEF IInv
<1>2. QED BY <1>1, Invariance, PTL

\* What was paid without an id stays so.
LEMMA PaymentsStay ==
  ASSUME TypeOK, [Next]_vars, NEW o, PaidWithoutId(o)
  PROVE  PaidWithoutId(o)'
<1>1. \A i \in Payments : payment[i] # None => payment'[i] = payment[i]
  BY OutsideFrame, WorkFrame DEF Next, vars, outside
<1>2. QED BY <1>1 DEF PaidWithoutId

LEMMA StepReceipt ==
  ASSUME IInv, FulfilledHasTxn, [Next]_vars
  PROVE  FulfilledHasTxn'
<1> USE DEF IInv
<1>1. CASE UNCHANGED vars
  BY <1>1, PaymentsStay DEF vars, orders, FulfilledHasTxn
<1>2. CASE Customer \/ Gateway \/ \E p \in Products : UpdateProduct(p)
  BY <1>2, OutsideFrame, PaymentsStay DEF orders, FulfilledHasTxn
<1>3. ASSUME NEW w \in Workers, Work(w), NEW o \in Orders, ostate'[o] = "fulfilled"
      PROVE  PaidWithoutId(o)' \/ \E t \in txns' : t.order = o
  <2>1. txns \subseteq txns'
    BY <1>3, TxnsFrame DEF Commit
  <2>2. CASE ostate[o] = "fulfilled"
    BY <2>1, <2>2, PaymentsStay DEF FulfilledHasTxn
  <2>3. CASE Commit(w) /\ o = word[w] /\ wout[w] = "fulfilled"
    <3>1. txns' = txns \cup NewTxns(w) /\ pc[w] = "commit"
      BY <2>3 DEF Commit
    <3>2. CASE wpay[w] = None
      <4>1. [order |-> o, pay |-> None, amount |-> wvers[w]] \in NewTxns(w)
        BY <2>3, <3>2 DEF NewTxns
      <4>2. QED BY <3>1, <4>1
    <3>3. CASE wpay[w] # None
      <4>1. /\ wpay[w] \in Payments /\ payment[wpay[w]] # None
            /\ payment[wpay[w]].order = o
        BY <2>3, <3>3 DEF TypeOK, Assigned
      <4>2. payment[wpay[w]].decision = "accepted"
        BY <2>3, <3>1, <3>3, <4>1 DEF SaleDecided
      <4>3. CASE payment[wpay[w]].txid
        <5>1. [order |-> o, pay |-> wpay[w], amount |-> opriced[o]] \in NewTxns(w)
          BY <2>3, <3>3, <4>2, <4>3 DEF NewTxns
        <5>2. QED BY <3>1, <5>1
      <4>4. CASE ~ payment[wpay[w]].txid
        BY <4>1, <4>2, <4>4, PaymentsStay DEF PaidWithoutId
      <4>5. QED BY <4>3, <4>4
    <3>4. QED BY <3>2, <3>3
  <2>4. QED BY <1>3, <2>2, <2>3, WrittenRows
<1>4. QED BY <1>1, <1>2, <1>3 DEF Next, FulfilledHasTxn

\* Every fulfilled order has a Transaction row to refund from, paid for or
\* free, but for those paid for without a transaction id.
THEOREM FulfilledIsRecorded == Spec => []FulfilledHasTxn
<1>1. Init => FulfilledHasTxn
  BY DEF Init, FulfilledHasTxn
<1>2. IInv /\ FulfilledHasTxn /\ [Next]_vars => FulfilledHasTxn'
  BY StepReceipt
<1>3. QED BY <1>1, <1>2, Invariance, PTL DEF Spec

\* A settled order is never reopened, and its lines stay what they were.
THEOREM SettledStaysSettled == Spec => NeverReopened /\ SettledLinesFixed
<1> DEFINE Kept == \A o \in Orders : ostate[o] \in FinalStates =>
                     ostate'[o] \in FinalStates /\ olines'[o] = olines[o]
<1>1. IInv /\ [Next]_vars => Kept
  <2> SUFFICES ASSUME IInv, [Next]_vars, NEW o \in Orders, ostate[o] \in FinalStates
               PROVE  ostate'[o] \in FinalStates /\ olines'[o] = olines[o]
    OBVIOUS
  <2> USE DEF IInv
  <2>1. CASE UNCHANGED vars
    BY <2>1 DEF vars, orders
  <2>2. CASE Customer \/ Gateway \/ \E p \in Products : UpdateProduct(p)
    BY <2>2, OutsideFrame DEF orders
  <2>3. ASSUME NEW w \in Workers, Work(w)
        PROVE  ostate'[o] \in FinalStates /\ olines'[o] = olines[o]
    <3>1. BuildOrder(w) => o # word[w]
      BY DEF BuildOrder, SeenState, FinalStates
    <3>2. Commit(w) => wout[w] \in FinalStates
      BY CommitFacts, <2>3
    <3>3. QED BY <2>3, <3>1, <3>2, WrittenRows
  <2>4. QED BY <2>1, <2>2, <2>3 DEF Next
<1>2. Kept => /\ \A o \in Orders : ostate[o] \in FinalStates => ostate'[o] \in FinalStates
              /\ \A o \in Orders : ostate[o] \in FinalStates => olines'[o] = olines[o]
  OBVIOUS
<1>3. QED BY <1>1, <1>2, Invariance, PTL DEF Spec, NeverReopened, SettledLinesFixed

=============================================================================
