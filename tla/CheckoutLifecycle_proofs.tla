---------------------- MODULE CheckoutLifecycle_proofs ----------------------
(***************************************************************************)
(* What Checkout does when every product has a price: it implements        *)
(* OrderLifecycle, so that an order is settled once and for good.  The     *)
(* checkout that costs nothing is the only writer of an order that has not *)
(* looked at its state, and without free products it never runs.           *)
(***************************************************************************)
EXTENDS Checkout_proofs

USE DEF Orders, Baskets, Payments

\* No worker is about to sell for nothing.
AllPriced ==
  \A w \in Workers :
    /\ pc[w] \in {"find", "build"} => wvers[w] # {}
    /\ pc[w] \in {"redeem", "price"} => olines[word[w]] # {}
    /\ pc[w] # "zero"
    /\ pc[w] = "commit" => wpay[w] # None

LEMMA StepAllPriced ==
  ASSUME Free = {}, IInv, AllPriced, [Next]_vars
  PROVE  AllPriced'
<1> USE DEF IInv
<1>1. CASE UNCHANGED vars
  BY <1>1 DEF vars, orders, requests, AllPriced
<1>2. CASE Customer \/ Gateway \/ \E p \in Products : UpdateProduct(p)
  BY <1>2, OutsideFrame DEF AllPriced, orders, requests
<1>3. ASSUME NEW w \in Workers, Work(w)
      PROVE  AllPriced'
  <2> DEFINE Priced(v) ==
        /\ pc'[v] \in {"find", "build"} => wvers'[v] # {}
        /\ pc'[v] \in {"redeem", "price"} => olines'[word'[v]] # {}
        /\ pc'[v] # "zero"
        /\ pc'[v] = "commit" => wpay'[v] # None
  <2>1. ASSUME NEW v \in Workers \ {w}
        PROVE  Priced(v)
    <3>1. pc'[v] = pc[v] /\ word'[v] = word[v] /\ wpay'[v] = wpay[v] /\ wvers'[v] = wvers[v]
      BY <1>3, WorkFrame, OwnVersions
    <3>2. pc[v] \in {"redeem", "price"} => olines'[word[v]] # {}
      BY <1>3, LinesGrow DEF AllPriced, Assigned
    <3>3. QED BY <3>1, <3>2 DEF AllPriced
  <2>2. Priced(w)
    <3>1. CASE EndRequest(w)
      BY <3>1 DEF EndRequest, TypeOK
    <3>2. ASSUME NEW b \in Baskets, CheckoutBegin(w, b)
          PROVE  Priced(w)
      <4>1. pc'[w] = "find" /\ wvers'[w] = {<<p, ver[p]>> : p \in bitems[b]}
        BY <3>2 DEF CheckoutBegin, TypeOK
      <4>2. wvers'[w] # {}
        BY <3>2, <4>1 DEF CheckoutBegin
      <4>3. QED BY <4>1, <4>2
    <3>3. CASE \E i \in Payments : CallbackBegin(w, i)
      BY <3>3 DEF CallbackBegin, TypeOK
    <3>4. CASE ReuseOrder(w) \/ CreateOrder(w)
      BY <3>4 DEF ReuseOrder, CreateOrder, AllPriced, TypeOK
    <3>5. CASE BuildOrder(w)
      BY <3>5 DEF BuildOrder, Assigned, AllPriced, TypeOK
    <3>6. CASE Redeem(w)
      BY <3>6 DEF Redeem, AllPriced, TypeOK, orders
    <3>7. ~ SkipGateway(w)
      BY DEF SkipGateway, AllPriced
    <3>8. ~ \E broker \in BrokerFaults : ZeroFulfill(w, broker)
      BY DEF ZeroFulfill, AllPriced
    <3>9. CASE LoadPending(w)
      BY <3>9 DEF LoadPending, TypeOK
    <3>10. CASE ApplyRejection(w)
      BY <3>10 DEF ApplyRejection, Assigned, TypeOK
    <3>11. CASE \E broker \in BrokerFaults : ApplyAcceptance(w, broker)
      BY <3>11 DEF ApplyAcceptance, Fulfill, Assigned, TypeOK
    <3>12. QED
      BY <1>3, <3>1, <3>2, <3>3, <3>4, <3>5, <3>6, <3>7, <3>8, <3>9, <3>10, <3>11
         DEF Work, CheckoutStep, CallbackStep, BuildOrderFails, HandOutForm, LoadSettled,
             Commit, Crash
  <2>3. QED BY <2>1, <2>2 DEF AllPriced
<1>4. QED BY <1>1, <1>2, <1>3 DEF Next

THEOREM PricedInvariance == ASSUME Free = {} PROVE Spec => [](IInv /\ AllPriced)
<1>1. Init => AllPriced
  BY DEF Init, AllPriced
<1>2. IInv /\ AllPriced /\ [Next]_vars => AllPriced'
  BY StepAllPriced
<1>3. QED BY <1>1, <1>2, Invariance, PTL DEF Spec

\* When every product has a price, the state of a settled order can't be
\* altered further.
THEOREM SettledForGood == ASSUME Free = {} PROVE Spec => FinalIsFinal
<1> DEFINE Kept == \A o \in Orders : ostate[o] \in FinalStates => ostate'[o] = ostate[o]
<1>1. IInv /\ AllPriced /\ [Next]_vars => Kept
  <2> SUFFICES ASSUME IInv, AllPriced, [Next]_vars, NEW o \in Orders, ostate[o] \in FinalStates
               PROVE  ostate'[o] = ostate[o]
    OBVIOUS
  <2> USE DEF IInv
  <2>1. CASE UNCHANGED vars
    BY <2>1 DEF vars, orders
  <2>2. CASE Customer \/ Gateway \/ \E p \in Products : UpdateProduct(p)
    BY <2>2, OutsideFrame DEF orders
  <2>3. ASSUME NEW w \in Workers, Work(w)
        PROVE  ostate'[o] = ostate[o]
    <3>1. BuildOrder(w) => o # word[w]
      BY DEF BuildOrder, SeenState, FinalStates
    <3>2. Commit(w) => o # word[w]
      BY DEF Commit, SeenState, AllPriced, FinalStates
    <3>3. QED BY <2>3, <3>1, <3>2, WrittenRows
  <2>4. QED BY <2>1, <2>2, <2>3 DEF Next
<1>2. QED BY <1>1, PricedInvariance, PTL DEF Spec, FinalIsFinal

-----------------------------------------------------------------------------
(* How often a sale is announced.                                          *)

\* Of an order that is not settled, and that no transaction is about to
\* settle, a webhook was queued only by sales that were rolled back.
RolledBackOnly ==
  \A o \in Orders :
    /\ ostate[o] \in {"absent", "pending"}
    /\ \A w \in Workers : pc[w] = "commit" => word[w] # o
    => webhook[o] <= faults

\* Only Order.fulfill, in the callback of an accepted payment, queues a
\* webhook: one, for the order whose row it holds.
LEMMA WebhookRows ==
  ASSUME IInv, AllPriced, NEW w \in Workers, Work(w), NEW o \in Orders
  PROVE  \/ webhook'[o] = webhook[o]
         \/ /\ \E broker \in BrokerFaults : ApplyAcceptance(w, broker)
            /\ o = word[w] /\ webhook'[o] = webhook[o] + 1
<1> USE DEF IInv
<1>1. ASSUME NEW broker \in BrokerFaults, ApplyAcceptance(w, broker)
      PROVE  webhook'[o] = webhook[o] \/ (o = word[w] /\ webhook'[o] = webhook[o] + 1)
  <2>1. webhook' = [webhook EXCEPT ![word[w]] =
                      IF Notifies(word[w]) /\ broker # "webhook" THEN @ + 1 ELSE @]
    BY <1>1 DEF ApplyAcceptance, Fulfill
  <2>2. QED BY <2>1 DEF TypeOK
<1>2. ~ \E broker \in BrokerFaults : ZeroFulfill(w, broker)
  BY DEF ZeroFulfill, AllPriced
<1>3. CASE ~ \E broker \in BrokerFaults : ApplyAcceptance(w, broker)
  BY <1>2, <1>3
     DEF Work, CheckoutBegin, CallbackBegin, CheckoutStep, CallbackStep, Commit, Crash,
         ReuseOrder, CreateOrder, BuildOrder, BuildOrderFails, Redeem, HandOutForm,
         SkipGateway, LoadPending, LoadSettled, ApplyRejection, queues
<1>4. QED BY <1>1, <1>3

\* Faults are counted, never forgotten.
LEMMA FaultsGrow ==
  ASSUME TypeOK, NEW w \in Workers, Work(w)
  PROVE  /\ faults \in Nat /\ faults' \in Nat /\ faults' >= faults
         /\ Crash(w) => faults' = faults + 1
<1>1. faults \in Nat
  BY BoundsAssumption DEF TypeOK
<1>2. faults' = faults \/ faults' = faults + 1
  BY DEF Work, CheckoutBegin, CallbackBegin, CheckoutStep, CallbackStep, Commit, Crash,
         ReuseOrder, CreateOrder, BuildOrder, BuildOrderFails, Redeem, HandOutForm,
         SkipGateway, ZeroFulfill, Fulfill, LoadPending, LoadSettled, ApplyRejection,
         ApplyAcceptance
<1>3. QED BY <1>1, <1>2 DEF Crash

LEMMA StepAnnouncedOnce ==
  ASSUME IInv, AllPriced, RolledBackOnly, AnnouncedOnce, [Next]_vars
  PROVE  RolledBackOnly' /\ AnnouncedOnce'
<1> USE DEF IInv
<1>1. ASSUME UNCHANGED <<orders, queues, faults, requests>>
      PROVE  RolledBackOnly' /\ AnnouncedOnce'
  BY <1>1 DEF orders, queues, requests, RolledBackOnly, AnnouncedOnce
<1>2. CASE UNCHANGED vars
  BY <1>1, <1>2 DEF vars
<1>3. CASE Customer \/ Gateway \/ \E p \in Products : UpdateProduct(p)
  <2>1. UNCHANGED faults
    BY <1>3 DEF Customer, AddItem, AddDiscount, ClearBasket, RemoveItem, Gateway, Pay,
                UpdateProduct
  <2>2. QED BY <1>1, <1>3, <2>1, OutsideFrame
<1>4. ASSUME NEW w \in Workers, Work(w), NEW o \in Orders
      PROVE  /\ webhook'[o] <= 1 + faults'
             /\ /\ ostate'[o] \in {"absent", "pending"}
                /\ \A v \in Workers : pc'[v] = "commit" => word'[v] # o
                => webhook'[o] <= faults'
  <2>1. webhook[o] \in Nat /\ webhook[o] <= 1 + faults
    BY DEF TypeOK, AnnouncedOnce
  <2>2. CASE webhook'[o] = webhook[o] + 1
    <3>1. PICK broker \in BrokerFaults : ApplyAcceptance(w, broker) /\ o = word[w]
      BY <1>4, <2>1, <2>2, WebhookRows
    <3>2. pc[w] = "apply" /\ pc'[w] = "commit" /\ word'[w] = o
      BY <3>1 DEF ApplyAcceptance, Fulfill, TypeOK
    <3>3. ostate[o] = "pending" /\ lock[o] = w
      BY <3>1, <3>2 DEF SeenState, HoldsRow
    <3>4. \A v \in Workers : pc[v] = "commit" => word[v] # o
      BY <3>2, <3>3 DEF HoldsRow
    <3>5. webhook[o] <= faults
      BY <3>3, <3>4 DEF RolledBackOnly
    <3>6. webhook'[o] <= 1 + faults'
      BY <1>4, <2>1, <2>2, <3>5, FaultsGrow
    <3>7. QED BY <3>2, <3>6
  <2>3. CASE webhook'[o] = webhook[o]
    <3>1. webhook'[o] <= 1 + faults'
      BY <1>4, <2>1, <2>3, FaultsGrow
    <3>2. ASSUME ostate'[o] \in {"absent", "pending"},
                 \A v \in Workers : pc'[v] = "commit" => word'[v] # o
          PROVE  webhook'[o] <= faults'
      <4>1. CASE Crash(w)
        BY <1>4, <2>1, <2>3, <4>1, FaultsGrow
      <4>2. CASE ~ Crash(w)
        <5>1. ~ (Commit(w) /\ o = word[w])
          <6>1. Commit(w) => wout[w] \in FinalStates
            BY CommitFacts
          <6>2. Commit(w) /\ o = word[w] => ostate'[o] = wout[w]
            BY DEF Commit, TypeOK
          <6>3. QED BY <3>2, <6>1, <6>2 DEF FinalStates
        <5>2. ostate[o] \in {"absent", "pending"}
          <6>1. CASE BuildOrder(w) /\ o = word[w]
            BY <6>1 DEF BuildOrder, SeenState
          <6>2. QED BY <1>4, <3>2, <5>1, <6>1, WrittenRows
        <5>3. \A v \in Workers : pc[v] = "commit" => word[v] # o
          <6>1. \A v \in Workers \ {w} : pc[v] = "commit" => word[v] # o
            BY <1>4, <3>2, WorkFrame
          <6>2. pc[w] = "commit" => Commit(w)
            BY <1>4, <4>2
               DEF Work, CheckoutBegin, CallbackBegin, CheckoutStep, CallbackStep,
                   ReuseOrder, CreateOrder, BuildOrder, BuildOrderFails, Redeem,
                   HandOutForm, SkipGateway, ZeroFulfill, LoadPending, LoadSettled,
                   ApplyRejection, ApplyAcceptance
          <6>3. QED BY <5>1, <6>1, <6>2
        <5>4. webhook[o] <= faults
          BY <5>2, <5>3 DEF RolledBackOnly
        <5>5. QED BY <1>4, <2>1, <2>3, <5>4, FaultsGrow
      <4>3. QED BY <4>1, <4>2
    <3>3. QED BY <3>1, <3>2
  <2>4. QED BY <1>4, <2>2, <2>3, WebhookRows
<1>5. QED BY <1>2, <1>3, <1>4 DEF Next, RolledBackOnly, AnnouncedOnce

\* When every product has a price, an order's webhook is queued once, and
\* once more at most for each crash or broker failure.
THEOREM AnnouncedAtMostOnce == ASSUME Free = {} PROVE Spec => []AnnouncedOnce
<1>1. Init => RolledBackOnly /\ AnnouncedOnce
  BY DEF Init, RolledBackOnly, AnnouncedOnce
<1>2. IInv /\ AllPriced /\ RolledBackOnly /\ AnnouncedOnce /\ [Next]_vars
        => RolledBackOnly' /\ AnnouncedOnce'
  BY StepAnnouncedOnce
<1>3. QED BY <1>1, <1>2, PricedInvariance, PTL DEF Spec

-----------------------------------------------------------------------------
(* Refinement.                                                             *)

announced == {o \in Orders : mail[o] > 0}
receipts  == {[order |-> t.order, pay |-> t.pay] : t \in txns}

LEMMA InitPromises == Init => Lifecycle!Init
BY DEF Init, Lifecycle!Init

\* A step that changes neither states, nor mails, nor transactions.
LEMMA StepUnseen ==
  ASSUME UNCHANGED <<ostate, mail, txns>>
  PROVE  UNCHANGED Lifecycle!vars
<1>1. receipts' = receipts /\ announced' = announced
  BY DEF receipts, announced
<1>2. QED BY <1>1 DEF Lifecycle!vars, receipts, announced

LEMMA BuildOpens ==
  ASSUME IInv, NEW w \in Workers, BuildOrder(w)
  PROVE  [Lifecycle!Next]_(Lifecycle!vars)
<1> USE DEF IInv
<1>1. UNCHANGED <<mail, txns>>
  BY DEF BuildOrder, queues
<1>2. word[w] \in Orders /\ ostate' = [ostate EXCEPT ![word[w]] = "pending"]
  BY DEF BuildOrder, Assigned
<1>3. announced' = announced /\ receipts' = receipts
  BY <1>1 DEF announced, receipts
<1>4. CASE ostate[word[w]] = "absent"
  BY <1>2, <1>3, <1>4 DEF Lifecycle!Next, Lifecycle!Open, announced, receipts
<1>5. CASE ostate[word[w]] = "pending"
  <2>1. ostate' = ostate
    BY <1>2, <1>5 DEF TypeOK
  <2>2. QED BY <1>1, <2>1, StepUnseen
<1>6. QED BY <1>4, <1>5 DEF BuildOrder, SeenState

LEMMA ApplyAnnounces ==
  ASSUME IInv, NEW w \in Workers, NEW broker \in BrokerFaults, ApplyAcceptance(w, broker)
  PROVE  [Lifecycle!Next]_(Lifecycle!vars)
<1> USE DEF IInv
<1>1. PICK o \in Orders : /\ o = word[w]
                         /\ ostate[o] = "pending"
                         /\ UNCHANGED <<ostate, txns>>
  BY DEF ApplyAcceptance, Assigned, SeenState, orders
<1>2. mail' = [mail EXCEPT ![o] = IF broker = "up" THEN @ + 1 ELSE @]
  BY <1>1 DEF ApplyAcceptance, Fulfill
<1>3. CASE broker = "up"
  <2>1. announced' = announced \cup {o}
    <3>1. \A other \in Orders : mail'[other] = IF other = o THEN mail[o] + 1 ELSE mail[other]
      BY <1>1, <1>2, <1>3 DEF TypeOK
    <3>2. mail[o] \in Nat
      BY <1>1 DEF TypeOK
    <3>3. QED BY <1>1, <3>1, <3>2 DEF announced
  <2>2. receipts' = receipts
    BY <1>1 DEF receipts
  <2>3. Lifecycle!Announce(o)
    BY <1>1, <2>1, <2>2 DEF Lifecycle!Announce, announced, receipts
  <2>4. QED BY <1>1, <2>3 DEF Lifecycle!Next
<1>4. CASE broker # "up"
  <2>1. mail' = mail
    BY <1>2, <1>4 DEF TypeOK
  <2>2. QED BY <1>1, <2>1, StepUnseen
<1>5. QED BY <1>3, <1>4

LEMMA CommitSettles ==
  ASSUME IInv, AllPriced, NEW w \in Workers, Commit(w)
  PROVE  [Lifecycle!Next]_(Lifecycle!vars)
<1> USE DEF IInv
<1>0. PICK new : new = {[order |-> t.order, pay |-> t.pay] : t \in NewTxns(w)}
  OBVIOUS
<1>1. PICK o \in Orders : /\ o = word[w]
                         /\ ostate[o] = "pending"
                         /\ ostate' = [ostate EXCEPT ![o] = wout[w]]
  BY CommitFacts DEF Commit, AllPriced
<1>2. announced' = announced
  BY DEF Commit, queues, announced
<1>3. receipts' = receipts \cup new
  BY <1>0 DEF Commit, receipts
<1>4. new \in Lifecycle!ReceiptsFor(o)
  <2>1. wpay[w] \in Payments
    BY DEF Commit, AllPriced, TypeOK
  <2>2. CASE NewTxns(w) = {}
    BY <1>0, <2>2 DEF Lifecycle!ReceiptsFor
  <2>3. CASE NewTxns(w) # {}
    <3>1. new = {[order |-> o, pay |-> wpay[w]]}
      BY <1>0, <1>1, <2>3, CommitFacts
    <3>2. QED BY <2>1, <3>1 DEF Lifecycle!ReceiptsFor
  <2>4. QED BY <2>2, <2>3
<1>5. CASE wout[w] = "fulfilled"
  <2>1. o \in announced
    BY <1>1, <1>5 DEF Commit, Outcome, announced
  <2>2. Lifecycle!Fulfill(o, new)
    BY <1>1, <1>2, <1>3, <1>5, <2>1 DEF Lifecycle!Fulfill, announced, receipts
  <2>3. QED BY <1>1, <1>4, <2>2 DEF Lifecycle!Next
<1>6. CASE wout[w] = "errored"
  <2>1. Lifecycle!Fail(o, new)
    BY <1>1, <1>2, <1>3, <1>6 DEF Lifecycle!Fail, announced, receipts
  <2>2. QED BY <1>1, <1>4, <2>1 DEF Lifecycle!Next
<1>7. CASE wout[w] \in {"canceled", "declined"}
  <2>1. NewTxns(w) = {}
    BY <1>7, CommitFacts
  <2>2. receipts' = receipts
    BY <1>0, <1>3, <2>1
  <2>3. Lifecycle!Refuse(o)
    BY <1>1, <1>2, <1>7, <2>2 DEF Lifecycle!Refuse, announced, receipts
  <2>4. QED BY <1>1, <2>3 DEF Lifecycle!Next
<1>8. QED BY <1>5, <1>6, <1>7, CommitFacts DEF FinalStates

\* When every product has a price, Checkout implements OrderLifecycle.
THEOREM Refinement == ASSUME Free = {} PROVE Spec => KeepsPromises
<1>1. IInv /\ AllPriced /\ [Next]_vars => [Lifecycle!Next]_(Lifecycle!vars)
  <2> SUFFICES ASSUME IInv, AllPriced, [Next]_vars
               PROVE  [Lifecycle!Next]_(Lifecycle!vars)
    OBVIOUS
  <2>1. CASE UNCHANGED vars
    BY <2>1, StepUnseen DEF vars, orders, queues
  <2>2. CASE Customer \/ Gateway \/ \E p \in Products : UpdateProduct(p)
    BY <2>2, OutsideFrame, StepUnseen DEF IInv, orders, queues
  <2>3. ASSUME NEW w \in Workers, Work(w)
        PROVE  [Lifecycle!Next]_(Lifecycle!vars)
    <3>1. ~ \E broker \in BrokerFaults : ZeroFulfill(w, broker)
      BY DEF ZeroFulfill, AllPriced
    <3>2. CASE BuildOrder(w)
      BY <3>2, BuildOpens
    <3>3. CASE \E broker \in BrokerFaults : ApplyAcceptance(w, broker)
      BY <3>3, ApplyAnnounces
    <3>4. CASE Commit(w)
      BY <3>4, CommitSettles
    <3>5. CASE /\ ~ BuildOrder(w)
               /\ ~ \E broker \in BrokerFaults : ApplyAcceptance(w, broker)
               /\ ~ Commit(w)
      <4>1. UNCHANGED <<ostate, mail, txns>>
        BY <2>3, <3>1, <3>5
           DEF Work, CheckoutBegin, CallbackBegin, CheckoutStep, CallbackStep, Crash,
               ReuseOrder, CreateOrder, BuildOrderFails, Redeem, HandOutForm, SkipGateway,
               LoadPending, LoadSettled, ApplyRejection, orders, queues
      <4>2. QED BY <4>1, StepUnseen
    <3>6. QED BY <3>2, <3>3, <3>4, <3>5
  <2>4. QED BY <2>1, <2>2, <2>3 DEF Next
<1>2. QED BY <1>1, InitPromises, PricedInvariance, PTL DEF Spec, KeepsPromises, Lifecycle!Spec

=============================================================================
