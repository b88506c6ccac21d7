------------------------------ MODULE Checkout ------------------------------
(***************************************************************************)
(* From the basket to the paid order: payments/api.py, payments/models.py  *)
(* and the views that drive them.                                          *)
(*                                                                         *)
(* Workers are uWSGI processes.  Each serves one request at a time, either *)
(* a checkout (start_checkout, generate_checkout_payload) or a callback of *)
(* the payment gateway (the customer's redirect, or the back office        *)
(* webhook).  Both run against one PostgreSQL database: a statement        *)
(* outside transaction.atomic commits by itself, a transaction shows its   *)
(* writes when it commits, and select_for_update holds an order's row      *)
(* until then.  What is in the Celery queue is never taken back.           *)
(*                                                                         *)
(* A price is a number nowhere in this module: an amount is the SET of     *)
(* product versions it sums, so two amounts differ as soon as a version is *)
(* missing from one of them, and an amount is zero when all of its         *)
(* versions are in Free.                                                   *)
(***************************************************************************)
EXTENDS Naturals, FiniteSets

CONSTANTS
  Users,           \* customers
  Systems,         \* integrated systems, each with its own shop
  Products,        \* products for sale
  SystemOf,        \* the system a product belongs to
  WebhookSystems,  \* systems with a webhook URL
  Workers,         \* web processes
  Discounts,       \* discount codes
  DiscountProduct, \* the product a code is tied to, or None
  MaxRedemptions,  \* Discount.max_redemptions, 0 for no limit
  Saving,          \* how much a code takes off: the best code has the most
  Automatic,       \* codes every suitable basket gets by itself
  Decisions,       \* what the gateway can decide on a payment
  TxIdPresent,     \* whether a payload carries a transaction id: values seen
  Free,            \* product versions with price zero
  MaxVersion, MaxOrders, MaxBaskets, MaxPayments, MaxFaults, MaxRows, \* bounds
  None

Owners          == Users \X Systems
ProductVersions == Products \X (1 .. MaxVersion)
Orders          == 1 .. MaxOrders
Baskets         == 1 .. MaxBaskets
Payments        == 1 .. MaxPayments

AllDecisions == {"accepted", "declined", "error", "cancelled", "review", "unknown"}
FinalStates  == {"fulfilled", "canceled", "declined", "errored"}
OrderStates  == {"absent", "pending"} \cup FinalStates

Forms       == [order : Orders, items : SUBSET ProductVersions]
PayData     == [order : Orders, items : SUBSET ProductVersions,
                decision : AllDecisions, txid : BOOLEAN]
Redemptions == [code : Discounts, order : Orders, n : Nat]
Txns        == [order : Orders, pay : Payments \cup {None}, amount : SUBSET ProductVersions]

ASSUME ConstantsAssumption ==
  /\ IsFiniteSet(Discounts)
  /\ SystemOf \in [Products -> Systems]
  /\ WebhookSystems \subseteq Systems
  /\ DiscountProduct \in [Discounts -> Products \cup {None}]
  /\ MaxRedemptions \in [Discounts -> Nat]
  /\ Saving \in [Discounts -> Nat]
  /\ Automatic \subseteq Discounts
  /\ Decisions \subseteq AllDecisions
  /\ TxIdPresent \subseteq BOOLEAN
  /\ Free \subseteq ProductVersions

ASSUME BoundsAssumption ==
  /\ MaxVersion \in Nat \ {0}
  /\ {MaxOrders, MaxBaskets, MaxPayments, MaxFaults, MaxRows} \subseteq Nat

ASSUME NoneAssumption ==
  /\ None \notin Products \cup Workers \cup Owners \cup FinalStates
  /\ None \notin Nat
  /\ None \notin PayData

VARIABLES
  \* tables
  ver,      \* ver[p]: the latest reversion Version of product p
  bowner,   \* bowner[b]: user and system of basket b, None if b was never made
  blive,    \* the baskets that have not been deleted
  bitems,   \* bitems[b]: products in basket b
  bcodes,   \* bcodes[b]: discount codes on basket b
  ostate,   \* ostate[o]: committed Order.state; "absent" before the insert
  oowner,   \* oowner[o]: purchaser and integrated_system
  olines,   \* olines[o]: product versions of the order's lines
  opriced,  \* opriced[o]: total_price_paid
  nextOrder,\* the order id sequence
  txns,     \* Transaction rows; pay = None for a sale without payment
  redeemed, \* RedeemedDiscount rows; n numbers the rows of one code
  lock,     \* lock[o]: worker whose transaction holds the row of order o
  \* outside the database
  forms,    \* checkout forms handed to customers
  payment,  \* payment[i]: what the gateway decided on its i-th payment
  webhook,  \* webhook[o]: post-sale webhook tasks queued for order o
  mail,     \* mail[o]: payment mail tasks queued for order o
  faults,   \* crashes and broker failures so far
  \* the request each worker serves
  pc,       \* the next step
  wbasket,  \* checkout: its basket; callback: the basket its commit deletes
  wvers,    \* checkout: the product versions read from the basket
  word,     \* the order
  wpay,     \* callback: the payment
  wout      \* state its transaction will give the order

tables   == <<ver, bowner, blive, bitems, bcodes, redeemed>>
orders   == <<ostate, oowner, olines, opriced, nextOrder, txns>>
outside  == <<forms, payment>>
queues   == <<webhook, mail>>
requests == <<pc, wbasket, wvers, word, wpay, wout>>
vars     == <<tables, orders, lock, outside, queues, faults, requests>>

Stages == {"idle", "find", "build", "redeem", "price", "zero", "load", "apply", "commit"}
TypeOK ==
  /\ ver \in [Products -> 1 .. MaxVersion]
  /\ bowner \in [Baskets -> Owners \cup {None}]
  /\ blive \subseteq Baskets
  /\ bitems \in [Baskets -> SUBSET Products]
  /\ bcodes \in [Baskets -> SUBSET Discounts]
  /\ ostate \in [Orders -> OrderStates]
  /\ oowner \in [Orders -> Owners \cup {None}]
  /\ olines \in [Orders -> SUBSET ProductVersions]
  /\ opriced \in [Orders -> SUBSET ProductVersions]
  /\ nextOrder \in 1 .. (MaxOrders + 1)
  /\ txns \subseteq Txns
  /\ redeemed \subseteq Redemptions /\ IsFiniteSet(redeemed)
  /\ lock \in [Orders -> Workers \cup {None}]
  /\ forms \subseteq Forms
  /\ payment \in [Payments -> PayData \cup {None}]
  /\ webhook \in [Orders -> Nat]
  /\ mail \in [Orders -> Nat]
  /\ faults \in 0 .. MaxFaults
  /\ pc \in [Workers -> Stages]
  /\ wbasket \in [Workers -> Baskets \cup {None}]
  /\ wvers \in [Workers -> SUBSET ProductVersions]
  /\ word \in [Workers -> Orders \cup {None}]
  /\ wpay \in [Workers -> Payments \cup {None}]
  /\ wout \in [Workers -> FinalStates \cup {None}]

Init ==
  /\ ver = [p \in Products |-> 1]
  /\ bowner = [b \in Baskets |-> None]
  /\ blive = {}
  /\ bitems = [b \in Baskets |-> {}]
  /\ bcodes = [b \in Baskets |-> {}]
  /\ ostate = [o \in Orders |-> "absent"]
  /\ oowner = [o \in Orders |-> None]
  /\ olines = [o \in Orders |-> {}]
  /\ opriced = [o \in Orders |-> {}]
  /\ nextOrder = 1
  /\ txns = {}
  /\ redeemed = {}
  /\ lock = [o \in Orders |-> None]
  /\ forms = {}
  /\ payment = [i \in Payments |-> None]
  /\ webhook = [o \in Orders |-> 0]
  /\ mail = [o \in Orders |-> 0]
  /\ faults = 0
  /\ pc = [w \in Workers |-> "idle"]
  /\ wbasket = [w \in Workers |-> None]
  /\ wvers = [w \in Workers |-> {}]
  /\ word = [w \in Workers |-> None]
  /\ wpay = [w \in Workers |-> None]
  /\ wout = [w \in Workers |-> None]

-----------------------------------------------------------------------------
(* The basket and the catalogue, changed by requests of one statement.     *)

ProductsOf(versions) == {v[1] : v \in versions}

\* Basket.establish_basket: the owner's basket, made on first use.
Establish(own, b) ==
  \/ b \in blive /\ bowner[b] = own /\ UNCHANGED <<bowner, blive>>
  \/ /\ \A c \in blive : bowner[c] # own
     /\ bowner[b] = None
     /\ \A c \in Baskets : c < b => bowner[c] # None
     /\ bowner' = [bowner EXCEPT ![b] = own]
     /\ blive' = blive \cup {b}

\* self.redeemed_discounts.count()
TimesRedeemed(d) == Cardinality({r \in redeemed : r.code = d})

\* Discount.is_valid, for a basket that holds items.
IsValid(d, items) ==
  /\ DiscountProduct[d] = None \/ DiscountProduct[d] \in items
  /\ MaxRedemptions[d] = 0 \/ TimesRedeemed(d) < MaxRedemptions[d]

\* _create_basket_from_product, with or without a discount code.  The item
\* is upserted; then every automatic code that suits the basket is applied.
AddItem(own, b, p, code) ==
  /\ SystemOf[p] = own[2]
  /\ Establish(own, b)
  /\ LET items == bitems[b] \cup {p} IN
       /\ bitems' = [bitems EXCEPT ![b] = items]
       /\ bcodes' = [bcodes EXCEPT ![b] =
                       @ \cup {d \in Discounts : /\ d \in Automatic \/ d = code
                                                 /\ IsValid(d, items)}]
  /\ UNCHANGED <<ver, redeemed, orders, lock, outside, queues, faults, requests>>

\* add_discount_to_basket.
AddDiscount(own, b, d) ==
  /\ Establish(own, b)
  /\ bcodes' = [bcodes EXCEPT ![b] = IF IsValid(d, bitems[b]) THEN @ \cup {d} ELSE @]
  /\ UNCHANGED <<ver, redeemed, bitems, orders, lock, outside, queues, faults, requests>>

\* BasketItemViewSet.destroy.
RemoveItem(b, p) ==
  /\ p \in bitems[b]
  /\ bitems' = [bitems EXCEPT ![b] = @ \ {p}]
  /\ UNCHANGED <<ver, bowner, blive, bcodes, redeemed, orders, lock, outside, queues,
                 faults, requests>>

\* clear_basket, of a basket that exists: the row and what cascades from it.
ClearBasket(b) ==
  /\ b \in blive
  /\ blive' = blive \ {b}
  /\ bitems' = [bitems EXCEPT ![b] = {}]
  /\ bcodes' = [bcodes EXCEPT ![b] = {}]
  /\ UNCHANGED <<ver, bowner, redeemed, orders, lock, outside, queues, faults, requests>>

\* A product is saved under create_revision: a new Version of it.
UpdateProduct(p) ==
  /\ ver[p] < MaxVersion
  /\ ver' = [ver EXCEPT ![p] = @ + 1]
  /\ UNCHANGED <<bowner, blive, bitems, bcodes, redeemed, orders, lock, outside, queues,
                 faults, requests>>

-----------------------------------------------------------------------------
(* Checkout: generate_checkout_payload.                                    *)

EndRequest(w) ==
  /\ pc' = [pc EXCEPT ![w] = "idle"]
  /\ wbasket' = [wbasket EXCEPT ![w] = None]
  /\ wvers' = [wvers EXCEPT ![w] = {}]
  /\ word' = [word EXCEPT ![w] = None]
  /\ wpay' = [wpay EXCEPT ![w] = None]
  /\ wout' = [wout EXCEPT ![w] = None]

\* Mutant: only the order the request works on is released.
UnlockOne(w) == lock' = [o \in Orders |-> IF o = word[w] THEN None ELSE lock[o]]

\* The transaction ends: all the rows it holds are free.
Unlock(w) == lock' = [o \in Orders |-> IF lock[o] = w THEN None ELSE lock[o]]

\* _process_basket_products: the latest version of each product in the
\* basket.  An empty basket is a ValidationError, so nothing starts.
CheckoutBegin(w, b) ==
  /\ pc[w] = "idle"
  /\ b \in blive
  /\ bitems[b] # {}
  /\ \A d \in bcodes[b] : TimesRedeemed(d) < MaxRows
  /\ pc' = [pc EXCEPT ![w] = "find"]
  /\ wbasket' = [wbasket EXCEPT ![w] = b]
  /\ wvers' = [wvers EXCEPT ![w] = {<<p, ver[p]>> : p \in bitems[b]}]
  /\ UNCHANGED <<tables, orders, lock, outside, queues, faults, word, wpay, wout>>

\* Mutant: an order of any state is taken up again.
MatchingAnyState(w) ==
  {o \in Orders : /\ ostate[o] # "absent"
                  /\ oowner[o] = bowner[wbasket[w]]
                  /\ olines[o] \cap wvers[w] # {}}

\* Mutant: an order of any customer is taken.
MatchingAnyOwner(w) ==
  {o \in Orders : ostate[o] = "pending" /\ olines[o] \cap wvers[w] # {}}

\* The pending orders of the basket's owner that share a version with it.
Matching(w) ==
  {o \in Orders : /\ ostate[o] = "pending"
                  /\ oowner[o] = bowner[wbasket[w]]
                  /\ olines[o] \cap wvers[w] # {}}

\* Mutant: no select_for_update.
ReuseUnlocked(w) ==
  /\ pc[w] = "find"
  /\ \E o \in Matching(w) :
       /\ \A other \in Matching(w) : o <= other
       /\ word' = [word EXCEPT ![w] = o]
       /\ lock' = [lock EXCEPT ![o] = w]
  /\ pc' = [pc EXCEPT ![w] = "build"]
  /\ UNCHANGED <<tables, orders, outside, queues, faults, wbasket, wvers, wpay, wout>>

\* _get_or_create, select_for_update: the rows are waited for and locked
\* together, and the first of those still pending is taken.
ReuseOrder(w) ==
  /\ pc[w] = "find"
  /\ \A o \in Matching(w) : lock[o] = None
  /\ \E o \in Matching(w) :
       /\ \A other \in Matching(w) : o <= other
       /\ word' = [word EXCEPT ![w] = o]
  /\ lock' = [o \in Orders |-> IF o \in Matching(w) THEN w ELSE lock[o]]
  /\ pc' = [pc EXCEPT ![w] = "build"]
  /\ UNCHANGED <<tables, orders, outside, queues, faults, wbasket, wvers, wpay, wout>>

\* _get_or_create, Order.objects.create: nobody sees the row until commit.
CreateOrder(w) ==
  /\ pc[w] = "find"
  /\ Matching(w) = {}
  /\ nextOrder \in Orders
  /\ word' = [word EXCEPT ![w] = nextOrder]
  /\ lock' = [lock EXCEPT ![nextOrder] = w]
  /\ nextOrder' = nextOrder + 1
  /\ pc' = [pc EXCEPT ![w] = "build"]
  /\ UNCHANGED <<tables, ostate, oowner, olines, opriced, txns, outside, queues, faults,
                 wbasket, wvers, wpay, wout>>

\* The code BasketItem.best_discount_for_item_from_basket picks for product p.
IsBestFor(d, codes, p) ==
  LET fits == {e \in codes : DiscountProduct[e] \in {None, p}} IN
  d \in fits /\ \A e \in fits : Saving[e] <= Saving[d]

\* Mutant: the prices of the products as they are now, not of the versions read.
BasketTotalNow(w) == {<<p, ver[p]>> : p \in ProductsOf(wvers[w])}

\* The total adds up the lines of this basket.
BasketTotal(w) == wvers[w]

\* The rest of _get_or_create, up to its commit.  A line is made for each
\* version the order has no line for; lines of earlier checkouts stay.
\* Codes that are best for no item leave the basket.
BuildOrder(w) ==
  LET b == wbasket[w]
      o == word[w] IN
  /\ pc[w] = "build"
  /\ ProductsOf(wvers[w]) \subseteq bitems[b]
  /\ ostate' = [ostate EXCEPT ![o] = "pending"]
  /\ oowner' = [oowner EXCEPT ![o] = IF @ = None THEN bowner[b] ELSE @]
  /\ olines' = [olines EXCEPT ![o] = @ \cup wvers[w]]
  /\ opriced' = [opriced EXCEPT ![o] = BasketTotal(w)]
  /\ bcodes' = [bcodes EXCEPT ![b] =
                  {d \in @ : \E p \in ProductsOf(wvers[w]) : IsBestFor(d, @, p)}]
  /\ Unlock(w)
  /\ pc' = [pc EXCEPT ![w] = "redeem"]
  /\ UNCHANGED <<ver, bowner, blive, bitems, redeemed, nextOrder, txns, outside, queues,
                 faults, wbasket, wvers, word, wpay, wout>>

\* Mutant: the transaction is left open.
BuildOrderHangs(w) ==
  /\ pc[w] = "build"
  /\ ~ ProductsOf(wvers[w]) \subseteq bitems[wbasket[w]]
  /\ EndRequest(w)
  /\ UNCHANGED <<tables, orders, lock, outside, queues, faults>>

\* basket_items.get raises DoesNotExist: rolled back, answered "No basket".
BuildOrderFails(w) ==
  /\ pc[w] = "build"
  /\ ~ ProductsOf(wvers[w]) \subseteq bitems[wbasket[w]]
  /\ Unlock(w)
  /\ EndRequest(w)
  /\ UNCHANGED <<tables, orders, outside, queues, faults>>

\* create_from_basket: a RedeemedDiscount for each code on the basket.  The
\* insert refers to the order, and waits for a transaction that holds it.
Redeem(w) ==
  LET codes == bcodes[wbasket[w]] IN
  /\ pc[w] = "redeem"
  /\ codes # {} => lock[word[w]] = None
  /\ redeemed' = redeemed \cup
       {[code |-> d, order |-> word[w], n |-> TimesRedeemed(d) + 1] : d \in codes}
  /\ pc' = [pc EXCEPT ![w] = "price"]
  /\ UNCHANGED <<ver, bowner, blive, bitems, bcodes, orders, lock, outside, queues, faults,
                 wbasket, wvers, word, wpay, wout>>

\* The payload lists every line the order has now.  If they cost something
\* the customer gets the form that pays for them.
HandOutForm(w) ==
  LET o == word[w] IN
  /\ pc[w] = "price"
  /\ ~ olines[o] \subseteq Free
  /\ forms' = forms \cup {[order |-> o, items |-> olines[o]]}
  /\ EndRequest(w)
  /\ UNCHANGED <<tables, orders, lock, payment, queues, faults>>

\* total_price == 0: no gateway.
SkipGateway(w) ==
  /\ pc[w] = "price"
  /\ olines[word[w]] \subseteq Free
  /\ pc' = [pc EXCEPT ![w] = "zero"]
  /\ UNCHANGED <<tables, orders, lock, outside, queues, faults, wbasket, wvers, word, wpay,
                 wout>>

-----------------------------------------------------------------------------
(* Fulfilment, shared by the checkout that costs nothing and the callback. *)

\* The system of an order has a webhook URL (process_post_sale_webhooks).
Notifies(o) == \E v \in olines[o] : SystemOf[v[1]] \in WebhookSystems

\* Basket.compare_to_order, for a basket of the purchaser.
CompareToOrder(b, o) == bitems[b] = ProductsOf(olines[o])

\* Mutant: a hook's exception is logged, the order is FULFILLED all the same.
StateAfterLogged(broker) == "fulfilled"

\* The state Order.fulfill leaves: an exception of a hook is caught.
StateAfter(broker) == IF broker = "up" THEN "fulfilled" ELSE "errored"

\* Order.fulfill by worker w, then the basket, if it is the one sold.  The
\* webhook hook runs before the mail hook, and not after it failed.  The tasks are queued now, the rows at commit.
Fulfill(w, o, basketsOf, broker) ==
  /\ broker = "webhook" => Notifies(o)
  /\ broker # "up" => faults < MaxFaults
  /\ faults' = IF broker = "up" THEN faults ELSE faults + 1
  /\ webhook' = [webhook EXCEPT ![o] = IF Notifies(o) /\ broker # "webhook" THEN @ + 1 ELSE @]
  /\ mail' = [mail EXCEPT ![o] = IF broker = "up" THEN @ + 1 ELSE @]
  /\ wout' = [wout EXCEPT ![w] = StateAfter(broker)]
  /\ \/ \E b \in basketsOf : /\ CompareToOrder(b, o)
                             /\ wbasket' = [wbasket EXCEPT ![w] = b]
     \/ /\ \A b \in basketsOf : ~ CompareToOrder(b, o)
        /\ wbasket' = [wbasket EXCEPT ![w] = None]
  /\ pc' = [pc EXCEPT ![w] = "commit"]

\* Which task the broker refuses, if any.
BrokerFaults == {"up", "webhook", "mail"}

\* Mutant: the write does not wait for the row.
ZeroFulfillUnlocked(w, broker) ==
  /\ pc[w] = "zero"
  /\ lock' = [lock EXCEPT ![word[w]] = w]
  /\ Fulfill(w, word[w], {wbasket[w]}, broker)
  /\ UNCHANGED <<tables, orders, outside, wvers, word, wpay>>

\* fulfill_completed_order of an order that costs nothing, on the order
\* object the checkout has had since BuildOrder.  The row is not read again;
\* the first write waits for it.
ZeroFulfill(w, broker) ==
  LET o == word[w] IN
  /\ pc[w] = "zero"
  /\ lock[o] = None
  /\ lock' = [lock EXCEPT ![o] = w]
  /\ Fulfill(w, o, {wbasket[w]}, broker)
  /\ UNCHANGED <<tables, orders, outside, wvers, word, wpay>>

-----------------------------------------------------------------------------
(* The gateway and its callbacks.                                          *)

\* The customer submits a form; the gateway decides, under a new request id.
\* A customer who checks out again gets the same form again, so that a form
\* may be paid, or tried, any number of times.
Pay(i, f, decision, txid) ==
  /\ payment[i] = None
  /\ \A j \in Payments : j < i => payment[j] # None
  /\ payment' = [payment EXCEPT ![i] = [order |-> f.order, items |-> f.items,
                                        decision |-> decision, txid |-> txid]]
  /\ UNCHANGED <<tables, orders, lock, forms, queues, faults, requests>>

\* CheckoutCallbackView.post and BackofficeCallbackView.post.  Either can come
\* at any time after the decision, more than once, or never.  Of an order that
\* is not PENDING nothing is written: a callback that would begin then is left
\* out.
CallbackBegin(w, i) ==
  /\ pc[w] = "idle"
  /\ payment[i] # None
  /\ ostate[payment[i].order] = "pending"
  /\ word' = [word EXCEPT ![w] = payment[i].order]
  /\ wpay' = [wpay EXCEPT ![w] = i]
  /\ pc' = [pc EXCEPT ![w] = "load"]
  /\ UNCHANGED <<tables, orders, lock, outside, queues, faults, wbasket, wvers, wout>>

\* Mutant: no select_for_update.
LoadUnlocked(w) ==
  /\ pc[w] = "load"
  /\ ostate[word[w]] = "pending"
  /\ lock' = [lock EXCEPT ![word[w]] = w]
  /\ pc' = [pc EXCEPT ![w] = "apply"]
  /\ UNCHANGED <<tables, orders, outside, queues, faults, wbasket, wvers, word, wpay, wout>>

\* Mutant: the state was looked at before the row was locked, not after.
LoadUnseen(w) ==
  /\ pc[w] = "load"
  /\ lock[word[w]] = None
  /\ lock' = [lock EXCEPT ![word[w]] = w]
  /\ pc' = [pc EXCEPT ![w] = "apply"]
  /\ UNCHANGED <<tables, orders, outside, queues, faults, wbasket, wvers, word, wpay, wout>>

\* get_order_from_cybersource_payment_response: the row is waited for, locked
\* and read; it is processed only if it is still PENDING.
LoadPending(w) ==
  LET o == word[w] IN
  /\ pc[w] = "load"
  /\ lock[o] = None
  /\ ostate[o] = "pending"
  /\ lock' = [lock EXCEPT ![o] = w]
  /\ pc' = [pc EXCEPT ![w] = "apply"]
  /\ UNCHANGED <<tables, orders, outside, queues, faults, wbasket, wvers, word, wpay, wout>>

LoadSettled(w) ==
  /\ pc[w] = "load"
  /\ lock[word[w]] = None
  /\ ostate[word[w]] # "pending"
  /\ EndRequest(w)
  /\ UNCHANGED <<tables, orders, lock, outside, queues, faults>>

\* Mutant: the gateway's word for it is stored as the state.
RejectionVerbatim(decision) == decision

\* process_cybersource_payment_response: state_handlers, but for ACCEPTED.
Rejection(decision) ==
  CASE decision = "declined" -> "declined"
    [] decision = "error"    -> "errored"
    [] OTHER                 -> "canceled"

ApplyRejection(w) ==
  LET decision == payment[wpay[w]].decision IN
  /\ pc[w] = "apply"
  /\ decision # "accepted"
  /\ wout' = [wout EXCEPT ![w] = Rejection(decision)]
  /\ pc' = [pc EXCEPT ![w] = "commit"]
  /\ UNCHANGED <<tables, orders, lock, outside, queues, faults, wbasket, wvers, word, wpay>>

\* Basket.objects.filter(user=purchaser).first(): the user's oldest basket.
OldestBasket(user) ==
  {b \in blive : /\ bowner[b][1] = user
                 /\ \A c \in blive : bowner[c][1] = user => b <= c}

ApplyAcceptance(w, broker) ==
  LET o == word[w] IN
  /\ pc[w] = "apply"
  /\ payment[wpay[w]].decision = "accepted"
  /\ Fulfill(w, o, OldestBasket(oowner[o][1]), broker)
  /\ UNCHANGED <<tables, orders, lock, outside, wvers, word, wpay>>

\* Mutant: only sales without payment are written down.
NewTxnsUnpaid(w) ==
  IF wpay[w] = None THEN {[order |-> word[w], pay |-> None, amount |-> wvers[w]]} ELSE {}

\* Order.create_transaction.  A payload without a transaction id makes the
\* order ERRORED, which Order.fulfill overwrites, and leaves no row.
NewTxns(w) ==
  LET o == word[w]
      i == wpay[w] IN
  IF i = None
    THEN {[order |-> o, pay |-> None, amount |-> wvers[w]]}
    ELSE IF payment[i].decision = "accepted" /\ payment[i].txid
           THEN {[order |-> o, pay |-> i, amount |-> opriced[o]]}
           ELSE {}

\* The transaction commits.  save() writes every column of the order object:
\* a callback's is as fresh as its lock, the one of a checkout that costs
\* nothing still has the total of its own basket.
Commit(w) ==
  LET o == word[w]
      b == wbasket[w] IN
  /\ pc[w] = "commit"
  /\ ostate' = [ostate EXCEPT ![o] = wout[w]]
  /\ opriced' = [opriced EXCEPT ![o] = IF wpay[w] = None THEN wvers[w] ELSE @]
  /\ txns' = txns \cup NewTxns(w)
  /\ blive' = blive \ {b}
  /\ bitems' = [c \in Baskets |-> IF c = b THEN {} ELSE bitems[c]]
  /\ bcodes' = [c \in Baskets |-> IF c = b THEN {} ELSE bcodes[c]]
  /\ Unlock(w)
  /\ EndRequest(w)
  /\ UNCHANGED <<ver, bowner, redeemed, oowner, olines, nextOrder, outside, queues, faults>>

\* The worker dies, loses its connection, or raises after its hooks (the
\* redirect page reads the order's lines): the open transaction rolls back.
Crash(w) ==
  /\ pc[w] # "idle"
  /\ faults < MaxFaults
  /\ faults' = faults + 1
  /\ Unlock(w)
  /\ EndRequest(w)
  /\ UNCHANGED <<tables, orders, outside, queues>>

-----------------------------------------------------------------------------

Customer ==
  \/ \E own \in Owners, b \in Baskets :
       \/ \E p \in Products, code \in Discounts \cup {None} : AddItem(own, b, p, code)
       \/ \E d \in Discounts : AddDiscount(own, b, d)
  \/ \E b \in Baskets : ClearBasket(b) \/ \E p \in Products : RemoveItem(b, p)

Gateway ==
  \E i \in Payments, f \in forms, decision \in Decisions, txid \in TxIdPresent :
    Pay(i, f, decision, txid)

CheckoutStep(w) ==
  \/ ReuseOrder(w)  \/ CreateOrder(w)
  \/ BuildOrder(w)  \/ BuildOrderFails(w)
  \/ Redeem(w)
  \/ HandOutForm(w) \/ SkipGateway(w)
  \/ \E broker \in BrokerFaults : ZeroFulfill(w, broker)

CallbackStep(w) ==
  \/ LoadPending(w) \/ LoadSettled(w)
  \/ ApplyRejection(w)
  \/ \E broker \in BrokerFaults : ApplyAcceptance(w, broker)

Work(w) ==
  \/ \E b \in Baskets : CheckoutBegin(w, b)
  \/ \E i \in Payments : CallbackBegin(w, i)
  \/ CheckoutStep(w)
  \/ CallbackStep(w)
  \/ Commit(w)
  \/ Crash(w)

Next ==
  \/ Customer
  \/ Gateway
  \/ \E p \in Products : UpdateProduct(p)
  \/ \E w \in Workers : Work(w)

Spec == Init /\ [][Next]_vars

(* A worker finishes what it started; the database grants a row lock in    *)
(* turn, so a worker that waits for one gets it.  An answer of the gateway *)
(* is in the end served by some worker: the gateway reports to the back    *)
(* office when the customer's redirect fails, and requests queue for an    *)
(* idle process.  Rows and processes are free only now and then, hence SF. *)
Fairness ==
  /\ \A w \in Workers : SF_vars(CheckoutStep(w) \/ CallbackStep(w) \/ Commit(w))
  /\ \A i \in Payments : SF_vars(\E w \in Workers : CallbackBegin(w, i))

FairSpec == Spec /\ Fairness

-----------------------------------------------------------------------------
(* Properties.                                                             *)

\* However often and in whatever order the redirect and the back office
\* report, and however many payments are made for one order, at most one
\* payment is recorded as the order's (the PENDING test under the row lock
\* in both callback views).
PaidOnce ==
  \A t, u \in txns : /\ t.order = u.order
                     /\ t.pay # None
                     /\ u.pay # None
                     => t = u

\* A transaction recorded for an order is never left beside an order that
\* reads as pending, declined or canceled (Order.fulfill writes both in the
\* callback's transaction).
TxnOfSale == \A t \in txns : ostate[t.order] \in {"fulfilled", "errored"}

\* An accepted payment of order o had no transaction id in its payload.
PaidWithoutId(o) ==
  \E i \in Payments : /\ payment[i] # None
                      /\ payment[i].order = o
                      /\ payment[i].decision = "accepted"
                      /\ ~ payment[i].txid

\* A fulfilled order has a Transaction row to refund from, but for one that
\* was paid for without a transaction id: Order.create_transaction raises,
\* and Order.fulfill goes on.
FulfilledHasTxn ==
  \A o \in Orders : ostate[o] = "fulfilled" =>
    PaidWithoutId(o) \/ \E t \in txns : t.order = o

\* A fulfilled order has had its mail queued, and its webhook if its system
\* has a URL (Order.fulfill turns a failure of a hook into ERRORED).
SaleAnnounced ==
  \A o \in Orders : ostate[o] = "fulfilled" => /\ mail[o] > 0
                                               /\ Notifies(o) => webhook[o] > 0

\* An order is announced once, and once more at most for each crash that
\* rolled its sale back after the tasks were queued.
AnnouncedOnce == \A o \in Orders : webhook[o] <= 1 + faults

\* An order that is not PENDING is never PENDING again: no callback and no
\* later checkout of the same products reopens it.
NeverReopened ==
  [][\A o \in Orders : ostate[o] \in FinalStates => ostate'[o] \in FinalStates]_vars

\* The lines of an order do not change once the gateway's decision, or a
\* checkout without payment, has settled it: a checkout that waited for the
\* row looks again at its state.
SettledLinesFixed ==
  [][\A o \in Orders : ostate[o] \in FinalStates => olines'[o] = olines[o]]_vars

\* The state of a settled order can't be altered further.
FinalIsFinal ==
  [][\A o \in Orders : ostate[o] \in FinalStates => ostate'[o] = ostate[o]]_vars

\* A payment the gateway accepted is not forgotten: its order leaves PENDING,
\* whatever became of the customer's redirect.
AcceptedIsSettled ==
  \A i \in Payments :
    (payment[i] # None /\ payment[i].decision = "accepted")
      ~> (payment[i] # None /\ ostate[payment[i].order] \in FinalStates)

\* Every request is answered: nobody waits for ever for a row lock that
\* nobody gives back.  (CreateOrder stops at the bound on order ids.)
RequestEnds ==
  \A w \in Workers : pc[w] # "idle" ~> (pc[w] = "idle" \/ nextOrder > MaxOrders)

\* An order of this module, seen from outside: announced when its mail is
\* queued, the last of Order.fulfill's hooks.
Lifecycle == INSTANCE OrderLifecycle WITH
  state     <- ostate,
  announced <- {o \in Orders : mail[o] > 0},
  receipts  <- {[order |-> t.order, pay |-> t.pay] : t \in txns}

\* When every product has a price, the callbacks and the checkouts keep the
\* promises of OrderLifecycle: an order is settled once, after it was
\* announced if it was sold, with one receipt at most.
KeepsPromises == Lifecycle!Spec

\* A checkout ends up with an order of its own customer, and never with one
\* another customer opened for the same product (the purchaser and system in
\* _get_or_create's filter; the basket may be gone by then).
OwnOrder ==
  \A w \in Workers : pc[w] \in {"redeem", "price", "zero"} =>
    oowner[word[w]] = bowner[wbasket[w]]

\* What an order's total adds up is among its lines, also when a checkout
\* that costs nothing saves the order object it got before others changed it.
TotalOfLines == \A o \in Orders : opriced[o] \subseteq olines[o]

-----------------------------------------------------------------------------
(* The inductive invariant.  The properties above hold because a worker    *)
(* that is going to write an order's state holds the order's row, and has  *)
(* seen it PENDING while holding it.  The one that does not, a checkout    *)
(* that costs nothing, only ever writes a final state.                     *)

\* A request knows its basket, order and payment from the step that set them.
Assigned ==
  \A w \in Workers :
    /\ pc[w] \in {"find", "build", "redeem", "price", "zero"} => wbasket[w] \in Baskets
    /\ pc[w] \notin {"idle", "find"} => word[w] \in Orders
    /\ pc[w] \in {"load", "apply"} => wpay[w] # None
    /\ pc[w] \notin {"load", "apply", "commit"} => wpay[w] = None
    /\ pc[w] = "commit" => wout[w] # None
    /\ wpay[w] # None => /\ payment[wpay[w]] # None
                         /\ payment[wpay[w]].order = word[w]

HoldsRow ==
  \A w \in Workers : pc[w] \in {"build", "apply", "commit"} => lock[word[w]] = w

\* What a worker knows of its order's state.
SeenState ==
  \A w \in Workers :
    /\ pc[w] = "build" => ostate[word[w]] \in {"absent", "pending"}
    /\ pc[w] \in {"redeem", "price", "zero", "load", "commit"} => ostate[word[w]] # "absent"
    /\ pc[w] = "apply" => ostate[word[w]] = "pending"
    /\ pc[w] = "commit" /\ wpay[w] # None => ostate[word[w]] = "pending"

\* Order ids are given out in order.
Unborn == \A o \in Orders : o >= nextOrder => ostate[o] = "absent" /\ lock[o] = None

\* What a worker is about to commit: a sale, unless the gateway refused, and
\* a sale only after its tasks are queued.
Outcome ==
  \A w \in Workers : pc[w] = "commit" =>
    /\ wpay[w] = None \/ payment[wpay[w]].decision = "accepted"
         => wout[w] \in {"fulfilled", "errored"}
    /\ wout[w] = "fulfilled" => /\ mail[word[w]] > 0
                                /\ Notifies(word[w]) => webhook[word[w]] > 0

\* Whose baskets and orders are: an order has its owner from the commit that
\* made it, a basket from its insert, and neither ever changes hands.
Owned ==
  /\ \A b \in blive : bowner[b] # None
  /\ \A o \in Orders : ostate[o] = "absent" <=> oowner[o] = None
  /\ \A w \in Workers :
       /\ pc[w] \in {"find", "build", "redeem", "price", "zero"} => bowner[wbasket[w]] # None
       /\ pc[w] = "build" => oowner[word[w]] \in {None, bowner[wbasket[w]]}

\* A checkout past BuildOrder finds what it read from its basket among the
\* lines of its order.
LinesBuilt ==
  \A w \in Workers :
    pc[w] \in {"redeem", "price", "zero"} \/ (pc[w] = "commit" /\ wpay[w] = None)
      => wvers[w] \subseteq olines[word[w]]

\* Of the payments, only an accepted one makes an order FULFILLED.
SaleDecided ==
  \A w \in Workers : pc[w] = "commit" /\ wpay[w] # None /\ wout[w] = "fulfilled"
                       => payment[wpay[w]].decision = "accepted"

IInv ==
  /\ TypeOK /\ Assigned /\ HoldsRow /\ SeenState /\ Unborn /\ Outcome
  /\ TxnOfSale /\ PaidOnce /\ SaleAnnounced
  /\ Owned /\ OwnOrder /\ LinesBuilt /\ TotalOfLines /\ SaleDecided

=============================================================================
