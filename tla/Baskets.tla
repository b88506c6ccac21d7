------------------------------- MODULE Baskets -------------------------------
(***************************************************************************)
(* One customer's baskets in one shop: the basket views of the API, the    *)
(* cart page, the basket_add hooks that locate the customer, refuse        *)
(* blocked products, tell the shop and find the tax, and the checkout as   *)
(* far as it reads the basket.                                             *)
(*                                                                         *)
(* A request holds the basket's row in memory from the time it finds it,   *)
(* and every save writes all its columns, or inserts them again if the row *)
(* was deleted.  Nothing in the database makes baskets or items unique.    *)
(* Each statement is a step: there is no transaction around a request.     *)
(***************************************************************************)
EXTENDS Pricing

CONSTANTS
  Baskets,         \* ids of basket rows
  Workers,         \* web processes
  Profile,         \* the country in the customer's profile, or None
  Places,          \* countries that the addresses of requests may be in
  Rules,           \* blocks that administrators may make: <<country, product or All>>
  All, Gone,
  Quantities,
  MaxRequests, MaxEdits, MaxItems \* bounds: requests; changes of rules and single items; rows
                                  \* for one product

Row   == [block : Countries \cup {None}, tax : Countries \cup {None}, rate : Countries \cup {None}]
Blank == [block |-> None, tax |-> None, rate |-> None]
Order == [lines : SUBSET Products, row : Row, codes : SUBSET Codes]

ASSUME BasketConstants ==
  /\ Profile \in Countries \cup {None} /\ Places \subseteq Countries \cup {None}
  /\ Rules \subseteq Countries \X (Products \cup {All})
  /\ Quantities \subseteq Nat \ {0}
  /\ MaxRequests \in Nat /\ MaxEdits \in Nat /\ MaxItems \in Nat

ASSUME BasketNone == {None, Gone} \cap (Row \cup Baskets) = {} /\ All \notin Products

VARIABLES
  basket,   \* basket[b]: the Basket row, None before it is inserted, Gone when deleted
  items,    \* items[b][p]: quantities of the BasketItem rows for p, at most one if all is well
  codes,    \* codes[b]: Basket.discounts
  rules,    \* BlockedCountry rows
  orders,   \* orders made from a basket
  kind,     \* kind[w]: what the request that w serves is for
  pc,       \* pc[w]: what it does next
  place,    \* place[w]: where it comes from, if that is looked at
  want,     \* want[w]: products it has still to add
  product,  \* product[w]: the one it is adding
  mine,     \* mine[w]: the basket it has found,
  memory,   \* memory[w]: and what its row is in memory
  since,    \* history: since[w], rules there have been all the time since an add began
  lifted,   \* history: lifted[w], rules that were ended since it began
  overlap,  \* history: two requests have been running at the same time
  posted,   \* history: products that the basketitems endpoint put in a basket, or made of
            \* an item that was another product or in another basket
  requests, edits

rows    == <<basket, items, codes>>
seen    == <<since, lifted>>
request == <<kind, pc, place, want, product, mine, memory, seen>>
vars    == <<rows, rules, orders, request, overlap, posted, requests, edits>>

Kinds == {"add", "show", "clear", "checkout"}
Steps == {"idle", "establish", "insert", "save", "locate", "check", "notify", "tax", "item",
          "new item", "codes", "delete", "order", "answer"}

TypeOK ==
  /\ basket \in [Baskets -> Row \cup {None, Gone}]
  /\ items \in [Baskets -> [Products -> Seq(Quantities)]]
  /\ codes \in [Baskets -> SUBSET Codes]
  /\ rules \subseteq Rules
  /\ orders \subseteq Order
  /\ kind \in [Workers -> Kinds \cup {None}]
  /\ pc \in [Workers -> Steps]
  /\ place \in [Workers -> Places \cup {None}]
  /\ want \in [Workers -> SUBSET Products]
  /\ product \in [Workers -> Products \cup {None}]
  /\ mine \in [Workers -> Baskets \cup {None}]
  /\ memory \in [Workers -> Row]
  /\ since \in [Workers -> SUBSET Rules]
  /\ lifted \in [Workers -> SUBSET Rules]
  /\ overlap \in BOOLEAN
  /\ posted \subseteq Products
  /\ requests \in 0 .. MaxRequests /\ edits \in 0 .. MaxEdits

NoItems == [p \in Products |-> << >>]

Init ==
  /\ basket = [b \in Baskets |-> None]
  /\ items = [b \in Baskets |-> NoItems]
  /\ codes = [b \in Baskets |-> {}]
  /\ rules \in SUBSET Rules /\ orders = {}
  /\ kind = [w \in Workers |-> None]
  /\ pc = [w \in Workers |-> "idle"]
  /\ place = [w \in Workers |-> None]
  /\ want = [w \in Workers |-> {}]
  /\ product = [w \in Workers |-> None]
  /\ mine = [w \in Workers |-> None]
  /\ memory = [w \in Workers |-> Blank]
  /\ since = [w \in Workers |-> {}]
  /\ lifted = [w \in Workers |-> {}]
  /\ overlap = FALSE
  /\ posted = {}
  /\ requests = 0 /\ edits = 0

Rowed == {b \in Baskets : basket[b] \in Row}

\* The request is answered, or fails; nothing that it has saved is undone.
End(w) ==
  /\ kind' = [kind EXCEPT ![w] = None]
  /\ pc' = [pc EXCEPT ![w] = "idle"]
  /\ place' = [place EXCEPT ![w] = None]
  /\ want' = [want EXCEPT ![w] = {}]
  /\ product' = [product EXCEPT ![w] = None]
  /\ mine' = [mine EXCEPT ![w] = None]
  /\ memory' = [memory EXCEPT ![w] = Blank]
  /\ since' = [since EXCEPT ![w] = {}]
  /\ lifted' = [lifted EXCEPT ![w] = {}]

\* Basket.save: all columns, and the row itself if it has been deleted.
Save(w, row) == basket' = [basket EXCEPT ![mine[w]] = row]

GoTo(w, step) == pc' = [pc EXCEPT ![w] = step]

-----------------------------------------------------------------------------
(* Finding the basket.                                                     *)

Begin(w) ==
  /\ pc[w] = "idle" /\ requests < MaxRequests
  /\ requests' = requests + 1
  /\ GoTo(w, "establish")
  /\ \E k \in Kinds : kind' = [kind EXCEPT ![w] = k]
  /\ \/ /\ kind'[w] = "add"
        /\ \E ps \in SUBSET Products \ {{}} : want' = [want EXCEPT ![w] = ps]
        /\ \E c \in Places : place' = [place EXCEPT ![w] = c]
        /\ since' = [since EXCEPT ![w] = rules]
     \/ kind'[w] # "add" /\ UNCHANGED <<want, place, since>>
  /\ overlap' = (overlap \/ \E v \in Workers : pc[v] # "idle")
  /\ UNCHANGED <<rows, rules, orders, product, mine, memory, lifted, posted, edits>>

FirstStep(k) ==
  CASE k = "add" -> "locate" [] k = "show" -> "answer" [] k = "clear" -> "delete"
    [] k = "checkout" -> "order"

\* get_or_create finds one basket ...
Find(w) ==
  /\ pc[w] = "establish"
  /\ \E b \in Rowed : /\ Rowed = {b}
                      /\ mine' = [mine EXCEPT ![w] = b]
                      /\ memory' = [memory EXCEPT ![w] = basket[b]]
  /\ GoTo(w, FirstStep(kind[w]))
  /\ UNCHANGED <<rows, rules, orders, kind, place, want, product, seen, overlap, posted,
                 requests, edits>>

\* ... or none ...
FindNone(w) ==
  /\ pc[w] = "establish" /\ Rowed = {}
  /\ GoTo(w, "insert")
  /\ UNCHANGED <<rows, rules, orders, kind, place, want, product, mine, memory, seen, overlap,
                 posted, requests, edits>>

\* ... or more: MultipleObjectsReturned.
FindMany(w) ==
  /\ pc[w] = "establish" /\ Cardinality(Rowed) > 1
  /\ End(w)
  /\ UNCHANGED <<rows, rules, orders, overlap, posted, requests, edits>>

\* No constraint hinders the insertion.
InsertBasket(w) ==
  /\ pc[w] = "insert"
  /\ \E b \in Baskets : /\ basket[b] = None
                        /\ basket' = [basket EXCEPT ![b] = Blank]
                        /\ mine' = [mine EXCEPT ![w] = b]
  /\ GoTo(w, "save")
  /\ UNCHANGED <<items, codes, rules, orders, kind, place, want, product, memory, seen,
                 overlap, posted, requests, edits>>

\* establish_basket saves a new basket once more.
SaveNew(w) ==
  /\ pc[w] = "save"
  /\ Save(w, memory[w])
  /\ GoTo(w, FirstStep(kind[w]))
  /\ UNCHANGED <<items, codes, rules, orders, kind, place, want, product, mine, memory, seen,
                 overlap, posted, requests, edits>>

\* The cart is shown.
Answer(w) ==
  /\ pc[w] = "answer"
  /\ End(w)
  /\ UNCHANGED <<rows, rules, orders, overlap, posted, requests, edits>>

-----------------------------------------------------------------------------
(* basket_add, for one product after the other.                            *)

\* Mutant: what is blocked for this product only is not asked for.
FlaggedGlobal(p) == {r[1] : r \in {q \in rules : q[2] = All}}

\* get_flagged_countries: countries that are blocked for a product.
Flagged(p) == {r[1] : r \in {q \in rules : q[2] \in {p, All}}}

\* determine_user_location: a flagged country before others, the profile's first;
\* else the address's before the profile's.
determine_user_location(w, flagged) ==
  IF Profile \in flagged THEN Profile
  ELSE IF place[w] # None THEN place[w] ELSE Profile

\* locate_customer_for_basket.
Locate(w) ==
  /\ pc[w] = "locate"
  /\ \E p \in want[w] :
       LET row == [memory[w] EXCEPT !.block = determine_user_location(w, Flagged(p)),
                                    !.tax = determine_user_location(w, DOMAIN TaxRate)]
       IN  /\ product' = [product EXCEPT ![w] = p]
           /\ memory' = [memory EXCEPT ![w] = row]
           /\ Save(w, row)
  /\ GoTo(w, "check")
  /\ UNCHANGED <<items, codes, rules, orders, kind, place, want, mine, seen, overlap, posted,
                 requests, edits>>

BlockedIn(c, p) == <<c, p>> \in rules \/ <<c, All>> \in rules

\* check_blocked_countries: ProductBlockedError ends the request; products it has
\* added before stay.
CheckBlocked(w) ==
  /\ pc[w] = "check"
  /\ BlockedIn(memory[w].block, product[w])
  /\ End(w)
  /\ UNCHANGED <<rows, rules, orders, overlap, posted, requests, edits>>

CheckPasses(w) ==
  /\ pc[w] = "check"
  /\ ~ BlockedIn(memory[w].block, product[w])
  /\ GoTo(w, "notify")
  /\ UNCHANGED <<rows, rules, orders, kind, place, want, product, mine, memory, seen, overlap,
                 posted, requests, edits>>

\* notify_integrated_system: the shop is sent the product (an "add" of Webhooks)
\* before it is in the basket.
Notify(w) ==
  /\ pc[w] = "notify"
  /\ GoTo(w, "tax")
  /\ UNCHANGED <<rows, rules, orders, kind, place, want, product, mine, memory, seen, overlap,
                 posted, requests, edits>>

\* check_taxable asks for the country of the blocks.  A rate once found is never
\* taken off the basket.
CheckTaxable(w) ==
  /\ pc[w] = "tax"
  /\ LET c   == memory[w].block
         row == [memory[w] EXCEPT !.rate = c]
     IN  IF c \in DOMAIN TaxRate
         THEN Save(w, row) /\ memory' = [memory EXCEPT ![w] = row]
         ELSE UNCHANGED <<basket, memory>>
  /\ GoTo(w, "item")
  /\ UNCHANGED <<items, codes, rules, orders, kind, place, want, product, mine, seen, overlap,
                 posted, requests, edits>>

\* Mutant: create in place of update_or_create.
NoneFound(b, p) == << >>

ItemRows(b, p) == items[b][p]

NextProduct(w) ==
  /\ want' = [want EXCEPT ![w] = @ \ {product[w]}]
  /\ GoTo(w, IF want[w] = {product[w]} THEN "codes" ELSE "locate")

\* update_or_create finds one row ...
UpdateItem(w) ==
  /\ pc[w] = "item" /\ Len(ItemRows(mine[w], product[w])) = 1
  /\ \E q \in Quantities : items' = [items EXCEPT ![mine[w]][product[w]] = <<q>>]
  /\ NextProduct(w)
  /\ UNCHANGED <<basket, codes, rules, orders, kind, place, product, mine, memory, seen,
                 overlap, posted, requests, edits>>

\* ... or none, and will insert one ...
MissItem(w) ==
  /\ pc[w] = "item" /\ ItemRows(mine[w], product[w]) = << >>
  /\ GoTo(w, "new item")
  /\ UNCHANGED <<rows, rules, orders, kind, place, want, product, mine, memory, seen, overlap,
                 posted, requests, edits>>

\* ... or more.
ManyItems(w) ==
  /\ pc[w] = "item" /\ Len(ItemRows(mine[w], product[w])) > 1
  /\ End(w)
  /\ UNCHANGED <<rows, rules, orders, overlap, posted, requests, edits>>

\* The row goes in if its basket is still there.
InsertItem(w) ==
  /\ pc[w] = "new item" /\ mine[w] \in Rowed
  /\ Len(items[mine[w]][product[w]]) < MaxItems
  /\ \E q \in Quantities : items' = [items EXCEPT ![mine[w]][product[w]] = Append(@, q)]
  /\ NextProduct(w)
  /\ UNCHANGED <<basket, codes, rules, orders, kind, place, product, mine, memory, seen,
                 overlap, posted, requests, edits>>

\* Codes, automatic ones and the one given, as far as they are valid; each that is
\* put on the basket saves it.
ApplyCodes(w) ==
  /\ pc[w] = "codes"
  /\ \/ UNCHANGED <<basket, codes>>
     \/ /\ mine[w] \in Rowed
        /\ \E cs \in SUBSET Codes \ {{}} : codes' = [codes EXCEPT ![mine[w]] = @ \cup cs]
        /\ Save(w, memory[w])
  /\ End(w)
  /\ UNCHANGED <<items, rules, orders, overlap, posted, requests, edits>>

-----------------------------------------------------------------------------
(* Clearing, checking out, and what bypasses the views.                    *)

DeleteBasket(b) ==
  /\ basket' = [basket EXCEPT ![b] = Gone]
  /\ items' = [items EXCEPT ![b] = NoItems]
  /\ codes' = [codes EXCEPT ![b] = {}]

\* clear_basket.
Clear(w) ==
  /\ pc[w] = "delete"
  /\ DeleteBasket(mine[w])
  /\ End(w)
  /\ UNCHANGED <<rules, orders, overlap, posted, requests, edits>>

ProductsIn(b) == {p \in Products : items[b][p] # << >>}

\* PendingOrder._get_or_create: location and rate from memory, items and codes as
\* they are.  Two rows for one product raise, and so does an empty basket.
CheckOut(w) ==
  /\ pc[w] = "order"
  /\ LET b == mine[w] IN
     IF ProductsIn(b) # {} /\ \A p \in Products : Len(items[b][p]) < 2
     THEN orders' = orders \cup {[lines |-> ProductsIn(b), row |-> memory[w], codes |-> codes[b]]}
     ELSE UNCHANGED orders
  /\ End(w)
  /\ UNCHANGED <<rows, rules, overlap, posted, requests, edits>>

\* fulfill_completed_order, when the order is paid or costs nothing.
Paid(b) ==
  /\ b \in Rowed /\ \E o \in orders : o.lines = ProductsIn(b)
  /\ DeleteBasket(b)
  /\ UNCHANGED <<rules, orders, request, overlap, posted, requests, edits>>

Edit == edits < MaxEdits /\ edits' = edits + 1

\* BasketItemViewSet.  No hook, no look for a row there is already.
Put(its, b, p, q) ==
  /\ b \in Rowed /\ Len(its[b][p]) < MaxItems
  /\ items' = [its EXCEPT ![b][p] = Append(@, q)]
  /\ posted' = posted \cup {p}

\* POST of an item.
PostItem(b, p) ==
  /\ Edit
  /\ 1 \in Quantities /\ Put(items, b, p, 1)
  /\ UNCHANGED <<basket, codes, rules, orders, request, overlap, requests>>

\* PUT or PATCH of an item: its product and its basket may become others.  It is saved
\* with the quantity it was read with, and inserted again if it has gone meanwhile.
PutItem(b, p) ==
  /\ Edit
  /\ \E q \in Quantities :
       \/ Put(items, b, p, q)
       \/ \E a \in Baskets, x \in Products : \E i \in DOMAIN items[a][x] :
            Put([items EXCEPT ![a][x] = RemoveAt(@, i)], b, p, q)
  /\ UNCHANGED <<basket, codes, rules, orders, request, overlap, requests>>

\* Mutant: one piece less.
RemoveOne(b, p, i) == items' = [items EXCEPT ![b][p][i] = @ - 1]

DeleteItem(b, p, i) == items' = [items EXCEPT ![b][p] = RemoveAt(@, i)]

\* DELETE of an item.
RemoveItem(b, p) ==
  /\ Edit
  /\ \E i \in DOMAIN items[b][p] : DeleteItem(b, p, i)
  /\ UNCHANGED <<basket, codes, rules, orders, request, overlap, posted, requests>>

\* An administrator blocks a country, or ends a block.
EditRules(r) ==
  /\ Edit
  /\ rules' = (rules \ {r}) \cup ({r} \ rules)
  /\ since' = [w \in Workers |-> since[w] \ {r}]
  /\ lifted' = [w \in Workers |-> IF r \in rules /\ kind[w] = "add" THEN lifted[w] \cup {r}
                                                               ELSE lifted[w]]
  /\ UNCHANGED <<rows, orders, kind, pc, place, want, product, mine, memory, overlap,
                 posted, requests>>

\* The process dies, the broker does not answer, a row the step needs is gone.
Crash(w) ==
  /\ pc[w] # "idle"
  /\ End(w)
  /\ UNCHANGED <<rows, rules, orders, overlap, posted, requests, edits>>

Establish(w) == Find(w) \/ FindNone(w) \/ FindMany(w) \/ InsertBasket(w) \/ SaveNew(w)
basket_add(w) ==
  Locate(w) \/ CheckBlocked(w) \/ CheckPasses(w) \/ Notify(w) \/ CheckTaxable(w)
AddItem(w) == UpdateItem(w) \/ MissItem(w) \/ ManyItems(w) \/ InsertItem(w) \/ ApplyCodes(w)

Next ==
  \/ \E w \in Workers :
       \/ Begin(w) \/ Establish(w) \/ basket_add(w) \/ AddItem(w)
       \/ Answer(w) \/ Clear(w) \/ CheckOut(w) \/ Crash(w)
  \/ \E b \in Baskets :
       Paid(b) \/ \E p \in Products : PostItem(b, p) \/ PutItem(b, p) \/ RemoveItem(b, p)
  \/ \E r \in Rules : EditRules(r)

Spec == Init /\ [][Next]_vars

-----------------------------------------------------------------------------
(* Properties.                                                             *)

\* A product that is blocked where the customer says to be, and was all the time
\* since the request began, does not get past the check, whatever other requests
\* save meanwhile: the shop is not told and nothing is put in.  The same holds for
\* where the customer seems to be, unless a block of the profile's country was
\* ended after that country had been taken for the one to check.
BlockedGoNoFurther ==
  \A w \in Workers : pc[w] \in {"notify", "tax", "item", "new item"} =>
    LET about(r) == r[2] \in {product[w], All}
    IN  \A r \in since[w] : about(r) =>
          /\ r[1] # Profile
          /\ r[1] = place[w] => \E q \in lifted[w] : about(q) /\ q[1] = Profile

\* A customer whose requests come one at a time has one basket, with one row for a
\* product, unless the basketitems endpoint put in another or made one of another item.
OneAtATime ==
  ~ overlap => /\ Cardinality(Rowed) <= 1
               /\ \A b \in Baskets, p \in Products \ posted : Len(items[b][p]) <= 1

\* For each line the form asks for what total_price_paid records, up to a cent
\* when the tax falls on half a cent.
CentsAgree ==
  \A o \in orders : \A p \in o.lines :
    \A a \in Asked(o.codes, p, o.row.rate), r \in Recorded(o.codes, p, o.row.rate) :
      \/ a = r
      \/ a - r \in {-1, 1} /\ line_tax(o.codes, p, o.row.rate) % Cent = Cent \div 2

\* docs/source/technical/events.md:51 of total_price_paid: "inclusive of any
\* discounts and taxes assessed".
TotalHasDiscounts ==
  \A o \in orders : \A p \in o.lines :
    Recorded(o.codes, p, o.row.rate) \cap quantize(item_total_price(o.codes, p, 1, o.row.rate)) # {}

=============================================================================
