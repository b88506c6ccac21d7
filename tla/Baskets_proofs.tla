---------------------------- MODULE Baskets_proofs ----------------------------
(***************************************************************************)
(* Baskets, for any products, codes, countries, rules and number of web    *)
(* processes: what is blocked for a customer does not get past the check,  *)
(* requests that come one at a time make one basket without double rows,   *)
(* and the prices and cents of its items come out the same wherever they   *)
(* are computed.                                                           *)
(***************************************************************************)
EXTENDS Baskets, FiniteSetTheorems, WellFoundedInduction, TLAPS

Adding == {"check", "notify", "tax", "item", "new item"}

About(r, w) == r[2] \in {product[w], All}

\* Some rule about the profile's country is, or was while the request ran, in force.
ProfileBlocked(w) == \E q \in rules \cup lifted[w] : About(q, w) /\ q[1] = Profile

\* What is true of one request, whatever the others do:
Sound(w) ==
  \* Past establish_basket it has a basket, and while it adds it has a product in hand.
  /\ pc[w] # "idle" => kind[w] \in Kinds
  /\ pc[w] \notin {"idle", "establish", "insert"} => mine[w] \in Baskets
  /\ pc[w] \in Adding => product[w] \in Products
  /\ pc[w] \in Adding \cup {"locate"} => kind[w] = "add"
  \* A rule that has been there all the time is there now.
  /\ since[w] \subseteq rules
  \* The country to be checked is that of such a rule, unless the profile's came
  \* before it.
  /\ pc[w] = "check" => \A r \in since[w] : About(r, w) =>
       /\ r[1] = Profile => memory[w].block = Profile
       /\ r[1] = place[w] =>
            \/ memory[w].block = place[w]
            \/ memory[w].block = Profile /\ ProfileBlocked(w)
  \* BlockedGoNoFurther.
  /\ pc[w] \in {"notify", "tax", "item", "new item"} => \A r \in since[w] : About(r, w) =>
       /\ r[1] # Profile
       /\ r[1] = place[w] => \E q \in lifted[w] : About(q, w) /\ q[1] = Profile

IInv == TypeOK /\ \A w \in Workers : Sound(w)

-----------------------------------------------------------------------------
(* Types.                                                                  *)

LEMMA Locations ==
  ASSUME TypeOK, NEW w \in Workers, NEW flagged
  PROVE  determine_user_location(w, flagged) \in Countries \cup {None}
BY BasketConstants DEF determine_user_location, TypeOK

LEMMA InitInv == Init => IInv
<1> SUFFICES ASSUME Init PROVE IInv
    OBVIOUS
<1>1. TypeOK
  <2>1. << >> \in Seq(Quantities)
    OBVIOUS
  <2>2. items \in [Baskets -> [Products -> Seq(Quantities)]]
    BY <2>1 DEF Init, NoItems
  <2>3. Blank \in Row
    BY DEF Blank, Row
  <2>4. memory \in [Workers -> Row] /\ basket \in [Baskets -> Row \cup {None, Gone}]
    BY <2>3 DEF Init
  <2>5. requests \in 0 .. MaxRequests /\ edits \in 0 .. MaxEdits
    BY BasketConstants DEF Init
  <2>6. /\ rules \subseteq Rules /\ orders \subseteq Order /\ posted \subseteq Products
        /\ codes \in [Baskets -> SUBSET Codes] /\ overlap \in BOOLEAN
    BY DEF Init
  <2>7. /\ kind \in [Workers -> Kinds \cup {None}] /\ pc \in [Workers -> Steps]
        /\ place \in [Workers -> Places \cup {None}] /\ want \in [Workers -> SUBSET Products]
    BY DEF Init, Steps
  <2>8. /\ product \in [Workers -> Products \cup {None}]
        /\ mine \in [Workers -> Baskets \cup {None}]
        /\ since \in [Workers -> SUBSET Rules] /\ lifted \in [Workers -> SUBSET Rules]
    BY DEF Init
  <2> QED
    BY <2>2, <2>4, <2>5, <2>6, <2>7, <2>8 DEF TypeOK
<1>2. \A w \in Workers : Sound(w)
  BY DEF Init, Sound, Adding
<1> QED
  BY <1>1, <1>2 DEF IInv

\* What a request leaves behind when it ends.
LEMMA EndType ==
  ASSUME TypeOK, NEW w \in Workers, End(w)
  PROVE  /\ kind' \in [Workers -> Kinds \cup {None}]
         /\ pc' \in [Workers -> Steps]
         /\ place' \in [Workers -> Places \cup {None}]
         /\ want' \in [Workers -> SUBSET Products]
         /\ product' \in [Workers -> Products \cup {None}]
         /\ mine' \in [Workers -> Baskets \cup {None}]
         /\ memory' \in [Workers -> Row]
         /\ since' \in [Workers -> SUBSET Rules]
         /\ lifted' \in [Workers -> SUBSET Rules]
BY DEF TypeOK, End, Blank, Row, Steps

\* What a request leaves in a basket's row.
LEMMA SaveType ==
  ASSUME TypeOK, NEW w \in Workers, NEW r \in Row, Save(w, r)
  PROVE  basket' \in [Baskets -> Row \cup {None, Gone}]
BY DEF TypeOK, Save

\* What the removal of a row leaves is rows.
LEMMA RemoveAtType ==
  ASSUME NEW S, NEW seq \in Seq(S), NEW i \in DOMAIN seq
  PROVE  RemoveAt(seq, i) \in Seq(S)
<1>1. i \in 1 .. Len(seq) /\ Len(seq) \in Nat
  OBVIOUS
<1>2. SubSeq(seq, 1, i - 1) \in Seq(S) /\ SubSeq(seq, i + 1, Len(seq)) \in Seq(S)
  BY <1>1
<1> QED
  BY <1>2 DEF RemoveAt

LEMMA RemoveAtShorter ==
  ASSUME NEW S, NEW seq \in Seq(S), NEW i \in DOMAIN seq
  PROVE  Len(RemoveAt(seq, i)) <= Len(seq) /\ seq # << >>
<1>1. i \in 1 .. Len(seq) /\ Len(seq) \in Nat
  OBVIOUS
<1>2. /\ SubSeq(seq, 1, i - 1) \in Seq(S) /\ Len(SubSeq(seq, 1, i - 1)) = i - 1
      /\ SubSeq(seq, i + 1, Len(seq)) \in Seq(S)
      /\ Len(SubSeq(seq, i + 1, Len(seq))) = Len(seq) - i
  BY <1>1
<1> QED
  BY <1>1, <1>2 DEF RemoveAt

\* What the basketitems endpoint does with a POST, a PUT or a PATCH: no product but p
\* gets a row.
Puts(b, p) == PostItem(b, p) \/ PutItem(b, p)

LEMMA PutRows ==
  ASSUME TypeOK, NEW b \in Baskets, NEW p \in Products, Puts(b, p)
  PROVE  /\ items' \in [Baskets -> [Products -> Seq(Quantities)]]
         /\ p \in posted' /\ posted' = posted \cup {p}
         /\ \A a \in Baskets, x \in Products \ {p} :
              /\ Len(items'[a][x]) \in Nat /\ Len(items[a][x]) \in Nat
              /\ Len(items'[a][x]) <= Len(items[a][x])
              /\ items[a][x] = << >> => items'[a][x] = << >>
<1>1. ASSUME NEW its \in [Baskets -> [Products -> Seq(Quantities)]], NEW q \in Quantities,
             Put(its, b, p, q),
             \A a \in Baskets, x \in Products :
               /\ Len(its[a][x]) <= Len(items[a][x])
               /\ items[a][x] = << >> => its[a][x] = << >>
      PROVE  /\ items' \in [Baskets -> [Products -> Seq(Quantities)]]
             /\ p \in posted' /\ posted' = posted \cup {p}
             /\ \A a \in Baskets, x \in Products \ {p} :
                  /\ Len(items'[a][x]) \in Nat /\ Len(items[a][x]) \in Nat
                  /\ Len(items'[a][x]) <= Len(items[a][x])
                  /\ items[a][x] = << >> => items'[a][x] = << >>
  <2>1. posted' = posted \cup {p}
    BY <1>1 DEF Put
  <2>2. items' = [its EXCEPT ![b][p] = Append(its[b][p], q)]
    BY <1>1 DEF Put
  <2>3. Append(its[b][p], q) \in Seq(Quantities)
    OBVIOUS
  <2>4. items' \in [Baskets -> [Products -> Seq(Quantities)]]
    BY <2>2, <2>3
  <2>5. \A a \in Baskets, x \in Products \ {p} : items'[a][x] = its[a][x]
    BY <2>2
  <2>6. \A a \in Baskets, x \in Products : Len(items'[a][x]) \in Nat /\ Len(items[a][x]) \in Nat
    BY <2>4 DEF TypeOK
  <2>7. ASSUME NEW a \in Baskets, NEW x \in Products \ {p}
        PROVE  Len(items'[a][x]) <= Len(items[a][x]) /\ (items[a][x] = << >> => items'[a][x] = << >>)
    <3>1. x \in Products /\ items'[a][x] = its[a][x]
      BY <2>5
    <3>2. Len(its[a][x]) <= Len(items[a][x]) /\ (items[a][x] = << >> => its[a][x] = << >>)
      BY <1>1, <3>1
    <3> QED
      BY <3>1, <3>2, Zenon
  <2> HIDE <1>1
  <2> QED
    BY <2>1, <2>4, <2>6, <2>7
<1>2. \A a \in Baskets, x \in Products : Len(items[a][x]) \in Nat
  BY DEF TypeOK
<1>3. CASE \E q \in Quantities : Put(items, b, p, q)
  <2>1. items \in [Baskets -> [Products -> Seq(Quantities)]]
    BY DEF TypeOK
  <2>2. \A a \in Baskets, x \in Products : Len(items[a][x]) <= Len(items[a][x])
    BY <1>2
  <2>3. PICK q \in Quantities : Put(items, b, p, q)
    BY <1>3
  <2> QED
    BY <1>1, <2>1, <2>2, <2>3, Zenon
<1>4. CASE \E q \in Quantities : \E a \in Baskets, x \in Products : \E i \in DOMAIN items[a][x] :
             Put([items EXCEPT ![a][x] = RemoveAt(items[a][x], i)], b, p, q)
  <2>1. PICK q \in Quantities, a \in Baskets, x \in Products :
          \E i \in DOMAIN items[a][x] :
            Put([items EXCEPT ![a][x] = RemoveAt(items[a][x], i)], b, p, q)
    BY <1>4
  <2>2. PICK i \in DOMAIN items[a][x] :
          Put([items EXCEPT ![a][x] = RemoveAt(items[a][x], i)], b, p, q)
    BY <2>1
  <2>3. items[a][x] \in Seq(Quantities)
    BY DEF TypeOK
  <2>4. /\ RemoveAt(items[a][x], i) \in Seq(Quantities)
        /\ Len(RemoveAt(items[a][x], i)) <= Len(items[a][x]) /\ items[a][x] # << >>
    BY <2>3, RemoveAtType, RemoveAtShorter
  <2> DEFINE its == [items EXCEPT ![a][x] = RemoveAt(items[a][x], i)]
  <2>5. its \in [Baskets -> [Products -> Seq(Quantities)]]
    BY <2>4 DEF TypeOK
  <2>6. \A c \in Baskets, y \in Products :
          /\ Len(its[c][y]) <= Len(items[c][y])
          /\ items[c][y] = << >> => its[c][y] = << >>
    BY <1>2, <2>4 DEF TypeOK
  <2>7. Put(its, b, p, q)
    BY <2>2
  <2> HIDE DEF its
  <2> QED
    BY <1>1, <2>5, <2>6, <2>7
<1> QED
  BY <1>3, <1>4 DEF Puts, PostItem, PutItem

LEMMA TypeStep == IInv /\ [Next]_vars => TypeOK'
<1> SUFFICES ASSUME TypeOK, \A w \in Workers : Sound(w), [Next]_vars PROVE TypeOK'
    BY DEF IInv
<1> USE BasketConstants DEF TypeOK
<1>1. CASE UNCHANGED vars
  BY <1>1 DEF vars, rows, request, seen
<1>2. ASSUME NEW w \in Workers, Begin(w) PROVE TypeOK'
  <2>1. pc' \in [Workers -> Steps] /\ requests' \in 0 .. MaxRequests
    <3>1. pc' = [pc EXCEPT ![w] = "establish"] /\ "establish" \in Steps
      BY <1>2 DEF Begin, GoTo, Steps
    <3>2. requests' = requests + 1 /\ requests < MaxRequests
      BY <1>2 DEF Begin
    <3> QED
      BY <3>1, <3>2
  <2>2. kind' \in [Workers -> Kinds \cup {None}]
    BY <1>2 DEF Begin
  <2>3. overlap' \in BOOLEAN
    <3>1. overlap' = (overlap \/ \E v \in Workers : pc[v] # "idle")
      BY <1>2 DEF Begin
    <3> HIDE DEF TypeOK
    <3> QED
      BY <3>1, Zenon DEF TypeOK
  <2>4. /\ want' \in [Workers -> SUBSET Products]
        /\ place' \in [Workers -> Places \cup {None}]
        /\ since' \in [Workers -> SUBSET Rules]
    <3>1. CASE UNCHANGED <<want, place, since>>
      BY <3>1
    <3>2. CASE ~ UNCHANGED <<want, place, since>>
      <4> PICK ps \in SUBSET Products \ {{}}, c \in Places :
             /\ want' = [want EXCEPT ![w] = ps]
             /\ place' = [place EXCEPT ![w] = c]
             /\ since' = [since EXCEPT ![w] = rules]
        BY <1>2, <3>2 DEF Begin
      <4> QED
        OBVIOUS
    <3> QED
      BY <3>1, <3>2
  <2> QED
    BY <1>2, <2>1, <2>2, <2>3, <2>4 DEF Begin, rows
<1>3. ASSUME NEW w \in Workers, Establish(w) PROVE TypeOK'
  <2>1. CASE Find(w)
    <3>1. FirstStep(kind[w]) \in Steps
      BY <2>1 DEF Find, Sound, FirstStep, Kinds, Steps
    <3> QED
      BY <2>1, <3>1 DEF Find, Rowed, GoTo, rows, seen
  <2>2. CASE FindNone(w)
    BY <2>2 DEF FindNone, GoTo, Steps, rows, seen
  <2>3. CASE FindMany(w)
    BY <2>3, EndType DEF FindMany, rows
  <2>4. CASE InsertBasket(w)
    <3>1. Blank \in Row
      BY DEF Blank, Row
    <3>2. basket' \in [Baskets -> Row \cup {None, Gone}] /\ mine' \in [Workers -> Baskets \cup {None}]
      BY <2>4, <3>1 DEF InsertBasket
    <3> QED
      BY <2>4, <3>2 DEF InsertBasket, GoTo, Steps, seen
  <2>5. CASE SaveNew(w)
    <3>1. FirstStep(kind[w]) \in Steps
      BY <2>5 DEF SaveNew, Sound, FirstStep, Kinds, Steps
    <3> QED
      BY <2>5, <3>1 DEF SaveNew, Save, GoTo, seen
  <2> QED
    BY <1>3, <2>1, <2>2, <2>3, <2>4, <2>5 DEF Establish
<1>4. ASSUME NEW w \in Workers, Locate(w) PROVE TypeOK'
  <2> PICK p \in want[w] :
         LET row == [memory[w] EXCEPT !.block = determine_user_location(w, Flagged(p)),
                                      !.tax = determine_user_location(w, DOMAIN TaxRate)]
         IN  /\ product' = [product EXCEPT ![w] = p]
             /\ memory' = [memory EXCEPT ![w] = row]
             /\ Save(w, row)
    BY <1>4 DEF Locate
  <2> DEFINE row == [memory[w] EXCEPT !.block = determine_user_location(w, Flagged(p)),
                                      !.tax = determine_user_location(w, DOMAIN TaxRate)]
  <2>1. row \in Row /\ p \in Products
    BY Locations DEF Row
  <2> HIDE DEF row
  <2>2. /\ product' = [product EXCEPT ![w] = p]
        /\ memory' = [memory EXCEPT ![w] = row]
        /\ Save(w, row)
    BY DEF row
  <2>3. /\ basket' \in [Baskets -> Row \cup {None, Gone}]
        /\ product' \in [Workers -> Products \cup {None}]
        /\ memory' \in [Workers -> Row]
    BY <2>1, <2>2, SaveType
  <2> QED
    BY <1>4, <2>3 DEF Locate, GoTo, Steps, seen
<1>5. ASSUME NEW w \in Workers, CheckBlocked(w) PROVE TypeOK'
  BY <1>5, EndType DEF CheckBlocked, rows
<1>6. ASSUME NEW w \in Workers, CheckPasses(w) \/ Notify(w) PROVE TypeOK'
  BY <1>6 DEF CheckPasses, Notify, GoTo, Steps, rows, seen
<1>7. ASSUME NEW w \in Workers, CheckTaxable(w) PROVE TypeOK'
  <2> DEFINE row == [memory[w] EXCEPT !.rate = memory[w].block]
  <2>1. row \in Row
    BY DEF Row
  <2> HIDE DEF row
  <2>2. \/ Save(w, row) /\ memory' = [memory EXCEPT ![w] = row]
        \/ UNCHANGED <<basket, memory>>
    BY <1>7 DEF CheckTaxable, row
  <2>3. basket' \in [Baskets -> Row \cup {None, Gone}] /\ memory' \in [Workers -> Row]
    BY <2>1, <2>2, SaveType
  <2> QED
    BY <1>7, <2>3 DEF CheckTaxable, GoTo, Steps, seen
<1>8. ASSUME NEW w \in Workers, AddItem(w) PROVE TypeOK'
  <2>1. CASE UpdateItem(w)
    <3>1. mine[w] \in Baskets /\ product[w] \in Products
      BY <2>1 DEF UpdateItem, Sound, Adding
    <3> PICK q \in Quantities : items' = [items EXCEPT ![mine[w]][product[w]] = <<q>>]
      BY <2>1 DEF UpdateItem
    <3>2. <<q>> \in Seq(Quantities)
      OBVIOUS
    <3> QED
      BY <2>1, <3>1, <3>2 DEF UpdateItem, NextProduct, GoTo, Steps, seen
  <2>2. CASE MissItem(w)
    BY <2>2 DEF MissItem, GoTo, Steps, rows, seen
  <2>3. CASE ManyItems(w)
    BY <2>3, EndType DEF ManyItems, rows
  <2>4. CASE InsertItem(w)
    <3>1. mine[w] \in Baskets /\ product[w] \in Products
      BY <2>4 DEF InsertItem, Sound, Adding
    <3> PICK q \in Quantities :
           items' = [items EXCEPT ![mine[w]][product[w]] = Append(items[mine[w]][product[w]], q)]
      BY <2>4 DEF InsertItem
    <3>2. Append(items[mine[w]][product[w]], q) \in Seq(Quantities)
      BY <3>1
    <3> QED
      BY <2>4, <3>1, <3>2 DEF InsertItem, NextProduct, GoTo, Steps, seen
  <2>5. CASE ApplyCodes(w)
    <3>1. memory[w] \in Row
      OBVIOUS
    <3>2. \/ UNCHANGED <<basket, codes>>
          \/ /\ \E cs \in SUBSET Codes : codes' = [codes EXCEPT ![mine[w]] = codes[mine[w]] \cup cs]
             /\ mine[w] \in Baskets /\ Save(w, memory[w])
      BY <2>5 DEF ApplyCodes, Rowed
    <3>3. basket' \in [Baskets -> Row \cup {None, Gone}] /\ codes' \in [Baskets -> SUBSET Codes]
      BY <3>1, <3>2, SaveType
    <3> QED
      BY <2>5, <3>3, EndType DEF ApplyCodes
  <2> QED
    BY <1>8, <2>1, <2>2, <2>3, <2>4, <2>5 DEF AddItem
<1>9. ASSUME NEW w \in Workers, Answer(w) \/ Crash(w) PROVE TypeOK'
  BY <1>9, EndType DEF Answer, Crash, rows
<1>10. ASSUME NEW b \in Baskets, DeleteBasket(b)
       PROVE  /\ basket' \in [Baskets -> Row \cup {None, Gone}]
              /\ items' \in [Baskets -> [Products -> Seq(Quantities)]]
              /\ codes' \in [Baskets -> SUBSET Codes]
  <2>1. NoItems \in [Products -> Seq(Quantities)]
    BY DEF NoItems
  <2> QED
    BY <1>10, <2>1 DEF DeleteBasket
<1>11. ASSUME NEW w \in Workers, Clear(w) PROVE TypeOK'
  <2>1. mine[w] \in Baskets
    BY <1>11 DEF Clear, Sound
  <2> QED
    BY <1>10, <1>11, <2>1, EndType DEF Clear
<1>12. ASSUME NEW w \in Workers, CheckOut(w) PROVE TypeOK'
  <2>1. mine[w] \in Baskets
    BY <1>12 DEF CheckOut, Sound
  <2>2. [lines |-> ProductsIn(mine[w]), row |-> memory[w], codes |-> codes[mine[w]]] \in Order
    BY <2>1 DEF ProductsIn, Order
  <2>3. orders' \subseteq Order
    BY <1>12, <2>2 DEF CheckOut
  <2> QED
    BY <1>12, <2>3, EndType DEF CheckOut, rows
<1>13. ASSUME NEW b \in Baskets, Paid(b) PROVE TypeOK'
  BY <1>10, <1>13 DEF Paid, request, seen
<1>14. ASSUME NEW b \in Baskets, NEW p \in Products, Puts(b, p) PROVE TypeOK'
  <2>1. items' \in [Baskets -> [Products -> Seq(Quantities)]] /\ posted' \subseteq Products
    BY <1>14, PutRows
  <2> QED
    BY <1>14, <2>1 DEF Puts, PostItem, PutItem, Edit, request, seen
<1>15. ASSUME NEW b \in Baskets, NEW p \in Products, RemoveItem(b, p) PROVE TypeOK'
  <2> PICK i \in DOMAIN items[b][p] : items' = [items EXCEPT ![b][p] = RemoveAt(items[b][p], i)]
    BY <1>15 DEF RemoveItem, DeleteItem
  <2>1. RemoveAt(items[b][p], i) \in Seq(Quantities)
    BY RemoveAtType
  <2> QED
    BY <1>15, <2>1 DEF RemoveItem, Edit, request, seen
<1>16. ASSUME NEW r \in Rules, EditRules(r) PROVE TypeOK'
  BY <1>16 DEF EditRules, Edit, rows
<1> QED
  BY <1>1, <1>2, <1>3, <1>4, <1>5, <1>6, <1>7, <1>8, <1>9, <1>11, <1>12, <1>13, <1>14, <1>15,
     <1>16 DEF Next, basket_add, Puts

-----------------------------------------------------------------------------
(* The invariant.                                                          *)

\* Requests do not see each other, and what is not theirs does not matter.
LEMMA Others ==
  ASSUME NEW w \in Workers, Sound(w), rules' = rules,
         /\ pc'[w] = pc[w] /\ kind'[w] = kind[w] /\ mine'[w] = mine[w]
         /\ product'[w] = product[w] /\ place'[w] = place[w] /\ memory'[w] = memory[w]
         /\ since'[w] = since[w] /\ lifted'[w] = lifted[w]
  PROVE  Sound(w)'
BY DEF Sound, About, ProfileBlocked

\* A request that has ended has nothing to be right about.
LEMMA EndSound ==
  ASSUME TypeOK, NEW w \in Workers, End(w), rules' = rules
  PROVE  Sound(w)'
BY DEF TypeOK, End, Sound, Adding

\* A request that is neither before the check nor behind it.
LEMMA ElsewhereSound ==
  ASSUME NEW w \in Workers, Sound(w), rules' = rules, since'[w] = since[w],
         kind'[w] \in Kinds, mine'[w] \in Baskets,
         pc'[w] \notin Adding, pc'[w] = "locate" => kind'[w] = "add"
  PROVE  Sound(w)'
BY DEF Sound, Adding

\* A request between the check and the item.
LEMMA BehindSound ==
  ASSUME NEW w \in Workers, Sound(w), rules' = rules,
         /\ kind'[w] = kind[w] /\ mine'[w] = mine[w] /\ product'[w] = product[w]
         /\ place'[w] = place[w] /\ since'[w] = since[w] /\ lifted'[w] = lifted[w],
         pc[w] \in {"notify", "tax", "item"}, pc'[w] \in {"tax", "item", "new item"}
  PROVE  Sound(w)'
BY DEF Sound, About, Adding

\* Nobody else's request is touched.
Only(w) ==
  /\ rules' = rules
  /\ \A v \in Workers : v # w =>
       /\ pc'[v] = pc[v] /\ kind'[v] = kind[v] /\ mine'[v] = mine[v]
       /\ product'[v] = product[v] /\ place'[v] = place[v] /\ memory'[v] = memory[v]
       /\ since'[v] = since[v] /\ lifted'[v] = lifted[v]

LEMMA EndOnly ==
  ASSUME TypeOK, NEW w \in Workers, End(w), rules' = rules
  PROVE  Only(w) /\ Sound(w)'
<1>1. Only(w)
  BY DEF TypeOK, End, Only
<1> QED
  BY <1>1, EndSound

\* Locate takes the profile's country if that is blocked, and else the address's.
LEMMA LocateSound ==
  ASSUME TypeOK, NEW w \in Workers, Sound(w), Locate(w)
  PROVE  Only(w) /\ Sound(w)'
<1> PICK p \in want[w] :
       /\ product' = [product EXCEPT ![w] = p]
       /\ memory' = [memory EXCEPT
            ![w] = [memory[w] EXCEPT !.block = determine_user_location(w, Flagged(p)),
                                     !.tax = determine_user_location(w, DOMAIN TaxRate)]]
    BY DEF Locate
<1>1. /\ p \in Products /\ product'[w] = p
      /\ memory'[w].block = determine_user_location(w, Flagged(p))
      /\ pc[w] = "locate" /\ pc'[w] = "check" /\ place[w] \in Countries \cup {None}
      /\ UNCHANGED <<rules, kind, place, mine, since, lifted>>
  BY BasketConstants DEF TypeOK, Row, Locate, GoTo, seen
<1>2. Only(w)
  BY <1>1 DEF TypeOK, Only, Locate, GoTo
<1>3. ASSUME NEW r \in since'[w], About(r, w)'
      PROVE  /\ r[1] = Profile => memory'[w].block = Profile
             /\ r[1] = place'[w] =>
                  \/ memory'[w].block = place'[w]
                  \/ memory'[w].block = Profile /\ ProfileBlocked(w)'
  <2>1. r \in rules /\ r[2] \in {p, All} /\ r[1] \in Flagged(p)
    BY <1>1, <1>3 DEF Sound, About, Flagged
  <2>2. r[1] # None
    BY <1>1, <1>3, BasketConstants, BasketNone, PricingNone DEF TypeOK
  <2>3. CASE Profile \in Flagged(p)
    <3>1. memory'[w].block = Profile
      BY <1>1, <2>3 DEF determine_user_location
    <3>2. ProfileBlocked(w)'
      BY <1>1, <2>3 DEF ProfileBlocked, About, Flagged
    <3> QED
      BY <3>1, <3>2
  <2>4. CASE Profile \notin Flagged(p)
    BY <1>1, <2>1, <2>2, <2>4 DEF determine_user_location
  <2> QED
    BY <2>3, <2>4
<1> QED
  BY <1>1, <1>2, <1>3 DEF Sound, Adding

\* The check lets only countries pass that are not blocked now.
LEMMA CheckSound ==
  ASSUME TypeOK, NEW w \in Workers, Sound(w), CheckPasses(w)
  PROVE  Only(w) /\ Sound(w)'
<1>1. /\ pc[w] = "check" /\ pc'[w] = "notify" /\ ~ BlockedIn(memory[w].block, product[w])
      /\ UNCHANGED <<rules, kind, place, product, mine, memory, since, lifted>>
  BY DEF TypeOK, CheckPasses, GoTo, seen
<1>2. Only(w)
  BY <1>1 DEF TypeOK, Only, CheckPasses, GoTo
<1>3. \A q \in rules : About(q, w) => q[1] # memory[w].block
  <2> SUFFICES ASSUME NEW q \in rules, About(q, w) PROVE q[1] # memory[w].block
      OBVIOUS
  <2>1. q = <<q[1], q[2]>>
    BY BasketConstants DEF TypeOK
  <2> QED
    BY <1>1, <2>1 DEF BlockedIn, About
<1>4. \A r \in since[w] : About(r, w) =>
        /\ r[1] # Profile
        /\ r[1] = place[w] => \E q \in lifted[w] : About(q, w) /\ q[1] = Profile
  BY <1>1, <1>3 DEF Sound, ProfileBlocked
<1> QED
  BY <1>1, <1>2, <1>4 DEF Sound, Adding, About

\* Blocks are made and ended.
LEMMA EditSound ==
  ASSUME TypeOK, NEW r \in Rules, EditRules(r), NEW w \in Workers, Sound(w)
  PROVE  Sound(w)'
<1>1. /\ rules' = (rules \ {r}) \cup ({r} \ rules)
      /\ since'[w] = since[w] \ {r}
      /\ lifted'[w] = IF r \in rules /\ kind[w] = "add" THEN lifted[w] \cup {r} ELSE lifted[w]
      /\ UNCHANGED <<kind, pc, place, product, mine, memory>>
  BY DEF EditRules
<1>2. pc[w] = "check" /\ ProfileBlocked(w) => ProfileBlocked(w)'
  BY <1>1 DEF Sound, ProfileBlocked, About, Adding
<1> QED
  BY <1>1, <1>2 DEF Sound, About

LEMMA StepSound ==
  ASSUME TypeOK, \A w \in Workers : Sound(w), NEW w \in Workers,
         \/ Begin(w) \/ Establish(w) \/ basket_add(w) \/ AddItem(w)
         \/ Answer(w) \/ Clear(w) \/ CheckOut(w) \/ Crash(w)
  PROVE  Only(w) /\ Sound(w)'
<1>1. CASE Begin(w)
  <2>1. /\ kind'[w] \in Kinds /\ pc'[w] = "establish" /\ since'[w] \in {since[w], rules}
        /\ rules' = rules
    BY <1>1 DEF TypeOK, Begin, GoTo
  <2>2. Sound(w)'
    BY <2>1 DEF Sound, Adding
  <2>3. /\ pc' = [pc EXCEPT ![w] = "establish"]
        /\ \E k \in Kinds : kind' = [kind EXCEPT ![w] = k]
        /\ UNCHANGED <<rules, mine, product, memory, lifted>>
    BY <1>1 DEF Begin, GoTo
  <2>4. \A v \in Workers : v # w => place'[v] = place[v] /\ since'[v] = since[v]
    BY <1>1 DEF TypeOK, Begin
  <2> QED
    BY <2>2, <2>3, <2>4 DEF TypeOK, Only
<1>2. CASE Establish(w)
  <2>1. CASE Find(w) \/ SaveNew(w)
    <3>1. /\ pc' = [pc EXCEPT ![w] = FirstStep(kind[w])] /\ kind[w] \in Kinds
          /\ mine'[w] \in Baskets
          /\ UNCHANGED <<rules, kind, place, product, since, lifted>>
      BY <2>1 DEF TypeOK, Find, SaveNew, Rowed, GoTo, seen, Sound
    <3>2. Sound(w)'
      BY <3>1, ElsewhereSound DEF TypeOK, FirstStep, Kinds, Adding
    <3> QED
      BY <2>1, <3>1, <3>2 DEF TypeOK, Only, Find, SaveNew
  <2>2. CASE FindNone(w)
    BY <2>2 DEF TypeOK, Only, Sound, Adding, FindNone, GoTo, seen
  <2>3. CASE FindMany(w)
    BY <2>3, EndOnly DEF FindMany
  <2>4. CASE InsertBasket(w)
    <3>1. /\ pc' = [pc EXCEPT ![w] = "save"] /\ kind[w] \in Kinds
          /\ mine'[w] \in Baskets /\ \A v \in Workers : v # w => mine'[v] = mine[v]
          /\ UNCHANGED <<rules, kind, place, product, memory, since, lifted>>
      BY <2>4 DEF TypeOK, InsertBasket, GoTo, seen, Sound
    <3>2. Sound(w)'
      BY <3>1, ElsewhereSound DEF TypeOK, Adding
    <3> QED
      BY <3>1, <3>2 DEF TypeOK, Only
  <2> QED
    BY <1>2, <2>1, <2>2, <2>3, <2>4 DEF Establish
<1>3. CASE basket_add(w)
  <2>1. CASE Notify(w) \/ CheckTaxable(w)
    <3>1. /\ \/ pc[w] = "notify" /\ pc' = [pc EXCEPT ![w] = "tax"]
             \/ pc[w] = "tax" /\ pc' = [pc EXCEPT ![w] = "item"]
          /\ \A v \in Workers : v # w => memory'[v] = memory[v]
          /\ UNCHANGED <<rules, kind, place, product, mine, since, lifted>>
      BY <2>1 DEF TypeOK, Notify, CheckTaxable, GoTo, seen
    <3>2. Sound(w)'
      BY <3>1, BehindSound DEF TypeOK
    <3> QED
      BY <3>1, <3>2 DEF TypeOK, Only
  <2> QED
    BY <1>3, <2>1, LocateSound, CheckSound, EndOnly DEF basket_add, CheckBlocked
<1>4. CASE AddItem(w)
  <2>1. CASE UpdateItem(w) \/ InsertItem(w)
    <3>1. /\ \/ pc' = [pc EXCEPT ![w] = "codes"]
             \/ pc' = [pc EXCEPT ![w] = "locate"]
          /\ kind[w] = "add" /\ kind[w] \in Kinds /\ mine[w] \in Baskets
          /\ UNCHANGED <<rules, kind, place, product, mine, memory, since, lifted>>
      BY <2>1 DEF UpdateItem, InsertItem, NextProduct, GoTo, seen, Sound, Adding
    <3>2. Sound(w)'
      BY <3>1, ElsewhereSound DEF TypeOK, Adding
    <3> QED
      BY <3>1, <3>2 DEF TypeOK, Only
  <2>2. CASE MissItem(w)
    <3>1. /\ pc[w] = "item" /\ pc' = [pc EXCEPT ![w] = "new item"]
          /\ UNCHANGED <<rules, kind, place, product, mine, memory, since, lifted>>
      BY <2>2 DEF MissItem, GoTo, seen
    <3>2. Sound(w)'
      BY <3>1, BehindSound DEF TypeOK
    <3> QED
      BY <3>1, <3>2 DEF TypeOK, Only
  <2> QED
    BY <1>4, <2>1, <2>2, EndOnly DEF AddItem, ManyItems, ApplyCodes
<1> QED
  BY <1>1, <1>2, <1>3, <1>4, EndOnly DEF Answer, Clear, CheckOut, Crash

LEMMA InvStep == IInv /\ [Next]_vars => IInv'
<1> SUFFICES ASSUME IInv, [Next]_vars PROVE IInv'
    OBVIOUS
<1>1. TypeOK /\ \A w \in Workers : Sound(w)
  BY DEF IInv
<1>2. TypeOK'
  BY TypeStep
<1>3. \A w \in Workers : Sound(w)'
  <2>1. ASSUME NEW v \in Workers, Only(v) /\ Sound(v)', NEW w \in Workers PROVE Sound(w)'
    <3>1. CASE w = v
      BY <2>1, <3>1
    <3>2. CASE w # v
      BY <1>1, <2>1, <3>2, Others DEF Only
    <3> QED
      BY <3>1, <3>2
  <2>2. ASSUME NEW v \in Workers,
               \/ Begin(v) \/ Establish(v) \/ basket_add(v) \/ AddItem(v)
               \/ Answer(v) \/ Clear(v) \/ CheckOut(v) \/ Crash(v),
               NEW w \in Workers
        PROVE  Sound(w)'
    <3>1. Only(v) /\ Sound(v)'
      BY <1>1, <2>2, StepSound
    <3> QED
      BY <2>1, <3>1
  <2>3. ASSUME UNCHANGED <<request, rules>>, NEW w \in Workers PROVE Sound(w)'
    BY <1>1, <2>3, Others DEF request, seen
  <2>4. ASSUME NEW r \in Rules, EditRules(r), NEW w \in Workers PROVE Sound(w)'
    BY <1>1, <2>4, EditSound
  <2>5. CASE \/ UNCHANGED vars
             \/ \E b \in Baskets : Paid(b) \/ \E p \in Products : Puts(b, p) \/ RemoveItem(b, p)
    <3>1. UNCHANGED <<request, rules>>
      BY <2>5 DEF vars, Paid, Puts, PostItem, PutItem, RemoveItem
    <3> QED
      BY <2>3, <3>1
  <2> QED
    BY <2>2, <2>4, <2>5 DEF Next, Puts
<1> QED
  BY <1>2, <1>3 DEF IInv

-----------------------------------------------------------------------------
(* Requests one at a time.                                                 *)

Alone(w) == \A v \in Workers \ {w} : pc[v] = "idle"

\* One basket, and one row for a product.
Tidy ==
  /\ \A a, b \in Rowed : a = b
  /\ \A b \in Baskets, p \in Products \ posted : Len(items[b][p]) <= 1

\* A request that is the only one finds what it has seen as it was: no basket when
\* it inserts one, its own when it writes to it, no row when it inserts an item.
InOrder(w) ==
  /\ pc[w] # "idle" => Alone(w)
  /\ pc[w] = "insert" => Rowed = {}
  /\ pc[w] \notin {"idle", "establish", "insert"} => Rowed \subseteq {mine[w]}
  /\ pc[w] = "new item" => product[w] \in posted \/ items[mine[w]][product[w]] = << >>

OneByOne == ~ overlap => Tidy /\ \A w \in Workers : InOrder(w)

Serves(w) ==
  \/ Begin(w) \/ Establish(w) \/ basket_add(w) \/ AddItem(w)
  \/ Answer(w) \/ Clear(w) \/ CheckOut(w) \/ Crash(w)

\* The only request stays the only one while it runs.
LEMMA StaysAlone ==
  ASSUME TypeOK, \A v \in Workers : Sound(v), OneByOne, ~ overlap',
         NEW w \in Workers, Serves(w)
  PROVE  /\ ~ overlap /\ Alone(w)
         /\ \A v \in Workers \ {w} : pc'[v] = "idle"
<1>1. ~ overlap /\ Alone(w)
  <2>1. CASE Begin(w)
    BY <2>1 DEF Begin, Alone
  <2>2. CASE ~ Begin(w)
    <3>1. pc[w] # "idle"
      BY <2>2 DEF Serves, Establish, basket_add, AddItem, Find, FindNone, FindMany,
         InsertBasket, SaveNew, Locate, CheckBlocked, CheckPasses, Notify, CheckTaxable,
         UpdateItem, MissItem, ManyItems, InsertItem, ApplyCodes, Answer, Clear, CheckOut, Crash
    <3>2. overlap' = overlap
      BY <2>2 DEF Serves, Establish, basket_add, AddItem, Find, FindNone, FindMany,
         InsertBasket, SaveNew, Locate, CheckBlocked, CheckPasses, Notify, CheckTaxable,
         UpdateItem, MissItem, ManyItems, InsertItem, ApplyCodes, Answer, Clear, CheckOut, Crash
    <3> QED
      BY <3>1, <3>2 DEF OneByOne, InOrder
  <2> QED
    BY <2>1, <2>2
<1>2. Only(w)
  BY StepSound DEF Serves
<1> QED
  BY <1>1, <1>2 DEF Only, Alone

\* What is left to show of such a step.
Kept(w) ==
  /\ Tidy'
  /\ pc'[w] = "insert" => Rowed' = {}
  /\ pc'[w] \notin {"idle", "establish", "insert"} => Rowed' \subseteq {mine'[w]}
  /\ pc'[w] = "new item" => product'[w] \in posted' \/ items'[mine'[w]][product'[w]] = << >>

\* A request that writes its basket leaves that as the only one.
LEMMA SaveKeeps ==
  ASSUME TypeOK, NEW w \in Workers, mine[w] \in Baskets, Rowed \subseteq {mine[w]},
         NEW row, Save(w, row)
  PROVE  Rowed' \subseteq {mine[w]}
BY DEF TypeOK, Save, Rowed

LEMMA EstablishKeeps ==
  ASSUME TypeOK, NEW w \in Workers, Sound(w), Tidy, InOrder(w), Establish(w)
  PROVE  Kept(w)
<1>1. UNCHANGED <<items, posted>>
  BY DEF Establish, Find, FindNone, FindMany, InsertBasket, SaveNew, rows
<1>2. FirstStep(kind[w]) \in {"locate", "answer", "delete", "order"}
      \/ pc[w] \notin {"establish", "save"} \/ kind[w] \notin Kinds
  BY DEF FirstStep, Kinds
<1>3. CASE Find(w)
  <2>1. Rowed = {mine'[w]} /\ Rowed' = Rowed /\ pc'[w] = FirstStep(kind[w]) /\ kind[w] \in Kinds
    BY <1>3 DEF TypeOK, Find, rows, GoTo, Rowed, Sound
  <2> QED
    BY <1>1, <2>1 DEF Kept, Tidy, FirstStep, Kinds
<1>4. CASE FindNone(w)
  BY <1>1, <1>4 DEF TypeOK, FindNone, rows, GoTo, Rowed, Kept, Tidy
<1>5. CASE FindMany(w)
  BY <1>1, <1>5 DEF TypeOK, FindMany, rows, End, Rowed, Kept, Tidy
<1>6. CASE InsertBasket(w)
  <2>1. /\ pc[w] = "insert" /\ pc'[w] = "save"
        /\ \E b \in Baskets : /\ basket' = [basket EXCEPT ![b] = Blank]
                              /\ mine' = [mine EXCEPT ![w] = b]
    BY <1>6 DEF TypeOK, InsertBasket, GoTo
  <2>2. Rowed' \subseteq {mine'[w]}
    BY <2>1 DEF TypeOK, Rowed, InOrder
  <2> QED
    BY <1>1, <2>1, <2>2 DEF Kept, Tidy
<1>7. CASE SaveNew(w)
  <2>1. /\ pc[w] = "save" /\ pc'[w] = FirstStep(kind[w]) /\ kind[w] \in Kinds
        /\ mine[w] \in Baskets /\ mine'[w] = mine[w]
    BY <1>7 DEF TypeOK, SaveNew, GoTo, Sound
  <2>2. Rowed' \subseteq {mine[w]}
    BY <1>7, <2>1, SaveKeeps DEF SaveNew, InOrder
  <2> QED
    BY <1>1, <2>1, <2>2 DEF Kept, Tidy, FirstStep, Kinds
<1> QED
  BY <1>3, <1>4, <1>5, <1>6, <1>7 DEF Establish

LEMMA basket_addKeeps ==
  ASSUME TypeOK, NEW w \in Workers, Sound(w), Tidy, InOrder(w), basket_add(w)
  PROVE  Kept(w)
<1>1. /\ UNCHANGED <<items, posted>> /\ mine[w] \in Baskets
      /\ Rowed \subseteq {mine[w]}
      /\ pc'[w] \in {"idle", "check", "notify", "tax", "item"}
  BY DEF TypeOK, basket_add, Locate, CheckBlocked, CheckPasses, Notify, CheckTaxable, GoTo, End,
     rows, Sound, InOrder
<1>2. mine'[w] = mine[w] \/ pc'[w] = "idle"
  BY DEF TypeOK, basket_add, Locate, CheckBlocked, CheckPasses, Notify, CheckTaxable, GoTo, End
<1>3. Rowed' \subseteq {mine[w]}
  <2>1. CASE UNCHANGED basket
    BY <1>1, <2>1 DEF Rowed
  <2>2. CASE \E row : Save(w, row)
    BY <1>1, <2>2, SaveKeeps
  <2> QED
    BY <2>1, <2>2 DEF basket_add, Locate, CheckBlocked, CheckPasses, Notify, CheckTaxable, rows
<1> QED
  BY <1>1, <1>2, <1>3 DEF Kept, Tidy

LEMMA AddItemKeeps ==
  ASSUME TypeOK, NEW w \in Workers, Sound(w), Tidy, InOrder(w), AddItem(w)
  PROVE  Kept(w)
<1>1. mine[w] \in Baskets /\ Rowed \subseteq {mine[w]} /\ posted' = posted
  BY DEF AddItem, UpdateItem, MissItem, ManyItems, InsertItem, ApplyCodes, Sound, InOrder
<1>2. CASE UpdateItem(w) \/ InsertItem(w)
  <2>1. /\ pc'[w] \in {"codes", "locate"} /\ mine' = mine /\ basket' = basket
        /\ product[w] \in Products
    BY <1>2 DEF TypeOK, UpdateItem, InsertItem, NextProduct, GoTo, Sound, Adding
  <2>2. ASSUME NEW b \in Baskets, NEW p \in Products \ posted
        PROVE  Len(items'[b][p]) <= 1
    <3>1. PICK row :
            /\ items' = [items EXCEPT ![mine[w]][product[w]] = row]
            /\ \E q \in Quantities :
                 \/ row = <<q>>
                 \/ pc[w] = "new item" /\ row = Append(items[mine[w]][product[w]], q)
      BY <1>2 DEF UpdateItem, InsertItem
    <3>2. CASE b = mine[w] /\ p = product[w]
      <4>1. items'[b][p] = row
        BY <1>1, <2>1, <3>1, <3>2 DEF TypeOK
      <4>2. pc[w] = "new item" => items[mine[w]][product[w]] = << >>
        BY <2>2, <3>2 DEF InOrder
      <4>3. \A q : Len(<<q>>) = 1 /\ Append(<< >>, q) = <<q>>
        OBVIOUS
      <4>4. Len(row) = 1
        BY <3>1, <4>2, <4>3
      <4> QED
        BY <4>1, <4>4
    <3>3. CASE ~ (b = mine[w] /\ p = product[w])
      <4>1. items'[b][p] = items[b][p]
        BY <1>1, <2>1, <2>2, <3>1, <3>3 DEF TypeOK
      <4> QED
        BY <2>2, <4>1 DEF Tidy
    <3> QED
      BY <3>2, <3>3
  <2> QED
    BY <1>1, <2>1, <2>2 DEF Kept, Tidy, Rowed
<1>3. CASE MissItem(w)
  BY <1>1, <1>3 DEF TypeOK, MissItem, ItemRows, GoTo, rows, Kept, Tidy, Rowed
<1>4. CASE ManyItems(w)
  BY <1>1, <1>4 DEF TypeOK, ManyItems, End, rows, Kept, Tidy, Rowed
<1>5. CASE ApplyCodes(w)
  <2>1. pc'[w] = "idle" /\ items' = items
    BY <1>5 DEF TypeOK, ApplyCodes, End
  <2>2. Rowed' \subseteq {mine[w]}
    <3>1. basket' = basket \/ Save(w, memory[w])
      BY <1>5 DEF ApplyCodes
    <3>2. CASE basket' = basket
      BY <1>1, <3>2 DEF Rowed
    <3> QED
      BY <1>1, <3>1, <3>2, SaveKeeps
  <2> QED
    BY <1>1, <2>1, <2>2 DEF Kept, Tidy
<1> QED
  BY <1>2, <1>3, <1>4, <1>5 DEF AddItem

\* A basket goes with its items.
LEMMA DeleteTidy ==
  ASSUME TypeOK, Tidy, NEW b \in Baskets, DeleteBasket(b), posted' = posted
  PROVE  Tidy' /\ Rowed' \subseteq Rowed
<1>1. Rowed' \subseteq Rowed
  BY BasketNone DEF TypeOK, DeleteBasket, Rowed
<1>2. \A a \in Baskets, p \in Products \ posted' : Len(items'[a][p]) <= 1
  <2>1. Len(<< >>) = 0
    OBVIOUS
  <2> QED
    BY <2>1 DEF TypeOK, Tidy, DeleteBasket, NoItems
<1> QED
  BY <1>1, <1>2 DEF Tidy

LEMMA ServesKeeps ==
  ASSUME TypeOK, NEW w \in Workers, Sound(w), Tidy, InOrder(w), Serves(w)
  PROVE  Kept(w)
<1>1. CASE Begin(w)
  BY <1>1 DEF TypeOK, Begin, GoTo, rows, Kept, Tidy, Rowed
<1>2. CASE Clear(w)
  <2>1. mine[w] \in Baskets /\ pc'[w] = "idle"
    BY <1>2 DEF TypeOK, Clear, End, Sound
  <2> QED
    BY <1>2, <2>1, DeleteTidy DEF Clear, Kept
<1>3. CASE Answer(w) \/ CheckOut(w) \/ Crash(w)
  BY <1>3 DEF TypeOK, Answer, CheckOut, Crash, End, rows, Kept, Tidy, Rowed
<1> QED
  BY <1>1, <1>2, <1>3, EstablishKeeps, basket_addKeeps, AddItemKeeps DEF Serves

\* What customers and administrators do without such a request.
LEMMA OutsideKeeps ==
  ASSUME TypeOK, \A w \in Workers : Sound(w), OneByOne,
         \/ UNCHANGED vars
         \/ \E b \in Baskets : Paid(b) \/ \E p \in Products : Puts(b, p) \/ RemoveItem(b, p)
         \/ \E r \in Rules : EditRules(r)
  PROVE  OneByOne'
<1> SUFFICES ASSUME ~ overlap' PROVE OneByOne'
    BY DEF OneByOne
<1>1. /\ UNCHANGED <<pc, mine, product, overlap>>
      /\ posted \subseteq posted'
  <2>1. CASE \E b \in Baskets, p \in Products : Puts(b, p)
    <3> PICK b \in Baskets, p \in Products : Puts(b, p)
      BY <2>1
    <3>1. posted \subseteq posted'
      BY PutRows
    <3> QED
      BY <3>1 DEF Puts, PostItem, PutItem, request
  <2>2. CASE ~ \E b \in Baskets, p \in Products : Puts(b, p)
    BY <2>2 DEF vars, Paid, RemoveItem, EditRules, request
  <2> QED
    BY <2>1, <2>2
<1>2. Tidy /\ \A w \in Workers : InOrder(w)
  BY <1>1 DEF OneByOne
<1>3. \A w \in Workers : pc[w] = "new item" => mine[w] \in Baskets /\ product[w] \in Products
  BY DEF Sound, Adding
<1>4. CASE UNCHANGED <<basket, items>>
  BY <1>1, <1>2, <1>4 DEF OneByOne, Tidy, InOrder, Alone, Rowed
<1>5. ASSUME NEW b \in Baskets, Paid(b) PROVE OneByOne'
  <2>1. Tidy' /\ Rowed' \subseteq Rowed
    BY <1>2, <1>5, DeleteTidy DEF Paid
  <2>2. \A a \in Baskets, p \in Products :
          items[a][p] = << >> => items'[a][p] = << >>
    BY <1>5 DEF TypeOK, Paid, DeleteBasket, NoItems
  <2> QED
    BY <1>1, <1>2, <1>3, <2>1, <2>2 DEF OneByOne, InOrder, Alone
<1>6. ASSUME NEW b \in Baskets, NEW p \in Products, Puts(b, p) PROVE OneByOne'
  <2>1. /\ basket' = basket /\ p \in posted'
        /\ \A a \in Baskets, x \in Products \ {p} :
             /\ Len(items'[a][x]) \in Nat /\ Len(items[a][x]) \in Nat
             /\ Len(items'[a][x]) <= Len(items[a][x])
             /\ items[a][x] = << >> => items'[a][x] = << >>
    BY <1>6, PutRows DEF Puts, PostItem, PutItem
  <2>2. Tidy'
    <3>1. \A x \in Products \ posted' : x # p /\ x \in Products \ posted
      BY <1>1, <2>1
    <3>2. \A a \in Baskets, x \in Products \ posted' : Len(items'[a][x]) <= 1
      BY <1>2, <2>1, <3>1 DEF Tidy
    <3> QED
      BY <1>2, <2>1, <3>2 DEF Tidy, Rowed
  <2>3. ASSUME NEW w \in Workers, pc[w] = "new item", product[w] \notin posted'
        PROVE  items'[mine[w]][product[w]] = << >>
    <3>1. product[w] # p /\ items[mine[w]][product[w]] = << >>
      BY <1>1, <1>2, <2>1, <2>3 DEF InOrder
    <3>2. mine[w] \in Baskets /\ product[w] \in Products \ {p}
      BY <1>3, <2>3, <3>1
    <3> QED
      BY <2>1, <3>1, <3>2
  <2> QED
    BY <1>1, <1>2, <2>1, <2>2, <2>3 DEF OneByOne, InOrder, Alone, Rowed
<1>7. ASSUME NEW b \in Baskets, NEW p \in Products, RemoveItem(b, p) PROVE OneByOne'
  <2> PICK i \in DOMAIN items[b][p] : items' = [items EXCEPT ![b][p] = RemoveAt(items[b][p], i)]
    BY <1>7 DEF RemoveItem, DeleteItem
  <2>1. basket' = basket /\ posted' = posted
    BY <1>7 DEF RemoveItem
  <2>2. Len(RemoveAt(items[b][p], i)) <= Len(items[b][p]) /\ items[b][p] # << >>
    <3>1. items[b][p] \in Seq(Quantities)
      BY DEF TypeOK
    <3> QED
      BY <3>1, RemoveAtShorter
  <2>3. \A a \in Baskets, x \in Products :
          /\ Len(items'[a][x]) \in Nat /\ Len(items[a][x]) \in Nat
          /\ Len(items'[a][x]) <= Len(items[a][x])
          /\ items[a][x] = << >> => items'[a][x] = << >>
    BY <2>2, RemoveAtType DEF TypeOK
  <2>4. Tidy'
    BY <1>2, <2>1, <2>3 DEF Tidy, Rowed
  <2>5. \A w \in Workers : pc[w] = "new item" =>
          product[w] \in posted \/ items'[mine[w]][product[w]] = << >>
    BY <1>2, <1>3, <2>3 DEF InOrder
  <2> QED
    BY <1>1, <1>2, <2>1, <2>4, <2>5 DEF OneByOne, InOrder, Alone, Rowed
<1> QED
  BY <1>4, <1>5, <1>6, <1>7 DEF vars, rows, EditRules

LEMMA OneByOneStep ==
  ASSUME IInv, OneByOne, [Next]_vars
  PROVE  OneByOne'
<1>1. TypeOK /\ \A w \in Workers : Sound(w)
  BY DEF IInv
<1>2. ASSUME NEW w \in Workers, Serves(w), ~ overlap'
      PROVE  Tidy' /\ \A v \in Workers : InOrder(v)'
  <2>1. /\ ~ overlap /\ Alone(w)
        /\ \A v \in Workers \ {w} : pc'[v] = "idle"
    BY <1>1, <1>2, StaysAlone
  <2>2. Kept(w)
    BY <1>1, <1>2, <2>1, ServesKeeps DEF OneByOne
  <2> QED
    BY <2>1, <2>2 DEF Kept, InOrder, Alone
<1>3. CASE \E w \in Workers : Serves(w)
  BY <1>2, <1>3 DEF OneByOne
<1>4. CASE ~ \E w \in Workers : Serves(w)
  BY <1>1, <1>4, OutsideKeeps DEF Next, Serves, Puts
<1> QED
  BY <1>3, <1>4

-----------------------------------------------------------------------------
(* What the gateway asks for and what is recorded.                         *)

Rated == DOMAIN TaxRate \cup {None}

\* A rate is put on a basket where there is one, and copied with it.
RatesKnown ==
  /\ \A b \in Baskets : basket[b] \in Row => basket[b].rate \in Rated
  /\ \A w \in Workers : memory[w].rate \in Rated
  /\ \A o \in orders : o.row.rate \in Rated

LEMMA RatesStep ==
  ASSUME IInv, RatesKnown, [Next]_vars
  PROVE  RatesKnown'
<1> USE DEF Rated
<1>0. TypeOK /\ \A w \in Workers : Sound(w)
  BY DEF IInv
<1>1. CASE UNCHANGED <<basket, memory, orders>>
  BY <1>1 DEF RatesKnown
<1>2. ASSUME NEW w \in Workers, NEW row \in Row, row.rate \in Rated,
             UNCHANGED basket \/ (mine[w] \in Baskets /\ Save(w, row)),
             memory' = memory \/ memory' = [memory EXCEPT ![w] = row],
             orders' = orders
      PROVE  RatesKnown'
  <2>1. \A b \in Baskets : basket'[b] \in {basket[b], row}
    BY <1>0, <1>2 DEF TypeOK, Save
  <2>2. \A v \in Workers : memory'[v] \in {memory[v], row}
    BY <1>0, <1>2 DEF TypeOK
  <2> QED
    BY <1>2, <2>1, <2>2 DEF RatesKnown
<1>3. ASSUME NEW w \in Workers, End(w), basket' = basket \/ \E b \in Baskets : DeleteBasket(b),
             orders' = orders
      PROVE  RatesKnown'
  <2>1. \A b \in Baskets : basket'[b] \in {basket[b], Gone}
    BY <1>0, <1>3 DEF TypeOK, DeleteBasket
  <2>2. \A v \in Workers : memory'[v] \in {memory[v], Blank}
    BY <1>0, <1>3 DEF TypeOK, End
  <2> QED
    BY <1>3, <2>1, <2>2, BasketNone DEF RatesKnown, Blank
<1>4. ASSUME NEW w \in Workers, Serves(w)
      PROVE  RatesKnown'
  <2>1. CASE Begin(w)
    BY <1>1, <2>1 DEF Begin, rows
  <2>2. CASE Establish(w)
    <3>1. CASE Find(w)
      <4> PICK b \in Rowed : memory' = [memory EXCEPT ![w] = basket[b]]
        BY <3>1 DEF Find
      <4> QED
        BY <1>0, <3>1 DEF RatesKnown, Find, rows, Rowed, TypeOK
    <3>2. CASE FindNone(w)
      BY <1>1, <3>2 DEF FindNone, rows
    <3>3. CASE FindMany(w)
      BY <1>3, <3>3 DEF FindMany, rows
    <3>4. CASE InsertBasket(w)
      <4> PICK b \in Baskets : basket' = [basket EXCEPT ![b] = Blank]
        BY <3>4 DEF InsertBasket
      <4> QED
        BY <1>0, <3>4 DEF RatesKnown, InsertBasket, Blank, TypeOK
    <3>5. CASE SaveNew(w)
      <4>1. mine[w] \in Baskets /\ memory[w] \in Row
        BY <1>0, <3>5 DEF SaveNew, Sound, TypeOK
      <4>2. memory[w].rate \in Rated
        BY DEF RatesKnown
      <4> QED
        BY <1>2, <3>5, <4>1, <4>2 DEF SaveNew
    <3> QED
      BY <2>2, <3>1, <3>2, <3>3, <3>4, <3>5 DEF Establish
  <2>3. CASE Locate(w)
    <3> PICK p \in want[w] :
           LET row == [memory[w] EXCEPT !.block = determine_user_location(w, Flagged(p)),
                                        !.tax = determine_user_location(w, DOMAIN TaxRate)]
           IN  memory' = [memory EXCEPT ![w] = row] /\ Save(w, row)
      BY <2>3 DEF Locate
    <3> DEFINE row == [memory[w] EXCEPT !.block = determine_user_location(w, Flagged(p)),
                                        !.tax = determine_user_location(w, DOMAIN TaxRate)]
    <3>1. row \in Row /\ row.rate \in Rated
      BY <1>0, Locations DEF TypeOK, Row, RatesKnown
    <3>2. mine[w] \in Baskets /\ orders' = orders
      BY <1>0, <2>3 DEF Locate, Sound
    <3>3. memory' = [memory EXCEPT ![w] = row] /\ Save(w, row)
      OBVIOUS
    <3> HIDE DEF row
    <3> QED
      BY <1>2, <3>1, <3>2, <3>3
  <2>4. CASE CheckTaxable(w)
    <3> DEFINE c   == memory[w].block
               row == [memory[w] EXCEPT !.rate = c]
    <3>1. CASE c \in DOMAIN TaxRate
      <4>1. row \in Row /\ row.rate \in Rated
        BY <1>0, <3>1 DEF TypeOK, Row
      <4>2. mine[w] \in Baskets /\ orders' = orders
        BY <1>0, <2>4 DEF CheckTaxable, Sound
      <4>3. memory' = [memory EXCEPT ![w] = row] /\ Save(w, row)
        BY <2>4, <3>1 DEF CheckTaxable
      <4> HIDE DEF row
      <4> QED
        BY <1>2, <4>1, <4>2, <4>3
    <3>2. CASE c \notin DOMAIN TaxRate
      BY <1>1, <2>4, <3>2 DEF CheckTaxable
    <3> QED
      BY <3>1, <3>2
  <2>5. CASE CheckBlocked(w) \/ CheckPasses(w) \/ Notify(w)
    BY <1>1, <1>3, <2>5 DEF CheckBlocked, CheckPasses, Notify, rows
  <2>6. CASE AddItem(w)
    <3>1. CASE UpdateItem(w) \/ MissItem(w) \/ InsertItem(w) \/ ManyItems(w)
      BY <1>1, <1>3, <3>1 DEF UpdateItem, MissItem, InsertItem, ManyItems, rows
    <3>2. CASE ApplyCodes(w)
      <4>1. memory[w] \in Row /\ memory[w].rate \in Rated /\ memory' = [memory EXCEPT ![w] = Blank]
        BY <1>0, <3>2 DEF ApplyCodes, End, TypeOK, RatesKnown
      <4>2. basket' = basket \/ (mine[w] \in Baskets /\ Save(w, memory[w]))
        BY <3>2 DEF ApplyCodes, Rowed
      <4>3. \A b \in Baskets : basket'[b] \in {basket[b], memory[w]}
        BY <1>0, <4>2 DEF TypeOK, Save
      <4>4. \A v \in Workers : memory'[v] \in {memory[v], Blank}
        BY <1>0, <4>1 DEF TypeOK
      <4>5. orders' = orders
        BY <3>2 DEF ApplyCodes
      <4> QED
        BY <4>1, <4>3, <4>4, <4>5 DEF RatesKnown, Blank
    <3> QED
      BY <2>6, <3>1, <3>2 DEF AddItem
  <2>7. CASE Clear(w)
    <3>1. mine[w] \in Baskets
      BY <1>0, <2>7 DEF Clear, Sound
    <3> QED
      BY <1>3, <2>7, <3>1 DEF Clear
  <2>8. CASE CheckOut(w)
    <3>1. basket' = basket /\ \A v \in Workers : memory'[v] \in {memory[v], Blank}
      BY <1>0, <2>8 DEF CheckOut, End, rows, TypeOK
    <3>2. \A o \in orders' : o \in orders \/ o.row = memory[w]
      BY <2>8 DEF CheckOut
    <3> QED
      BY <3>1, <3>2 DEF RatesKnown, Blank
  <2>9. CASE Answer(w) \/ Crash(w)
    BY <1>3, <2>9 DEF Answer, Crash, rows
  <2> QED
    BY <1>4, <2>1, <2>2, <2>3, <2>4, <2>5, <2>6, <2>7, <2>8, <2>9 DEF Serves, basket_add
<1>5. ASSUME NEW b \in Baskets, Paid(b)
      PROVE  RatesKnown'
  <2>1. \A a \in Baskets : basket'[a] \in {basket[a], Gone}
    BY <1>0, <1>5 DEF TypeOK, Paid, DeleteBasket
  <2>2. UNCHANGED <<memory, orders>>
    BY <1>5 DEF Paid, request
  <2> QED
    BY <2>1, <2>2, BasketNone DEF RatesKnown
<1>6. CASE \/ UNCHANGED vars
           \/ \E b \in Baskets, p \in Products : Puts(b, p) \/ RemoveItem(b, p)
           \/ \E r \in Rules : EditRules(r)
  <2>1. UNCHANGED <<basket, memory, orders>>
    BY <1>6 DEF vars, rows, request, Puts, PostItem, PutItem, RemoveItem, EditRules
  <2> QED
    BY <1>1, <2>1
<1> QED
  BY <1>4, <1>5, <1>6 DEF Next, Serves, Puts

\* An amount is whole cents and a part of one.
Parts(x, q, r) ==
  /\ x \in Int /\ q \in Int /\ r \in Int /\ 0 <= r /\ r <= 9999
  /\ q = x \div Cent /\ r = x % Cent
  /\ x = Cent * q + r

\* Up to half a cent may be left off, and what is left to the next may be put on.
Rounds(n, q, r) == (n = q /\ r <= 5000) \/ (n = q + 1 /\ r >= 5000)

LEMMA AllHaveParts ==
  ASSUME NEW x \in Int
  PROVE  \E q, r : Parts(x, q, r)
<1>1. Parts(x, x \div Cent, x % Cent)
  BY DEF Parts, Cent
<1> QED
  BY <1>1

LEMMA Rounding ==
  ASSUME NEW x, NEW q, NEW r, Parts(x, q, r)
  PROVE  \A n : n \in quantize(x) <=> Rounds(n, q, r)
<1> DEFINE down == 2 * q * Cent - 2 * x
           up == 2 * (q + 1) * Cent - 2 * x
<1>1. /\ q \in Int /\ r \in Int /\ 0 <= r /\ r <= 9999
      /\ down = 0 - 2 * r /\ up = 20000 - 2 * r /\ down \in Int /\ up \in Int
  BY DEF Parts, Cent
<1>2. Cent = 10000
  BY DEF Cent
<1>3. \A n : n \in quantize(x) <=> \/ n = q /\ down \in -Cent .. Cent
                                   \/ n = q + 1 /\ up \in -Cent .. Cent
  <2>1. q = x \div Cent
    BY DEF Parts
  <2> QED
    BY <2>1 DEF quantize
<1> HIDE DEF down, up
<1>4. ASSUME NEW i \in Int PROVE i \in -Cent .. Cent <=> -Cent <= i /\ i <= Cent
  <2>1. Cent \in Int
    BY <1>2
  <2> QED
    BY <2>1
<1>5. down \in -Cent .. Cent <=> r <= 5000
  <2>1. (-Cent <= down /\ down <= Cent) <=> r <= 5000
    BY <1>1, <1>2
  <2> QED
    BY <1>1, <1>4, <2>1
<1>6. up \in -Cent .. Cent <=> r >= 5000
  <2>1. (-Cent <= up /\ up <= Cent) <=> r >= 5000
    BY <1>1, <1>2
  <2> QED
    BY <1>1, <1>4, <2>1
<1> QED
  BY <1>3, <1>5, <1>6 DEF Rounds

LEMMA Quantized ==
  ASSUME NEW x \in Int
  PROVE  /\ quantize(x) \subseteq Int
         /\ \A n, m \in quantize(x) : n = m \/ (n - m \in {-1, 1} /\ x % Cent = Cent \div 2)
<1>1. PICK q, r : Parts(x, q, r)
  BY AllHaveParts
<1>2. \A n : n \in quantize(x) <=> Rounds(n, q, r)
  BY <1>1, Rounding
<1>3. q \in Int /\ r \in Int /\ 0 <= r /\ r <= 9999 /\ r = x % Cent /\ Cent \div 2 = 5000
  BY <1>1 DEF Parts, Cent
<1>4. \A n : Rounds(n, q, r) => n \in Int
  BY <1>3 DEF Rounds
<1>5. \A n, m : Rounds(n, q, r) /\ Rounds(m, q, r) => n = m \/ (n - m \in {-1, 1} /\ r = 5000)
  BY <1>3 DEF Rounds
<1> QED
  BY <1>2, <1>3, <1>4, <1>5

\* Whole cents are kept out of rounding.
LEMMA QuantizedSum ==
  ASSUME NEW k \in Int, NEW x \in Int
  PROVE  \A n \in quantize(k * Cent + x) : n \in Int /\ n - k \in quantize(x)
<1>1. PICK q, r : Parts(x, q, r)
  BY AllHaveParts
<1>2. q \in Int /\ r \in Int /\ 0 <= r /\ r <= 9999
  BY <1>1 DEF Parts
<1>3. Parts(k * Cent + x, k + q, r)
  <2>1. /\ (k * Cent + x) \div Cent = k + x \div Cent
        /\ (k * Cent + x) % Cent = x % Cent
        /\ k * Cent + x \in Int
    BY DEF Cent
  <2>2. q = x \div Cent /\ r = x % Cent
    BY <1>1 DEF Parts
  <2>3. x = Cent * q + r
    BY <1>1 DEF Parts
  <2>4. \A i, j \in Int : k * Cent + (Cent * i + j) = Cent * (k + i) + j
    BY DEF Cent
  <2>5. k * Cent + x = Cent * (k + q) + r
    <3>1. q \in Int /\ r \in Int
      BY <1>2
    <3> QED
      BY <2>3, <2>4, <3>1
  <2>6. k + q \in Int
    BY <1>2
  <2> QED
    BY <1>2, <2>1, <2>2, <2>5, <2>6 DEF Parts
<1>4. \A n : n \in quantize(k * Cent + x) => Rounds(n, k + q, r)
  BY <1>3, Rounding
<1>5. \A n : Rounds(n, k + q, r) => n \in Int /\ Rounds(n - k, q, r)
  <2>1. k + q \in Int /\ k + q + 1 \in Int /\ (k + q) - k = q /\ (k + q + 1) - k = q + 1
    BY <1>2
  <2> QED
    BY <2>1 DEF Rounds
<1>6. \A n : Rounds(n, q, r) => n \in quantize(x)
  BY <1>1, Rounding
<1> QED
  BY <1>4, <1>5, <1>6

\* ... and stay what they are.
LEMMA QuantizedWhole ==
  ASSUME NEW k \in Int
  PROVE  quantize(k * Cent) = {k}
<1>1. Parts(k * Cent, k, 0)
  BY DEF Parts, Cent
<1>2. \A n : n \in quantize(k * Cent) <=> Rounds(n, k, 0)
  BY <1>1, Rounding
<1>3. \A n : Rounds(n, k, 0) <=> n = k
  BY DEF Rounds
<1> QED
  BY <1>2, <1>3

LEMMA CentsOfLine ==
  ASSUME NEW p \in Products, NEW rate \in Rated, NEW cs,
         NEW a \in Asked(cs, p, rate), NEW r \in Recorded(cs, p, rate)
  PROVE  \/ a = r
         \/ a - r \in {-1, 1} /\ line_tax(cs, p, rate) % Cent = Cent \div 2
<1> DEFINE tax == line_tax(cs, p, rate)
<1>1. Price[p] \in Int /\ (rate # None => TaxRate[rate] \in Nat)
  BY PricingConstants DEF Rated
<1>2. tax \in Int
  BY <1>1 DEF line_tax, Taxed, unit_price, Cent
<1> HIDE DEF tax
<1>3. PICK t \in quantize(tax) : a = Price[p] + t
  BY <1>1, QuantizedWhole DEF Asked, unit_price, tax
<1>4. r - Price[p] \in quantize(tax) /\ r \in Int
  BY <1>1, <1>2, QuantizedSum DEF Recorded, line_total_price, unit_price, tax
<1>5. t \in Int /\ (t = r - Price[p] \/ (t - (r - Price[p]) \in {-1, 1} /\ tax % Cent = Cent \div 2))
  BY <1>2, <1>4, Quantized
<1> QED
  BY <1>1, <1>3, <1>4, <1>5 DEF tax

-----------------------------------------------------------------------------
(* The loop over the codes of a basket.  What it computes is shown by the   *)
(* least number for which it would be otherwise.                           *)

\* The least number principle.
LEMMA Least ==
  ASSUME NEW T \in SUBSET Nat, T # {}
  PROVE  \E n \in T : \A m \in T : n <= m
<1>1. PICK n \in T : \A m \in T : ~ (<<m, n>> \in OpToRel(<, Nat))
  BY NatLessThanWellFounded, WFMin
<1>2. \A m \in T : ~ (m < n) /\ m \in Nat /\ n \in Nat
  BY <1>1 DEF OpToRel
<1> QED
  BY <1>2

LEMMA MaxIsIn ==
  ASSUME NEW n \in Nat, NEW s \in SUBSET (1 .. n), s # {}
  PROVE  Max(s) \in s /\ \A i \in s : i <= Max(s)
<1> DEFINE above == {m \in Nat : \A i \in s : i <= m}
<1>1. above \in SUBSET Nat /\ n \in above
  OBVIOUS
<1> HIDE DEF above
<1>2. PICK m \in above : \A k \in above : m <= k
  BY <1>1, Least
<1>3. m \in s
  <2> SUFFICES ASSUME m \notin s PROVE FALSE
      OBVIOUS
  <2>1. PICK i \in s : TRUE
    OBVIOUS
  <2>2. m - 1 \in above
    BY <2>1 DEF above
  <2> QED
    BY <1>2, <2>2 DEF above
<1>4. \A i \in s : m >= i
  BY DEF above
<1> QED
  BY <1>3, <1>4 DEF Max

\* g is what best_discount_for_item does with the codes at the places of each set.
Start(p) == [code |-> None, price |-> Price[p] * Cent]
Loops(g, D, cs, p) ==
  g = [s \in D |-> IF s = {} THEN Start(p)
                   ELSE LET i == Max(s) IN Better(p, g[s \ {i}], cs[i])]

LEMMA LoopIs ==
  ASSUME NEW cs, NEW p, \E g : Loops(g, SUBSET DOMAIN cs, cs, p)
  PROVE  \E g : /\ Loops(g, SUBSET DOMAIN cs, cs, p)
                /\ best_discount_for_item(cs, p) = g[DOMAIN cs]
<1> DEFINE g == CHOOSE g : Loops(g, SUBSET DOMAIN cs, cs, p)
<1>1. best_discount_for_item(cs, p) = g[DOMAIN cs]
  BY DEF best_discount_for_item, FoldLeft, MapThenFoldSet, Loops, Start
<1> QED
  BY <1>1

LEMMA LoopNext ==
  ASSUME NEW cs, NEW p, NEW n \in Nat, NEW g, Loops(g, SUBSET (1 .. n), cs, p)
  PROVE  \E h : Loops(h, SUBSET (1 .. n + 1), cs, p)
<1> DEFINE step(s, b) == Better(p, b, cs[Max(s)])
           h == [s \in SUBSET (1 .. n + 1) |->
                   IF s = {} THEN Start(p) ELSE step(s, g[s \ {Max(s)}])]
<1>1. \A s \in SUBSET (1 .. n) : g[s] = IF s = {} THEN Start(p) ELSE step(s, g[s \ {Max(s)}])
  BY DEF Loops
<1>2. \A s \in SUBSET (1 .. n) : s \in SUBSET (1 .. n + 1)
  OBVIOUS
<1>3. ASSUME NEW s \in SUBSET (1 .. n + 1), s # {}
      PROVE  s \ {Max(s)} \in SUBSET (1 .. n)
  <2>1. n + 1 \in Nat
    OBVIOUS
  <2>2. Max(s) \in s /\ \A i \in s : i <= Max(s)
    BY <1>3, <2>1, MaxIsIn
  <2> DEFINE m == Max(s)
  <2>3. m \in s /\ \A i \in s : i <= m
    BY <2>2
  <2> HIDE DEF m
  <2>4. \A i \in s : i # m => i \in 1 .. n
    BY <2>3
  <2> QED
    BY <2>4 DEF m
<1> HIDE DEF step
<1>4. \A s \in SUBSET (1 .. n) : h[s] = g[s]
  BY <1>1, <1>2
<1>5. h = [s \in SUBSET (1 .. n + 1) |->
             IF s = {} THEN Start(p) ELSE step(s, h[s \ {Max(s)}])]
  <2>1. \A s \in SUBSET (1 .. n + 1) : s # {} => h[s \ {Max(s)}] = g[s \ {Max(s)}]
    BY <1>3, <1>4
  <2> QED
    BY <2>1
<1> HIDE DEF h
<1> QED
  BY <1>5 DEF Loops, step

LEMMA LoopAll ==
  ASSUME NEW cs, NEW p, NEW n \in Nat
  PROVE  \E g : Loops(g, SUBSET (1 .. n), cs, p)
<1> DEFINE bad == {m \in Nat : ~ \E g : Loops(g, SUBSET (1 .. m), cs, p)}
<1>1. 0 \notin bad
  <2>1. Loops([s \in SUBSET (1 .. 0) |-> Start(p)], SUBSET (1 .. 0), cs, p)
    BY DEF Loops
  <2> QED
    BY <2>1
<1>2. ASSUME bad # {} PROVE FALSE
  <2>1. PICK m \in bad : \A k \in bad : m <= k
    BY <1>2, Least
  <2>2. m \in Nat /\ m # 0
    BY <1>1
  <2>3. m - 1 \in Nat /\ (m - 1) + 1 = m /\ ~ (m <= m - 1)
    BY <2>2
  <2>4. m - 1 \notin bad
    BY <2>1, <2>3
  <2>5. PICK g : Loops(g, SUBSET (1 .. m - 1), cs, p)
    BY <2>3, <2>4
  <2> QED
    BY <2>3, <2>5, LoopNext
<1> QED
  BY <1>2

LEMMA PriceIsInt ==
  ASSUME NEW d \in Codes, NEW p \in Products
  PROVE  product_price_with_discount(d, p) \in Int
<1>1. Price[p] \in Nat /\ d.amount \in Nat /\ d.discount_type \in DiscountTypes
  BY PricingConstants
<1> QED
  BY <1>1 DEF product_price_with_discount, DiscountTypes, Cent

\* The loop has met the codes at places up to n.
Found(best, cs, n, p) ==
  LET met == {cs[i] : i \in 1 .. n}
      fits == {d \in met : Fits(d, p)}
  IN  IF fits = {} THEN best = Start(p)
      ELSE /\ best.code \in fits /\ best.price = product_price_with_discount(best.code, p)
           /\ \A d \in fits : best.price <= product_price_with_discount(d, p)

LEMMA FindsNext ==
  ASSUME NEW cs \in Seq(Codes), NEW p \in Products, NEW n \in 0 .. Len(cs) - 1,
         NEW best, Found(best, cs, n, p)
  PROVE  Found(Better(p, best, cs[n + 1]), cs, n + 1, p)
<1> DEFINE met(k) == {cs[i] : i \in 1 .. k}
           fits(k) == {d \in met(k) : Fits(d, p)}
           d == cs[n + 1]
           cost(c) == product_price_with_discount(c, p)
<1>1. d \in Codes /\ met(n) \subseteq Codes
  OBVIOUS
<1>2. met(n + 1) = met(n) \cup {d}
  OBVIOUS
<1>3. \A c \in Codes : cost(c) \in Int
  BY PriceIsInt
<1>4. IF fits(n) = {} THEN best = Start(p)
      ELSE /\ best.code \in fits(n) /\ best.price = cost(best.code)
           /\ \A c \in fits(n) : best.price <= cost(c)
  BY DEF Found
<1>5. Better(p, best, d) = IF Fits(d, p) /\ (best.code = None \/ cost(d) < best.price)
                           THEN [code |-> d, price |-> cost(d)] ELSE best
  BY DEF Better
<1>6. fits(n + 1) = IF Fits(d, p) THEN fits(n) \cup {d} ELSE fits(n)
  BY <1>2
<1>7. fits(n) \subseteq Codes
  BY <1>1
<1> HIDE DEF met, d, cost
<1> SUFFICES LET new == Better(p, best, d)
             IN  IF fits(n + 1) = {} THEN new = Start(p)
                 ELSE /\ new.code \in fits(n + 1) /\ new.price = cost(new.code)
                      /\ \A c \in fits(n + 1) : new.price <= cost(c)
    BY DEF Found, met, d, cost
<1> HIDE DEF fits
<1>8. CASE ~ Fits(d, p)
  BY <1>4, <1>5, <1>6, <1>8
<1>9. CASE Fits(d, p) /\ fits(n) = {}
  <2>1. best.code = None
    BY <1>4, <1>9 DEF Start
  <2>2. Better(p, best, d) = [code |-> d, price |-> cost(d)]
    BY <1>5, <1>9, <2>1
  <2>3. fits(n + 1) = {d} /\ cost(d) <= cost(d)
    BY <1>1, <1>3, <1>6, <1>9
  <2> QED
    BY <2>2, <2>3
<1>10. CASE Fits(d, p) /\ fits(n) # {}
  <2>1. best.code \in Codes /\ best.code # None /\ best.price \in Int /\ cost(d) \in Int
    BY <1>1, <1>3, <1>4, <1>7, <1>10, PricingNone
  <2>2. CASE cost(d) < best.price
    <3>1. Better(p, best, d) = [code |-> d, price |-> cost(d)]
      BY <1>5, <1>10, <2>2
    <3>2. \A c \in fits(n) : cost(d) <= cost(c)
      BY <1>3, <1>4, <1>7, <1>10, <2>1, <2>2
    <3> QED
      BY <1>6, <1>10, <2>1, <3>1, <3>2
  <2>3. CASE ~ (cost(d) < best.price)
    <3>1. Better(p, best, d) = best /\ best.price <= cost(d)
      BY <1>5, <2>1, <2>3
    <3> QED
      BY <1>4, <1>6, <1>10, <3>1
  <2> QED
    BY <2>2, <2>3
<1> QED
  BY <1>8, <1>9, <1>10

LEMMA FindsAll ==
  ASSUME NEW cs \in Seq(Codes), NEW p \in Products
  PROVE  Found(best_discount_for_item(cs, p), cs, Len(cs), p)
<1>1. DOMAIN cs = 1 .. Len(cs) /\ Len(cs) \in Nat
  OBVIOUS
<1>2. PICK g : Loops(g, SUBSET (1 .. Len(cs)), cs, p) /\ best_discount_for_item(cs, p) = g[1 .. Len(cs)]
  BY <1>1, LoopAll, LoopIs
<1> DEFINE bad == {n \in 0 .. Len(cs) : ~ Found(g[1 .. n], cs, n, p)}
<1>3. \A n \in 0 .. Len(cs) :
        g[1 .. n] = IF n = 0 THEN Start(p) ELSE Better(p, g[1 .. n - 1], cs[n])
  <2> TAKE n \in 0 .. Len(cs)
  <2>1. 1 .. n \in SUBSET (1 .. Len(cs))
    OBVIOUS
  <2>2. g[1 .. n] = IF 1 .. n = {} THEN Start(p)
                    ELSE Better(p, g[(1 .. n) \ {Max(1 .. n)}], cs[Max(1 .. n)])
    BY <1>2, <2>1 DEF Loops
  <2>3. CASE n = 0
    BY <2>2, <2>3
  <2>4. CASE n # 0
    <3>1. n \in 1 .. n
      BY <2>4
    <3>2. Max(1 .. n) \in 1 .. n /\ \A i \in 1 .. n : i <= Max(1 .. n)
      <4>1. n \in Nat
        BY <1>1
      <4>2. 1 .. n \in SUBSET (1 .. n) /\ 1 .. n # {}
        BY <3>1
      <4> HIDE DEF bad
      <4> QED
        BY <4>1, <4>2, MaxIsIn
    <3>3. Max(1 .. n) = n
      BY <3>1, <3>2
    <3>4. (1 .. n) \ {n} = 1 .. n - 1
      BY <3>1
    <3> QED
      BY <2>2, <2>4, <3>1, <3>3, <3>4
  <2> QED
    BY <2>3, <2>4
<1>4. 0 \notin bad
  <2>1. Found(Start(p), cs, 0, p)
    BY DEF Found
  <2> QED
    BY <1>1, <1>3, <2>1
<1>5. ASSUME bad # {} PROVE FALSE
  <2>0. bad \in SUBSET Nat
    BY <1>1
  <2>1. PICK n \in bad : \A m \in bad : n <= m
    <3> HIDE DEF bad
    <3> QED
      BY <1>5, <2>0, Least
  <2>2. n - 1 \in 0 .. Len(cs) - 1 /\ n - 1 \notin bad /\ (n - 1) + 1 = n /\ n # 0
    BY <1>4, <2>1
  <2>3. Found(g[1 .. n - 1], cs, n - 1, p)
    BY <2>2
  <2>4. Found(Better(p, g[1 .. n - 1], cs[n]), cs, n, p)
    BY <2>2, <2>3, FindsNext
  <2> QED
    BY <1>3, <2>1, <2>2, <2>4
<1> QED
  BY <1>1, <1>2, <1>5

-----------------------------------------------------------------------------
(* The theorems.                                                           *)

\* The invariant holds in every reachable state.
THEOREM Invariance == Spec => []IInv
BY InitInv, InvStep, PTL DEF Spec

\* TypeOK is an invariant.
THEOREM TypeCorrect == Spec => []TypeOK
<1>1. IInv => TypeOK
  BY DEF IInv
<1> QED
  BY <1>1, Invariance, PTL

\* A product that is blocked all the time for where the customer says to be does
\* not get past the check, whatever other requests and administrators do.
THEOREM BlockedStaysOut == Spec => []BlockedGoNoFurther
<1>1. IInv => BlockedGoNoFurther
  BY DEF IInv, Sound, BlockedGoNoFurther, About
<1> QED
  BY <1>1, Invariance, PTL

\* As long as the customer's requests come one at a time, there is one basket with
\* one row for each product, but for those that the basketitems endpoint has put in or
\* made of others:
\* what a request has found is still so when it writes, and what it saves again has
\* not been deleted.
THEOREM OneBasketOneRow == Spec => []OneAtATime
<1>1. Init => OneByOne
  <2>1. Len(<< >>) = 0
    OBVIOUS
  <2>2. ASSUME Init PROVE Rowed = {}
    BY <2>2, BasketNone DEF Init, Rowed
  <2>3. ASSUME Init, NEW b \in Baskets, NEW p \in Products PROVE items[b][p] = << >>
    BY <2>3 DEF Init, NoItems
  <2>4. ASSUME Init PROVE Tidy
    BY <2>1, <2>2, <2>3, <2>4 DEF Tidy
  <2> QED
    BY <2>4 DEF Init, OneByOne, InOrder
<1>2. IInv /\ OneByOne /\ [Next]_vars => OneByOne'
  BY OneByOneStep
<1>3. OneByOne => OneAtATime
  <2> SUFFICES ASSUME OneByOne, ~ overlap PROVE Cardinality(Rowed) <= 1
      BY DEF OneByOne, OneAtATime, Tidy
  <2>1. CASE Rowed = {}
    BY <2>1, FS_EmptySet
  <2>2. CASE Rowed # {}
    <3> PICK b \in Rowed : TRUE
      BY <2>2
    <3>1. Rowed = {b}
      BY DEF OneByOne, Tidy
    <3>2. Cardinality({b}) = 1
      BY FS_Singleton
    <3> QED
      BY <3>1, <3>2
  <2> QED
    BY <2>1, <2>2
<1> QED
  BY <1>1, <1>2, <1>3, Invariance, PTL DEF Spec

\* For each line of each order, whatever prices, rates and codes there are, the
\* gateway is asked for what total_price_paid records, up to the cent that rounding
\* twice makes when the tax falls on half a cent.
THEOREM CentsAgreeAlways == Spec => []CentsAgree
<1>1. Init => RatesKnown
  <2>1. ASSUME Init, NEW b \in Baskets PROVE basket[b] \notin Row
    BY <2>1, BasketNone DEF Init
  <2>2. ASSUME Init, NEW w \in Workers PROVE memory[w].rate \in Rated
    BY <2>2 DEF Init, Blank, Rated
  <2>3. ASSUME Init PROVE orders = {}
    BY <2>3 DEF Init
  <2> QED
    BY <2>1, <2>2, <2>3 DEF RatesKnown
<1>2. IInv /\ RatesKnown /\ [Next]_vars => RatesKnown'
  BY RatesStep
<1>3. IInv /\ RatesKnown => CentsAgree
  <2> SUFFICES ASSUME IInv, RatesKnown, NEW o \in orders, NEW p \in o.lines,
                      NEW a \in Asked(o.codes, p, o.row.rate),
                      NEW r \in Recorded(o.codes, p, o.row.rate)
               PROVE  \/ a = r
                      \/ /\ a - r \in {-1, 1}
                         /\ line_tax(o.codes, p, o.row.rate) % Cent = Cent \div 2
      BY DEF CentsAgree
  <2>1. p \in Products /\ o.row.rate \in Rated
    BY DEF IInv, TypeOK, Order, RatesKnown
  <2> QED
    BY <2>1, CentsOfLine
<1> QED
  BY <1>1, <1>2, <1>3, Invariance, PTL DEF Spec

\* In whatever order the database returns the codes of a basket, the loop ends with
\* the price that discounted_price takes: that of the cheapest code that fits.
THEOREM CheapestCodeCounts ==
  ASSUME NEW cs \in Seq(Codes), NEW p \in Products
  PROVE  best_discount_for_item(cs, p).price = discounted_price(ToSet(cs), p)
<1> DEFINE best == best_discount_for_item(cs, p)
           fits == {d \in ToSet(cs) : Fits(d, p)}
           cost(d) == product_price_with_discount(d, p)
<1>1. ToSet(cs) = {cs[i] : i \in 1 .. Len(cs)} /\ ToSet(cs) \subseteq Codes
  BY DEF ToSet
<1>2. IF fits = {} THEN best = Start(p)
      ELSE /\ best.code \in fits /\ best.price = cost(best.code)
           /\ \A d \in fits : best.price <= cost(d)
  BY <1>1, FindsAll DEF Found
<1>3. \A d \in fits : cost(d) \in Int
  BY <1>1, PriceIsInt
<1>4. discounted_price(ToSet(cs), p) = IF fits = {} THEN Price[p] * Cent
                                       ELSE Min({cost(d) : d \in fits})
  BY DEF discounted_price
<1> HIDE DEF best, fits, cost
<1>5. CASE fits = {}
  BY <1>2, <1>4, <1>5 DEF Start, best
<1>6. CASE fits # {}
  <2> DEFINE costs == {cost(d) : d \in fits}
  <2>1. best.price \in costs /\ \A x \in costs : best.price <= x /\ x \in Int
    BY <1>2, <1>3, <1>6
  <2> HIDE DEF costs
  <2>2. Min(costs) = best.price
    BY <2>1 DEF Min
  <2> QED
    BY <1>4, <1>6, <2>2 DEF best, costs
<1> QED
  BY <1>5, <1>6

=============================================================================
