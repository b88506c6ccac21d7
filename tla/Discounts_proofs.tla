--------------------------- MODULE Discounts_proofs ---------------------------
(***************************************************************************)
(* Discounts, for any codes, users, baskets, arguments and number of runs  *)
(* of administration: nobody gets a code that was not meant for them, a    *)
(* one-time code that was redeemed keeps what it offers, and a code that   *)
(* is closed gets on no basket.                                            *)
(***************************************************************************)
EXTENDS Discounts, FiniteSetTheorems, WellFoundedInduction, TLAPS

\* The runs work on rows that are there, and have read them; so do the visits.
Work ==
  /\ \A a \in Admins :
       /\ pc[a] = "idle" => picked[a] = {}
       /\ picked[a] \subseteq Made
       /\ pc[a] \in {"save", "form"} => \A c \in picked[a] : held[a][c] # None
       /\ pc[a] \in {"write", "users"} => args[a] \in Change
  /\ \A b \in Baskets : codes[b] \subseteq Made
  /\ \A v \in Visits : visit[v] # None => visit[v].code \in Made

\* A row, and one that somebody has read and may save, is for users who are meant, and
\* so is a code that is on its way to a basket.
Meant ==
  /\ \A c \in Codes : row[c] # None => Those(row[c].users) \subseteq meant[c]
  /\ \A a \in Admins, c \in Codes : held[a][c] # None => Those(held[a][c].users) \subseteq meant[c]
  /\ MeantForThem
  /\ \A v \in Visits : visit[v] # None /\ visit[v].stage # "found" =>
       OwnerOf[visit[v].basket] \in meant[visit[v].code]

\* A settled code is protected from updates, and what has been read of it is what
\* it offers.
Kept ==
  \A c \in settled :
    /\ row[c] # None /\ row[c].kind # "unlimited" /\ IsRedeemed(c)
    /\ \A a \in Admins : c \in picked[a] =>
         pc[a] \in {"save", "form"} /\ OfferOf(held[a][c]) = OfferOf(row[c])

IInv == TypeOK /\ Work /\ Meant /\ Kept

\* A closed code has come to its end, or been redeemed as often as it may be.
Shut ==
  \A c \in closed :
    /\ row[c] # None
    /\ row[c].until <= day \/ (row[c].limit > 0 /\ Count(c) >= row[c].limit)

\* SettledIsKept of one step.
OfferKept == \A c \in settled : OfferOf(row'[c]) = OfferOf(row[c])

-----------------------------------------------------------------------------
(* Types.                                                                  *)

LEMMA Days == 0 \in Dates /\ Never \in Dates /\ 0 .. MaxDay \subseteq Dates /\ 0 \in Limits
BY DiscountConstants DEF Dates, Never

LEMMA InitInv == Init => IInv
<1> SUFFICES ASSUME Init PROVE IInv
    OBVIOUS
<1>1. day \in 0 .. MaxDay /\ runs \in 0 .. MaxRuns
  BY DiscountConstants DEF Init
<1>2. redeemed \in [Codes -> [Users -> 0 .. MaxRows]]
  BY DiscountConstants DEF Init
<1>3. /\ row \in [Codes -> Terms \cup {None}]
      /\ held \in [Admins -> [Codes -> Terms \cup {None}]]
      /\ args \in [Admins -> Change \cup {None}]
  BY DEF Init
<1>4. /\ items \in [Baskets -> SUBSET Products] /\ codes \in [Baskets -> SUBSET Codes]
      /\ picked \in [Admins -> SUBSET Codes] /\ meant \in [Codes -> SUBSET Users]
      /\ pc \in [Admins -> {"idle", "write", "users", "save", "form"}]
      /\ ordering \subseteq Baskets /\ closed \subseteq Codes /\ settled \subseteq Codes
      /\ visit \in [Visits -> Visit \cup {None}]
  BY DEF Init
<1>5. TypeOK
  BY <1>1, <1>2, <1>3, <1>4 DEF TypeOK
<1>6. Work /\ Meant /\ Kept
  BY DEF Init, Work, Meant, MeantForThem, Kept
<1> QED
  BY <1>5, <1>6 DEF IInv

\* The rows that the arguments of the functions make are rows.
LEMMA NewTermsType ==
  ASSUME NEW k \in Offer, NEW batch, Accepted(batch, k)
  PROVE  NewTerms(k) \in Terms
<1>1. /\ k.users \subseteq Users /\ k.product \in Products \cup {None}
      /\ k.system \in Systems \cup {None}
  BY DEF Offer, Accepted, get_object_or_raise, get_users
<1>2. get_redemption_type(k) \in Kinds
  BY DEF Offer, get_redemption_type, Kinds
<1> QED
  BY <1>1, <1>2, Days DEF NewTerms, Terms, Offer

LEMMA GivenType ==
  ASSUME NEW S, NEW new \in SUBSET S, NEW old \in S
  PROVE  Given(new, old) \in S
BY DEF Given

LEMMA ChangedType ==
  ASSUME NEW t \in Terms, NEW ch \in Change
  PROVE  Changed(t, ch) \in Terms
<1>1. /\ Given(ch.product, t.product) \in Products \cup {None}
      /\ Given(ch.system, t.system) \in Systems \cup {None}
      /\ Given(ch.until, t.until) \in Dates
  BY GivenType DEF Terms, Change
<1> QED
  BY <1>1 DEF Changed, Terms, Kinds

LEMMA WriteType ==
  ASSUME TypeOK, NEW new \in [Codes -> Terms \cup {None}], Write(new)
  PROVE  row' \in [Codes -> Terms \cup {None}] /\ closed' \subseteq Codes
BY DEF TypeOK, Write

LEMMA IntendType ==
  ASSUME TypeOK, NEW sel, NEW users \in SUBSET Users, Intend(sel, users)
  PROVE  meant' \in [Codes -> SUBSET Users]
BY DEF TypeOK, Intend, Those

LEMMA LoadType ==
  ASSUME TypeOK, NEW a \in Admins, NEW sel, Load(a, sel)
  PROVE  /\ held' \in [Admins -> [Codes -> Terms \cup {None}]]
         /\ runs' \in 0 .. MaxRuns /\ sel \subseteq Codes
BY DiscountConstants DEF TypeOK, Load, Made

LEMMA FinishType ==
  ASSUME TypeOK, NEW a \in Admins, Finish(a)
  PROVE  /\ pc' \in [Admins -> {"idle", "write", "users", "save", "form"}]
         /\ picked' \in [Admins -> SUBSET Codes]
         /\ held' \in [Admins -> [Codes -> Terms \cup {None}]]
         /\ args' \in [Admins -> Change \cup {None}]
BY DEF TypeOK, Finish

LEMMA FinishFacts ==
  ASSUME TypeOK, NEW a \in Admins, Finish(a)
  PROVE  /\ pc'[a] = "idle" /\ picked'[a] = {} /\ held'[a] = [c \in Codes |-> None]
         /\ \A b \in Admins : b # a =>
              pc'[b] = pc[b] /\ picked'[b] = picked[b] /\ held'[b] = held[b] /\ args'[b] = args[b]
BY DEF TypeOK, Finish

-----------------------------------------------------------------------------
(* What the actions do, as far as the invariant is concerned.              *)

\* The system of a request may replace the one that is asked for.
LEMMA OfferType ==
  ASSUME NEW batch, GenerateCommand(batch) \/ \E s \in Systems : PostDiscounts(s, batch)
  PROVE  \E k \in Offer : generate_discount_code(batch, k)
<1>1. CASE GenerateCommand(batch)
  BY <1>1, DiscountConstants DEF GenerateCommand
<1>2. ASSUME NEW s \in Systems, PostDiscounts(s, batch)
      PROVE  \E k \in Offer : generate_discount_code(batch, k)
  <2> PICK k \in Offers : generate_discount_code(batch, [k EXCEPT !.system = s])
    BY <1>2 DEF PostDiscounts
  <2>1. [k EXCEPT !.system = s] \in Offer
    BY DiscountConstants DEF Offer
  <2> QED
    BY <2>1
<1> QED
  BY <1>1, <1>2

LEMMA GenerateStep ==
  ASSUME IInv, NEW batch \in SUBSET Codes, NEW k \in Offer, generate_discount_code(batch, k)
  PROVE  IInv' /\ OfferKept
<1> USE DEF IInv
<1> DEFINE made(m) == /\ Write([c \in Codes |-> IF c \in m THEN NewTerms(k) ELSE row[c]])
                      /\ Intend(m, k.users)
<1> PICK m \in IF Accepted(batch, k) THEN SUBSET batch ELSE {{}} : made(m)
  BY DEF generate_discount_code
<1>1. /\ m \subseteq Codes /\ m \cap Made = {}
      /\ m # {} => NewTerms(k) \in Terms /\ k.users \in SUBSET Users
      /\ runs' \in 0 .. MaxRuns
      /\ UNCHANGED <<day, items, codes, ordering, visit, redeemed, pc, picked, held, args, settled>>
  <2>1. m \subseteq batch /\ (m # {} => Accepted(batch, k))
    OBVIOUS
  <2>2. m # {} => NewTerms(k) \in Terms /\ k.users \in SUBSET Users
    BY <2>1, NewTermsType DEF Accepted, get_users, Offer
  <2>3. m \subseteq Codes /\ m \cap Made = {}
    BY <2>1 DEF generate_discount_code
  <2>4. runs' \in 0 .. MaxRuns
    BY DiscountConstants DEF generate_discount_code, TypeOK
  <2>5. UNCHANGED <<day, items, codes, ordering, visit, redeemed, pc, picked, held, args, settled>>
    BY DEF generate_discount_code, shop
  <2> QED
    BY <2>2, <2>3, <2>4, <2>5
<1>2. /\ \A c \in Codes : row'[c] = IF c \in m THEN NewTerms(k) ELSE row[c]
      /\ \A c \in Codes : meant'[c] = IF c \in m THEN meant[c] \cup Those(k.users) ELSE meant[c]
  BY DEF Write, Intend
<1>3. TypeOK'
  <2>1. [c \in Codes |-> IF c \in m THEN NewTerms(k) ELSE row[c]] \in [Codes -> Terms \cup {None}]
    BY <1>1 DEF TypeOK
  <2>2. row' \in [Codes -> Terms \cup {None}] /\ closed' \subseteq Codes
    BY <2>1, WriteType
  <2>3. meant' \in [Codes -> SUBSET Users]
    BY <1>1 DEF TypeOK, Intend, Those
  <2> QED
    BY <1>1, <2>2, <2>3 DEF TypeOK
<1>4. NewTerms(k).users = k.users
  BY DEF NewTerms
<1>5. \A c \in Codes : row[c] # None => c \notin m /\ row'[c] = row[c]
  BY <1>1, <1>2 DEF Made
<1>6. Work'
  BY <1>1, <1>5 DEF Work, Made, TypeOK
<1>7. Meant'
  <2>1. \A c \in Codes : meant[c] \subseteq meant'[c]
    BY <1>2
  <2>2. /\ \A c \in Codes : row'[c] # None => Those(row'[c].users) \subseteq meant'[c]
        /\ \A a \in Admins, c \in Codes :
             held'[a][c] # None => Those(held'[a][c].users) \subseteq meant'[c]
    BY <1>1, <1>2, <1>4, <2>1 DEF Meant
  <2>3. MeantForThem'
    BY <1>1, <2>1 DEF Meant, MeantForThem, TypeOK
  <2>4. \A v \in Visits : visit[v] # None => visit[v].code \in Codes
    BY DEF Work, Made
  <2>5. \A v \in Visits : visit'[v] # None /\ visit'[v].stage # "found" =>
          OwnerOf[visit'[v].basket] \in meant'[visit'[v].code]
    BY <1>1, <2>1, <2>4 DEF Meant
  <2> QED
    BY <2>2, <2>3, <2>5 DEF Meant
<1>8. Kept' /\ OfferKept
  BY <1>1, <1>5 DEF Kept, TypeOK, IsRedeemed, OfferKept
<1> QED
  BY <1>3, <1>6, <1>7, <1>8

\* A visit is for a code that is there, and past the users for somebody who is meant.
Fit(v) ==
  visit[v] # None =>
    /\ visit[v].code \in Made
    /\ visit[v].stage # "found" => OwnerOf[visit[v].basket] \in meant[visit[v].code]

\* Baskets get codes that are meant for their owners, or lose some.
LEMMA BasketStep ==
  ASSUME IInv,
         UNCHANGED <<day, row, redeemed, admin, meant, closed, settled>>,
         items' \in [Baskets -> SUBSET Products], codes' \in [Baskets -> SUBSET Codes],
         ordering' \subseteq Baskets, visit' \in [Visits -> Visit \cup {None}],
         \A v \in Visits : Fit(v)',
         \A b \in Baskets : \A c \in codes'[b] \ codes[b] :
           row[c] # None /\ OwnerOf[b] \in meant[c]
  PROVE  IInv'
<1> USE DEF IInv, admin
<1>1. TypeOK'
  BY DEF TypeOK
<1>2. Work'
  BY DEF Work, Made, TypeOK, Fit
<1>3. Meant'
  BY DiscountConstants DEF Meant, MeantForThem, TypeOK, Fit
<1>4. Kept'
  BY DEF Kept, IsRedeemed
<1> QED
  BY <1>1, <1>2, <1>3, <1>4

\* A visit comes, goes on or ends.
LEMMA VisitStep ==
  ASSUME IInv, NEW v \in Visits, NEW to \in Visit \cup {None},
         visit' = [visit EXCEPT ![v] = to],
         to # None =>
           /\ to.code \in Made
           /\ to.stage # "found" => OwnerOf[to.basket] \in meant[to.code],
         UNCHANGED <<row, meant>>
  PROVE  visit' \in [Visits -> Visit \cup {None}] /\ \A w \in Visits : Fit(w)'
<1>1. visit \in [Visits -> Visit \cup {None}] /\ \A w \in Visits : Fit(w)
  BY DEF IInv, TypeOK, Work, Meant, Fit
<1>2. \A w \in Visits : visit'[w] = IF w = v THEN to ELSE visit[w]
  BY <1>1
<1> QED
  BY <1>1, <1>2 DEF Fit, Made

\* What is known of a visit on its way.
LEMMA VisitFacts ==
  ASSUME IInv, NEW v \in Visits, visit[v] # None
  PROVE  /\ visit[v] \in Visit
         /\ visit[v].basket \in Baskets /\ visit[v].code \in Codes /\ visit[v].row \in Terms
         /\ row[visit[v].code] # None
         /\ visit[v].stage # "found" => OwnerOf[visit[v].basket] \in meant[visit[v].code]
<1>1. visit[v] \in Visit
  BY DEF IInv, TypeOK
<1> QED
  BY <1>1 DEF IInv, Work, Meant, Made, Visit

\* A visit that is judged: its users when it has been found, which are meant to have it.
LEMMA JudgeStep ==
  ASSUME IInv, NEW v \in Visits, CheckUsers(v) \/ CheckLimits(v)
  PROVE  /\ visit' \in [Visits -> Visit \cup {None}] /\ \A w \in Visits : Fit(w)'
         /\ visit'[v] = None \/
              /\ visit'[v].stage = IF CheckUsers(v) THEN "theirs" ELSE "valid"
              /\ visit'[v].basket = visit[v].basket /\ visit'[v].code = visit[v].code
              /\ visit'[v].row = visit[v].row /\ visit'[v].shut = visit[v].shut
              /\ CheckLimits(v) => LimitLeft(visit[v].row, visit[v].code) /\ InForce(visit[v].row)
<1>1. visit[v] # None /\ visit[v] \in Visit /\ visit \in [Visits -> Visit \cup {None}]
  BY VisitFacts DEF CheckUsers, CheckLimits, IInv, TypeOK
<1>2. ASSUME NEW stage \in {"theirs", "valid"}, NEW passes, Judge(v, passes, stage),
             passes => OwnerOf[visit[v].basket] \in meant[visit[v].code]
      PROVE  /\ visit' \in [Visits -> Visit \cup {None}] /\ \A w \in Visits : Fit(w)'
             /\ visit'[v] = None \/
                  /\ passes
                  /\ visit'[v].stage = stage
                  /\ visit'[v].basket = visit[v].basket /\ visit'[v].code = visit[v].code
                  /\ visit'[v].row = visit[v].row /\ visit'[v].shut = visit[v].shut
  <2> DEFINE next == [visit[v] EXCEPT !.stage = stage]
             to   == IF passes THEN next ELSE None
  <2>1. /\ next \in Visit /\ next.stage = stage
        /\ next.basket = visit[v].basket /\ next.code = visit[v].code
        /\ next.row = visit[v].row /\ next.shut = visit[v].shut
    BY <1>1 DEF Visit, Stages
  <2>2. visit' = [visit EXCEPT ![v] = to] /\ UNCHANGED <<row, meant>>
    BY <1>2 DEF Judge
  <2>3. next.code \in Made
    BY <1>1, <2>1, VisitFacts DEF Made
  <2> HIDE DEF next
  <2>4. /\ to \in Visit \cup {None}
        /\ to # None =>
             /\ to.code \in Made
             /\ to.stage # "found" => OwnerOf[to.basket] \in meant[to.code]
    BY <1>2, <2>1, <2>3
  <2>5. visit'[v] = to
    BY <1>1, <2>2
  <2>6. visit' \in [Visits -> Visit \cup {None}] /\ \A w \in Visits : Fit(w)'
    <3> HIDE DEF to
    <3> QED
      BY <2>2, <2>4, VisitStep
  <2> QED
    BY <1>2, <2>1, <2>5, <2>6
<1>3. CASE CheckUsers(v)
  <2> DEFINE b == visit[v].basket
             passes == /\ visit[v].row.product \in items[b] \cup {None}
                       /\ OwnerOf[b] \in Those(row[visit[v].code].users)
  <2>1. passes => OwnerOf[b] \in meant[visit[v].code]
    BY <1>1, VisitFacts DEF IInv, Meant
  <2>2. Judge(v, passes, "theirs") /\ visit[v].stage = "found"
    BY <1>3 DEF CheckUsers
  <2>3. ~ CheckLimits(v)
    BY <2>2 DEF CheckLimits
  <2> HIDE DEF passes
  <2> QED
    BY <1>2, <1>3, <2>1, <2>2, <2>3
<1>4. CASE CheckLimits(v)
  <2> DEFINE passes == /\ LimitLeft(visit[v].row, visit[v].code) /\ InForce(visit[v].row)
                       /\ visit[v].row.system \in {None, ShopOf[visit[v].basket]}
  <2>1. OwnerOf[visit[v].basket] \in meant[visit[v].code]
    BY <1>1, <1>4, VisitFacts DEF CheckLimits
  <2>2. Judge(v, passes, "valid") /\ visit[v].stage = "theirs"
    BY <1>4 DEF CheckLimits
  <2>3. ~ CheckUsers(v)
    BY <2>2 DEF CheckUsers
  <2>4. passes => LimitLeft(visit[v].row, visit[v].code) /\ InForce(visit[v].row)
    OBVIOUS
  <2> HIDE DEF passes
  <2> QED
    BY <1>2, <2>1, <2>2, <2>3, <2>4
<1> QED
  BY <1>3, <1>4

\* A code that is read, by name or because it is automatic.
LEMMA ReadCode ==
  ASSUME IInv, NEW v \in Visits, NEW b \in Baskets, NEW c \in Codes,
         FindAutomatic(v, b, c) \/ FindCode(v, b, c)
  PROVE  /\ Read(v, b, c) /\ row[c] \in Terms
         /\ visit' \in [Visits -> Visit \cup {None}] /\ \A w \in Visits : Fit(w)'
<1>1. Read(v, b, c) /\ row[c] \in Terms
  BY DEF FindAutomatic, FindCode, AutoApply, Made, IInv, TypeOK
<1> DEFINE to == [basket |-> b, code |-> c, row |-> [row[c] EXCEPT !.users = {}],
                  stage |-> "found", shut |-> c \in closed]
<1>2. [row[c] EXCEPT !.users = {}] \in Terms
  BY <1>1 DEF Terms
<1>3. to \in Visit /\ to.code = c /\ to.stage = "found"
  BY <1>2 DEF Visit, Stages
<1>4. c \in Made
  BY <1>1, DiscountNone DEF Made
<1>5. visit' = [visit EXCEPT ![v] = to] /\ UNCHANGED <<row, meant>>
  BY <1>1 DEF Read
<1> HIDE DEF to
<1>6. visit' \in [Visits -> Visit \cup {None}] /\ \A w \in Visits : Fit(w)'
  BY <1>3, <1>4, <1>5, VisitStep
<1> QED
  BY <1>1, <1>6

LEMMA ShopStep ==
  ASSUME IInv,
         \/ \E b \in Baskets : CheckOut(b) \/ Clear(b)
         \/ \E b \in Baskets, p \in Products : AddItem(b, p) \/ ChangeItem(b, p)
         \/ \E v \in Visits, b \in Baskets, c \in Codes : FindAutomatic(v, b, c) \/ FindCode(v, b, c)
         \/ \E v \in Visits : CheckUsers(v) \/ CheckLimits(v) \/ AddCode(v)
  PROVE  IInv'
<1> USE DEF IInv
<1>1. ASSUME \/ \E b \in Baskets : CheckOut(b) \/ Clear(b)
             \/ \E b \in Baskets, p \in Products : AddItem(b, p) \/ ChangeItem(b, p)
      PROVE  IInv'
  <2>1. /\ \A d \in Baskets : codes'[d] \subseteq codes[d]
        /\ items' \in [Baskets -> SUBSET Products] /\ codes' \in [Baskets -> SUBSET Codes]
        /\ ordering' \subseteq Baskets
        /\ UNCHANGED <<day, row, visit, redeemed, admin, meant, closed, settled>>
    <3>1. ASSUME NEW b \in Baskets, CheckOut(b)
          PROVE  /\ \A d \in Baskets : codes'[d] \subseteq codes[d]
                 /\ items' \in [Baskets -> SUBSET Products] /\ codes' \in [Baskets -> SUBSET Codes]
                 /\ ordering' \subseteq Baskets
      BY <3>1 DEF CheckOut, TypeOK
    <3>2. ASSUME NEW b \in Baskets, Clear(b)
          PROVE  /\ \A d \in Baskets : codes'[d] \subseteq codes[d]
                 /\ items' \in [Baskets -> SUBSET Products] /\ codes' \in [Baskets -> SUBSET Codes]
                 /\ ordering' \subseteq Baskets
      BY <3>2 DEF Clear, TypeOK
    <3>3. ASSUME NEW b \in Baskets, NEW p \in Products, AddItem(b, p) \/ ChangeItem(b, p)
          PROVE  /\ \A d \in Baskets : codes'[d] \subseteq codes[d]
                 /\ items' \in [Baskets -> SUBSET Products] /\ codes' \in [Baskets -> SUBSET Codes]
                 /\ ordering' \subseteq Baskets
      <4>1. items' = [items EXCEPT ![b] = @ \cup {p}] \/ items' = [items EXCEPT ![b] = @ \ {p}]
        BY <3>3 DEF AddItem, ChangeItem
      <4>2. codes' = codes /\ ordering' = ordering
        BY <3>3 DEF AddItem, ChangeItem
      <4>3. items' \in [Baskets -> SUBSET Products]
        BY <4>1 DEF TypeOK
      <4> QED
        BY <4>2, <4>3 DEF TypeOK
    <3>4. UNCHANGED <<day, row, visit, redeemed, admin, meant, closed, settled>>
      BY <1>1 DEF CheckOut, Clear, AddItem, ChangeItem
    <3> QED
      BY <1>1, <3>1, <3>2, <3>3, <3>4
  <2>2. visit' \in [Visits -> Visit \cup {None}] /\ \A v \in Visits : Fit(v)'
    <3>1. visit' = visit /\ row' = row /\ meant' = meant
      BY <2>1
    <3>2. /\ visit \in [Visits -> Visit \cup {None}]
          /\ \A v \in Visits : visit[v] # None => visit[v].code \in Made
          /\ \A v \in Visits : visit[v] # None /\ visit[v].stage # "found" =>
               OwnerOf[visit[v].basket] \in meant[visit[v].code]
      BY DEF TypeOK, Work, Meant
    <3> HIDE DEF IInv
    <3> QED
      BY <3>1, <3>2 DEF Fit, Made
  <2> HIDE DEF IInv
  <2> QED
    BY <2>1, <2>2, BasketStep
<1>2. ASSUME NEW v \in Visits, NEW b \in Baskets, NEW c \in Codes,
             FindAutomatic(v, b, c) \/ FindCode(v, b, c)
      PROVE  IInv'
  <2>1. UNCHANGED <<day, row, shop, redeemed, admin, meant, closed, settled>>
    BY <1>2, ReadCode DEF Read
  <2> QED
    BY <1>2, <2>1, ReadCode, BasketStep DEF shop, TypeOK
<1>3. ASSUME NEW v \in Visits, CheckUsers(v) \/ CheckLimits(v) PROVE IInv'
  <2>1. UNCHANGED <<day, row, shop, redeemed, admin, meant, closed, settled>>
    BY <1>3 DEF CheckUsers, CheckLimits, Judge
  <2> QED
    BY <1>3, <2>1, JudgeStep, BasketStep DEF shop, TypeOK
<1>4. ASSUME NEW v \in Visits, AddCode(v) PROVE IInv'
  <2> DEFINE b == visit[v].basket
             c == visit[v].code
  <2>1. b \in Baskets /\ c \in Codes /\ row[c] # None /\ OwnerOf[b] \in meant[c]
    BY <1>4, VisitFacts DEF AddCode
  <2>2. /\ codes' = [codes EXCEPT ![b] = codes[b] \cup {c}] /\ visit' = [visit EXCEPT ![v] = None]
        /\ UNCHANGED <<day, row, items, ordering, redeemed, admin, meant, closed, settled>>
    BY <1>4 DEF AddCode
  <2> HIDE DEF b, c
  <2>3. /\ codes' \in [Baskets -> SUBSET Codes]
        /\ \A d \in Baskets : codes'[d] = IF d = b THEN codes[b] \cup {c} ELSE codes[d]
    BY <2>1, <2>2 DEF TypeOK
  <2>4. visit' \in [Visits -> Visit \cup {None}] /\ \A w \in Visits : Fit(w)'
    BY <2>2, VisitStep
  <2> QED
    BY <2>1, <2>2, <2>3, <2>4, BasketStep DEF TypeOK
<1> QED
  BY <1>1, <1>2, <1>3, <1>4

\* A redemption is by the owner of a basket with the code.
LEMMA RedeemStep ==
  ASSUME IInv, NEW b \in Baskets, Redeem(b)
  PROVE  IInv'
<1> USE DEF IInv
<1> DEFINE u == OwnerOf[b]
<1>1. /\ u \in Users
      /\ \A c \in Codes, v \in Users :
           redeemed'[c][v] = IF c \in codes[b] /\ v = u THEN redeemed[c][v] + 1 ELSE redeemed[c][v]
      /\ UNCHANGED <<day, row, items, codes, visit, pc, picked, held, args, runs, meant>>
      /\ settled' = settled \cup {c \in codes[b] : row[c].kind # "unlimited" /\ ~ WorkedOn(c)}
      /\ codes[b] \subseteq Codes
  BY DiscountConstants DEF Redeem, TypeOK, admin
<1>2. redeemed' \in [Codes -> [Users -> 0 .. MaxRows]]
  <2>1. \A c \in codes[b] : redeemed[c][u] + 1 \in 0 .. MaxRows
    BY <1>1, DiscountConstants DEF Redeem, TypeOK
  <2>2. \A c \in codes[b] : [redeemed[c] EXCEPT ![u] = redeemed[c][u] + 1] \in [Users -> 0 .. MaxRows]
    BY <1>1, <2>1 DEF TypeOK
  <2> QED
    BY <1>1, <2>2 DEF Redeem, TypeOK
<1>3. TypeOK'
  <2>1. closed' \subseteq Codes /\ ordering' \subseteq Baskets /\ settled' \subseteq Codes
    BY <1>1 DEF Redeem, TypeOK
  <2> QED
    BY <1>1, <1>2, <2>1 DEF TypeOK
<1>4. Work'
  BY <1>1 DEF Work, Made
<1>5. Meant'
  BY <1>1 DEF Meant, MeantForThem, TypeOK
<1>a. /\ \A c \in Codes, v \in Users : redeemed[c][v] > 0 => redeemed'[c][v] > 0
      /\ \A c \in codes[b] : redeemed'[c][u] > 0
  <2>1. \A c \in Codes, v \in Users : redeemed[c][v] \in Nat
    BY DEF TypeOK
  <2> QED
    BY <1>1, <2>1
<1>6. \A c \in Codes : IsRedeemed(c) => IsRedeemed(c)'
  BY <1>a DEF IsRedeemed
<1>7. \A c \in codes[b] : IsRedeemed(c)'
  BY <1>1, <1>a DEF IsRedeemed
<1>8. \A c \in Codes : ~ WorkedOn(c) => \A a \in Admins : c \notin picked[a]
  BY DEF WorkedOn, Work
<1>9. Kept'
  BY <1>1, <1>6, <1>7, <1>8 DEF Kept, Work, Made, TypeOK
<1> QED
  BY <1>3, <1>4, <1>5, <1>9

-----------------------------------------------------------------------------
(* Administration.                                                         *)

\* A run reads the rows.
LEMMA LoadStep ==
  ASSUME IInv, NEW a \in Admins, NEW sel \in SUBSET Codes, Load(a, sel), NEW to,
         UNCHANGED <<day, row, items, codes, ordering, visit, redeemed, meant, closed, settled>>,
         pc' = [pc EXCEPT ![a] = to],
         \/ /\ to = "write" /\ \E ch \in Change : args' = [args EXCEPT ![a] = ch]
            /\ picked' = [picked EXCEPT ![a] = {c \in sel : ~ Protected(c)}]
         \/ /\ to \in {"save", "form"} /\ args' = args
            /\ picked' = [picked EXCEPT ![a] = sel]
  PROVE  IInv'
<1> USE DEF IInv
<1>1. /\ held' = [held EXCEPT ![a] = row] /\ sel \subseteq Made
      /\ \A b \in Admins : held'[b] = IF b = a THEN row ELSE held[b]
      /\ \A b \in Admins : pc'[b] = IF b = a THEN to ELSE pc[b]
      /\ \A b \in Admins : b # a => picked'[b] = picked[b] /\ args'[b] = args[b]
      /\ picked'[a] \subseteq sel
      /\ to = "write" => args'[a] \in Change /\ picked'[a] = {c \in sel : ~ Protected(c)}
      /\ to \in {"write", "save", "form"}
  BY DEF Load, TypeOK
<1>2. TypeOK'
  <2>1. picked' \in [Admins -> SUBSET Codes] /\ args' \in [Admins -> Change \cup {None}]
    BY <1>1 DEF TypeOK
  <2>2. pc' \in [Admins -> {"idle", "write", "users", "save", "form"}]
    BY <1>1 DEF TypeOK
  <2> QED
    BY <2>1, <2>2, LoadType DEF TypeOK
<1>3. Work'
  BY <1>1 DEF Work, Made
<1>4. Meant'
  BY <1>1 DEF Meant, MeantForThem
<1>5. \A c \in settled : Protected(c)
  BY DEF Kept, Protected
<1>6. Kept'
  BY <1>1, <1>5 DEF Kept, IsRedeemed
<1> QED
  BY <1>2, <1>3, <1>4, <1>6

\* A run writes rows, for users who are meant; it goes on, or ends.
LEMMA SaveStep ==
  ASSUME IInv, NEW a \in Admins, TypeOK',
         UNCHANGED <<items, codes, ordering, visit, redeemed, settled>>,
         \A c \in Codes : row'[c] # row[c] =>
           c \in picked[a] /\ row'[c] # None /\ Those(row'[c].users) \subseteq meant'[c],
         \A c \in Codes : meant[c] \subseteq meant'[c],
         \A c \in settled : c \in picked[a] => OfferOf(row'[c]) = OfferOf(row[c]),
         \A b \in Admins : b # a =>
           pc'[b] = pc[b] /\ picked'[b] = picked[b] /\ held'[b] = held[b] /\ args'[b] = args[b],
         \/ /\ pc'[a] = "idle" /\ picked'[a] = {} /\ held'[a] = [c \in Codes |-> None]
         \/ /\ pc'[a] \in {"users", "save"} /\ picked'[a] \subseteq picked[a]
            /\ pc'[a] = pc[a] \/ (pc[a] = "write" /\ pc'[a] = "users")
            /\ held'[a] = held[a] /\ args'[a] = args[a]
  PROVE  IInv' /\ OfferKept
<1> USE DEF IInv
<1>1. \A c \in Codes : row[c] # None => row'[c] # None
  OBVIOUS
<1>2. Work'
  <2>1. \A b \in Admins : picked[b] \subseteq Made' /\ picked'[b] \subseteq picked[b]
    BY <1>1 DEF Work, Made
  <2>2. ASSUME NEW b \in Admins
        PROVE  /\ pc'[b] = "idle" => picked'[b] = {}
               /\ pc'[b] \in {"save", "form"} => \A c \in picked'[b] : held'[b][c] # None
               /\ pc'[b] \in {"write", "users"} => args'[b] \in Change
    BY <2>1 DEF Work
  <2>3. /\ \A b \in Baskets : codes'[b] \subseteq Made'
        /\ \A v \in Visits : visit'[v] # None => visit'[v].code \in Made'
    BY <1>1 DEF Work, Made
  <2> QED
    BY <2>1, <2>2, <2>3 DEF Work
<1>3. Meant'
  <2>1. MeantForThem'
    BY DEF Meant, MeantForThem, TypeOK
  <2>2. \A c \in Codes : row'[c] # None => Those(row'[c].users) \subseteq meant'[c]
    BY DEF Meant
  <2>3. \A b \in Admins, c \in Codes :
          held'[b][c] # None => Those(held'[b][c].users) \subseteq meant'[c]
    BY DEF Meant
  <2>4. \A v \in Visits : visit[v] # None => visit[v].code \in Codes
    BY DEF Work, Made
  <2>5. \A v \in Visits : visit'[v] # None /\ visit'[v].stage # "found" =>
          OwnerOf[visit'[v].basket] \in meant'[visit'[v].code]
    BY <2>4 DEF Meant
  <2> QED
    BY <2>1, <2>2, <2>3, <2>5 DEF Meant
<1>4. \A c \in settled : OfferOf(row'[c]) = OfferOf(row[c])
  BY DEF TypeOK
<1>5. Kept'
  <2> SUFFICES ASSUME NEW c \in settled
               PROVE  /\ row'[c] # None /\ row'[c].kind # "unlimited" /\ IsRedeemed(c)'
                      /\ \A b \in Admins : c \in picked'[b] =>
                           /\ pc'[b] \in {"save", "form"}
                           /\ OfferOf(held'[b][c]) = OfferOf(row'[c])
      BY DEF Kept
  <2>1. c \in Codes /\ row'[c] # None /\ IsRedeemed(c)'
    BY <1>1 DEF Kept, TypeOK, IsRedeemed
  <2>2. row'[c].kind # "unlimited"
    BY <1>4 DEF Kept, OfferOf
  <2>3. ASSUME NEW b \in Admins, c \in picked'[b]
        PROVE  pc'[b] \in {"save", "form"} /\ OfferOf(held'[b][c]) = OfferOf(row'[c])
    BY <1>4, <2>3 DEF Kept
  <2> QED
    BY <2>1, <2>2, <2>3
<1> QED
  BY <1>2, <1>3, <1>4, <1>5 DEF OfferKept

\* The runs that read.
LEMMA ReadStep ==
  ASSUME IInv, NEW a \in Admins, NEW sel \in SUBSET Codes,
         \/ DeactivateLoad(a, sel) \/ update_discount_code(a, sel)
         \/ \E c \in Codes : EditOpen(a, c)
  PROVE  IInv'
<1>1. CASE DeactivateLoad(a, sel)
  BY <1>1, LoadStep DEF DeactivateLoad, shop
<1>2. ASSUME NEW c \in Codes, EditOpen(a, c) PROVE IInv'
  <2>1. {c} \in SUBSET Codes
    OBVIOUS
  <2> QED
    BY <1>2, <2>1, LoadStep DEF EditOpen, shop
<1>3. CASE update_discount_code(a, sel)
  <2>1. ASSUME NEW ch \in Changes PROVE [ch EXCEPT !.until = {day}] \in Change
    <3>1. ch \in Change /\ {day} \in SUBSET Dates
      BY Days, DiscountConstants DEF IInv, TypeOK
    <3> QED
      BY <3>1 DEF Change
  <2> PICK ch \in Change : UpdateSelect(a, sel, ch)
    BY <1>3, <2>1, DiscountConstants DEF update_discount_code
  <2> QED
    BY LoadStep DEF UpdateSelect, shop
<1> QED
  BY <1>1, <1>2, <1>3

\* update_discount_codes writes the columns ...
LEMMA WriteStep ==
  ASSUME IInv, NEW a \in Admins, UpdateWrite(a)
  PROVE  IInv' /\ OfferKept
<1> USE DEF IInv
<1> DEFINE new == [c \in Codes |-> IF c \in picked[a] THEN Changed(row[c], args[a]) ELSE row[c]]
<1>1. /\ args[a] \in Change /\ \A c \in picked[a] : c \in Codes /\ row[c] \in Terms
  BY DEF UpdateWrite, Work, Made, TypeOK
<1>2. \A c \in picked[a] : Changed(row[c], args[a]) \in Terms
  BY <1>1, ChangedType
<1>3. new \in [Codes -> Terms \cup {None}] /\ Write(new)
  BY <1>2 DEF UpdateWrite, TypeOK
<1> HIDE DEF new
<1>4. /\ pc' = [pc EXCEPT ![a] = "users"] /\ pc[a] = "write"
      /\ UNCHANGED <<day, items, codes, ordering, visit, redeemed, picked, held, args, runs, meant, settled>>
  BY DEF UpdateWrite, shop
<1>5. TypeOK'
  BY <1>3, <1>4, WriteType DEF TypeOK
<1>6. \A c \in Codes : row'[c] # row[c] =>
        c \in picked[a] /\ row'[c] # None /\ row'[c].users = row[c].users
  <2>1. \A c \in picked[a] : Changed(row[c], args[a]).users = row[c].users
    BY <1>1 DEF Changed, Terms
  <2> QED
    BY <1>2, <1>3, <2>1, DiscountNone DEF Write, new
<1>7. \A c \in Codes : row'[c] # row[c] => Those(row'[c].users) \subseteq meant'[c]
  BY <1>1, <1>4, <1>6, DiscountNone DEF Meant
<1>8. \A c \in settled : c \notin picked[a]
  BY <1>4 DEF Kept
<1> QED
  BY <1>4, <1>5, <1>6, <1>7, <1>8, SaveStep DEF TypeOK

\* ... and then the users.
LEMMA UsersStep ==
  ASSUME IInv, NEW a \in Admins, UpdateUsers(a)
  PROVE  IInv' /\ OfferKept
<1> USE DEF IInv
<1> DEFINE given(c) == [row[c] EXCEPT !.users = Given(args[a].users, row[c].users)]
           new      == [c \in Codes |-> IF c \in picked[a] THEN given(c) ELSE row[c]]
<1>1. /\ args[a] \in Change /\ args[a].users \in SUBSET SUBSET Users
      /\ \A c \in picked[a] : c \in Codes /\ row[c] \in Terms
  BY DEF UpdateUsers, Work, Made, TypeOK, Change
<1>2. \A c \in picked[a] : given(c) \in Terms
  <2> TAKE c \in picked[a]
  <2>1. Given(args[a].users, row[c].users) \in SUBSET Users
    <3>1. row[c].users \in SUBSET Users
      BY <1>1 DEF Terms
    <3>2. Given(args[a].users, row[c].users)
            \in args[a].users \cup {row[c].users}
      BY DEF Given
    <3> QED
      BY <1>1, <3>1, <3>2
  <2> QED
    BY <1>1, <2>1 DEF Terms
<1>3. new \in [Codes -> Terms \cup {None}] /\ Write(new)
  BY <1>2 DEF UpdateUsers, TypeOK
<1>4. /\ \A c \in picked[a] : row'[c].users = Given(args[a].users, row[c].users)
      /\ \A c \in Codes : row'[c] # row[c] => c \in picked[a] /\ row'[c] # None
  <2>1. \A c \in picked[a] : given(c).users = Given(args[a].users, row[c].users)
    BY <1>1 DEF Terms
  <2> QED
    BY <1>1, <1>2, <1>3, <2>1, DiscountNone DEF Write
<1> HIDE DEF new, given
<1>5. /\ Finish(a) /\ pc[a] = "users"
      /\ UNCHANGED <<day, items, codes, ordering, visit, redeemed, runs, settled>>
  BY DEF UpdateUsers, shop
<1>0. \A c \in settled : c \notin picked[a]
  BY <1>5 DEF Kept
<1>6. CASE args[a].users = {}
  <2>1. meant' = meant
    BY <1>6 DEF UpdateUsers
  <2>2. TypeOK'
    BY <1>3, <1>5, <2>1, WriteType, FinishType DEF TypeOK
  <2>3. \A c \in picked[a] : Those(row'[c].users) \subseteq meant'[c]
    BY <1>1, <1>4, <1>6, <2>1, DiscountNone DEF Meant, Given
  <2> QED
    BY <1>0, <1>4, <1>5, <2>1, <2>2, <2>3, SaveStep, FinishFacts DEF TypeOK
<1>7. CASE args[a].users # {}
  <2> DEFINE us == Given(args[a].users, {})
  <2>1. us \in SUBSET Users /\ Intend(picked[a], us)
    BY <1>1, <1>7 DEF UpdateUsers, Given
  <2>2. \A c \in picked[a] : row'[c].users = us
    BY <1>4, <1>7 DEF Given
  <2> HIDE DEF us
  <2>3. TypeOK'
    BY <1>3, <1>5, <2>1, WriteType, FinishType, IntendType DEF TypeOK
  <2>4. /\ \A c \in Codes : meant[c] \subseteq meant'[c]
        /\ \A c \in picked[a] : Those(row'[c].users) \subseteq meant'[c]
    BY <1>1, <2>1, <2>2 DEF Intend
  <2> QED
    BY <1>0, <1>4, <1>5, <2>3, <2>4, SaveStep, FinishFacts
<1> HIDE DEF IInv
<1> QED
  BY <1>6, <1>7

\* A code that is deactivated keeps its users, and all else as it was read.
LEMMA DeactivateStep ==
  ASSUME IInv, NEW a \in Admins, NEW c \in Codes, DeactivateSave(a, c)
  PROVE  IInv' /\ OfferKept
<1> USE DEF IInv
<1> DEFINE new == [held[a][c] EXCEPT !.until = day, !.users = row[c].users]
<1>1. /\ c \in picked[a] /\ pc[a] = "save" /\ held[a][c] \in Terms /\ row[c] \in Terms
  BY DEF DeactivateSave, Work, Made, TypeOK
<1>2. new \in Terms /\ new # None /\ new.users = row[c].users
  <2>1. day \in Dates /\ row[c].users \in SUBSET Users
    BY <1>1, Days DEF Terms, TypeOK
  <2>2. new \in Terms /\ new.users = row[c].users
    BY <1>1, <2>1 DEF Terms
  <2> QED
    BY <2>2, DiscountNone
<1>3. OfferOf(new) = <<held[a][c].kind, row[c].users, held[a][c].product, held[a][c].system>>
  BY <1>1 DEF OfferOf, Terms
<1>4. c \in settled => OfferOf(new) = OfferOf(row[c])
  BY <1>1, <1>3 DEF Kept, OfferOf
<1>5. row' = [row EXCEPT ![c] = new]
  BY DEF DeactivateSave
<1> HIDE DEF new
<1>6. /\ UNCHANGED <<day, items, codes, ordering, visit, redeemed, runs, meant, settled>>
      /\ closed' = closed \cup {c}
      /\ \/ Finish(a)
         \/ picked' = [picked EXCEPT ![a] = picked[a] \ {c}] /\ UNCHANGED <<pc, held, args>>
  BY DEF DeactivateSave, shop
<1>7. TypeOK'
  <2>1. row' \in [Codes -> Terms \cup {None}] /\ closed' \subseteq Codes
    BY <1>2, <1>5, <1>6 DEF TypeOK
  <2>2. CASE Finish(a)
    BY <1>6, <2>1, <2>2, FinishType DEF TypeOK
  <2>3. CASE picked' = [picked EXCEPT ![a] = picked[a] \ {c}] /\ UNCHANGED <<pc, held, args>>
    BY <1>6, <2>1, <2>3 DEF TypeOK
  <2> QED
    BY <1>6, <2>2, <2>3
<1>8. /\ \A d \in Codes : row'[d] = IF d = c THEN new ELSE row[d]
      /\ Those(new.users) \subseteq meant[c]
  BY <1>1, <1>2, <1>5, DiscountNone DEF TypeOK, Meant
<1>9. /\ \A b \in Admins : b # a =>
           pc'[b] = pc[b] /\ picked'[b] = picked[b] /\ held'[b] = held[b] /\ args'[b] = args[b]
      /\ \/ pc'[a] = "idle" /\ picked'[a] = {} /\ held'[a] = [d \in Codes |-> None]
         \/ /\ pc'[a] = "save" /\ picked'[a] \subseteq picked[a]
            /\ held'[a] = held[a] /\ args'[a] = args[a]
  BY <1>1, <1>6 DEF TypeOK, Finish
<1>10. /\ \A d \in Codes : row'[d] # row[d] =>
            d \in picked[a] /\ row'[d] # None /\ Those(row'[d].users) \subseteq meant'[d]
       /\ \A d \in Codes : meant[d] \subseteq meant'[d]
       /\ \A d \in settled : d \in picked[a] => OfferOf(row'[d]) = OfferOf(row[d])
       /\ UNCHANGED <<items, codes, ordering, visit, redeemed, settled>>
  BY <1>1, <1>2, <1>4, <1>6, <1>8 DEF TypeOK
<1> QED
  BY <1>1, <1>7, <1>9, <1>10, SaveStep

\* The form saves what it has shown.
LEMMA EditStep ==
  ASSUME IInv, NEW a \in Admins, NEW n \in Limits, EditSave(a, n)
  PROVE  IInv' /\ OfferKept
<1> USE DEF IInv
<1> DEFINE edited(c) == [held[a][c] EXCEPT !.limit = n]
           new       == [c \in Codes |-> IF c \in picked[a] THEN edited(c) ELSE row[c]]
<1>1. \A c \in picked[a] : c \in Codes /\ held[a][c] \in Terms /\ held[a][c] # None
  BY DEF EditSave, Work, TypeOK
<1>2. \A c \in picked[a] :
        /\ edited(c) \in Terms /\ edited(c) # None /\ edited(c).users = held[a][c].users
        /\ OfferOf(edited(c)) = OfferOf(held[a][c])
  <2> TAKE c \in picked[a]
  <2>1. held[a][c] \in Terms
    BY <1>1
  <2>2. edited(c) \in Terms
    BY <2>1 DEF Terms
  <2>3. edited(c).users = held[a][c].users /\ OfferOf(edited(c)) = OfferOf(held[a][c])
    BY <2>1 DEF Terms, OfferOf
  <2> QED
    BY <2>2, <2>3, DiscountNone
<1>3. new \in [Codes -> Terms \cup {None}] /\ Write(new)
  BY <1>2 DEF EditSave, TypeOK
<1>4. \A c \in Codes : row'[c] = IF c \in picked[a] THEN edited(c) ELSE row[c]
  BY <1>3 DEF Write
<1> HIDE DEF new, edited
<1>5. /\ Finish(a) /\ pc[a] = "form"
      /\ UNCHANGED <<day, items, codes, ordering, visit, redeemed, runs, meant, settled>>
  BY DEF EditSave, shop
<1>6. TypeOK'
  BY <1>3, <1>5, WriteType, FinishType DEF TypeOK
<1>7. \A c \in picked[a] : Those(row'[c].users) \subseteq meant'[c]
  BY <1>1, <1>2, <1>4, <1>5 DEF Meant
<1>8. \A c \in settled : c \in picked[a] => OfferOf(row'[c]) = OfferOf(row[c])
  BY <1>1, <1>2, <1>4 DEF Kept
<1>9. /\ \A c \in Codes : row'[c] # row[c] =>
           c \in picked[a] /\ row'[c] # None /\ Those(row'[c].users) \subseteq meant'[c]
      /\ \A c \in Codes : meant[c] \subseteq meant'[c]
  BY <1>2, <1>4, <1>5, <1>7
<1> QED
  BY <1>5, <1>6, <1>8, <1>9, SaveStep, FinishFacts

LEMMA InvStep == IInv /\ [Next]_vars => IInv' /\ OfferKept
<1> SUFFICES ASSUME IInv, [Next]_vars PROVE IInv' /\ OfferKept
    OBVIOUS
<1>1. CASE UNCHANGED vars
  BY <1>1 DEF vars, shop, admin, IInv, TypeOK, Work, Made, Meant, MeantForThem, Kept, IsRedeemed,
              OfferKept
<1>2. CASE NextDay
  <2>1. day' \in 0 .. MaxDay /\ closed' \subseteq Codes
    BY <1>2, DiscountConstants DEF NextDay, IInv, TypeOK, Made
  <2> QED
    BY <1>2, <2>1
       DEF NextDay, shop, admin, IInv, TypeOK, Work, Made, Meant, MeantForThem, Kept, IsRedeemed,
           OfferKept
<1>3. ASSUME NEW batch \in SUBSET Codes,
             GenerateCommand(batch) \/ \E s \in Systems : PostDiscounts(s, batch)
      PROVE  IInv' /\ OfferKept
  BY <1>3, OfferType, GenerateStep
<1>4. ASSUME \/ \E b \in Baskets : CheckOut(b) \/ Redeem(b) \/ Clear(b)
             \/ \E b \in Baskets, p \in Products : AddItem(b, p) \/ ChangeItem(b, p)
             \/ \E v \in Visits, b \in Baskets, c \in Codes :
                  FindAutomatic(v, b, c) \/ FindCode(v, b, c)
             \/ \E v \in Visits : CheckUsers(v) \/ CheckLimits(v) \/ AddCode(v)
      PROVE  IInv' /\ OfferKept
  <2>1. row' = row
    BY <1>4 DEF CheckOut, Redeem, Clear, AddItem, ChangeItem, FindAutomatic, FindCode, Read,
        CheckUsers, CheckLimits, Judge, AddCode
  <2> QED
    BY <1>4, <2>1, ShopStep, RedeemStep DEF OfferKept
<1>5. ASSUME NEW a \in Admins, NEW sel \in SUBSET Codes,
             \/ DeactivateLoad(a, sel) \/ update_discount_code(a, sel)
             \/ \E c \in Codes : EditOpen(a, c)
      PROVE  IInv' /\ OfferKept
  <2>1. row' = row
    BY <1>5 DEF DeactivateLoad, update_discount_code, UpdateSelect, EditOpen
  <2> QED
    BY <1>5, <2>1, ReadStep DEF OfferKept
<1>6. CASE \E a \in Admins, c \in Codes : EditOpen(a, c)
  <2>1. {} \in SUBSET Codes
    OBVIOUS
  <2> QED
    BY <1>5, <1>6, <2>1
<1> QED
  BY <1>1, <1>2, <1>3, <1>4, <1>5, <1>6, WriteStep, UsersStep, DeactivateStep, EditStep DEF Next

-----------------------------------------------------------------------------
(* Sums of redemptions.                                                    *)

SumOf(f) == MapThenSumSet(LAMBDA u : f[u], Users)

\* g adds up f over the sets of D, in the order of MapThenSumSet.
Adds(g, D, f) ==
  g = [s \in D |-> IF s = {} THEN 0
                   ELSE LET u == CHOOSE v \in s : TRUE IN f[u] + g[s \ {u}]]

\* The least number principle.
LEMMA Least ==
  ASSUME NEW T \in SUBSET Nat, T # {}
  PROVE  \E n \in T : \A m \in T : n <= m
<1>1. PICK n \in T : \A m \in T : ~ (<<m, n>> \in OpToRel(<, Nat))
  BY NatLessThanWellFounded, WFMin
<1>2. \A m \in T : ~ (m < n) /\ m \in Nat /\ n \in Nat
  BY <1>1 DEF OpToRel
<1> QED
  BY <1>2

\* MapThenSumSet is what such a g says, if there is one ...
LEMMA SumIs ==
  ASSUME NEW f, \E g : Adds(g, SUBSET Users, f)
  PROVE  \E g : Adds(g, SUBSET Users, f) /\ SumOf(f) = g[Users]
<1> DEFINE g == CHOOSE g : Adds(g, SUBSET Users, f)
<1>1. SumOf(f) = g[Users]
  BY DEF SumOf, MapThenSumSet, MapThenFoldSet, Adds
<1> QED
  BY <1>1

Upto(n) == {s \in SUBSET Users : Cardinality(s) <= n}

LEMMA Smaller ==
  ASSUME IsFiniteSet(Users), NEW s \in SUBSET Users, s # {}
  PROVE  LET u == CHOOSE v \in s : TRUE
         IN  /\ u \in Users /\ s \ {u} \in SUBSET Users
             /\ Cardinality(s) \in Nat /\ Cardinality(s \ {u}) \in Nat
             /\ Cardinality(s) = Cardinality(s \ {u}) + 1
<1> DEFINE u == CHOOSE v \in s : TRUE
<1>1. u \in s
  OBVIOUS
<1> HIDE DEF u
<1>2. IsFiniteSet(s) /\ Cardinality(s) \in Nat
  BY FS_Subset, FS_CardinalityType
<1>3. IsFiniteSet(s \ {u}) /\ Cardinality(s \ {u}) = Cardinality(s) - 1 /\ Cardinality(s \ {u}) \in Nat
  BY <1>1, <1>2, FS_RemoveElement, FS_CardinalityType
<1>4. Cardinality(s) = Cardinality(s \ {u}) + 1
  BY <1>2, <1>3
<1> QED
  BY <1>1, <1>2, <1>3, <1>4 DEF u

\* What is added for one set is added for those with one more element.
LEMMA AddsNext ==
  ASSUME IsFiniteSet(Users), NEW f, NEW n \in Nat, NEW g, Adds(g, Upto(n), f)
  PROVE  \E h : Adds(h, Upto(n + 1), f)
<1> DEFINE u(s) == CHOOSE v \in s : TRUE
           h == [s \in Upto(n + 1) |-> IF s = {} THEN 0 ELSE f[u(s)] + g[s \ {u(s)}]]
<1>1. \A s \in Upto(n) : g[s] = IF s = {} THEN 0 ELSE f[u(s)] + g[s \ {u(s)}]
  BY DEF Adds
<1>2. \A s \in Upto(n) : s \in Upto(n + 1)
  <2>1. \A s \in SUBSET Users : Cardinality(s) \in Nat
    BY FS_Subset, FS_CardinalityType
  <2> QED
    BY <2>1 DEF Upto
<1>3. \A s \in Upto(n + 1) : s # {} => s \ {u(s)} \in Upto(n)
  BY Smaller DEF Upto
<1> HIDE DEF u
<1>4. \A s \in Upto(n) : h[s] = g[s]
  BY <1>1, <1>2
<1>5. h = [s \in Upto(n + 1) |-> IF s = {} THEN 0 ELSE f[u(s)] + h[s \ {u(s)}]]
  <2>1. \A s \in Upto(n + 1) : s # {} => h[s \ {u(s)}] = g[s \ {u(s)}]
    BY <1>3, <1>4
  <2> QED
    BY <2>1
<1> HIDE DEF h
<1> QED
  BY <1>5 DEF Adds, u

\* ... and there is: no size of sets is the first without one.
LEMMA AddsAll ==
  ASSUME IsFiniteSet(Users), NEW f
  PROVE  \E g : Adds(g, SUBSET Users, f)
<1> DEFINE bad == {n \in Nat : ~ \E g : Adds(g, Upto(n), f)}
<1>1. 0 \notin bad
  <2>1. \A s \in Upto(0) : s = {}
    BY FS_EmptySet, FS_Subset, FS_CardinalityType DEF Upto
  <2>2. Adds([s \in Upto(0) |-> 0], Upto(0), f)
    BY <2>1 DEF Adds
  <2> QED
    BY <2>2
<1>2. ASSUME bad # {} PROVE FALSE
  <2>1. PICK n \in bad : \A m \in bad : n <= m
    BY <1>2, Least
  <2>2. n - 1 \in Nat /\ n - 1 \notin bad /\ (n - 1) + 1 = n
    BY <1>1, <2>1
  <2>3. PICK g : Adds(g, Upto(n - 1), f)
    BY <2>2
  <2> QED
    BY <2>1, <2>2, <2>3, AddsNext
<1>3. Cardinality(Users) \in Nat /\ Upto(Cardinality(Users)) = SUBSET Users
  BY FS_Subset, FS_CardinalityType DEF Upto
<1> QED
  BY <1>2, <1>3

\* A sum of more is more: no set is a smallest one for which it is not.
LEMMA SumGrows ==
  ASSUME IsFiniteSet(Users), NEW f \in [Users -> Nat], NEW h \in [Users -> Nat],
         \A u \in Users : f[u] <= h[u]
  PROVE  SumOf(f) \in Nat /\ SumOf(h) \in Nat /\ SumOf(f) <= SumOf(h)
<1>1. PICK F : Adds(F, SUBSET Users, f) /\ SumOf(f) = F[Users]
  BY AddsAll, SumIs
<1>2. PICK H : Adds(H, SUBSET Users, h) /\ SumOf(h) = H[Users]
  BY AddsAll, SumIs
<1> DEFINE good(s) == F[s] \in Nat /\ H[s] \in Nat /\ F[s] <= H[s]
           bad == {s \in SUBSET Users : ~ good(s)}
           u(s) == CHOOSE v \in s : TRUE
<1>3. /\ \A s \in SUBSET Users : F[s] = IF s = {} THEN 0 ELSE f[u(s)] + F[s \ {u(s)}]
      /\ \A s \in SUBSET Users : H[s] = IF s = {} THEN 0 ELSE h[u(s)] + H[s \ {u(s)}]
  BY <1>1, <1>2 DEF Adds
<1>4. \A s \in bad : Cardinality(s) \in Nat
  BY FS_Subset, FS_CardinalityType
<1>6. good({})
  <2>1. F[{}] = 0 /\ H[{}] = 0
    BY <1>3
  <2> QED
    BY <2>1
<1>5. ASSUME bad # {} PROVE FALSE
  <2> DEFINE sizes == {Cardinality(s) : s \in bad}
  <2>0. sizes \in SUBSET Nat /\ sizes # {}
    BY <1>4, <1>5
  <2> HIDE DEF sizes
  <2>1. PICK n \in sizes : \A m \in sizes : n <= m
    BY <2>0, Least
  <2>2. PICK s \in bad : n = Cardinality(s)
    BY <2>1 DEF sizes
  <2>3. s # {}
    BY <1>6
  <2>4. /\ u(s) \in Users /\ s \ {u(s)} \in SUBSET Users
        /\ Cardinality(s) = Cardinality(s \ {u(s)}) + 1 /\ Cardinality(s \ {u(s)}) \in Nat
    BY <2>3, Smaller
  <2> HIDE DEF u, good
  <2>5. good(s \ {u(s)})
    BY <2>1, <2>2, <2>4 DEF sizes
  <2>6. good(s)
    <3> DEFINE x == u(s)
               t == s \ {u(s)}
    <3>1. F[s] = f[x] + F[t] /\ H[s] = h[x] + H[t]
      BY <1>3, <2>3
    <3>2. f[x] \in Nat /\ h[x] \in Nat /\ f[x] <= h[x]
      BY <2>4
    <3>3. F[t] \in Nat /\ H[t] \in Nat /\ F[t] <= H[t]
      BY <2>5 DEF good
    <3> HIDE DEF x, t
    <3> QED
      BY <3>1, <3>2, <3>3 DEF good
  <2> QED
    BY <2>6
<1> QED
  BY <1>1, <1>2, <1>5

LEMMA CountIs ==
  ASSUME NEW c
  PROVE  Count(c) = SumOf(redeemed[c]) /\ Count(c)' = SumOf(redeemed'[c])
BY DEF Count, SumOf, MapThenSumSet, MapThenFoldSet

LEMMA CountGrows ==
  ASSUME TypeOK, TypeOK', NEW c \in Codes,
         \A u \in Users : redeemed[c][u] <= redeemed'[c][u]
  PROVE  Count(c) \in Nat /\ Count(c)' \in Nat /\ Count(c) <= Count(c)'
<1>1. redeemed[c] \in [Users -> Nat] /\ redeemed'[c] \in [Users -> Nat]
  BY DiscountConstants DEF TypeOK
<1> QED
  BY <1>1, CountIs, SumGrows, DiscountConstants

LEMMA TermsNat ==
  ASSUME NEW t \in Terms
  PROVE  t.until \in Nat /\ t.limit \in Nat
<1>1. t.until \in Dates /\ t.limit \in Limits
  BY DEF Terms
<1>2. Dates \subseteq Nat /\ Limits \subseteq Nat
  BY DiscountConstants DEF Dates, Never
<1> QED
  BY <1>1, <1>2

-----------------------------------------------------------------------------
(* Closed codes.                                                           *)

\* Closed codes keep their rows, are redeemed no less, and the day passes.
LEMMA ShutRows ==
  ASSUME TypeOK, TypeOK', Shut,
         day <= day', closed' \subseteq closed,
         \A c \in closed' : row'[c] = row[c],
         \A c \in Codes, u \in Users : redeemed[c][u] <= redeemed'[c][u]
  PROVE  Shut'
<1> SUFFICES ASSUME NEW c \in closed'
             PROVE  /\ row'[c] # None
                    /\ \/ row'[c].until <= day'
                       \/ row'[c].limit > 0 /\ Count(c)' >= row'[c].limit
    BY DEF Shut
<1>1. c \in Codes /\ c \in closed /\ row'[c] = row[c] /\ row[c] # None
  BY DEF TypeOK, Shut
<1>2. row[c] \in Terms
  BY <1>1 DEF TypeOK
<1>3. row[c].until \in Nat /\ row[c].limit \in Nat /\ day \in Nat /\ day' \in Nat
  BY <1>2, TermsNat, DiscountConstants DEF TypeOK
<1>4. Count(c) \in Nat /\ Count(c)' \in Nat /\ Count(c) <= Count(c)'
  BY <1>1, CountGrows
<1>5. row[c].until <= day \/ (row[c].limit > 0 /\ Count(c) >= row[c].limit)
  BY <1>1 DEF Shut
<1> QED
  BY <1>1, <1>3, <1>4, <1>5

LEMMA ShutStep ==
  ASSUME IInv, IInv', Shut, [Next]_vars
  PROVE  Shut'
<1> USE DEF IInv
<1>0. \A c \in Codes, u \in Users : redeemed[c][u] \in Nat
  BY DiscountConstants DEF TypeOK
<1>1. ASSUME UNCHANGED <<day, redeemed>>, \A c \in closed' : row'[c] = row[c], closed' \subseteq closed
      PROVE  Shut'
  <2>1. day \in Nat
    BY DEF TypeOK
  <2> QED
    BY <1>0, <1>1, <2>1, ShutRows
<1>2. ASSUME NEW new, Write(new), UNCHANGED <<day, redeemed>>
      PROVE  Shut'
  <2>1. closed' \subseteq closed /\ \A c \in closed' : row'[c] = row[c]
    BY <1>2 DEF Write, TypeOK
  <2> QED
    BY <1>1, <1>2, <2>1
<1>3. CASE NextDay
  <2>1. day \in Nat /\ day' = day + 1 /\ UNCHANGED <<row, redeemed>>
    BY <1>3 DEF NextDay, TypeOK
  <2>2. \A c \in Codes : row[c] # None => row[c].until \in Nat
    BY DiscountConstants DEF TypeOK, Terms, Dates, Never
  <2>3. \A c \in Codes : Count(c)' = Count(c)
    BY <2>1, CountIs
  <2>4. \A c \in closed' : c \in closed \/ (row[c] # None /\ row[c].until <= day')
    BY <1>3, <2>1 DEF NextDay, Made
  <2> QED
    BY <2>1, <2>2, <2>3, <2>4 DEF Shut, TypeOK
<1>4. ASSUME NEW b \in Baskets, Redeem(b)
      PROVE  Shut'
  <2>1. /\ UNCHANGED <<day, row>> /\ day \in Nat
        /\ \A c \in Codes : redeemed'[c] = IF c \in codes[b]
                                           THEN [redeemed[c] EXCEPT ![OwnerOf[b]] = @ + 1]
                                           ELSE redeemed[c]
        /\ closed' = closed \cup {c \in codes[b] : UsedUp(c)}
    BY <1>4 DEF Redeem, TypeOK
  <2>2. \A c \in Codes, u \in Users : redeemed[c][u] <= redeemed'[c][u]
    <3> TAKE c \in Codes, u \in Users
    <3>1. redeemed'[c][u] \in {redeemed[c][u], redeemed[c][u] + 1}
      <4> DEFINE old == redeemed[c]
      <4>1. DOMAIN old = Users
        BY DEF TypeOK
      <4>2. redeemed'[c] \in {old, [old EXCEPT ![OwnerOf[b]] = old[OwnerOf[b]] + 1]}
        BY <2>1
      <4> QED
        BY <4>1, <4>2
    <3> QED
      BY <1>0, <3>1
  <2>3. ASSUME NEW c \in closed
        PROVE  /\ row'[c] # None
               /\ \/ row'[c].until <= day'
                  \/ row'[c].limit > 0 /\ Count(c)' >= row'[c].limit
    <3>1. c \in Codes /\ row[c] # None
      BY DEF Shut, TypeOK
    <3>2. Count(c) \in Nat /\ Count(c)' \in Nat /\ Count(c) <= Count(c)'
      BY <2>2, <3>1, CountGrows
    <3>3. row[c].limit \in Nat
      BY <3>1, DiscountConstants DEF TypeOK, Terms
    <3> QED
      BY <2>1, <3>1, <3>2, <3>3 DEF Shut
  <2>4. \A c \in codes[b] : row[c] # None
    BY DEF Work, Made
  <2> QED
    BY <2>1, <2>3, <2>4 DEF Shut, UsedUp
<1>5. ASSUME NEW a \in Admins, NEW c \in Codes, DeactivateSave(a, c)
      PROVE  Shut'
  <2>1. /\ UNCHANGED <<day, redeemed>> /\ day \in Nat
        /\ closed' = closed \cup {c}
        /\ held[a][c] \in Terms
        /\ row' = [row EXCEPT ![c] = [held[a][c] EXCEPT !.until = day, !.users = row[c].users]]
    BY <1>5 DEF DeactivateSave, Work, TypeOK
  <2>2. row'[c] # None /\ row'[c].until <= day
    <3>1. row'[c].until = day
      BY <2>1 DEF Terms, TypeOK
    <3>2. c \in picked[a] /\ c \in Made'
      <4>1. c \in picked[a] /\ row[c] # None
        BY <1>5 DEF DeactivateSave, Work, Made
      <4>2. row'[c] # None
        <5>1. row[c].users \in SUBSET Users /\ day \in Dates
          BY <4>1, Days DEF TypeOK, Terms
        <5>2. row'[c] \in Terms
          BY <2>1, <5>1 DEF TypeOK, Terms
        <5> QED
          BY <5>2, DiscountNone
      <4> QED
        BY <4>1, <4>2 DEF Made
    <3> QED
      BY <2>1, <3>1, <3>2 DEF Made
  <2>3. \A d \in Codes : Count(d)' = Count(d) /\ (d # c => row'[d] = row[d])
    BY <2>1, CountIs DEF TypeOK
  <2> QED
    BY <2>1, <2>2, <2>3 DEF Shut, TypeOK
<1>6. CASE UNCHANGED <<day, row, redeemed, closed>>
  BY <1>1, <1>6
<1>7. ASSUME NEW batch, GenerateCommand(batch) \/ \E s \in Systems : PostDiscounts(s, batch)
      PROVE  Shut'
  <2> PICK k \in Offer : generate_discount_code(batch, k)
    BY <1>7, OfferType
  <2>1. UNCHANGED <<day, redeemed>> /\ \E new : Write(new)
    BY DEF generate_discount_code
  <2> QED
    BY <1>2, <2>1
<1>8. ASSUME NEW a \in Admins, UpdateWrite(a) \/ UpdateUsers(a) \/ \E n \in Limits : EditSave(a, n)
      PROVE  Shut'
  <2>1. UNCHANGED <<day, redeemed>> /\ \E new : Write(new)
    BY <1>8 DEF UpdateWrite, UpdateUsers, EditSave
  <2> QED
    BY <1>2, <2>1
<1>9. CASE \/ UNCHANGED vars
           \/ \E b \in Baskets : CheckOut(b) \/ Clear(b)
           \/ \E b \in Baskets, p \in Products : AddItem(b, p) \/ ChangeItem(b, p)
           \/ \E v \in Visits, b \in Baskets, c \in Codes :
                FindAutomatic(v, b, c) \/ FindCode(v, b, c)
           \/ \E v \in Visits : CheckUsers(v) \/ CheckLimits(v) \/ AddCode(v)
           \/ \E a \in Admins, sel \in SUBSET Codes :
                DeactivateLoad(a, sel) \/ update_discount_code(a, sel)
           \/ \E a \in Admins, c \in Codes : EditOpen(a, c)
  <2>1. UNCHANGED <<day, row, redeemed, closed>>
    BY <1>9 DEF vars, CheckOut, Clear, AddItem, ChangeItem, FindAutomatic, FindCode, Read,
        CheckUsers, CheckLimits, Judge, AddCode, DeactivateLoad, update_discount_code,
                UpdateSelect, EditOpen
  <2> QED
    BY <1>6, <2>1
<1> QED
  BY <1>3, <1>4, <1>5, <1>7, <1>8, <1>9 DEF Next

\* What has been read of a code came to its end, or allows no more redemptions.
Past(t, c)     == t.until <= day \/ (t.limit > 0 /\ SumOf(redeemed[c]) >= t.limit)
PastNext(t, c) == t.until <= day' \/ (t.limit > 0 /\ SumOf(redeemed'[c]) >= t.limit)

\* A code that was closed when it was read does not pass.
ShutOut ==
  \A v \in Visits : visit[v] # None /\ visit[v].shut =>
    visit[v].stage # "valid" /\ Past(visit[v].row, visit[v].code)

\* Days pass and redemptions are counted, and neither is undone.
LEMMA TimePasses ==
  ASSUME IInv, IInv', [Next]_vars
  PROVE  /\ day \in Nat /\ day' \in Nat /\ day <= day'
         /\ \A c \in Codes : /\ SumOf(redeemed[c]) \in Nat /\ SumOf(redeemed'[c]) \in Nat
                              /\ SumOf(redeemed[c]) <= SumOf(redeemed'[c])
<1> USE DEF IInv
<1>0. /\ \A c \in Codes, u \in Users : redeemed[c][u] \in Nat
      /\ day \in Nat /\ day' \in Nat
  BY DiscountConstants DEF TypeOK
<1>1. CASE \E b \in Baskets : Redeem(b)
  <2> PICK b \in Baskets : Redeem(b)
    BY <1>1
  <2>1. day' = day
    BY DEF Redeem
  <2>2. \A c \in Codes : redeemed'[c] = IF c \in codes[b]
                                         THEN [redeemed[c] EXCEPT ![OwnerOf[b]] = @ + 1]
                                         ELSE redeemed[c]
    BY DEF Redeem
  <2>3. ASSUME NEW c \in Codes, NEW u \in Users PROVE redeemed[c][u] <= redeemed'[c][u]
    <3> DEFINE old == redeemed[c]
    <3>1. DOMAIN old = Users
      BY DEF TypeOK
    <3>2. redeemed'[c] \in {old, [old EXCEPT ![OwnerOf[b]] = old[OwnerOf[b]] + 1]}
      BY <2>2
    <3>3. redeemed'[c][u] \in {old[u], old[u] + 1}
      BY <3>1, <3>2
    <3> QED
      BY <1>0, <3>3
  <2>4. ASSUME NEW c \in Codes
        PROVE  /\ SumOf(redeemed[c]) \in Nat /\ SumOf(redeemed'[c]) \in Nat
               /\ SumOf(redeemed[c]) <= SumOf(redeemed'[c])
    <3>1. redeemed[c] \in [Users -> Nat] /\ redeemed'[c] \in [Users -> Nat]
      BY DiscountConstants DEF TypeOK
    <3> QED
      BY <2>3, <3>1, SumGrows, DiscountConstants
  <2>5. day <= day'
    BY <1>0, <2>1
  <2> QED
    BY <1>0, <2>4, <2>5
<1>2. CASE redeemed' = redeemed /\ (day' = day \/ day' = day + 1)
  <2>1. ASSUME NEW c \in Codes
        PROVE  SumOf(redeemed[c]) \in Nat /\ SumOf(redeemed[c]) <= SumOf(redeemed[c])
    <3>1. redeemed[c] \in [Users -> Nat] /\ \A u \in Users : redeemed[c][u] <= redeemed[c][u]
      BY <1>0, DiscountConstants DEF TypeOK
    <3> QED
      BY <3>1, SumGrows, DiscountConstants
  <2>2. day <= day'
    BY <1>0, <1>2
  <2> QED
    BY <1>0, <1>2, <2>1, <2>2
<1>3. CASE ~ \E b \in Baskets : Redeem(b)
  <2>1. redeemed' = redeemed /\ (day' = day \/ day' = day + 1)
    BY <1>3 DEF Next, vars, CheckOut, Clear, AddItem, ChangeItem, FindAutomatic, FindCode, Read,
        CheckUsers, CheckLimits, Judge, AddCode, NextDay, GenerateCommand, PostDiscounts,
       generate_discount_code, DeactivateLoad, update_discount_code, UpdateSelect,
       DeactivateSave, EditOpen, UpdateWrite, UpdateUsers, EditSave
  <2> QED
    BY <1>2, <2>1
<1> QED
  BY <1>1, <1>3

\* What is past stays past, and what is past does not pass is_valid.
LEMMA ShutOutStep ==
  ASSUME IInv, IInv', Shut, ShutOut, [Next]_vars
  PROVE  ShutOut'
<1> SUFFICES ASSUME NEW v \in Visits, visit'[v] # None, visit'[v].shut
             PROVE  visit'[v].stage # "valid" /\ PastNext(visit'[v].row, visit'[v].code)
    BY DEF ShutOut, Past, PastNext
<1>1. /\ day \in Nat /\ day' \in Nat /\ day <= day'
      /\ \A c \in Codes : /\ SumOf(redeemed[c]) \in Nat /\ SumOf(redeemed'[c]) \in Nat
                           /\ SumOf(redeemed[c]) <= SumOf(redeemed'[c])
  BY TimePasses
<1>2. ASSUME visit[v] # None, visit[v].shut,
             visit'[v].row = visit[v].row, visit'[v].code = visit[v].code
      PROVE  PastNext(visit'[v].row, visit'[v].code)
  <2> DEFINE t == visit[v].row
             c == visit[v].code
  <2>1. t \in Terms /\ c \in Codes
    BY <1>2, VisitFacts
  <2>2. t.until \in Nat /\ t.limit \in Nat
    BY <2>1, TermsNat
  <2>3. t.until <= day \/ (t.limit > 0 /\ SumOf(redeemed[c]) >= t.limit)
    BY <1>2 DEF ShutOut, Past
  <2> HIDE DEF t, c
  <2>4. t.until <= day' \/ (t.limit > 0 /\ SumOf(redeemed'[c]) >= t.limit)
    BY <1>1, <2>1, <2>2, <2>3
  <2> QED
    BY <1>2, <2>4 DEF PastNext, t, c
<1>3. CASE visit'[v] = visit[v]
  BY <1>2, <1>3 DEF ShutOut
<1>4. ASSUME NEW b \in Baskets, NEW c \in Codes, FindAutomatic(v, b, c) \/ FindCode(v, b, c)
      PROVE  visit'[v].stage # "valid" /\ PastNext(visit'[v].row, visit'[v].code)
  <2> DEFINE copy == [row[c] EXCEPT !.users = {}]
             to   == [basket |-> b, code |-> c, row |-> copy, stage |-> "found",
                      shut |-> c \in closed]
  <2>1. Read(v, b, c) /\ row[c] \in Terms
    BY <1>4, ReadCode
  <2>2. copy.until = row[c].until /\ copy.limit = row[c].limit
    BY <2>1 DEF Terms
  <2>3. visit'[v] = to /\ UNCHANGED <<day, redeemed>>
    BY <2>1 DEF Read, IInv, TypeOK
  <2> HIDE DEF copy
  <2>4. /\ visit'[v].row = copy /\ visit'[v].code = c /\ visit'[v].stage = "found"
        /\ c \in closed
    <3>1. visit'[v].row = copy /\ visit'[v].code = c /\ visit'[v].stage = "found"
      BY <2>3
    <3>2. c \in closed
      <4>1. to.shut = (c \in closed)
        BY Zenon
      <4>2. to.shut
        BY <2>3, Zenon
      <4> HIDE DEF to
      <4> QED
        BY <4>1, <4>2, Zenon
    <3> QED
      BY <3>1, <3>2
  <2>5. copy.until <= day \/ (copy.limit > 0 /\ SumOf(redeemed[c]) >= copy.limit)
    BY <2>2, <2>4, CountIs DEF Shut
  <2> QED
    BY <2>3, <2>4, <2>5 DEF PastNext
<1>5. CASE CheckUsers(v) \/ CheckLimits(v)
  <2>1. /\ visit'[v].stage = IF CheckUsers(v) THEN "theirs" ELSE "valid"
        /\ visit'[v].code = visit[v].code
        /\ visit'[v].row = visit[v].row /\ visit'[v].shut = visit[v].shut
        /\ CheckLimits(v) => LimitLeft(visit[v].row, visit[v].code) /\ InForce(visit[v].row)
    BY <1>5, JudgeStep
  <2>2. visit[v] # None
    BY <1>5 DEF CheckUsers, CheckLimits
  <2>3. ~ CheckLimits(v)
    <3> SUFFICES ASSUME CheckLimits(v) PROVE FALSE
        OBVIOUS
    <3> DEFINE t == visit[v].row
               c == visit[v].code
    <3>1. t \in Terms /\ c \in Codes
      BY <2>2, VisitFacts
    <3>2. t.until \in Nat /\ t.limit \in Nat
      BY <3>1, TermsNat
    <3>3. t.until <= day \/ (t.limit > 0 /\ SumOf(redeemed[c]) >= t.limit)
      BY <2>1, <2>2 DEF ShutOut, Past
    <3>4. day < t.until /\ (t.limit = 0 \/ SumOf(redeemed[c]) < t.limit)
      BY <2>1, CountIs DEF LimitLeft, InForce
    <3> HIDE DEF t, c
    <3> QED
      BY <1>1, <3>1, <3>2, <3>3, <3>4
  <2> QED
    BY <1>2, <1>5, <2>1, <2>2, <2>3
<1>6. CASE \E w \in Visits \ {v} :
             \/ \E b \in Baskets, c \in Codes : FindAutomatic(w, b, c) \/ FindCode(w, b, c)
             \/ CheckUsers(w) \/ CheckLimits(w) \/ AddCode(w)
  <2>1. visit'[v] = visit[v]
    BY <1>6 DEF FindAutomatic, FindCode, Read, CheckUsers, CheckLimits, Judge, AddCode, IInv, TypeOK
  <2> QED
    BY <1>3, <2>1
<1>7. CASE AddCode(v)
  BY <1>7 DEF AddCode, IInv, TypeOK
<1>8. CASE UNCHANGED visit
  BY <1>3, <1>8
<1>9. ASSUME NEW a \in Admins,
             \/ \E sel \in SUBSET Codes : DeactivateLoad(a, sel) \/ update_discount_code(a, sel)
             \/ \E c \in Codes : DeactivateSave(a, c) \/ EditOpen(a, c)
             \/ UpdateWrite(a) \/ UpdateUsers(a) \/ \E n \in Limits : EditSave(a, n)
      PROVE  UNCHANGED visit
  BY <1>9 DEF DeactivateLoad, update_discount_code, UpdateSelect, DeactivateSave, EditOpen,
              UpdateWrite, UpdateUsers, EditSave
<1>10. CASE \/ UNCHANGED vars \/ NextDay
            \/ \E b \in Baskets : CheckOut(b) \/ Redeem(b) \/ Clear(b)
            \/ \E b \in Baskets, p \in Products : AddItem(b, p) \/ ChangeItem(b, p)
            \/ \E batch \in SUBSET Codes :
                 GenerateCommand(batch) \/ \E s \in Systems : PostDiscounts(s, batch)
  BY <1>8, <1>10 DEF vars, NextDay, CheckOut, Redeem, Clear, AddItem, ChangeItem, GenerateCommand,
                     PostDiscounts, generate_discount_code
<1> QED
  BY <1>4, <1>5, <1>6, <1>7, <1>8, <1>9, <1>10 DEF Next

\* Who puts the code on the basket has not read it closed.
OpenWhenRead(b, c) ==
  \E v \in Visits : /\ visit[v] # None /\ ~ visit[v].shut
                     /\ visit[v].basket = b /\ visit[v].code = c

\* ClosedStaysClosed of one step.
LEMMA ClosedStep ==
  ASSUME IInv, ShutOut, [Next]_vars, NEW b \in Baskets, NEW c \in codes'[b] \ codes[b]
  PROVE  OpenWhenRead(b, c)
<1> USE DEF IInv
<1>1. ASSUME NEW v \in Visits, AddCode(v) PROVE OpenWhenRead(b, c)
  <2>1. visit[v] # None /\ ~ visit[v].shut
    BY <1>1 DEF AddCode, ShutOut
  <2>2. visit[v].basket = b /\ visit[v].code = c
    BY <1>1, <2>1, VisitFacts DEF AddCode, TypeOK
  <2> QED
    BY <2>1, <2>2 DEF OpenWhenRead
<1>2. CASE \E d \in Baskets : CheckOut(d) \/ Redeem(d) \/ Clear(d)
  BY <1>2 DEF CheckOut, Redeem, Clear, TypeOK
<1>3. CASE \/ UNCHANGED vars \/ NextDay
           \/ \E d \in Baskets, p \in Products : AddItem(d, p) \/ ChangeItem(d, p)
           \/ \E v \in Visits, d \in Baskets, e \in Codes :
                FindAutomatic(v, d, e) \/ FindCode(v, d, e)
           \/ \E v \in Visits : CheckUsers(v) \/ CheckLimits(v)
           \/ \E batch \in SUBSET Codes :
                GenerateCommand(batch) \/ \E s \in Systems : PostDiscounts(s, batch)
  BY <1>3
     DEF vars, shop, NextDay, AddItem, ChangeItem, FindAutomatic, FindCode, Read,
        CheckUsers, CheckLimits,
         Judge, GenerateCommand, PostDiscounts, generate_discount_code
<1>4. ASSUME NEW a \in Admins,
             \/ \E sel \in SUBSET Codes : DeactivateLoad(a, sel) \/ update_discount_code(a, sel)
             \/ \E d \in Codes : DeactivateSave(a, d) \/ EditOpen(a, d)
             \/ UpdateWrite(a) \/ UpdateUsers(a) \/ \E n \in Limits : EditSave(a, n)
      PROVE  UNCHANGED codes
  BY <1>4 DEF shop, DeactivateLoad, update_discount_code, UpdateSelect, DeactivateSave, EditOpen,
              UpdateWrite, UpdateUsers, EditSave
<1> QED
  BY <1>1, <1>2, <1>3, <1>4 DEF Next

-----------------------------------------------------------------------------
(* The theorems.                                                           *)

\* The invariant holds in every reachable state.
THEOREM Invariance == Spec => []IInv
BY InitInv, InvStep, PTL DEF Spec

\* TypeOK is an invariant.
THEOREM TypeCorrect == Spec => []TypeOK
<1>1. IInv => TypeOK
  BY DEF IInv
<1> QED
  BY <1>1, Invariance, PTL

\* Nobody has or redeems a code that no administrator wanted them to have.
THEOREM OnlyForThem == Spec => []MeantForThem
<1>1. IInv => MeantForThem
  BY DEF IInv, Meant
<1> QED
  BY <1>1, Invariance, PTL

\* What a redeemed one-time code offers is never changed.
THEOREM SettledForGood == Spec => SettledIsKept
<1>1. IInv /\ [Next]_vars => [\A c \in settled : OfferOf(row'[c]) = OfferOf(row[c])]_vars
  BY InvStep DEF OfferKept
<1> QED
  BY <1>1, Invariance, PTL DEF Spec, SettledIsKept

\* Who reads a code after it was deactivated, has expired or is used up puts it on no
\* basket, however often codes are redeemed and whatever administrators write until it
\* is looked at: what was read is what is looked at.
THEOREM ClosedForGood == Spec => ClosedStaysClosed
<1>1. Init => Shut /\ ShutOut
  BY DEF Init, Shut, ShutOut
<1>2. IInv /\ Shut /\ ShutOut /\ [Next]_vars => Shut' /\ ShutOut'
  BY InvStep, ShutStep, ShutOutStep
<1>3. IInv /\ ShutOut /\ [Next]_vars
        => [\A b \in Baskets : \A c \in codes'[b] \ codes[b] :
              \E v \in Visits : /\ visit[v] # None /\ ~ visit[v].shut
                                 /\ visit[v].basket = b /\ visit[v].code = c]_vars
  BY ClosedStep DEF OpenWhenRead
<1> QED
  BY <1>1, <1>2, <1>3, Invariance, PTL DEF Spec, ClosedStaysClosed

=============================================================================
