------------------------------ MODULE Discounts ------------------------------
(***************************************************************************)
(* The life of discount codes: the Discount model, the functions of        *)
(* payments/api.py that generate and update codes, the three management    *)
(* commands and the two endpoints, and the baskets and redemptions as far  *)
(* as codes meet them.                                                     *)
(*                                                                         *)
(* Codes are generated in batches, each code in a transaction of its own.  *)
(* They are put on baskets by customers, or by the shop if they are        *)
(* automatic: a request reads the code, looks at it (is_valid) and adds    *)
(* it, each in a statement of its own; nobody looks at it again.  Each     *)
(* checkout redeems what is on the basket.  Administrators update,         *)
(* deactivate and edit codes meanwhile; deactivation and the admin form    *)
(* save whole rows that they have read before.                             *)
(*                                                                         *)
(* Time is in days.  The dates of a code are midnights, the time it is     *)
(* compared with is later in the day: a code is redeemable on the day it   *)
(* activates, and not on the day it expires.                               *)
(***************************************************************************)
EXTENDS Naturals, FiniteSetsExt

CONSTANTS
  Codes,           \* discount codes that may be generated
  Users,
  Baskets,         \* one for each user and system
  OwnerOf,         \* a basket's user
  ShopOf,          \* a basket's integrated system
  Products,
  Systems,
  SystemOf,        \* a product's system
  Saving,          \* how good a code is (amount and discount_type)
  Offers,          \* arguments of generate_discount_code
  Changes,         \* arguments of update_discount_codes
  Visits,          \* codes that requests are about to put on baskets, at most at once
  Admins,          \* runs of commands and admin forms, at most at once
  MaxDay, MaxRows, MaxRuns, Limits, \* bounds: days, redemptions, runs, max_redemptions set
  Unknown,         \* a name that nobody and nothing has
  None

Kinds == {"one-time", "one-time-per-user", "unlimited"}
Never == MaxDay + 1     \* no expiration_date
Dates == 0 .. Never     \* 0: no activation_date

\* A Discount row, and what the other arguments of the functions say.
Terms == [kind : Kinds, limit : Limits, users : SUBSET Users,
          product : Products \cup {None}, system : Systems \cup {None},
          from : Dates, until : Dates, auto : BOOLEAN]
\* percent: how much a percentage takes off, 0 in the other discounts.
Offer == [one_time : BOOLEAN, once_per_user : BOOLEAN, redemption_type : Kinds \cup {None},
          prefix : BOOLEAN, percent : Nat, users : SUBSET (Users \cup {Unknown}),
          product : Products \cup {None, Unknown}, system : Systems \cup {None, Unknown},
          from : Dates, until : Dates, auto : BOOLEAN]
\* The values given for an argument, none or one; None clears (the --clear flags).
Change == [one_time : BOOLEAN, users : SUBSET SUBSET Users, product : SUBSET (Products \cup {None}),
           system : SUBSET (Systems \cup {None}), until : SUBSET Dates]
\* A code that a request has read for a basket.  The users are not in its row.
Stages == {"found", "theirs", "valid"}
Visit == [basket : Baskets, code : Codes, row : Terms, stage : Stages,
          shut : BOOLEAN]      \* history: it was closed when it was read

ASSUME DiscountConstants ==
  /\ IsFiniteSet(Users)
  /\ OwnerOf \in [Baskets -> Users] /\ ShopOf \in [Baskets -> Systems]
  /\ SystemOf \in [Products -> Systems]
  /\ Saving \in [Codes -> Nat]
  /\ Offers \subseteq Offer /\ Changes \subseteq Change
  /\ MaxDay \in Nat /\ MaxRows \in Nat /\ MaxRuns \in Nat
  /\ 0 \in Limits /\ Limits \subseteq Nat

ASSUME DiscountNone ==
  /\ None \notin Products \cup Systems \cup Terms \cup Kinds \cup Visit
  /\ Unknown \notin Users \cup Products \cup Systems \cup {None}

VARIABLES
  day,
  row,       \* row[c]: the Discount row of code c, None until it is generated
  items,     \* items[b]: products in basket b
  codes,     \* codes[b]: Basket.discounts
  ordering,  \* baskets whose order is committed and whose codes are not yet redeemed
  visit,     \* visit[v]: a code on its way to a basket, or None
  redeemed,  \* redeemed[c][u]: RedeemedDiscount rows of the user's orders
  \* runs of commands and forms
  pc,        \* pc[a]: "idle", "write", "users" (update), "save" (deactivate), "form"
  picked,    \* picked[a]: codes it works on
  held,      \* held[a]: rows as it has read them
  args,      \* args[a]: the arguments of the update
  runs,      \* runs so far
  \* history
  meant,     \* meant[c]: users that administrators have wanted to have c
  closed,    \* codes deactivated, expired or used up, and not written again since
  settled    \* one-time codes redeemed while no run worked on them

shop     == <<items, codes, ordering>>
admin    == <<pc, picked, held, args, runs>>
vars     == <<day, row, shop, visit, redeemed, admin, meant, closed, settled>>

Made == {c \in Codes : row[c] # None}
Count(c) == MapThenSumSet(LAMBDA u : redeemed[c][u], Users)
IsRedeemed(c) == \E u \in Users : redeemed[c][u] > 0
Those(users) == IF users = {} THEN Users ELSE users

TypeOK ==
  /\ day \in 0 .. MaxDay
  /\ row \in [Codes -> Terms \cup {None}]
  /\ items \in [Baskets -> SUBSET Products]
  /\ codes \in [Baskets -> SUBSET Codes]
  /\ ordering \subseteq Baskets
  /\ visit \in [Visits -> Visit \cup {None}]
  /\ redeemed \in [Codes -> [Users -> 0 .. MaxRows]]
  /\ pc \in [Admins -> {"idle", "write", "users", "save", "form"}]
  /\ picked \in [Admins -> SUBSET Codes]
  /\ held \in [Admins -> [Codes -> Terms \cup {None}]]
  /\ args \in [Admins -> Change \cup {None}]
  /\ runs \in 0 .. MaxRuns
  /\ meant \in [Codes -> SUBSET Users]
  /\ closed \subseteq Codes
  /\ settled \subseteq Codes

Init ==
  /\ day = 0
  /\ row = [c \in Codes |-> None]
  /\ items = [b \in Baskets |-> {}]
  /\ codes = [b \in Baskets |-> {}]
  /\ ordering = {}
  /\ visit = [v \in Visits |-> None]
  /\ redeemed = [c \in Codes |-> [u \in Users |-> 0]]
  /\ pc = [a \in Admins |-> "idle"]
  /\ picked = [a \in Admins |-> {}]
  /\ held = [a \in Admins |-> [c \in Codes |-> None]]
  /\ args = [a \in Admins |-> None]
  /\ runs = 0
  /\ meant = [c \in Codes |-> {}]
  /\ closed = {}
  /\ settled = {}

\* A write of rows; what was closed may be open again.
Write(new) ==
  /\ row' = new
  /\ closed' = closed \ {c \in Codes : new[c] # row[c]}

\* The users whom an administrator wants to have the codes; naming none names all.
Intend(sel, users) ==
  meant' = [c \in Codes |-> IF c \in sel THEN meant[c] \cup Those(users) ELSE meant[c]]

-----------------------------------------------------------------------------
(* generate_discount_code: the command, and POST with a system's API key.  *)

\* Mutant: a flag set by nobody takes effect.
RedemptionTypeRaw(k) == k.redemption_type

get_redemption_type(k) ==
  IF k.one_time THEN "one-time"
  ELSE IF k.once_per_user THEN "one-time-per-user"
  ELSE IF k.redemption_type # None THEN k.redemption_type ELSE "unlimited"

\* Mutant: the users are assigned after the code is committed, and not at all if
\* the run fails in between.
NewTermsOpen(k) ==
  [kind |-> get_redemption_type(k), limit |-> 0, users |-> {}, product |-> k.product,
   system |-> k.system, from |-> k.from, until |-> k.until, auto |-> k.auto]

\* Nothing sets max_redemptions, whose default 0 means no limit.
NewTerms(k) ==
  [kind |-> get_redemption_type(k), limit |-> 0, users |-> k.users, product |-> k.product,
   system |-> k.system, from |-> k.from, until |-> k.until, auto |-> k.auto]

validate_percent_off_amount(k) == k.percent <= 100

\* More than one code needs a prefix.
validate_prefix_for_batch(batch, k) == Cardinality(batch) > 1 => k.prefix

\* get_object_or_raise and get_users: what is named must be there, all of it.
get_object_or_raise(k) == Unknown \notin {k.product, k.system}
get_users(k) == Unknown \notin k.users

\* Arguments are looked at before the first code is made.
Accepted(batch, k) ==
  /\ validate_percent_off_amount(k) /\ validate_prefix_for_batch(batch, k)
  /\ get_object_or_raise(k) /\ get_users(k)

\* Each code is a transaction; a run that fails midway leaves those it has made.
generate_discount_code(batch, k) ==
  /\ batch # {} /\ batch \cap Made = {}
  /\ runs < MaxRuns /\ runs' = runs + 1
  /\ \E made \in IF Accepted(batch, k) THEN SUBSET batch ELSE {{}} :
       /\ Write([c \in Codes |-> IF c \in made THEN NewTerms(k) ELSE row[c]])
       /\ Intend(made, k.users)
  /\ UNCHANGED <<day, shop, visit, redeemed, pc, picked, held, args, settled>>

\* The command.  It passes codes that it is given by name as one list, of which
\* generate_codes makes one code.
GenerateCommand(batch) == \E k \in Offers : generate_discount_code(batch, k)

\* A system's request, whose codes are for that system whatever it asks for.
PostDiscounts(s, batch) ==
  \E k \in Offers : generate_discount_code(batch, [k EXCEPT !.system = s])

-----------------------------------------------------------------------------
(* Baskets.                                                                *)

\* Mutant: the expiration is compared by date.
InForceByDate(t) == t.from <= day /\ day <= t.until
InForce(t)       == t.from <= day /\ day < t.until

\* The product is there, perhaps again; then come the codes.
AddItem(b, p) ==
  /\ SystemOf[p] = ShopOf[b]
  /\ items' = [items EXCEPT ![b] = @ \cup {p}]
  /\ UNCHANGED <<day, row, codes, ordering, visit, redeemed, admin, meant, closed, settled>>

\* The basketitems endpoint, which does not look at the shop: an item comes or goes.
\* PUT and PATCH are one of each.
ChangeItem(b, p) ==
  /\ items' \in {[items EXCEPT ![b] = @ \cup {p}], [items EXCEPT ![b] = @ \ {p}]}
  /\ UNCHANGED <<day, row, codes, ordering, visit, redeemed, admin, meant, closed, settled>>

\* A request reads a code for a basket.
Read(v, b, c) ==
  /\ visit[v] = None
  /\ visit' = [visit EXCEPT ![v] =
                 [basket |-> b, code |-> c, row |-> [row[c] EXCEPT !.users = {}],
                  stage |-> "found", shut |-> c \in closed]]
  /\ UNCHANGED <<day, row, shop, redeemed, admin, meant, closed, settled>>

\* get_auto_apply_discounts_for_basket, for a request that has added an item.  It reads
\* all such codes at once; each is a visit of its own.
AutoApply(b) ==
  {c \in Made : /\ row[c].auto /\ row[c].product \in items[b] \cup {None}
                /\ row[c].system \in {None, ShopOf[b]} /\ OwnerOf[b] \in Those(row[c].users)}

FindAutomatic(v, b, c) == c \in AutoApply(b) /\ Read(v, b, c)

\* The code that is given with the request, to add_discount_to_basket for one.
FindCode(v, b, c) == c \in Made /\ Read(v, b, c)

\* Discount.is_valid, in the order of its queries, with the columns as they were read.
\* A code that does not pass is dropped without an error.
Judge(v, passes, stage) ==
  /\ visit' = [visit EXCEPT ![v] = IF passes THEN [@ EXCEPT !.stage = stage] ELSE None]
  /\ UNCHANGED <<day, row, shop, redeemed, admin, meant, closed, settled>>

\* The items of the basket, and the code's users.
CheckUsers(v) ==
  /\ visit[v] # None /\ visit[v].stage = "found"
  /\ LET b == visit[v].basket
     IN  Judge(v, /\ visit[v].row.product \in items[b] \cup {None}
                  /\ OwnerOf[b] \in Those(row[visit[v].code].users), "theirs")

\* Redemptions are counted now.
LimitLeft(t, c) == t.limit = 0 \/ Count(c) < t.limit

CheckLimits(v) ==
  /\ visit[v] # None /\ visit[v].stage = "theirs"
  /\ LET t == visit[v].row
     IN  Judge(v, /\ LimitLeft(t, visit[v].code) /\ InForce(t)
                  /\ t.system \in {None, ShopOf[visit[v].basket]}, "valid")

\* apply_discount_to_basket adds it.  It is not known to Clear: another request may have
\* saved the row of a basket that was deleted meanwhile (Baskets).
AddCode(v) ==
  /\ visit[v] # None /\ visit[v].stage = "valid"
  /\ codes' = [codes EXCEPT ![visit[v].basket] = @ \cup {visit[v].code}]
  /\ visit' = [visit EXCEPT ![v] = None]
  /\ UNCHANGED <<day, row, items, ordering, redeemed, admin, meant, closed, settled>>

\* best_discount_for_item_from_basket looks at product and system, as they are now.
IsBestFor(c, b, p) ==
  LET fits == {d \in codes[b] : row[d].product \in {None, p} /\ row[d].system \in {None, ShopOf[b]}}
  IN  c \in fits /\ \A d \in fits : Saving[d] <= Saving[c]

\* The order is committed, and codes that are best for no item leave the basket.
CheckOut(b) ==
  /\ items[b] # {} /\ b \notin ordering
  /\ codes' = [codes EXCEPT ![b] = {c \in @ : \E p \in items[b] : IsBestFor(c, b, p)}]
  /\ ordering' = ordering \cup {b}
  /\ UNCHANGED <<day, row, items, visit, redeemed, admin, meant, closed, settled>>

WorkedOn(c) == \E a \in Admins : pc[a] # "idle" /\ c \in picked[a]
UsedUp(c)   == row[c].limit > 0 /\ Count(c)' >= row[c].limit

\* create_from_basket: a redemption for each code that is on the basket now.
Redeem(b) ==
  /\ b \in ordering
  /\ \A c \in codes[b] : redeemed[c][OwnerOf[b]] < MaxRows
  /\ redeemed' = [c \in Codes |-> IF c \in codes[b]
                                  THEN [redeemed[c] EXCEPT ![OwnerOf[b]] = @ + 1]
                                  ELSE redeemed[c]]
  /\ ordering' = ordering \ {b}
  /\ closed' = closed \cup {c \in codes[b] : UsedUp(c)}
  /\ settled' = settled \cup {c \in codes[b] : row[c].kind # "unlimited" /\ ~ WorkedOn(c)}
  /\ UNCHANGED <<day, row, items, codes, visit, admin, meant>>

\* The basket is deleted, after payment or by clear_basket; its codes stay redeemed.
Clear(b) ==
  /\ items[b] # {} \/ codes[b] # {}
  /\ b \notin ordering
  /\ items' = [items EXCEPT ![b] = {}]
  /\ codes' = [codes EXCEPT ![b] = {}]
  /\ UNCHANGED <<day, row, ordering, visit, redeemed, admin, meant, closed, settled>>

NextDay ==
  /\ day < MaxDay
  /\ day' = day + 1
  /\ closed' = closed \cup {c \in Made : row[c].until <= day + 1}
  /\ UNCHANGED <<row, shop, visit, redeemed, admin, meant, settled>>

-----------------------------------------------------------------------------
(* Administration.                                                         *)

\* A run that loads the rows of the codes sel.
Load(a, sel) ==
  /\ pc[a] = "idle" /\ runs < MaxRuns
  /\ sel # {} /\ sel \subseteq Made
  /\ held' = [held EXCEPT ![a] = row]
  /\ runs' = runs + 1

Finish(a) ==
  /\ pc' = [pc EXCEPT ![a] = "idle"]
  /\ picked' = [picked EXCEPT ![a] = {}]
  /\ held' = [held EXCEPT ![a] = [c \in Codes |-> None]]
  /\ args' = [args EXCEPT ![a] = None]

\* Mutant: only codes for one redemption in all are kept.
ProtectedOneTime(c) ==
  \/ row[c].kind = "one-time" /\ IsRedeemed(c)
  \/ row[c].limit > 0 /\ Count(c) = row[c].limit

\* update_discount_codes leaves out codes for one redemption that have one, and
\* others that have been redeemed as often as they may, but not oftener.
Protected(c) ==
  IF row[c].kind # "unlimited"
  THEN IsRedeemed(c)
  ELSE row[c].limit > 0 /\ Count(c) = row[c].limit

UpdateSelect(a, sel, ch) ==
  /\ Load(a, sel)
  /\ pc' = [pc EXCEPT ![a] = "write"]
  /\ picked' = [picked EXCEPT ![a] = {c \in sel : ~ Protected(c)}]
  /\ args' = [args EXCEPT ![a] = ch]
  /\ UNCHANGED <<day, row, shop, visit, redeemed, meant, closed, settled>>

\* The command; --expire-now sets the end to today.
update_discount_code(a, sel) ==
  \E ch \in Changes :
    UpdateSelect(a, sel, ch) \/ UpdateSelect(a, sel, [ch EXCEPT !.until = {day}])

Given(new, old) == IF new = {} THEN old ELSE CHOOSE v \in new : TRUE

\* The redemption type is always written: "unlimited" unless --one-time is given.
\* get_redemption_type does not know the command's --one-time-per-user.
Changed(t, ch) ==
  [t EXCEPT !.kind = IF ch.one_time THEN "one-time" ELSE "unlimited",
            !.product = Given(ch.product, @), !.system = Given(ch.system, @),
            !.until = Given(ch.until, @)]

\* One transaction for the columns ...
UpdateWrite(a) ==
  /\ pc[a] = "write"
  /\ Write([c \in Codes |-> IF c \in picked[a] THEN Changed(row[c], args[a]) ELSE row[c]])
  /\ pc' = [pc EXCEPT ![a] = "users"]
  /\ UNCHANGED <<day, shop, visit, redeemed, picked, held, args, runs, meant, settled>>

\* ... and then the users, of which none means all.
UpdateUsers(a) ==
  /\ pc[a] = "users"
  /\ Write([c \in Codes |-> IF c \in picked[a]
                            THEN [row[c] EXCEPT !.users = Given(args[a].users, @)] ELSE row[c]])
  /\ IF args[a].users = {} THEN UNCHANGED meant ELSE Intend(picked[a], Given(args[a].users, {}))
  /\ Finish(a)
  /\ UNCHANGED <<day, shop, visit, redeemed, runs, settled>>

\* delete_discount_code reads the codes ...
DeactivateLoad(a, sel) ==
  /\ Load(a, sel)
  /\ pc' = [pc EXCEPT ![a] = "save"]
  /\ picked' = [picked EXCEPT ![a] = sel]
  /\ UNCHANGED <<day, row, shop, visit, redeemed, args, meant, closed, settled>>

\* ... and saves one after the other, every column, with today's date.
DeactivateSave(a, c) ==
  /\ pc[a] = "save" /\ c \in picked[a]
  /\ row' = [row EXCEPT ![c] = [held[a][c] EXCEPT !.until = day, !.users = row[c].users]]
  /\ closed' = closed \cup {c}
  /\ IF picked[a] = {c}
     THEN Finish(a)
     ELSE picked' = [picked EXCEPT ![a] = @ \ {c}] /\ UNCHANGED <<pc, held, args>>
  /\ UNCHANGED <<day, shop, visit, redeemed, runs, meant, settled>>

\* The admin form shows a row; this one sets max_redemptions.
EditOpen(a, c) ==
  /\ Load(a, {c})
  /\ pc' = [pc EXCEPT ![a] = "form"]
  /\ picked' = [picked EXCEPT ![a] = {c}]
  /\ UNCHANGED <<day, row, shop, visit, redeemed, args, meant, closed, settled>>

EditSave(a, n) ==
  /\ pc[a] = "form"
  /\ Write([c \in Codes |-> IF c \in picked[a] THEN [held[a][c] EXCEPT !.limit = n] ELSE row[c]])
  /\ Finish(a)
  /\ UNCHANGED <<day, shop, visit, redeemed, runs, meant, settled>>

Next ==
  \/ \E batch \in SUBSET Codes :
       GenerateCommand(batch) \/ \E s \in Systems : PostDiscounts(s, batch)
  \/ \E b \in Baskets : CheckOut(b) \/ Redeem(b) \/ Clear(b)
  \/ \E b \in Baskets, p \in Products : AddItem(b, p) \/ ChangeItem(b, p)
  \/ \E v \in Visits, b \in Baskets, c \in Codes : FindAutomatic(v, b, c) \/ FindCode(v, b, c)
  \/ \E v \in Visits : CheckUsers(v) \/ CheckLimits(v) \/ AddCode(v)
  \/ NextDay
  \/ \E a \in Admins, sel \in SUBSET Codes :
       DeactivateLoad(a, sel) \/ update_discount_code(a, sel)
  \/ \E a \in Admins, c \in Codes : DeactivateSave(a, c) \/ EditOpen(a, c)
  \/ \E a \in Admins : UpdateWrite(a) \/ UpdateUsers(a) \/ \E n \in Limits : EditSave(a, n)

Spec == Init /\ [][Next]_vars

-----------------------------------------------------------------------------
(* Properties.                                                             *)

\* Nobody has redeemed, or has on a basket, a code that no administrator has ever
\* wanted them to have: a code for some users is at no time open to all.
MeantForThem ==
  /\ \A c \in Codes, u \in Users : redeemed[c][u] > 0 => u \in meant[c]
  /\ \A b \in Baskets : \A c \in codes[b] : OwnerOf[b] \in meant[c]

\* A request that reads a code after that was deactivated, has expired or is used up,
\* and before an administrator has written it again, puts it on no basket, by hand or
\* automatically, whatever happens until it has looked at it.  (One that has read it
\* before may put it on after it was closed, and those that have it on a basket already
\* can still redeem it.)
ClosedStaysClosed ==
  [][\A b \in Baskets : \A c \in codes'[b] \ codes[b] :
       \E v \in Visits : /\ visit[v] # None /\ ~ visit[v].shut
                          /\ visit[v].basket = b /\ visit[v].code = c]_vars

\* A code for one redemption that was redeemed while nobody worked on it keeps
\* what it offers, and to whom, whatever is updated later.
OfferOf(t) == <<t.kind, t.users, t.product, t.system>>
SettledIsKept ==
  [][\A c \in settled : OfferOf(row'[c]) = OfferOf(row[c])]_vars

=============================================================================
