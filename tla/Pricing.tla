------------------------------- MODULE Pricing -------------------------------
(***************************************************************************)
(* What a basket says that its items cost, and what the lines of an order  *)
(* cost: product_price_with_discount, the price properties of BasketItem,  *)
(* Basket, Line and Order, and the items of the form for the gateway.      *)
(*                                                                         *)
(* Amounts are in ten-thousandths of a cent, so that percentages of        *)
(* percentages of prices are exact.  Discounts and tax rates are in whole  *)
(* percent, dollars or cents as the administrators enter them.             *)
(***************************************************************************)
EXTENDS Integers, SequencesExt

CONSTANTS
  Products, Systems, SystemOf,
  Price,      \* Price[p] in cents
  Codes,      \* discount codes: [discount_type, amount, product, system]
  Countries,
  TaxRate,    \* TaxRate[c] in percent; countries without a TaxRate row are not in its domain
  None

Cent == 10000

DiscountTypes == {"percent-off", "dollars-off", "fixed-price"}

ASSUME PricingConstants ==
  /\ SystemOf \in [Products -> Systems]
  /\ Price \in [Products -> Nat]
  /\ Codes \subseteq [discount_type : DiscountTypes, amount : Nat,
                      product : Products \cup {None}, system : Systems \cup {None}]
  /\ DOMAIN TaxRate \subseteq Countries
  /\ \A c \in DOMAIN TaxRate : TaxRate[c] \in Nat

ASSUME PricingNone == None \notin Products \cup Systems \cup Countries \cup Codes

\* The amount of dollars-off and fixed-price is in cents here.
product_price_with_discount(d, p) ==
  LET price == Price[p] * Cent IN
  CASE d.discount_type = "percent-off" -> (price * (100 - d.amount)) \div 100
    [] d.discount_type = "dollars-off" -> price - d.amount * Cent
    [] d.discount_type = "fixed-price" -> d.amount * Cent

-----------------------------------------------------------------------------
(* The basket.                                                             *)

Fits(d, p) == d.product \in {None, p} /\ d.system \in {None, SystemOf[p]}

\* The best of the basket's codes cs, which is the cheapest: the first that fits
\* is taken even if it makes the item dearer, each other one if it is cheaper.
discounted_price(cs, p) ==
  LET fits == {d \in cs : Fits(d, p)}
  IN  IF fits = {} THEN Price[p] * Cent
      ELSE Min({product_price_with_discount(d, p) : d \in fits})

\* best_discount_for_item_from_basket goes through the codes in whatever order the
\* database returns them.
Better(p, best, d) ==
  IF Fits(d, p) /\ (best.code = None \/ product_price_with_discount(d, p) < best.price)
  THEN [code |-> d, price |-> product_price_with_discount(d, p)] ELSE best
best_discount_for_item(cs, p) ==
  FoldLeft(LAMBDA best, d : Better(p, best, d), [code |-> None, price |-> Price[p] * Cent], cs)

Taxed(amount, rate) == IF rate = None THEN 0 ELSE (amount * TaxRate[rate]) \div 100

\* The tax of an item is that of one piece.
item_tax(cs, p, rate)            == Taxed(discounted_price(cs, p), rate)
item_price(cs, p, q)             == discounted_price(cs, p) * q
item_total_price(cs, p, q, rate) == item_price(cs, p, q) + item_tax(cs, p, rate)

\* What a basket with these items shows: its, the quantity of each product.  The
\* subtotal is that of one piece of each, the total is not.
basket_subtotal(cs, its)   == MapThenSumSet(LAMBDA p : discounted_price(cs, p), DOMAIN its)
basket_tax(cs, its, rate)  == MapThenSumSet(LAMBDA p : item_tax(cs, p, rate), DOMAIN its)
basket_total(cs, its, rate) ==
  MapThenSumSet(LAMBDA p : item_total_price(cs, p, its[p], rate), DOMAIN its)

-----------------------------------------------------------------------------
(* The order.  Its lines are for one piece each, at the price of their      *)
(* version.                                                                *)

\* Mutant: a line costs what the item cost in the basket.
UnitDiscounted(cs, p) == discounted_price(cs, p)

unit_price(cs, p)             == Price[p] * Cent
line_tax(cs, p, rate)         == Taxed(unit_price(cs, p), rate)
line_total_price(cs, p, rate) == unit_price(cs, p) + line_tax(cs, p, rate)

\* quantize_decimal: to the nearest cent, a half either way.
quantize(x) ==
  {n \in {x \div Cent, x \div Cent + 1} : 2 * n * Cent - 2 * x \in -Cent .. Cent}

\* What the form of an order asks for a line, and what the line adds to
\* total_price_paid, in cents.
Asked(cs, p, rate) ==
  {u + t : u \in quantize(unit_price(cs, p)), t \in quantize(line_tax(cs, p, rate))}
Recorded(cs, p, rate) == quantize(line_total_price(cs, p, rate))

=============================================================================
