----------------------------- MODULE MCBaskets -----------------------------
(* One shop, prices, codes and countries for TLC. *)
EXTENDS Baskets, TLC

CONSTANTS p, q, s, home, away

OneShop == [x \in Products |-> s]

\* 10 percent of p's price falls on half a cent.
Prices == [x \in Products |-> IF x = p THEN 105 ELSE 100]

\* Thirty percent off anything.
OneCode ==
  {[discount_type |-> "percent-off", amount |-> 30, product |-> None, system |-> s]}

AwayTaxed == (away :> 10)
SomeRules == {<<home, p>>, <<away, All>>}

\* Codes that make p dearer, cheaper than nothing, or do not fit.
OtherCodes ==
  OneCode \cup {[discount_type |-> "fixed-price", amount |-> 150, product |-> p, system |-> None],
               [discount_type |-> "dollars-off", amount |-> 1000, product |-> None, system |-> s],
               [discount_type |-> "fixed-price", amount |-> 1, product |-> q, system |-> None]}

\* In whatever order the loop meets the codes, it ends with discounted_price.
ASSUME LoopFindsCheapest ==
  \A n \in 0 .. 4 : \A cs \in [1 .. n -> OtherCodes], x \in Products :
    best_discount_for_item(cs, x).price = discounted_price(ToSet(cs), x)

\* The total of a basket is its subtotal and its tax, as long as nobody wants two of
\* anything.
ASSUME TotalOfSingles ==
  \A its \in UNION {[ps -> 1 .. 2] : ps \in SUBSET Products}, c \in OtherCodes :
    LET shown == basket_subtotal({c}, its) + basket_tax({c}, its, away)
    IN  (\A x \in DOMAIN its : its[x] = 1 \/ discounted_price({c}, x) = 0)
        <=> shown = basket_total({c}, its, away)

Alike == Permutations(Workers) \cup Permutations(Baskets)

=============================================================================
