----------------------------- MODULE MCCheckout -----------------------------
(* Small shops for TLC: the constants of Checkout that a .cfg cannot write. *)
EXTENDS Checkout, TLC

CONSTANTS A, B, code, shop, other

\* Two products of one shop.
OneShop   == [p \in Products |-> shop]
\* Product A is sold by shop, B by other.
TwoShops  == [p \in Products |-> IF p = A THEN shop ELSE other]

NoCodes   == [d \in Discounts |-> None]
NoLimit   == [d \in Discounts |-> 0]
LimitOne  == [d \in Discounts |-> 1]
Equal     == [d \in Discounts |-> 1]

\* Nothing is free; A is free in each of its versions.
NothingFree == {}
AFree       == {v \in ProductVersions : v[1] = A}

\* Web processes are interchangeable; so are products of one shop that have
\* the same prices and no codes.
AlikeWorkers  == Permutations(Workers)
AlikeProducts == Permutations(Workers) \cup Permutations(Products)

=============================================================================
