----------------------------- MODULE MCDiscounts -----------------------------
(* Two customers of one shop, for TLC. *)
EXTENDS Discounts, TLC

CONSTANTS u1, u2, b1, b2, p, s, c1

Owners   == [b \in Baskets |-> IF b = b1 THEN u1 ELSE u2]
Shops    == [b \in Baskets |-> s]
Catalog  == [q \in Products |-> s]
Savings  == [c \in Codes |-> 1]

Plain == [one_time |-> FALSE, once_per_user |-> FALSE, redemption_type |-> None, prefix |-> TRUE,
          percent |-> 10, users |-> {}, product |-> None, system |-> None,
          from |-> 0, until |-> Never, auto |-> FALSE]

\* A code for u1 to use once; one for p that the shop puts on every basket, on the
\* first day only; one for somebody who is not there.
SomeOffers == {[Plain EXCEPT !.users = {Unknown}],
               [Plain EXCEPT !.once_per_user = TRUE, !.users = {u1}],
               [Plain EXCEPT !.product = p, !.system = s, !.auto = TRUE, !.until = 1]}

Same == [one_time |-> FALSE, users |-> {}, product |-> {}, system |-> {}, until |-> {}]

\* An end to the code, which everyone may use until then.
SomeChanges == {[Same EXCEPT !.until = {1}, !.users = {{}}]}

Alike == Permutations(Admins) \cup Permutations(Visits)

=============================================================================
