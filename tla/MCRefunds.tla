------------------------------ MODULE MCRefunds ------------------------------
(* Small ledgers for TLC: the constants of Refunds that a .cfg cannot write. *)
EXTENDS Refunds, TLC

CONSTANTS paid, gratis, odd, l1, l2, l3, l4, x, y, z, Other

\* Order paid has the lines l1 and l2, order gratis the free line l3, order
\* odd, which was not paid by card but as Other says, the line l4.
LinesOfOrders == [l \in Lines |-> IF l = l3 THEN gratis ELSE IF l = l4 THEN odd ELSE paid]
Payments      == [o \in Orders |-> IF o = odd THEN Other ELSE "card"]

\* One row for each line that costs something.
OneRowEach == [i \in Rows |-> IF i = x THEN l1 ELSE IF i = y THEN l2 ELSE l4]

AlikeWorkers == Permutations(Workers)

=============================================================================
