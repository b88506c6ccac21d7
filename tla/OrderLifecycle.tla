--------------------------- MODULE OrderLifecycle ---------------------------
(***************************************************************************)
(* What the shop promises of an order, whoever asks and whatever fails on  *)
(* the way: it is opened once, the sale is announced while it is still     *)
(* open, and it is settled once and for good.  A fulfilled order has been  *)
(* announced, and it has a receipt, unless the gateway's answer had no     *)
(* transaction id to write on one; a canceled or declined order has none.  *)
(* Checkout implements this when every product has a price.                *)
(***************************************************************************)
CONSTANTS Orders, Payments

VARIABLES
  state,     \* state[o]: "absent", "pending", or how the order was settled
  announced, \* the orders whose sale was announced
  receipts   \* payments recorded: [order, pay]

vars == <<state, announced, receipts>>

Init ==
  /\ state = [o \in Orders |-> "absent"]
  /\ announced = {}
  /\ receipts = {}

Open(o) ==
  /\ state[o] = "absent"
  /\ state' = [state EXCEPT ![o] = "pending"]
  /\ UNCHANGED <<announced, receipts>>

Announce(o) ==
  /\ state[o] = "pending"
  /\ announced' = announced \cup {o}
  /\ UNCHANGED <<state, receipts>>

\* At most one receipt, and it is for this order's payment.
ReceiptsFor(o) == {{}} \cup {{[order |-> o, pay |-> i]} : i \in Payments}

Fulfill(o, new) ==
  /\ state[o] = "pending"
  /\ o \in announced
  /\ state' = [state EXCEPT ![o] = "fulfilled"]
  /\ receipts' = receipts \cup new
  /\ UNCHANGED announced

\* The sale went wrong on our side, with or without the customer's money.
Fail(o, new) ==
  /\ state[o] = "pending"
  /\ state' = [state EXCEPT ![o] = "errored"]
  /\ receipts' = receipts \cup new
  /\ UNCHANGED announced

Refuse(o) ==
  /\ state[o] = "pending"
  /\ \E final \in {"canceled", "declined"} : state' = [state EXCEPT ![o] = final]
  /\ UNCHANGED <<announced, receipts>>

Next ==
  \E o \in Orders :
    \/ Open(o) \/ Announce(o) \/ Refuse(o)
    \/ \E new \in ReceiptsFor(o) : Fulfill(o, new) \/ Fail(o, new)

Spec == Init /\ [][Next]_vars

=============================================================================
