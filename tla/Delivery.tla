------------------------------ MODULE Delivery ------------------------------
(***************************************************************************)
(* What the task queue promises about a message to an integrated system:   *)
(* once queued it is tried at most Limit times, never again after it has   *)
(* been settled, and every queued message is settled in the end.           *)
(* Webhooks implements this.                                               *)
(***************************************************************************)
EXTENDS Naturals

CONSTANTS Messages, Limit

VARIABLES
  fate,  \* fate[m]: "unsent", "pending" or "settled"
  tries  \* tries[m]: requests made for m

vars == <<fate, tries>>

Init ==
  /\ fate = [m \in Messages |-> "unsent"]
  /\ tries = [m \in Messages |-> 0]

\* The message is handed to the queue.
Queue(m) ==
  /\ fate[m] = "unsent"
  /\ fate' = [fate EXCEPT ![m] = "pending"]
  /\ UNCHANGED tries

\* A request that is answered settles the message; so does the last one allowed.
Try(m) ==
  /\ fate[m] = "pending" /\ tries[m] < Limit
  /\ tries' = [tries EXCEPT ![m] = @ + 1]
  /\ \/ fate' = [fate EXCEPT ![m] = "settled"]
     \/ tries[m] + 1 < Limit /\ UNCHANGED fate

\* A crash settles a message that is with a worker, before or after its request.
Lose(m) ==
  /\ fate[m] = "pending"
  /\ fate' = [fate EXCEPT ![m] = "settled"]
  /\ UNCHANGED tries

Next == \E m \in Messages : Queue(m) \/ Try(m) \/ Lose(m)

Safety == Init /\ [][Next]_vars

Spec == Safety /\ \A m \in Messages : WF_vars(Try(m) \/ Lose(m))

=============================================================================
