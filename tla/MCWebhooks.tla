----------------------------- MODULE MCWebhooks -----------------------------
(* One sale of two shops and its refund, or an addition to a basket, for TLC. *)
EXTENDS Webhooks

CONSTANTS sale, refund, add, s1, s2

Kinds == [a \in Announcements |->
            CASE a = sale -> "sale" [] a = refund -> "refund" [] a = add -> "add"]

\* The sale has lines of both systems, the rest is about the first.
Told  == [a \in Announcements |-> IF a = sale THEN {s1, s2} ELSE {s1}]

=============================================================================
