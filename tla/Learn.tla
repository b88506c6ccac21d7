-------------------------------- MODULE Learn --------------------------------
(***************************************************************************)
(* What the shop makes of MIT Learn's answer about a product:              *)
(* get_product_metadata of system_meta/api.py and parse_readable_id of     *)
(* unified_ecommerce/utils.py.                                             *)
(*                                                                         *)
(* A readable id is the sequence of its parts between plus signs:          *)
(* course-v1:MITxT+12.345x, to which a run may be added: +1T2024.          *)
(***************************************************************************)
EXTENDS Naturals, Sequences, FiniteSetsExt

CONSTANT None

\* Two parts name a resource, more name a run of one.
parse_readable_id(id) ==
  IF Len(id) > 2 THEN [resource |-> SubSeq(id, 1, Len(id) - 1), run |-> id[Len(id)]]
  ELSE [resource |-> id, run |-> None]

\* Prices are sorted and the last one is taken; no prices are a price of zero.
Highest(prices) == IF prices = << >> THEN 0 ELSE Max({prices[i] : i \in DOMAIN prices})

RunsCalled(course, id) == SelectSeq(course.runs, LAMBDA r : r.run_id = id)

\* The run's price counts when it is above the course's.
format_output(course, id) ==
  LET named == RunsCalled(course, id)
      price == Highest(course.prices)
  IN  IF named = << >> THEN [sku |-> course.readable_id, price |-> price]
      ELSE [sku |-> id, price |-> Max({price, Highest(named[1].prices)})]

\* Of the results, which Learn has found by platform and resource, the first one
\* counts.  A course that has runs, but not the one that was asked for, is no answer.
get_product_metadata(results, id) ==
  IF results = << >> THEN None
  ELSE IF /\ parse_readable_id(id).run # None
          /\ results[1].runs # << >>
          /\ RunsCalled(results[1], id) = << >>
       THEN None
  ELSE format_output(results[1], id)

=============================================================================
