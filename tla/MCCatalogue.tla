----------------------------- MODULE MCCatalogue -----------------------------
(* One system and its product, the run of a course, for TLC. *)
EXTENDS Catalogue, SequencesExt

CONSTANT s

OneSystem == [p \in Products |-> s]
TheRun    == <<"course", "A", "B", "2T">>
OneId     == [p \in Products |-> TheRun]

Run(prices) == [run_id |-> TheRun, prices |-> prices]
Course(prices, runs) ==
  [readable_id |-> SubSeq(TheRun, 1, 3), prices |-> prices, runs |-> runs]

\* Nothing; a run without a price; one that is dearer than its course.
SomeAnswers == {<< >>, <<Course(<< >>, <<Run(<< >>)>>)>>, <<Course(<<0>>, <<Run(<<1, 0>>)>>)>>}

\* get_product_metadata, for courses with some runs and prices: the price is the
\* highest of the course's and the run's, and a course without any runs stands for
\* the run that was asked for.
PriceLists == UNION {[1 .. n -> 0 .. 2] : n \in 0 .. 2}
OtherRun   == [run_id |-> <<"course", "A", "B", "1T">>, prices |-> <<9>>]

ASSUME LearnsHighestPrice ==
  \A course \in PriceLists, run \in PriceLists :
    LET asked(runs) == get_product_metadata(<<Course(course, runs)>>, TheRun)
    IN  /\ \A i \in DOMAIN course : asked(<<OtherRun, Run(run)>>).price >= course[i]
        /\ \A i \in DOMAIN run : asked(<<OtherRun, Run(run)>>).price >= run[i]
        /\ asked(<<OtherRun, Run(run)>>).price \in ToSet(course) \cup ToSet(run) \cup {0}
        /\ asked(<<OtherRun>>) = None
        /\ asked(<< >>).sku # TheRun

=============================================================================
