------------------------------ MODULE MCIngest ------------------------------
(***************************************************************************)
(* Small instances of Ingest: two states as in config/sources.yml, one     *)
(* with two documents and one with one.                                    *)
(***************************************************************************)
EXTENDS Ingest

TwoStates(d)  == IF d = 3 THEN "OR" ELSE "PA"
StateOfThree  == [d \in 1 .. 3 |-> TwoStates(d)]
StateOfTwo    == [d \in 1 .. 2 |-> "PA"]
StateOfOne    == [d \in {1} |-> "PA"]

\* No --state, or one of them.
BothOrOne == {<<"OR", "PA">>, <<"PA">>}
JustPA    == {<<"PA">>}
=============================================================================
