------------------------------ MODULE MCDagRun ------------------------------
(* Instances of DagRun.tla for TLC. *)
EXTENDS DagRun

OneDocEach == [d \in {1, 2} |-> d]          \* two filings of one document

FullOptions  == {Complete, [Complete EXCEPT !.offline = TRUE, !.key = FALSE]}
CompleteOnly == {Complete}
SomeOptions ==
    {Complete,
     [Complete EXCEPT !.offline = TRUE, !.key = FALSE],
     [Complete EXCEPT !.dag = "warehouse", !.dbt = FALSE]}
=============================================================================
