---------------------------- MODULE MCQuarantine ----------------------------
(***************************************************************************)
(* Instances of Quarantine.tla for TLC: one rule with a predicate, and one *)
(* without, under which the field misses are adopted.                      *)
(***************************************************************************)
EXTENDS Quarantine

CONSTANTS F1, F2, A, B

TwoFilings == {F1, F2}
TwoProcs   == {A, B}
Alike      == Permutations(TwoFilings) \cup Permutations(TwoProcs)

InRange   == "in_range"
Unusable  == "unusable"
TwoRules  == {InRange, Unusable}
OneRule   == {InRange}

\* Nothing wrong; a value out of range and a value that was rejected while extracting.
CleanOrBoth == {[bad |-> {}, miss |-> FALSE], [bad |-> {InRange}, miss |-> TRUE]}
\* A refused command leaves nothing behind that another reads: what follows it follows as well
\* without it, and is not explored twice.
NothingAfterARefusal == \A p \in Procs : proc[p].pc = "ended" => proc[p].run # 0
=============================================================================
