---------------------------- MODULE MCExtraction ----------------------------
(***************************************************************************)
(* Instances of Extraction.tla for TLC: a packet of Pennsylvania, and an   *)
(* Oregon filing of a workbook and of tables it supersedes.                *)
(***************************************************************************)
EXTENDS Extraction

\* A document is a filing and a role.
Packet   == "pa/filing_packet"
Tables   == "or/rate_tables"
Workbook == "or/urrt"

ThreeDocs    == <<Tables, Workbook, Packet>>
ThreeFilings == [d \in Range(ThreeDocs) |-> IF d = Packet THEN "pa" ELSE "or"]
ThreeRoles   == [d \in Range(ThreeDocs) |->
    CASE d = Packet -> "filing_packet" [] d = Tables -> "rate_tables" [] d = Workbook -> "urrt"]

Clean == [NoReading EXCEPT !.readable = TRUE, !.found = 1]

\* A workbook that is unreadable, or lacks a header cell and has a plan the schema refuses.  A
\* packet with all it states; one with a rejected rate and fewer plans than it states, and no
\* sections; one whose plan table raises.
SomeReadings ==
    [r \in Roles |->
        CASE r = "urrt" -> {NoReading, [Clean EXCEPT !.missing = 1, !.plans = 1, !.lost = 1]}
          [] r = "filing_packet" ->
                {[Clean EXCEPT !.plans = 2, !.stated = {2}, !.sections = TRUE],
                 [Clean EXCEPT !.plans = 1, !.lost = 1, !.rejected = 1, !.stated = {2}],
                 [Clean EXCEPT !.raises = "late"]}
          [] OTHER -> {}]

\* A window that is too large, or a call that fails; a dry run; values and entries with and
\* without a quote; a response of another shape.
SomeAnswers ==
    {[sent |-> FALSE, error |-> TRUE, kept |-> 0, dropped |-> 0, malformed |-> FALSE],
     [sent |-> FALSE, error |-> FALSE, kept |-> 0, dropped |-> 0, malformed |-> FALSE],
     [sent |-> TRUE, error |-> TRUE, kept |-> 0, dropped |-> 0, malformed |-> FALSE],
     [sent |-> TRUE, error |-> FALSE, kept |-> 1, dropped |-> 1, malformed |-> FALSE],
     [sent |-> TRUE, error |-> FALSE, kept |-> 0, dropped |-> 0, malformed |-> TRUE]}
=============================================================================
