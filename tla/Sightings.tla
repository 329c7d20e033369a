----------------------------- MODULE Sightings ------------------------------
(***************************************************************************)
(* What an ingest run promises to the rest of the pipeline, document by    *)
(* document: it asks the site, and what the site served at that moment     *)
(* becomes the last successful sighting, with the bytes on disk.  A failed *)
(* sighting changes nothing but the fact that it failed.                   *)
(*                                                                         *)
(* These are the manifest variables of Stores.tla, and its Ingest action   *)
(* takes many of these steps at once.  Ingest.tla implements them with     *)
(* conditional requests, a log of rows and a deduplicated store.           *)
(***************************************************************************)
EXTENDS Naturals

CONSTANTS
    Docs,
    Versions    \* contents of a document; 0 is none of them

VARIABLES
    source,     \* the version each site publishes; 0: not posted
    answer,     \* what the site served of the document being retrieved; 0: nothing yet
    sighting,   \* the latest row of each document
    bytes,      \* the content of its last successful row; 0: never seen
    missing     \* documents whose last seen content is not on disk

vars == <<source, answer, sighting, bytes, missing>>

TypeOK ==
    /\ source \in [Docs -> Versions]
    /\ answer \in [Docs -> Versions]
    /\ sighting \in [Docs -> {"none", "ok", "failed"}]
    /\ bytes \in [Docs -> Versions]
    /\ missing \subseteq Docs

Init ==
    /\ source \in [Docs -> Versions]
    /\ answer = [d \in Docs |-> 0]
    /\ sighting = [d \in Docs |-> "none"]
    /\ bytes = [d \in Docs |-> 0]
    /\ missing = {}

Post(d) ==
    /\ \E v \in Versions : source' = [source EXCEPT ![d] = v]
    /\ UNCHANGED <<answer, sighting, bytes, missing>>

Serve(d) ==
    /\ answer[d] = 0 /\ source[d] # 0
    /\ answer' = [answer EXCEPT ![d] = source[d]]
    /\ UNCHANGED <<source, sighting, bytes, missing>>

See(d) ==
    /\ answer[d] # 0
    /\ bytes' = [bytes EXCEPT ![d] = answer[d]]
    /\ sighting' = [sighting EXCEPT ![d] = "ok"]
    /\ missing' = missing \ {d}
    /\ answer' = [answer EXCEPT ![d] = 0]
    /\ UNCHANGED source

Fail(d) ==
    /\ answer[d] = 0
    /\ sighting' = [sighting EXCEPT ![d] = "failed"]
    /\ UNCHANGED <<source, answer, bytes, missing>>

\* The run dies with the answer in hand.
Forget(d) ==
    /\ answer' = [answer EXCEPT ![d] = 0]
    /\ UNCHANGED <<source, sighting, bytes, missing>>

Lose(d) ==
    /\ bytes[d] # 0
    /\ missing' = missing \cup {d}
    /\ UNCHANGED <<source, answer, sighting, bytes>>

Next == \E d \in Docs : Post(d) \/ Serve(d) \/ See(d) \/ Fail(d) \/ Forget(d) \/ Lose(d)

Spec == Init /\ [][Next]_vars
=============================================================================
