------------------------------- MODULE Stores -------------------------------
(***************************************************************************)
(* What the pipeline keeps on disk and in Postgres, and what each child    *)
(* process of the DAG does to it.                                          *)
(*                                                                         *)
(* A child is one action: it runs, changes the stores and leaves a result  *)
(* (its exit code and what a probe of the stores finds afterwards) for the *)
(* driver of DagRun.tla.  Where a child can stop half way the action       *)
(* chooses how far it came, in the order in which the code writes: ledger  *)
(* rows one by one, then the output directories; quarantine rows, then the *)
(* results rows.  Run ids are the values of a clock: the code advances a   *)
(* stamp until it is unused, so a later run has a greater id.              *)
(***************************************************************************)
EXTENDS Detect, FiniteSetsExt

CONSTANTS
    MaxVersion,     \* bound: versions a source may publish of a document
    MaxFaults,      \* bound: children, files and drivers that go wrong
    CleanFilings    \* filings in which no rule ever finds a violation

ASSUME BoundsAssumption == MaxVersion \in Nat \ {0} /\ MaxFaults \in Nat
ASSUME CleanAssumption  == CleanFilings \subseteq Filings

VARIABLES
    source,     \* the version each source publishes; 0: not listed
    sighting,   \* manifest: the latest row of each document
    bytes,      \* manifest and raw store: hash of the last successful sighting
    missing,    \* documents whose stored file is no longer on disk
    ledger,     \* extraction ledger: latest live outcome of each document
    output,     \* extract store: each filing's newest run directory
    verdicts,   \* quarantine store: the latest complete full-corpus run
    raw,        \* Postgres: what the last load copied, as the models read it
    marts,      \* Postgres: the version of each document the marts show
    clock,      \* the last run id handed out
    faults,     \* what has gone wrong so far
    child       \* result of the child process that has just ended

sources == <<source, faults>>
disk    == <<sighting, bytes, missing, ledger, output, verdicts, raw, marts, clock>>
stores  == <<source, sighting, bytes, missing, ledger, output, verdicts, raw, marts,
             clock, faults, child>>

Versions == 0 .. MaxVersion

NotStarted == 9     \* no exit code: the executable is missing
Killed     == 8     \* a code outside 0..3: a signal, 137, ...
Codes      == {0, 1, 2, 3, Killed, NotStarted}

\* `produced`: a new run id appeared in the store the child writes.
\* `failed`:   the ledger summary of that run counts a failed row.
\* `report`:   what detect printed; `printed` is FALSE when that is not JSON.
NoResult == [code |-> 0, ended |-> FALSE, produced |-> FALSE, failed |-> FALSE,
             printed |-> FALSE, report |-> NoReport]

Ended(code, produced, failed) ==
    [NoResult EXCEPT !.code = code, !.ended = TRUE, !.produced = produced, !.failed = failed]

Fault(bad) == faults' = faults + (IF bad THEN 1 ELSE 0) /\ faults' <= MaxFaults

-----------------------------------------------------------------------------
(* Reading the stores *)

ManifestExists == \E d \in Docs : sighting[d] # "none"

DetectReport == Report(sighting, bytes, ledger)

\* int_extract_run_current and current_runs: the filing's greatest run in the ledger.
CurrentRun(f) == Max({0} \cup {ledger[d].run : d \in DocsOf(f)})

\* The current run wrote its output directory.
Intact(f) == CurrentRun(f) # 0 /\ output[f].run = CurrentRun(f)

Shown(d) == IF Intact(FilingOf[d]) THEN output[FilingOf[d]].rows[d] ELSE 0

\* The dbt test assert_quarantine_covers_fact_extract over the rows just loaded.
Evaluated == {verdicts.seen[f] : f \in Filings \ CleanFilings} \ {0}
FactRuns  == {CurrentRun(f) : f \in {g \in Filings : Intact(g)}}
Covered   == Evaluated = {} \/ \A r \in FactRuns : r <= Max(Evaluated)

LedgerRuns == {ledger[d].run : d \in Docs} \ {0}

\* validate_is_current: the newest complete corpus run postdates every current extract run.
ValidateOnceIsEnough == LedgerRuns # {} /\ verdicts.run # 0                   \* mutant
ValidateOfTheOldest  ==                                                      \* mutant
    /\ verdicts.run # 0
    /\ \E r \in LedgerRuns : r < verdicts.run

ValidateIsCurrent ==
    /\ LedgerRuns # {}
    /\ verdicts.run # 0
    /\ \A r \in LedgerRuns : r < verdicts.run

\* How the run behind the newest results rows ended.
ValidateEndings == {"none", "passed", "gate_failed", "crashed"}

StoresTypeOK ==
    /\ source \in [Docs -> Versions]
    /\ sighting \in [Docs -> {"none", "ok", "failed"}]
    /\ bytes \in [Docs -> Versions]
    /\ missing \subseteq Docs
    /\ ledger \in [Docs -> [run : Nat, hash : Versions, status : OutcomeStatus]]
    /\ output \in [Filings -> [run : Nat, rows : [Docs -> Versions]]]
    /\ verdicts \in [run : Nat, seen : [Filings -> Nat], ended : ValidateEndings]
    /\ raw \in [rows : [Docs -> Versions], covered : BOOLEAN]
    /\ marts \in [Docs -> Versions]
    /\ clock \in Nat /\ faults \in 0 .. MaxFaults
    /\ child \in [code : Codes, ended : BOOLEAN, produced : BOOLEAN, failed : BOOLEAN,
                  printed : BOOLEAN, report : Reports]

NoRows == [d \in Docs |-> 0]

\* A clean clone: the sources list what they list, nothing has been fetched or loaded.
StoresInit ==
    /\ source \in [Docs -> {0, 1}]
    /\ sighting = [d \in Docs |-> "none"]
    /\ bytes = NoRows /\ missing = {}
    /\ ledger = [d \in Docs |-> NoOutcome]
    /\ output = [f \in Filings |-> [run |-> 0, rows |-> NoRows]]
    /\ verdicts = [run |-> 0, seen |-> [f \in Filings |-> 0], ended |-> "none"]
    /\ raw = [rows |-> NoRows, covered |-> TRUE]
    /\ marts = NoRows
    /\ clock = 0 /\ faults = 0 /\ child = NoResult

-----------------------------------------------------------------------------
(* The world outside the pipeline *)

\* A source posts a document, or a new version of one.
Amend(d) ==
    /\ source[d] < MaxVersion
    /\ source' = [source EXCEPT ![d] = @ + 1]
    /\ UNCHANGED <<disk, faults, child>>

\* A stored file disappears from the raw store.
LoseFile(d) ==
    /\ bytes[d] # 0 /\ d \notin missing
    /\ missing' = missing \cup {d}
    /\ Fault(TRUE)
    /\ UNCHANGED <<source, sighting, bytes, ledger, output, verdicts, raw, marts, clock, child>>

-----------------------------------------------------------------------------
(* Any child: it could not be started, or refused its arguments (argparse's 2). *)

Refused ==
    /\ \E code \in {2, NotStarted} : child' = Ended(code, FALSE, FALSE)
    /\ Fault(TRUE)
    /\ UNCHANGED <<source, disk>>

(***************************************************************************)
(* python -m pipeline.ingest.  A failed discovery, a denial or the child's *)
(* death leaves part of the listed documents unseen; a document that could *)
(* not be fetched gets a failed row, which keeps the last good hash.  A    *)
(* 304 for a file that is gone is fetched again.                           *)
(***************************************************************************)
IngestSaw(seen, bad) ==
    /\ sighting' = [d \in Docs |-> IF d \in bad THEN "failed"
                                   ELSE IF d \in seen THEN "ok" ELSE sighting[d]]
    /\ bytes' = [d \in Docs |-> IF d \in seen \ bad THEN source[d] ELSE bytes[d]]
    /\ missing' = missing \ (seen \ bad)
    /\ UNCHANGED <<source, ledger, output, verdicts, raw, marts, clock>>

Ingest ==
    \E seen \in SUBSET {d \in Docs : source[d] # 0}, code \in {0, 1, 2, Killed} :
    \E bad \in SUBSET seen :
        LET complete == bad = {} /\ \A d \in Docs : source[d] # 0 => d \in seen
        IN  /\ code = 0 => complete
            /\ code \in {1, 2} => ~complete
            /\ IngestSaw(seen, bad)
            /\ child' = Ended(code, seen # {}, FALSE)
            /\ Fault(code # 0)

(***************************************************************************)
(* rfp-cdc detect --json                                                   *)
(***************************************************************************)
DetectPrints ==
    /\ ManifestExists
    /\ child' = [Ended(DetectReport.code, FALSE, FALSE)
                    EXCEPT !.printed = TRUE, !.report = DetectReport]
    /\ UNCHANGED <<source, disk, faults>>

NoManifest ==
    /\ ~ManifestExists
    /\ child' = Ended(1, FALSE, FALSE)
    /\ UNCHANGED <<source, disk, faults>>

DetectDies ==
    /\ child' = Ended(Killed, FALSE, FALSE)
    /\ Fault(TRUE)
    /\ UNCHANGED <<source, disk>>

(***************************************************************************)
(* python -m pipeline.extract, of the filings `fs`.  Documents whose file  *)
(* cannot be resolved are recorded as failed first, whatever filing they   *)
(* belong to; then each document of `fs`, in order, gets one row; the      *)
(* output directories are written when every row has been.                 *)
(***************************************************************************)
Readings == {"read", "unreadable", "raised"}

Known == {d \in Docs : bytes[d] # 0}
Lost  == Known \cap missing
Resolved(fs) == {d \in Known \ missing : FilingOf[d] \in fs}

\* How far the rows can have come.
Progress(fs) ==
    {{d \in Lost : d <= k} : k \in Docs \cup {0}}
        \cup {Lost \cup {d \in Resolved(fs) : d <= k} : k \in Docs}

LedgerRow(d, reading) ==
    IF d \in Lost \/ reading[d] = "raised"
    THEN [run |-> clock + 1, hash |-> 0, status |-> "failed"]
    ELSE [run |-> clock + 1, hash |-> bytes[d],
          status |-> IF reading[d] = "read" THEN "read" ELSE "failed"]

RowsOf(f, reading) ==
    [d \in Docs |-> IF d \in Resolved({f}) /\ reading[d] = "read" THEN bytes[d] ELSE 0]

HasRows(fs, reading) == {f \in fs : RowsOf(f, reading) # NoRows}

\* The run recorded `written` and then wrote the directories of the filings in `stored`.
Extracted(written, stored, reading) ==
    /\ ledger' = [d \in Docs |-> IF d \in written THEN LedgerRow(d, reading) ELSE ledger[d]]
    /\ output' = [f \in Filings |->
                    IF f \in stored THEN [run |-> clock + 1, rows |-> RowsOf(f, reading)]
                                    ELSE output[f]]
    /\ clock' = IF written = {} THEN clock ELSE clock + 1
    /\ UNCHANGED <<source, sighting, bytes, missing, verdicts, raw, marts>>

ReadingOf(fs) == {r \in [Docs -> Readings] : \A d \in Docs \ Resolved(fs) : r[d] = "read"}

Clean(reading) == \A d \in Docs : reading[d] = "read"

\* Exit 1 with every document read is a partial document; 3 is the gate's, which only the
\* full extract asserts and only a document that raised half way can fail.
ExtractEnds(fs, full) ==
    \E reading \in ReadingOf(fs), code \in {0, 1, 3} :
        LET all    == Lost \cup Resolved(fs)
            failed == Lost # {} \/ ~Clean(reading)
        IN  /\ code = 0 => ~failed
            /\ code = 3 => full /\ \E d \in Docs : reading[d] = "raised"
            /\ Extracted(all, HasRows(fs, reading), reading)
            /\ child' = Ended(code, all # {}, failed)
            /\ Fault(~Clean(reading))

\* A signal, or a traceback (exit 1), before the run is complete.
ExtractDies(fs) ==
    \E written \in Progress(fs), reading \in ReadingOf(fs), code \in {1, Killed} :
    \E stored \in SUBSET HasRows(fs, reading) :
        /\ stored # {} => written = Lost \cup Resolved(fs)
        /\ \A d \in Docs \ written : reading[d] = "read"
        /\ Extracted(written, stored, reading)
        /\ child' = Ended(code, written # {},
                          written \cap Lost # {} \/ ~Clean(reading))
        /\ Fault(TRUE)

(***************************************************************************)
(* python -m pipeline.validate, of the full corpus                         *)
(***************************************************************************)
Validated(ended) ==
    /\ verdicts' = [run |-> clock + 1, seen |-> [f \in Filings |-> output[f].run],
                    ended |-> ended]
    /\ clock' = clock + 1
    /\ UNCHANGED <<source, sighting, bytes, missing, ledger, output, raw, marts>>

NothingToValidate == \A f \in Filings : output[f].run = 0

\* Exit 1 says that error findings are open, or that there was nothing to read.
ValidateEnds ==
    \/ /\ ~NothingToValidate
       /\ \E code \in {0, 1} : child' = Ended(code, TRUE, FALSE)
       /\ Validated("passed")
       /\ UNCHANGED faults
    \/ /\ NothingToValidate
       /\ child' = Ended(1, FALSE, FALSE)
       /\ UNCHANGED <<source, disk, faults>>

\* Exit 3: an unmapped reason, before any row; or the data-quality gate, after the last one.
ValidateGateFails ==
    /\ ~NothingToValidate
    /\ \E complete \in BOOLEAN :
        /\ child' = Ended(3, complete, FALSE)
        /\ IF complete THEN Validated("gate_failed") ELSE UNCHANGED <<source, disk>>
    /\ Fault(TRUE)

\* One results row is enough for the run id to count as complete.
ValidateDies ==
    /\ \E code \in {1, Killed}, begun \in BOOLEAN :
        /\ begun => ~NothingToValidate
        /\ child' = Ended(code, begun, FALSE)
        /\ IF begun THEN Validated("crashed") ELSE UNCHANGED <<source, disk>>
    /\ Fault(TRUE)

(***************************************************************************)
(* python -m pipeline.load: one transaction; and dbt build                 *)
(***************************************************************************)
Load ==
    \E commits \in BOOLEAN, code \in {0, 1, Killed} :
        /\ code = 0 => commits
        /\ code = 1 => ~commits
        /\ raw' = IF commits THEN [rows |-> [d \in Docs |-> Shown(d)], covered |-> Covered]
                             ELSE raw
        /\ child' = Ended(code, FALSE, FALSE)
        /\ Fault(code # 0)
        /\ UNCHANGED <<source, sighting, bytes, missing, ledger, output, verdicts, marts, clock>>

\* A failing build may have rebuilt the marts before the test that failed.
DbtBuild ==
    \E built \in BOOLEAN, code \in {0, 1, Killed} :
        /\ code = 0 => raw.covered /\ built
        /\ marts' = IF built THEN raw.rows ELSE marts
        /\ child' = Ended(code, FALSE, FALSE)
        /\ Fault(raw.covered /\ code # 0)
        /\ UNCHANGED <<source, sighting, bytes, missing, ledger, output, verdicts, raw, clock>>
=============================================================================
