------------------------------- MODULE Detect -------------------------------
(***************************************************************************)
(* Change detection and the decisions the DAG takes from it.               *)
(*                                                                         *)
(* `pipeline.cdc.detect` joins two append-only logs: the ingest manifest   *)
(* (what the sources served) and the extraction ledger (what was read).    *)
(* Of a document's manifest history detect uses two facts, the latest row  *)
(* (did the last sighting fail?) and the last successful one (which bytes  *)
(* are on disk), and of the ledger the latest live outcome.  A document's  *)
(* bytes are a natural number standing for their hash; 0 is "none".        *)
(*                                                                         *)
(* Everything here is a function of those facts.  Stores.tla holds them.   *)
(***************************************************************************)
EXTENDS Naturals, FiniteSets

CONSTANTS
    Docs,       \* the documents: (filing_id, document_role), in sorted order
    Filings,    \* the filings, in sorted order
    FilingOf    \* which filing a document belongs to

ASSUME DocsAssumption ==
    /\ Docs \subseteq Nat \ {0} /\ IsFiniteSet(Docs)
    /\ Filings \subseteq Nat \ {0} /\ IsFiniteSet(Filings)

\* Keys sort by filing first, so the sorted documents of a filing are contiguous.
ASSUME FilingOfAssumption ==
    /\ FilingOf \in [Docs -> Filings]
    /\ \A c, d \in Docs : c < d => FilingOf[c] <= FilingOf[d]

DocsOf(f) == {d \in Docs : FilingOf[d] = f}

(***************************************************************************)
(* A ledger row: the run that wrote it, the hash of the bytes it read (0   *)
(* for a document that raised or could not be resolved) and how it ended.  *)
(***************************************************************************)
NoOutcome == [run |-> 0, hash |-> 0, status |-> "none"]
OutcomeStatus == {"none", "read", "failed"}

Currencies == {"current", "stale", "never_extracted", "unknown"}

\* Mutant: a failed row counts as an extraction of the current bytes.
CurrencyOfAnyRow(failed, hash, outcome) ==
    CASE hash = 0                         -> "unknown"
      [] hash # 0 /\ outcome.run = 0      -> "never_extracted"
      [] OTHER -> IF outcome.hash # hash /\ outcome.status # "failed" THEN "stale"
                  ELSE IF failed THEN "unknown" ELSE "current"

\* `failed` says that the document's latest manifest row is a failed sighting.
Currency(failed, hash, outcome) ==
    CASE hash = 0                         -> "unknown"
      [] hash # 0 /\ outcome.run = 0      -> "never_extracted"
      [] OTHER -> IF outcome.hash # hash THEN "stale"
                  ELSE IF failed THEN "unknown" ELSE "current"

ExitCurrent     == 0
ExitStale       == 1
ExitCoverageGap == 3

ReportExit(stale, never, unknown) ==
    CASE never # {}                                   -> ExitCoverageGap
      [] never = {} /\ (stale # {} \/ unknown # {})   -> ExitStale
      [] OTHER                                        -> ExitCurrent

\* The JSON report, reduced to what the driver reads back.
Report(sighting, bytes, ledger) ==
    LET documents == {d \in Docs : sighting[d] # "none"}
        In(class) == {d \in documents :
                        Currency(sighting[d] = "failed", bytes[d], ledger[d]) = class}
        stale     == {FilingOf[d] : d \in In("stale")}
        never     == In("never_extracted")
        unknown   == In("unknown")
    IN  [documents |-> documents, stale |-> stale, never |-> never,
         unknown |-> unknown, code |-> ReportExit(stale, never, unknown)]

NoReport == [documents |-> {}, stale |-> {}, never |-> {}, unknown |-> {}, code |-> 0]

Reports == [documents : SUBSET Docs, stale : SUBSET Filings, never : SUBSET Docs,
            unknown : SUBSET Docs, code : {ExitCurrent, ExitStale, ExitCoverageGap}]

-----------------------------------------------------------------------------
(* pipeline.orchestrate.decisions *)

\* Nothing has ever been extracted: the state of a clean clone.
Bootstrap(report) ==
    /\ report.code = ExitCoverageGap
    /\ report.documents # {}
    /\ report.never = report.documents

CoverageGap(report) == report.code = ExitCoverageGap /\ ~Bootstrap(report)

\* The warehouse gate.  A failed sighting of bytes already extracted passes it.
Converged(report) == report.stale = {} /\ report.never = {}

\* Mutant: all for any.
AllUnknown(report) == report.unknown # {} /\ report.unknown = report.documents

HasUnknown(report) == report.unknown # {}
=============================================================================
