--------------------------- MODULE DagRun_proofs ----------------------------
(* Proofs about DagRun.tla, for any documents, filings, options and bounds. *)
EXTENDS DagRun, TLAPS

-----------------------------------------------------------------------------
(* The warehouse gate *)

\* What the report is a function of does not change.
SameEvidence == UNCHANGED <<sighting, bytes, ledger>>

\* Detect reads the evidence and nothing else.
LEMMA SameReport == SameEvidence => DetectReport' = DetectReport
BY DEF SameEvidence, DetectReport

\* A report that is neither a coverage gap nor a bootstrap and names no stale filing is
\* converged: a never-extracted document makes the exit code 3.
LEMMA NothingToDoIsConverged ==
    ASSUME child.printed, child.report = DetectReport, ~CoverageGap(child.report),
           AfterDetect(child.report) = "validate"
    PROVE  Converged(DetectReport)
<1>1. ~Bootstrap(child.report) /\ child.report.stale = {}
  BY DEF AfterDetect
<1>2. child.report.code # ExitCoverageGap
  BY <1>1 DEF CoverageGap
<1>3. child.report.never = {}
  <2> DEFINE stale == child.report.stale
             never == child.report.never
             unknown == child.report.unknown
  <2>1. DetectReport.code = ReportExit(DetectReport.stale, DetectReport.never,
                                       DetectReport.unknown)
    BY DEF DetectReport, Report
  <2>2. DetectReport.never # {} => DetectReport.code = ExitCoverageGap
    BY <2>1 DEF ReportExit
  <2> QED BY <2>2, <1>2
<1> QED BY <1>1, <1>3 DEF Converged

LEMMA GateInvInit == Init => GateInv
BY DEF Init, StoresInit, NoResult, GateInv, ReportIsFresh, PastTheGate

\* A child that is not detect prints no report, and runs where the gate is not past or
\* leaves what the report is a function of alone.
LEMMA NotPrinted ==
    ASSUME NEW code, NEW produced, NEW failed PROVE ~Ended(code, produced, failed).printed
BY DEF Ended, NoResult

\* The children that run past the gate write no evidence.
LEMMA GateInvChildren == ASSUME GateInv, Children PROVE GateInv'
<1> USE DEF Running, driver, GateInv
<1>1. CASE Running("ingest") /\ (Ingest \/ Refused)
  <2>1. \E code, produced : child' = Ended(code, produced, FALSE)
    <3>1. CASE Ingest
      BY <3>1 DEF Ingest
    <3>2. CASE Refused
      BY <3>2 DEF Refused
    <3> QED BY <1>1, <3>1, <3>2
  <2> QED BY <1>1, <2>1, NotPrinted DEF ReportIsFresh, PastTheGate
<1>2. CASE DetectChild
  <2>1. SameEvidence /\ DetectReport' = DetectReport
    BY <1>2, SameReport
       DEF DetectChild, DetectPrints, NoManifest, DetectDies, Refused, disk, SameEvidence
  <2>2. CASE DetectPrints
    <3>1. child'.report = DetectReport /\ pc \in {"detect", "redetect"}
      BY <1>2, <2>2 DEF DetectChild, DetectPrints, Ended, NoResult
    <3> QED BY <1>2, <2>1, <3>1 DEF DetectChild, ReportIsFresh, PastTheGate
  <2>3. CASE NoManifest \/ DetectDies \/ Refused
    <3>1. ~child'.printed
      BY <2>3, NotPrinted DEF NoManifest, DetectDies, Refused
    <3> QED BY <1>2, <3>1 DEF DetectChild, ReportIsFresh, PastTheGate
  <2> QED BY <1>2, <2>2, <2>3 DEF DetectChild
<1>3. CASE ExtractChild \/ FilingChild
  <2>1. pc \in {"extract", "extract_filing"} /\ UNCHANGED pc
    BY <1>3 DEF ExtractChild, FilingChild
  <2>2. \E fs, full : ExtractEnds(fs, full) \/ ExtractDies(fs) \/ Refused
    BY <1>3 DEF ExtractChild, FilingChild
  <2>3. ~child'.printed
    BY <2>2, NotPrinted DEF ExtractEnds, ExtractDies, Refused
  <2> QED BY <2>1, <2>3 DEF ReportIsFresh, PastTheGate
<1>4. CASE ValidateChild \/ LoadChild \/ DbtChild
  <2>1. ~child'.printed
    BY <1>4, NotPrinted DEF ValidateChild, LoadChild, DbtChild, ValidateEnds,
       ValidateGateFails, ValidateDies, Load, DbtBuild, Refused
  <2>2. SameEvidence
    BY <1>4 DEF SameEvidence, ValidateChild, LoadChild, DbtChild, ValidateEnds,
       ValidateGateFails, ValidateDies, Validated, Load, DbtBuild, Refused, disk
  <2>3. UNCHANGED <<pc, opts>>
    BY <1>4 DEF ValidateChild, LoadChild, DbtChild
  <2> QED BY <2>1, <2>2, <2>3, SameReport DEF ReportIsFresh, PastTheGate
<1> QED BY <1>1, <1>2, <1>3, <1>4 DEF Children, IngestChild

\* Taking a child's result forgets its report and leaves the disk alone.
LEMMA TakesForgets ==
    ASSUME NEW node, Takes(node)
    PROVE  ~child'.printed /\ SameEvidence /\ UNCHANGED opts /\ pc = node
BY DEF Takes, NoResult, disk, SameEvidence

\* The driver takes the report it has waited for.
LEMMA GateInvDriver == ASSUME GateInv, Driver PROVE GateInv'
<1> USE DEF GateInv, ReportIsFresh, PastTheGate, Stops, Finish, Halts, Goes, NoDecision
<1>1. CASE Acquire \/ Start \/ Release
  BY <1>1, SameReport
     DEF Acquire, Start, Release, stores, disk, NoResult, NoOptions, SameEvidence
<1>2. CASE IngestDone \/ ExtractDone
  <2>1. ~child'.printed /\ pc' \notin {"validate", "load", "dbt_build"}
    BY <1>2, TakesForgets DEF IngestDone, ExtractDone
  <2> QED BY <2>1
<1>3. CASE DetectDone
  <2>1. ~child'.printed /\ DetectReport' = DetectReport /\ pc = "detect"
    BY <1>3, TakesForgets, SameReport DEF DetectDone
  <2>2. pc' \in {"validate", "load", "dbt_build"} => Converged(DetectReport)
    <3>1. AfterDetect(child.report) \in {"extract", "extract_filing", "validate"}
      BY DEF AfterDetect
    <3>2. pc' # "exiting" =>
             child.printed /\ ~CoverageGap(child.report) /\ pc' = AfterDetect(child.report)
      BY <1>3 DEF DetectDone
    <3> QED BY <2>1, <3>1, <3>2, NothingToDoIsConverged
            DEF DetectDone
  <2> QED BY <2>1, <2>2 DEF Converged
<1>4. CASE FilingDone
  <2>1. ~child'.printed /\ pc' \notin {"validate", "load", "dbt_build"}
    BY <1>4, TakesForgets DEF FilingDone
  <2> QED BY <2>1
<1>5. CASE RedetectDone
  <2>1. ~child'.printed /\ DetectReport' = DetectReport /\ pc = "redetect"
    BY <1>5, TakesForgets, SameReport DEF RedetectDone
  <2>2. pc' \in {"validate", "load", "dbt_build"} => Converged(child.report) /\ child.printed
    BY <1>5 DEF RedetectDone
  <2> QED BY <2>1, <2>2 DEF Converged
<1>6. CASE ValidateDone \/ LoadDone \/ DbtDone
  <2>1. /\ ~child'.printed /\ DetectReport' = DetectReport /\ UNCHANGED opts
        /\ pc \in {"validate", "load", "dbt_build"}
    BY <1>6, TakesForgets, SameReport DEF ValidateDone, LoadDone, DbtDone
  <2> QED BY <2>1 DEF Converged
<1>7. CASE SkipValidate
  BY <1>7, SameReport DEF SkipValidate, stores, disk, SameEvidence
<1>8. CASE NoKey \/ NoDbt
  BY <1>8 DEF NoKey, NoDbt, stores
<1> QED BY <1>1, <1>2, <1>3, <1>4, <1>5, <1>6, <1>7, <1>8 DEF Driver

\* Publications, lost files and faults are not what detect reads.
LEMMA GateInvWorld == ASSUME GateInv, World PROVE GateInv'
<1> USE DEF GateInv, ReportIsFresh, PastTheGate
<1>1. CASE Kill \/ Interrupt
  <2>1. child' = NoResult /\ pc' \in {"dead", "exiting"}
    BY <1>1 DEF Kill, Interrupt, Finish
  <2>2. ~NoResult.printed
    BY DEF NoResult
  <2> QED BY <2>1, <2>2
<1>2. CASE RemoveLock
  BY <1>2 DEF RemoveLock, stores
<1>3. CASE FullExtractByHand
  <2>1. ~child'.printed
    BY <1>3, NotPrinted DEF FullExtractByHand, ExtractEnds, ExtractDies
  <2> QED BY <1>3, <2>1 DEF FullExtractByHand
<1>4. CASE Publish \/ Lose
  BY <1>4, SameReport DEF Publish, Lose, Amend, LoseFile, disk, driver, SameEvidence
<1> QED BY <1>1, <1>2, <1>3, <1>4 DEF World

\* What the driver holds in its hand is what the stores say: a printed report is read in the
\* state it was printed in, and nothing but an ingest or an extract can spoil a passed gate.
THEOREM GateInvHolds == Spec => []GateInv
<1>1. GateInv /\ [Next]_vars => GateInv'
  <2>1. GateInv /\ UNCHANGED vars => GateInv'
    BY SameReport DEF vars, stores, driver, GateInv, ReportIsFresh, PastTheGate, SameEvidence
  <2> QED BY <2>1, GateInvChildren, GateInvDriver, GateInvWorld DEF Next
<1> QED BY GateInvInit, <1>1, PTL DEF Spec

\* The warehouse moves only when disk has converged: no interleaving of publications, lost
\* files, deaths and re-runs makes a full run load a stale or never-extracted document.
THEOREM GateBeforeLoadHolds == Spec => GateBeforeLoad
<1>1. GateInv /\ [Next]_vars =>
        [raw' # raw /\ opts.dag = "full" => Converged(DetectReport)]_vars
  <2> SUFFICES ASSUME GateInv, Next, raw' # raw, opts.dag = "full"
               PROVE  Converged(DetectReport)
    OBVIOUS
  <2>1. pc = "load"
    BY DEF Next, Children, Driver, World, IngestChild, DetectChild, ExtractChild, FilingChild,
       ValidateChild, LoadChild, DbtChild, Ingest, IngestSaw, DetectPrints, NoManifest,
       DetectDies, Refused, ExtractEnds, ExtractDies, Extracted, ValidateEnds,
       ValidateGateFails, ValidateDies, Validated, DbtBuild, Acquire, Start, Release,
       IngestDone, DetectDone, NoKey, ExtractDone, FilingDone, RedetectDone, SkipValidate,
       ValidateDone, LoadDone, NoDbt, DbtDone, Takes, Kill, Interrupt, RemoveLock,
       FullExtractByHand, Publish, Lose, Amend, LoseFile, disk, stores, Running
  <2> QED BY <2>1 DEF GateInv, PastTheGate
<1> QED BY GateInvHolds, <1>1, PTL DEF Spec, GateBeforeLoad
-----------------------------------------------------------------------------
(* Type correctness of Stores.tla and DagRun.tla, and what the types rest on *)

ChildType == [code : Codes, ended : BOOLEAN, produced : BOOLEAN, failed : BOOLEAN,
              printed : BOOLEAN, report : Reports]

LEMMA NoReportType == NoReport \in Reports
BY DEF NoReport, Reports, ExitCurrent

LEMMA NoResultType == NoResult \in ChildType
BY NoReportType DEF NoResult, ChildType, Codes

\* A result of a child that prints no report.
LEMMA EndedType ==
    ASSUME NEW code \in Codes, NEW produced \in BOOLEAN, NEW failed \in BOOLEAN
    PROVE  Ended(code, produced, failed) \in ChildType
BY NoResultType DEF Ended, ChildType

\* What detect prints, whatever it reads.
LEMMA DetectReportType == DetectReport \in Reports
<1>1. DetectReport.stale \subseteq Filings
  BY FilingOfAssumption DEF DetectReport, Report
<1>2. DetectReport.code \in {ExitCurrent, ExitStale, ExitCoverageGap}
  BY DEF DetectReport, Report, ReportExit
<1> QED BY <1>1, <1>2 DEF DetectReport, Report, Reports

\* A fault is counted up to the bound.
LEMMA FaultType ==
    ASSUME faults \in 0 .. MaxFaults, NEW bad \in BOOLEAN, Fault(bad)
    PROVE  faults' \in 0 .. MaxFaults
BY BoundsAssumption DEF Fault

LEMMA InitType == Init => TypeOK
<1> SUFFICES ASSUME Init PROVE TypeOK
  OBVIOUS
<1> USE BoundsAssumption DEF Init, StoresInit
<1>1. NoRows \in [Docs -> Versions]
  BY DEF NoRows, Versions
<1>2. StoresTypeOK
  <2>1. ledger \in [Docs -> [run : Nat, hash : Versions, status : OutcomeStatus]]
    BY DEF NoOutcome, Versions, OutcomeStatus
  <2>2. source \in [Docs -> Versions]
    BY DEF Versions
  <2>3. output \in [Filings -> [run : Nat, rows : [Docs -> Versions]]]
    BY <1>1
  <2>4. verdicts \in [run : Nat, seen : [Filings -> Nat], ended : ValidateEndings]
    BY DEF ValidateEndings
  <2>5. raw \in [rows : [Docs -> Versions], covered : BOOLEAN]
    BY <1>1
  <2>6. child \in ChildType
    BY NoResultType
  <2> QED BY <1>1, <2>1, <2>2, <2>3, <2>4, <2>5, <2>6 DEF StoresTypeOK, ChildType
<1>3. nodes \in [Nodes -> NodeStatuses] /\ fanout \in [Filings -> NodeStatuses]
  BY DEF NoNodes, NoFanout, NodeStatuses
<1>4. run \in [status : RunStatuses, exit : 0 .. 3]
  BY DEF RunStatuses
<1>5. decision \in Reports /\ queue \subseteq Filings
  BY NoReportType
<1>6. pc = "idle" /\ opts = NoOptions /\ exit \in 0 .. 3
  OBVIOUS
<1>7. instructed \in BOOLEAN
  BY Zenon
<1> QED BY <1>2, <1>3, <1>4, <1>5, <1>6, <1>7 DEF TypeOK

-----------------------------------------------------------------------------
(* The stores *)

LEMMA RefusedType == ASSUME StoresTypeOK, Refused PROVE StoresTypeOK'
<1>1. child' \in ChildType
  <2>1. PICK code \in {2, NotStarted} : child' = Ended(code, FALSE, FALSE)
    BY DEF Refused
  <2> QED BY <2>1, EndedType DEF Codes
<1>2. faults' \in 0 .. MaxFaults
  BY FaultType DEF Refused, StoresTypeOK
<1> QED BY <1>1, <1>2 DEF Refused, disk, StoresTypeOK, ChildType

LEMMA IngestType == ASSUME StoresTypeOK, Ingest PROVE StoresTypeOK'
<1>1. PICK seen \in SUBSET {d \in Docs : source[d] # 0}, code \in {0, 1, 2, Killed} :
      \E bad \in SUBSET seen :
        /\ IngestSaw(seen, bad)
        /\ child' = Ended(code, seen # {}, FALSE)
        /\ Fault(code # 0)
  BY DEF Ingest
<1>2. PICK bad \in SUBSET seen :
        /\ IngestSaw(seen, bad)
        /\ child' = Ended(code, seen # {}, FALSE)
        /\ Fault(code # 0)
  BY <1>1
<1>3. child' \in ChildType
  BY <1>2, EndedType DEF Codes
<1>4. faults' \in 0 .. MaxFaults
  BY <1>2, FaultType DEF StoresTypeOK
<1>5. /\ sighting' \in [Docs -> {"none", "ok", "failed"}]
      /\ bytes' \in [Docs -> Versions]
      /\ missing' \subseteq Docs
  BY <1>2 DEF IngestSaw, StoresTypeOK
<1> QED BY <1>2, <1>3, <1>4, <1>5 DEF IngestSaw, StoresTypeOK, ChildType

LEMMA DetectType ==
    ASSUME StoresTypeOK, DetectPrints \/ NoManifest \/ DetectDies PROVE StoresTypeOK'
<1>1. CASE DetectPrints
  <2>1. DetectReport.code \in Codes
    BY DetectReportType DEF Reports, Codes, ExitCurrent, ExitStale, ExitCoverageGap
  <2>2. child' \in ChildType
    BY <1>1, <2>1, EndedType, DetectReportType DEF DetectPrints, ChildType
  <2> QED BY <1>1, <2>2 DEF DetectPrints, disk, StoresTypeOK, ChildType
<1>2. CASE NoManifest
  <2>1. child' \in ChildType
    BY <1>2, EndedType DEF NoManifest, Codes
  <2> QED BY <1>2, <2>1 DEF NoManifest, disk, StoresTypeOK, ChildType
<1>3. CASE DetectDies
  <2>1. child' \in ChildType
    BY <1>3, EndedType DEF DetectDies, Codes
  <2>2. faults' \in 0 .. MaxFaults
    BY <1>3, FaultType DEF DetectDies, StoresTypeOK
  <2> QED BY <1>3, <2>1, <2>2 DEF DetectDies, disk, StoresTypeOK, ChildType
<1> QED BY <1>1, <1>2, <1>3

\* The rows and directories an extract writes have the types of the stores.
LEMMA ExtractedType ==
    ASSUME StoresTypeOK, NEW written, NEW stored, NEW reading,
           Extracted(written, stored, reading)
    PROVE  /\ ledger' \in [Docs -> [run : Nat, hash : Versions, status : OutcomeStatus]]
           /\ output' \in [Filings -> [run : Nat, rows : [Docs -> Versions]]]
           /\ clock' \in Nat
           /\ UNCHANGED <<source, sighting, bytes, missing, verdicts, raw, marts>>
<1> USE BoundsAssumption DEF StoresTypeOK, Versions
<1>1. clock + 1 \in Nat /\ clock' \in Nat
  BY DEF Extracted
<1>2. \A d \in Docs : LedgerRow(d, reading) \in
                        [run : Nat, hash : Versions, status : OutcomeStatus]
  BY <1>1 DEF LedgerRow, OutcomeStatus
<1>3. \A f \in Filings : RowsOf(f, reading) \in [Docs -> Versions]
  BY DEF RowsOf
<1> QED BY <1>1, <1>2, <1>3 DEF Extracted

\* An extract writes rows and directories of documents and filings.
LEMMA ExtractType ==
    ASSUME StoresTypeOK, NEW fs, NEW full \in BOOLEAN,
           ExtractEnds(fs, full) \/ ExtractDies(fs)
    PROVE  StoresTypeOK'
<1>1. /\ \E written, stored, reading : Extracted(written, stored, reading)
      /\ \E code \in Codes, produced \in BOOLEAN, failed \in BOOLEAN :
            child' = Ended(code, produced, failed)
      /\ \E bad \in BOOLEAN : Fault(bad)
  <2>1. CASE ExtractEnds(fs, full)
    BY <2>1 DEF ExtractEnds, Codes, Clean
  <2>2. CASE ExtractDies(fs)
    BY <2>2 DEF ExtractDies, Codes, Clean
  <2> QED BY <2>1, <2>2
<1>2. child' \in ChildType
  BY <1>1, EndedType
<1>3. faults' \in 0 .. MaxFaults
  BY <1>1, FaultType DEF StoresTypeOK
<1> QED BY <1>1, <1>2, <1>3, ExtractedType DEF StoresTypeOK, ChildType

LEMMA ValidateType ==
    ASSUME StoresTypeOK, ValidateEnds \/ ValidateGateFails \/ ValidateDies
    PROVE  StoresTypeOK'
<1>1. \E code \in Codes, produced \in BOOLEAN : child' = Ended(code, produced, FALSE)
  BY DEF ValidateEnds, ValidateGateFails, ValidateDies, Codes
<1>2. child' \in ChildType
  BY <1>1, EndedType
<1>3. faults' \in 0 .. MaxFaults
  <2>1. Fault(TRUE) \/ UNCHANGED faults
    BY DEF ValidateEnds, ValidateGateFails, ValidateDies
  <2> QED BY <2>1, FaultType DEF StoresTypeOK
<1>4. \/ \E ended \in ValidateEndings : Validated(ended)
      \/ UNCHANGED <<source, disk>>
  BY DEF ValidateEnds, ValidateGateFails, ValidateDies, ValidateEndings
<1>5. CASE \E ended \in ValidateEndings : Validated(ended)
  <2>1. PICK ended \in ValidateEndings : Validated(ended)
    BY <1>5
  <2>2. verdicts' \in [run : Nat, seen : [Filings -> Nat], ended : ValidateEndings]
    BY <2>1 DEF Validated, StoresTypeOK
  <2> QED BY <1>2, <1>3, <2>1, <2>2 DEF Validated, StoresTypeOK, ChildType
<1>6. CASE UNCHANGED <<source, disk>>
  BY <1>2, <1>3, <1>6 DEF disk, StoresTypeOK, ChildType
<1> QED BY <1>4, <1>5, <1>6

LEMMA LoadType == ASSUME StoresTypeOK, Load PROVE StoresTypeOK'
<1>1. /\ \E code \in Codes : child' = Ended(code, FALSE, FALSE)
      /\ \E bad \in BOOLEAN : Fault(bad)
  BY DEF Load, Codes
<1>2. child' \in ChildType
  BY <1>1, EndedType
<1>3. faults' \in 0 .. MaxFaults
  BY <1>1, FaultType DEF StoresTypeOK
<1>4. \A d \in Docs : Shown(d) \in Versions
  BY FilingOfAssumption, BoundsAssumption DEF Shown, StoresTypeOK, Versions
<1>5. Covered \in BOOLEAN
  BY DEF Covered
<1>6. raw' \in [rows : [Docs -> Versions], covered : BOOLEAN]
  BY <1>4, <1>5 DEF Load, StoresTypeOK
<1> QED BY <1>2, <1>3, <1>6 DEF Load, StoresTypeOK, ChildType

LEMMA DbtBuildType == ASSUME StoresTypeOK, DbtBuild PROVE StoresTypeOK'
<1>1. /\ \E code \in Codes : child' = Ended(code, FALSE, FALSE)
      /\ \E bad \in BOOLEAN : Fault(bad)
  BY DEF DbtBuild, StoresTypeOK, Codes
<1>2. child' \in ChildType
  BY <1>1, EndedType
<1>3. faults' \in 0 .. MaxFaults
  BY <1>1, FaultType DEF StoresTypeOK
<1>4. marts' \in [Docs -> Versions]
  BY DEF DbtBuild, StoresTypeOK
<1> QED BY <1>2, <1>3, <1>4 DEF DbtBuild, StoresTypeOK, ChildType

\* Sources publish and files are lost.
LEMMA OutsideType ==
    ASSUME StoresTypeOK, (\E d \in Docs : Amend(d)) \/ (\E d \in Docs : LoseFile(d))
    PROVE  StoresTypeOK'
<1>1. CASE \E d \in Docs : Amend(d)
  BY <1>1, BoundsAssumption DEF Amend, disk, StoresTypeOK, Versions
<1>2. CASE \E d \in Docs : LoseFile(d)
  <2>1. faults' \in 0 .. MaxFaults
    BY <1>2, FaultType DEF LoseFile, StoresTypeOK
  <2> QED BY <1>2, <2>1 DEF LoseFile, StoresTypeOK
<1> QED BY <1>1, <1>2

\* The driver takes a result, or forgets it.
LEMMA ForgetType ==
    ASSUME StoresTypeOK, child' = NoResult, UNCHANGED <<source, disk>>,
           faults' \in 0 .. MaxFaults
    PROVE  StoresTypeOK'
BY NoResultType DEF disk, StoresTypeOK, ChildType

-----------------------------------------------------------------------------
(* The driver *)

DriverTypeOK ==
    /\ pc \in Nodes \cup {"idle", "starting", "exiting", "dead"}
    /\ opts \in Options \cup {NoOptions}
    /\ exit \in 0 .. 3
    /\ decision \in Reports
    /\ queue \subseteq Filings
    /\ nodes \in [Nodes -> NodeStatuses]
    /\ fanout \in [Filings -> NodeStatuses]
    /\ run \in [status : RunStatuses, exit : 0 .. 3]
    /\ instructed \in BOOLEAN

\* The types of the stores and those of the driver.
LEMMA TypeSplits == TypeOK <=> StoresTypeOK /\ DriverTypeOK
BY DEF TypeOK, DriverTypeOK

LEMMA ChildrenType == ASSUME TypeOK, Children PROVE TypeOK'
<1>1. StoresTypeOK /\ DriverTypeOK
  BY TypeSplits
<1>2. UNCHANGED driver
  BY DEF Children, IngestChild, DetectChild, ExtractChild, FilingChild, ValidateChild,
     LoadChild, DbtChild, Running
<1>3. DriverTypeOK'
  BY <1>1, <1>2 DEF driver, DriverTypeOK
<1>4. StoresTypeOK'
  <2> USE <1>1
  <2>1. CASE Refused \/ Ingest
    BY <2>1, RefusedType, IngestType
  <2>2. CASE DetectPrints \/ NoManifest \/ DetectDies
    BY <2>2, DetectType
  <2>3. CASE \E fs : \E full \in BOOLEAN : ExtractEnds(fs, full) \/ ExtractDies(fs)
    BY <2>3, ExtractType
  <2>4. CASE ValidateEnds \/ ValidateGateFails \/ ValidateDies
    BY <2>4, ValidateType
  <2>5. CASE Load \/ DbtBuild
    BY <2>5, LoadType, DbtBuildType
  <2> QED
    BY <2>1, <2>2, <2>3, <2>4, <2>5 DEF Children, IngestChild, DetectChild, ExtractChild,
       FilingChild, ValidateChild, LoadChild, DbtChild
<1> QED BY <1>3, <1>4 DEF TypeOK, DriverTypeOK

\* Exit codes stay in the vocabulary.
LEMMA CombineExitType ==
    ASSUME NEW a \in 0 .. 3, NEW b \in 0 .. 3 PROVE CombineExit(a, b) \in 0 .. 3
BY DEF CombineExit

LEMMA ExtractStatusType ==
    ASSUME child.code \in Codes, child.code # 2
    PROVE  ExtractStatus \in NodeStatuses /\ ExtractExit \in 0 .. 3
<1>1. ExtractStatus \in NodeStatuses
  BY DEF ExtractStatus, NodeStatuses, Crashed, Codes, Killed, NotStarted
<1>2. ExtractExit \in 0 .. 3
  BY DEF ExtractExit
<1> QED BY <1>1, <1>2

\* A node row of a run that stops.
LEMMA StopsType ==
    ASSUME DriverTypeOK, NEW node, NEW nodeStatus \in NodeStatuses, NEW code \in 0 .. 3,
           NEW status \in RunStatuses, Stops(node, nodeStatus, code, status), UNCHANGED opts
    PROVE  DriverTypeOK'
BY DEF Stops, Commit, Finish, DriverTypeOK

LEMMA TakesType ==
    ASSUME StoresTypeOK, NEW node, Takes(node)
    PROVE  StoresTypeOK' /\ UNCHANGED opts /\ child.code \in Codes
<1>1. faults' \in 0 .. MaxFaults /\ child.code \in Codes
  BY DEF Takes, StoresTypeOK
<1> QED BY <1>1, ForgetType DEF Takes

LEMMA NoDecisionType ==
    ASSUME DriverTypeOK, NEW node, NoDecision(node), UNCHANGED opts PROVE DriverTypeOK'
BY StopsType DEF NoDecision, NodeStatuses, RunStatuses

LEMMA HaltsType ==
    ASSUME DriverTypeOK, NEW node, Halts(node), UNCHANGED opts PROVE DriverTypeOK'
BY StopsType DEF Halts, NodeStatuses, RunStatuses

\* A process that is gone leaves a typed driver.
LEMMA GoneType ==
    ASSUME DriverTypeOK, Forget, pc' \in {"idle", "dead"} PROVE DriverTypeOK'
<1>1. NoNodes \in [Nodes -> NodeStatuses] /\ NoFanout \in [Filings -> NodeStatuses]
  BY DEF NoNodes, NoFanout, NodeStatuses
<1> QED BY <1>1, NoReportType DEF Forget, DriverTypeOK

LEMMA StartType == ASSUME TypeOK, Acquire \/ Start \/ Release PROVE TypeOK'
<1>1. StoresTypeOK /\ DriverTypeOK
  BY TypeSplits
<1>2. CASE Acquire
  <2>1. StoresTypeOK'
    BY <1>1, <1>2, ForgetType DEF Acquire, StoresTypeOK
  <2> QED BY <1>1, <1>2, <2>1 DEF Acquire, TypeOK, DriverTypeOK
<1>3. CASE Start
  <2>1. StoresTypeOK'
    BY <1>1, <1>3 DEF Start, stores, StoresTypeOK
  <2>2. run' \in [status : RunStatuses, exit : 0 .. 3]
    BY <1>3 DEF Start, RunStatuses
  <2>3. nodes' \in [Nodes -> NodeStatuses]
    BY <1>1, <1>3 DEF Start, DriverTypeOK, NodeStatuses
  <2>4. pc' \in Nodes
    BY <1>3 DEF Start, Nodes
  <2> QED BY <1>1, <1>3, <2>1, <2>2, <2>3, <2>4 DEF Start, TypeOK, DriverTypeOK
<1>4. CASE Release
  <2>1. StoresTypeOK'
    BY <1>1, <1>4 DEF Release, stores, StoresTypeOK
  <2>2. DriverTypeOK'
    BY <1>1, <1>4, GoneType DEF Release
  <2> QED BY <2>1, <2>2 DEF TypeOK, DriverTypeOK
<1> QED BY <1>2, <1>3, <1>4

\* Each node's result gives a code and a status of the vocabulary.
LEMMA DoneType ==
    ASSUME TypeOK,
           IngestDone \/ DetectDone \/ ExtractDone \/ FilingDone \/ RedetectDone
               \/ ValidateDone \/ LoadDone \/ DbtDone
    PROVE  TypeOK'
<1> USE DEF NodeStatuses, RunStatuses, Commit, Finish, Goes, Nodes
<1>1. StoresTypeOK /\ DriverTypeOK
  BY TypeSplits
<1>2. PICK node : Takes(node)
  BY DEF IngestDone, DetectDone, ExtractDone, FilingDone, RedetectDone, ValidateDone,
     LoadDone, DbtDone
<1>3. StoresTypeOK' /\ UNCHANGED opts /\ child.code \in Codes /\ child.report \in Reports
  BY <1>1, <1>2, TakesType DEF StoresTypeOK
<1>4. DriverTypeOK'
  <2> USE <1>1, <1>3
  <2>1. CASE IngestDone
    <3>1. CASE child.code \in {0, 1} /\ child.produced
      <4>1. CombineExit(exit, child.code) \in 0 .. 3
        BY <3>1, CombineExitType DEF DriverTypeOK
      <4> QED BY <2>1, <3>1, <4>1 DEF IngestDone, DriverTypeOK, Stops, Halts, Crashed
    <3> QED BY <2>1, <3>1, StopsType, HaltsType DEF IngestDone
  <2>2. CASE DetectDone
    <3>1. CombineExit(exit, 1) \in 0 .. 3
      BY CombineExitType DEF DriverTypeOK
    <3>2. child.report.stale \subseteq Filings
      BY DEF Reports
    <3>3. CASE child.printed /\ ~CoverageGap(child.report) /\ ~NoDecision("detect")
      BY <2>2, <3>1, <3>2, <3>3 DEF DetectDone, DriverTypeOK, AfterDetect
    <3>4. CASE child.printed /\ CoverageGap(child.report) /\ ~NoDecision("detect")
      <4>1. instructed' \in BOOLEAN
        BY <2>2, <3>4, Zenon DEF DetectDone
      <4>2. run' \in [status : RunStatuses, exit : 0 .. 3]
        BY <2>2, <3>4 DEF DetectDone
      <4>3. nodes' \in [Nodes -> NodeStatuses]
        BY <2>2, <3>4 DEF DetectDone, DriverTypeOK
      <4> QED BY <2>2, <3>4, <4>1, <4>2, <4>3 DEF DetectDone, DriverTypeOK
    <3>5. CASE NoDecision("detect")
      BY <3>5, NoDecisionType
    <3> QED BY <2>2, <3>3, <3>4, <3>5 DEF DetectDone
  <2>3. CASE ExtractDone
    <3>1. CASE Halts("extract")
      BY <3>1, HaltsType
    <3>2. CASE child.code # 2
      <4>1. ExtractStatus \in NodeStatuses /\ CombineExit(exit, ExtractExit) \in 0 .. 3
        BY <3>2, ExtractStatusType, CombineExitType DEF DriverTypeOK
      <4> QED BY <2>3, <3>2, <4>1 DEF ExtractDone, DriverTypeOK, Halts
    <3> QED BY <2>3, <3>1, <3>2 DEF ExtractDone
  <2>4. CASE FilingDone
    <3>1. CASE Halts("extract_filing")
      BY <3>1, HaltsType
    <3>2. CASE child.code # 2
      <4>1. ExtractStatus \in NodeStatuses /\ CombineExit(exit, ExtractExit) \in 0 .. 3
        BY <3>2, ExtractStatusType, CombineExitType DEF DriverTypeOK
      <4> QED BY <2>4, <3>2, <4>1 DEF FilingDone, DriverTypeOK, Halts, Remaining
    <3> QED BY <2>4, <3>1, <3>2 DEF FilingDone
  <2>5. CASE RedetectDone
    <3>1. CASE NoDecision("redetect")
      BY <3>1, NoDecisionType
    <3>2. CASE ~NoDecision("redetect")
      <4>1. CombineExit(exit, 1) \in 0 .. 3
        BY CombineExitType DEF DriverTypeOK
      <4>2. GapStatus(child.report) \in NodeStatuses
        BY DEF GapStatus
      <4>3. exit' \in 0 .. 3
        BY <2>5, <3>2, <4>1 DEF RedetectDone, DriverTypeOK
      <4>4. RunStatusFor(exit') \in RunStatuses
        BY DEF RunStatusFor
      <4>5. instructed' \in BOOLEAN
        BY <2>5, <3>2 DEF RedetectDone, DriverTypeOK, CoverageGap
      <4>6. run' \in [status : RunStatuses, exit : 0 .. 3]
        BY <2>5, <3>2, <4>3, <4>4 DEF RedetectDone, DriverTypeOK
      <4>7. nodes' \in [Nodes -> NodeStatuses]
        BY <2>5, <3>2, <4>2 DEF RedetectDone, DriverTypeOK
      <4> QED BY <2>5, <3>2, <4>3, <4>5, <4>6, <4>7 DEF RedetectDone, DriverTypeOK
    <3> QED BY <3>1, <3>2
  <2>6. CASE ValidateDone
    <3>1. CASE child.code \in {0, 1} /\ child.produced
      BY <2>6, <3>1 DEF ValidateDone, DriverTypeOK, Stops, Halts, Crashed
    <3> QED BY <2>6, <3>1, StopsType, HaltsType DEF ValidateDone
  <2>7. CASE LoadDone
    <3>1. CASE child.code = 0
      BY <2>7, <3>1 DEF LoadDone, DriverTypeOK, Stops, Halts, Crashed
    <3> QED BY <2>7, <3>1, StopsType, HaltsType DEF LoadDone
  <2>8. CASE DbtDone
    <3>1. CASE child.code = 0
      BY <2>8, <3>1 DEF DbtDone, DriverTypeOK
    <3> QED BY <2>8, <3>1, StopsType DEF DbtDone
  <2> QED BY <2>1, <2>2, <2>3, <2>4, <2>5, <2>6, <2>7, <2>8
<1> QED BY <1>3, <1>4 DEF TypeOK, DriverTypeOK

LEMMA NotRunType == ASSUME TypeOK, NoKey \/ NoDbt \/ SkipValidate PROVE TypeOK'
<1>1. StoresTypeOK /\ DriverTypeOK
  BY TypeSplits
<1>2. StoresTypeOK'
  BY <1>1 DEF NoKey, NoDbt, SkipValidate, stores, StoresTypeOK
<1>3. DriverTypeOK'
  <2>1. CASE NoKey \/ NoDbt
    BY <1>1, <2>1, StopsType DEF NoKey, NoDbt, NodeStatuses, RunStatuses
  <2>2. CASE SkipValidate
    BY <1>1, <2>2 DEF SkipValidate, Commit, Goes, DriverTypeOK, Nodes, NodeStatuses
  <2> QED BY <2>1, <2>2
<1> QED BY <1>2, <1>3 DEF TypeOK, DriverTypeOK

LEMMA WorldType == ASSUME TypeOK, World PROVE TypeOK'
<1>1. StoresTypeOK /\ DriverTypeOK
  BY TypeSplits
<1>2. CASE Kill \/ Interrupt
  <2>1. faults' \in 0 .. MaxFaults
    BY <1>1, <1>2, FaultType DEF Kill, Interrupt, StoresTypeOK
  <2>2. StoresTypeOK'
    BY <1>1, <1>2, <2>1, ForgetType DEF Kill, Interrupt
  <2>3. DriverTypeOK'
    <3>1. CASE Kill
      BY <1>1, <3>1, GoneType DEF Kill
    <3>2. CASE Interrupt
      BY <1>1, <3>2 DEF Interrupt, Finish, DriverTypeOK, RunStatuses
    <3> QED BY <1>2, <3>1, <3>2
  <2> QED BY <2>2, <2>3 DEF TypeOK, DriverTypeOK
<1>3. CASE RemoveLock
  BY <1>1, <1>3 DEF RemoveLock, stores, StoresTypeOK, TypeOK, DriverTypeOK
<1>4. CASE FullExtractByHand
  <2>1. StoresTypeOK'
    BY <1>1, <1>4, ExtractType DEF FullExtractByHand
  <2> QED BY <1>1, <1>4, <2>1 DEF FullExtractByHand, TypeOK, DriverTypeOK
<1>5. CASE Publish \/ Lose
  <2>1. StoresTypeOK'
    BY <1>1, <1>5, OutsideType DEF Publish, Lose
  <2> QED BY <1>1, <1>5, <2>1 DEF Publish, Lose, driver, TypeOK, DriverTypeOK
<1> QED BY <1>2, <1>3, <1>4, <1>5 DEF World

\* Every variable keeps its type: exit codes stay in the vocabulary, statuses in theirs,
\* and what the children write has the shape the readers expect.
THEOREM TypeOKHolds == Spec => []TypeOK
<1>1. TypeOK /\ [Next]_vars => TypeOK'
  <2>1. TypeOK /\ UNCHANGED vars => TypeOK'
    BY DEF vars, stores, driver, TypeOK, StoresTypeOK
  <2> QED BY <2>1, ChildrenType, StartType, DoneType, NotRunType, WorldType DEF Next, Driver
<1> QED BY InitType, <1>1, PTL DEF Spec

-----------------------------------------------------------------------------
(* The run record *)

\* Every way of finishing writes a terminal status.
ExitingIsRecorded == pc = "exiting" => run.status # "running"

\* Only a killed driver leaves its `running` row alone (DagRun._finish, the handler of
\* BaseException in full() and warehouse()).
THEOREM OnlyTheDeadStayRunningHolds == Spec => OnlyTheDeadStayRunning
<1>1. Init => ExitingIsRecorded
  BY DEF Init, ExitingIsRecorded
<1>2. ExitingIsRecorded /\ [Next]_vars => ExitingIsRecorded'
  <2> SUFFICES ASSUME ExitingIsRecorded, [Next]_vars, pc' = "exiting"
               PROVE  run'.status # "running"
    BY DEF ExitingIsRecorded
  <2> USE DEF ExitingIsRecorded
  <2>1. CASE UNCHANGED vars \/ Children \/ Publish \/ Lose
    BY <2>1 DEF vars, driver, Children, IngestChild, DetectChild, ExtractChild, FilingChild,
       ValidateChild, LoadChild, DbtChild, Running, Publish, Lose
  <2>2. CASE Acquire \/ Start \/ Release \/ SkipValidate
    <3>1. pc' # "exiting"
      BY <2>2 DEF Acquire, Start, Release, SkipValidate, Goes
    <3> QED BY <3>1
  <2>3. CASE Kill \/ RemoveLock \/ FullExtractByHand \/ Interrupt
    <3>1. Interrupt => run'.status = "stopped"
      BY DEF Interrupt, Finish
    <3>2. pc' = "exiting" => Interrupt
      BY <2>3 DEF Kill, RemoveLock, FullExtractByHand
    <3> QED BY <3>1, <3>2
  <2>4. CASE FilingDone
    <3>1. pc' = "exiting" => Halts("extract_filing")
      BY <2>4 DEF FilingDone, Goes
    <3> QED BY <3>1 DEF Halts, Stops, Finish
  <2>5. CASE IngestDone \/ NoKey \/ NoDbt
    BY <2>5 DEF IngestDone, NoKey, NoDbt, Halts, Stops, Goes, Finish
  <2>6. CASE DetectDone
    <3>1. AfterDetect(child.report) # "exiting"
      BY DEF AfterDetect
    <3> QED BY <2>6, <3>1 DEF DetectDone, NoDecision, Stops, Goes, Finish
  <2>7. CASE ExtractDone \/ ValidateDone \/ LoadDone \/ DbtDone
    BY <2>7 DEF ExtractDone, ValidateDone, LoadDone, DbtDone, Halts, Stops, Goes, Finish
  <2>8. CASE RedetectDone
    BY <2>8 DEF RedetectDone, RunStatusFor, NoDecision, Stops, Goes, Finish
  <2> QED BY <2>1, <2>2, <2>3, <2>4, <2>5, <2>6, <2>7, <2>8 DEF Next, Driver, World
<1>3. ExitingIsRecorded /\ [Next]_vars =>
        [pc # "dead" /\ pc' = "idle" /\ pc # pc' => run.status # "running"]_vars
  <2> SUFFICES ASSUME ExitingIsRecorded, Next, pc # "dead", pc' = "idle", pc # pc'
               PROVE  run.status # "running"
    OBVIOUS
  <2>1. pc = "exiting"
    BY DEF Next, Children, Driver, World, IngestChild, DetectChild, ExtractChild, FilingChild,
       ValidateChild, LoadChild, DbtChild, Running, driver, Acquire, Start, Release,
       IngestDone, DetectDone, AfterDetect, NoKey, ExtractDone, FilingDone, RedetectDone,
       SkipValidate, ValidateDone, LoadDone, NoDbt, DbtDone, NoDecision, Halts, Stops, Goes,
       Finish, Kill, Interrupt, RemoveLock, FullExtractByHand, Publish, Lose
  <2> QED BY <2>1 DEF ExitingIsRecorded
<1> QED BY <1>1, <1>2, <1>3, PTL DEF Spec, OnlyTheDeadStayRunning
=============================================================================
