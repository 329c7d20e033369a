------------------------- MODULE DagRunOutcome_proofs -------------------------
(***************************************************************************)
(* What a run of the DAG has done when it comes to an end: every stale     *)
(* filing attempted, the exit code and the node rows in agreement, the     *)
(* verdicts those of the rows loaded, and the marts those of the bytes     *)
(* last seen.  Four invariants, of the stores and of the driver.           *)
(***************************************************************************)
EXTENDS DagRun_proofs, Maxima_proofs

-----------------------------------------------------------------------------
(* The invariants *)

\* The stores follow each other: what was read had been seen, run ids are of the past, an
\* intact directory holds what the ledger says was read, and verdicts newer than it are of it.
LedgerInv ==
    \A d \in Docs :
        /\ bytes[d] # 0 => sighting[d] # "none"
        /\ ledger[d].run # 0 => bytes[d] # 0
        /\ ledger[d].run = 0 <=> ledger[d].status = "none"
        /\ ledger[d].run <= clock

OutputInv ==
    /\ \A f \in Filings : output[f].run <= clock
    /\ \A d \in Docs : Intact(FilingOf[d]) /\ ledger[d].status = "read" =>
          output[FilingOf[d]].rows[d] = ledger[d].hash

VerdictInv ==
    /\ verdicts.run <= clock
    /\ \A f \in Filings : Intact(f) /\ CurrentRun(f) < verdicts.run =>
          verdicts.seen[f] = CurrentRun(f)

StoreInv == LedgerInv /\ OutputInv /\ VerdictInv

\* Before the fan-out there are no rows of it; in it the filings attempted are those the
\* detect found stale and the queue no longer holds.
Attempted == {f \in Filings : fanout[f] # "none"}

NotAttempted == nodes["extract"] = "none" /\ Attempted = {}

FanoutRows == \A f \in Attempted : fanout[f] \in {"ok", "partial", "failed", "crashed"}

FanoutInv ==
    /\ pc \in {"idle", "starting", "dead", "ingest", "detect", "extract"} => NotAttempted
    /\ pc = "extract_filing" =>
          /\ nodes["extract"] = "none" /\ FanoutRows
          /\ queue # {} /\ queue \subseteq decision.stale
          /\ Attempted = decision.stale \ queue
          /\ child.ended => child.code # 3
    /\ IsolatedFanout

\* Where the gate's detect runs something has been extracted, so it is no bootstrap again.
ExtractedOnce == \E d \in Docs : ledger[d].run # 0

OnceInv ==
    /\ pc \in {"extract_filing", "redetect"} => ExtractedOnce
    /\ pc = "extract" /\ child.ended /\ child.produced => ExtractedOnce

\* A run under way has lost nothing but a 1, and has that from a row.
RecordInv ==
    /\ pc \in {"idle", "starting", "dead"} => exit = 0 /\ nodes = NoNodes /\ fanout = NoFanout
    /\ pc \notin {"idle", "dead"} => opts.dag \in {"full", "warehouse"}
    /\ pc \in Nodes =>
          /\ ~Ran("halted") /\ ~Ran("gate_failed") /\ exit \in {0, 1}
          /\ pc \notin {"load", "dbt_build"} => opts.dag = "full"
          /\ opts.dag # "full" => exit = 0
          /\ exit = 0 => (\A n \in Nodes : nodes[n] \in Worked)
                         /\ (\A f \in Filings : fanout[f] \in Worked)
    /\ ExitTellsTheRun

\* Past the gate: no sighting failed if the exit code is still 0, verdicts and raw tables are
\* of what is current, and so are the marts of a build that succeeded.
AllVerdicts == \A f \in Filings : Intact(f) => verdicts.seen[f] = CurrentRun(f)

RawIsShown == raw.rows = [d \in Docs |-> Shown(d)]

PublishInv ==
    /\ pc = "starting" => ~child.ended
    /\ pc \in {"validate", "load", "dbt_build"} /\ opts.dag = "full" /\ exit = 0 =>
          DetectReport.unknown = {}
    /\ pc = "validate" /\ child.ended /\ child.produced => AllVerdicts
    /\ pc = "load" /\ child.ended /\ child.code = 0 => RawIsShown
    /\ pc = "dbt_build" => RawIsShown /\ (child.ended /\ child.code = 0 => marts = raw.rows)
    /\ VerdictsCoverFacts
    /\ ConvergedIsPublished

-----------------------------------------------------------------------------
(* The stores *)

\* The current run of a filing is the greatest of its documents' runs, or 0.
LEMMA CurrentRunIsMax ==
    ASSUME StoresTypeOK, \A d \in Docs : ledger[d].run <= clock, NEW f
    PROVE  /\ CurrentRun(f) \in Nat /\ CurrentRun(f) <= clock
           /\ \A d \in DocsOf(f) : ledger[d].run <= CurrentRun(f)
           /\ CurrentRun(f) = 0 \/ \E d \in DocsOf(f) : CurrentRun(f) = ledger[d].run
<1>. DEFINE S == {0} \cup {ledger[d].run : d \in DocsOf(f)}
<1>1. /\ S \subseteq Nat /\ S # {} /\ clock \in Nat
      /\ \A x \in S : x <= clock
  BY DEF StoresTypeOK, DocsOf
<1>2. Max(S) \in S /\ \A x \in S : x <= Max(S)
  BY <1>1, BoundedMax
<1>. QED BY <1>1, <1>2 DEF CurrentRun

\* The filing's current run is a function of its ledger rows.
LEMMA CurrentRunSame ==
    ASSUME NEW f, \A d \in DocsOf(f) : ledger'[d].run = ledger[d].run
    PROVE  CurrentRun(f)' = CurrentRun(f)
<1>1. {ledger'[d].run : d \in DocsOf(f)} = {ledger[d].run : d \in DocsOf(f)}
  OBVIOUS
<1>2. DocsOf(f)' = DocsOf(f)
  BY DEF DocsOf
<1>. QED BY <1>1, <1>2 DEF CurrentRun

\* What the durable facts are a function of.
Durable == <<sighting, bytes, ledger, output, verdicts, clock>>

\* Extract rows and directories of one run: the directories of filings that have rows, and
\* only when every row has been written.
ExtractWrites(fs, written, stored, reading) ==
    /\ Extracted(written, stored, reading)
    /\ reading \in ReadingOf(fs)
    /\ written \subseteq Lost \cup Resolved(fs)
    /\ stored \subseteq HasRows(fs, reading)
    /\ stored # {} => written = Lost \cup Resolved(fs)

\* What an extract child does to the stores, however it ends.
LEMMA ExtractMoves ==
    ASSUME NEW fs, NEW full, ExtractEnds(fs, full) \/ ExtractDies(fs)
    PROVE  \E written, stored, reading :
              /\ ExtractWrites(fs, written, stored, reading)
              /\ child'.produced = (written # {})
<1>1. CASE ExtractEnds(fs, full)
  <2>. PICK reading \in ReadingOf(fs), code \in {0, 1, 3} :
            /\ Extracted(Lost \cup Resolved(fs), HasRows(fs, reading), reading)
            /\ child' = Ended(code, Lost \cup Resolved(fs) # {}, Lost # {} \/ ~Clean(reading))
    BY <1>1 DEF ExtractEnds
  <2>1. ExtractWrites(fs, Lost \cup Resolved(fs), HasRows(fs, reading), reading)
    BY DEF ExtractWrites
  <2>2. child'.produced = (Lost \cup Resolved(fs) # {})
    BY DEF Ended, NoResult
  <2>. QED BY <2>1, <2>2
<1>2. CASE ExtractDies(fs)
  <2>1. \A written \in Progress(fs) : written \subseteq Lost \cup Resolved(fs)
    BY DEF Progress
  <2>. QED BY <1>2, <2>1 DEF ExtractDies, ExtractWrites, Ended, NoResult
<1>. QED BY <1>1, <1>2

\* How a step moves them.
LEMMA StoresMove ==
    ASSUME TypeOK, [Next]_vars
    PROVE  \/ UNCHANGED Durable
           \/ \E bad : \E seen \in SUBSET {d \in Docs : source[d] # 0} : IngestSaw(seen, bad)
           \/ \E fs \in SUBSET Filings : \E written, stored, reading :
                 ExtractWrites(fs, written, stored, reading)
           \/ \E ended : Validated(ended)
<1>. USE DEF Durable, stores, disk
<1>1. CASE UNCHANGED vars
  BY <1>1 DEF vars
<1>2. CASE Refused \/ DetectPrints \/ NoManifest \/ DetectDies
  BY <1>2 DEF Refused, DetectPrints, NoManifest, DetectDies
<1>3. CASE Ingest
  BY <1>3 DEF Ingest
<1>4. CASE \E fs \in SUBSET Filings : \E full : ExtractEnds(fs, full) \/ ExtractDies(fs)
  BY <1>4, ExtractMoves
<1>5. CASE ValidateEnds \/ ValidateGateFails \/ ValidateDies
  BY <1>5 DEF ValidateEnds, ValidateGateFails, ValidateDies
<1>6. CASE Load \/ DbtBuild
  BY <1>6 DEF Load, DbtBuild
<1>7. CASE Driver
  BY <1>7 DEF Driver, Acquire, Start, Release, IngestDone, DetectDone, NoKey, ExtractDone,
     FilingDone, RedetectDone, SkipValidate, ValidateDone, LoadDone, NoDbt, DbtDone, Takes
<1>8. CASE World /\ ~FullExtractByHand
  BY <1>8 DEF World, Kill, Interrupt, RemoveLock, Publish, Lose, Amend, LoseFile
<1>9. CASE FullExtractByHand
  BY <1>4, <1>9 DEF FullExtractByHand
<1>10. CASE FilingChild
  <2>1. {Min(queue)} \in SUBSET Filings
    BY <1>10, LeastNatural, DocsAssumption DEF FilingChild, TypeOK
  <2>. QED BY <1>2, <1>4, <1>10, <2>1 DEF FilingChild
<1>. QED BY <1>1, <1>2, <1>3, <1>4, <1>5, <1>6, <1>7, <1>8, <1>9, <1>10
     DEF Next, Children, IngestChild, DetectChild, ExtractChild, ValidateChild, LoadChild, DbtChild

LEMMA StoreInvInit == Init => StoreInv
<1>. SUFFICES ASSUME Init PROVE StoreInv
  OBVIOUS
<1>. USE DEF Init, StoresInit
<1>1. LedgerInv
  BY DEF LedgerInv, NoOutcome, NoRows
<1>2. \A f \in Filings : CurrentRun(f) = 0
  <2>1. TypeOK /\ clock = 0
    BY InitType
  <2>. QED BY <2>1, <1>1, CurrentRunIsMax DEF TypeOK, LedgerInv
<1>3. OutputInv
  BY <1>2, FilingOfAssumption DEF OutputInv, Intact
<1>4. VerdictInv
  BY <1>2 DEF VerdictInv, Intact
<1>. QED BY <1>1, <1>3, <1>4 DEF StoreInv

LEMMA StoreInvSame ==
    ASSUME StoreInv, UNCHANGED Durable
    PROVE  StoreInv'
<1>1. \A f : CurrentRun(f)' = CurrentRun(f) /\ Intact(f)' = Intact(f)
  BY DEF Durable, CurrentRun, Intact, DocsOf
<1>. QED BY <1>1 DEF StoreInv, LedgerInv, OutputInv, VerdictInv, Durable

\* Sightings are added and never taken back.
LEMMA StoreInvIngest ==
    ASSUME StoreInv, NEW seen \in SUBSET {d \in Docs : source[d] # 0}, NEW bad, IngestSaw(seen, bad)
    PROVE  StoreInv'
<1>1. \A f : CurrentRun(f)' = CurrentRun(f) /\ Intact(f)' = Intact(f)
  BY DEF IngestSaw, CurrentRun, Intact, DocsOf
<1>2. LedgerInv'
  BY DEF IngestSaw, StoreInv, LedgerInv
<1>. QED BY <1>1, <1>2 DEF StoreInv, OutputInv, VerdictInv, IngestSaw

\* A validate run is newer than every extract run, and sees the current ones.
LEMMA StoreInvValidate ==
    ASSUME StoresTypeOK, StoreInv, NEW ended, Validated(ended)
    PROVE  StoreInv' /\ AllVerdicts'
<1>1. \A f : CurrentRun(f)' = CurrentRun(f) /\ Intact(f)' = Intact(f)
  BY DEF Validated, CurrentRun, Intact, DocsOf
<1>2. clock' = clock + 1 /\ clock \in Nat
  BY DEF Validated, StoresTypeOK
<1>3. LedgerInv'
  BY <1>2 DEF Validated, StoreInv, LedgerInv, StoresTypeOK
<1>4. OutputInv'
  BY <1>1, <1>2 DEF Validated, StoreInv, OutputInv, StoresTypeOK
<1>5. AllVerdicts'
  BY <1>1 DEF Validated, AllVerdicts, Intact
<1>6. VerdictInv'
  BY <1>2, <1>5 DEF Validated, VerdictInv, AllVerdicts
<1>. QED BY <1>3, <1>4, <1>5, <1>6 DEF StoreInv

\* A ledger row after an extract: a new one of this run, or the one that was there.
LEMMA LedgerRowIs ==
    ASSUME NEW d, NEW reading
    PROVE  /\ LedgerRow(d, reading).run = clock + 1
           /\ LedgerRow(d, reading).status \in {"read", "failed"}
           /\ LedgerRow(d, reading).status = "read" =>
                 d \notin Lost /\ reading[d] = "read" /\ LedgerRow(d, reading).hash = bytes[d]
<1>1. CASE d \in Lost \/ reading[d] = "raised"
  BY <1>1 DEF LedgerRow
<1>2. CASE ~(d \in Lost \/ reading[d] = "raised")
  <2>1. CASE reading[d] = "read"
    BY <1>2, <2>1 DEF LedgerRow
  <2>2. CASE reading[d] # "read"
    BY <1>2, <2>2 DEF LedgerRow
  <2>. QED BY <2>1, <2>2
<1>. QED BY <1>1, <1>2

\* A filing an extract recorded a document of has that run for its current one; the others
\* keep theirs, and the directories of filings without a row are left alone.
LEMMA ExtractedRuns ==
    ASSUME StoresTypeOK, LedgerInv, NEW fs, NEW written, NEW stored, NEW reading,
           ExtractWrites(fs, written, stored, reading), NEW f \in Filings
    PROVE  IF DocsOf(f) \cap written = {}
           THEN /\ CurrentRun(f)' = CurrentRun(f) /\ output'[f] = output[f]
                /\ \A d \in DocsOf(f) : ledger'[d] = ledger[d]
           ELSE CurrentRun(f)' = clock + 1
<1>0. written \subseteq Docs /\ clock \in Nat
  BY DEF ExtractWrites, Lost, Resolved, Known, StoresTypeOK
<1>1. \A d \in Docs \ written : ledger'[d] = ledger[d]
  BY DEF ExtractWrites, Extracted
<1>2. \A d \in written : ledger'[d].run = clock + 1
  BY <1>0, LedgerRowIs DEF ExtractWrites, Extracted
<1>3. CASE DocsOf(f) \cap written = {}
  <2>1. \A d \in DocsOf(f) : ledger'[d] = ledger[d]
    BY <1>1, <1>3 DEF DocsOf
  <2>2. f \notin stored
    <3>. SUFFICES ASSUME f \in stored PROVE FALSE
      OBVIOUS
    <3>1. f \in fs /\ RowsOf(f, reading) # NoRows /\ written = Lost \cup Resolved(fs)
      BY DEF ExtractWrites, HasRows
    <3>2. PICK d \in Docs : d \in Resolved({f})
      BY <3>1 DEF RowsOf, NoRows
    <3>. QED BY <1>3, <3>1, <3>2 DEF Resolved, DocsOf
  <2>. QED BY <1>3, <2>1, <2>2, CurrentRunSame DEF ExtractWrites, Extracted
<1>4. CASE DocsOf(f) \cap written # {}
  <2>. DEFINE S == {0} \cup {ledger'[d].run : d \in DocsOf(f)}
  <2>1. \A d \in DocsOf(f) : ledger'[d].run \in Nat /\ ledger'[d].run <= clock + 1
    <3>. SUFFICES ASSUME NEW d \in Docs
                  PROVE  ledger'[d].run \in Nat /\ ledger'[d].run <= clock + 1
      BY DEF DocsOf
    <3>1. ledger[d].run \in Nat /\ ledger[d].run <= clock
      BY DEF LedgerInv, StoresTypeOK
    <3>2. CASE d \in written
      BY <1>0, <1>2, <3>2
    <3>3. CASE d \notin written
      BY <1>0, <1>1, <3>1, <3>3
    <3>. QED BY <3>2, <3>3
  <2>2. clock + 1 \in S
    BY <1>2, <1>4
  <2>3. Max(S) = clock + 1
    BY <1>0, <2>1, <2>2, MaxIs
  <2>4. CurrentRun(f)' = Max(S)
    BY DEF CurrentRun, DocsOf
  <2>. QED BY <1>4, <2>3, <2>4
<1>. QED BY <1>3, <1>4

\* Whatever an extract leaves unfinished: a directory is written after all the rows.
LEMMA StoreInvExtract ==
    ASSUME StoresTypeOK, StoreInv, NEW fs, NEW written, NEW stored, NEW reading,
           ExtractWrites(fs, written, stored, reading)
    PROVE  StoreInv'
<1>0. /\ written \subseteq Docs /\ clock \in Nat /\ clock' \in {clock, clock + 1}
      /\ UNCHANGED <<sighting, bytes, verdicts>>
      /\ written # {} => clock' = clock + 1
      /\ \A d \in written : bytes[d] # 0
  BY DEF ExtractWrites, Extracted, Lost, Resolved, Known, StoresTypeOK
<1>1. \A d \in Docs : ledger'[d] = IF d \in written THEN LedgerRow(d, reading) ELSE ledger[d]
  BY DEF ExtractWrites, Extracted
<1>2. LedgerInv'
  <2>1. ASSUME NEW d \in Docs
        PROVE  /\ ledger'[d].run # 0 => bytes[d] # 0
               /\ ledger'[d].run = 0 <=> ledger'[d].status = "none"
               /\ ledger'[d].run <= clock'
    <3>1. CASE d \in written
      <4>1. ledger'[d].run = clock + 1 /\ ledger'[d].status \in {"failed", "read"}
        BY <1>1, <3>1, LedgerRowIs
      <4>. QED BY <1>0, <3>1, <4>1
    <3>2. CASE d \notin written
      <4>1. ledger'[d] = ledger[d] /\ ledger[d].run \in Nat
        BY <1>1, <3>2 DEF StoresTypeOK
      <4>. QED BY <1>0, <4>1 DEF StoreInv, LedgerInv
    <3>. QED BY <3>1, <3>2
  <2>. QED BY <1>0, <2>1 DEF StoreInv, LedgerInv
<1>3. OutputInv'
  <2>1. \A f \in Filings : output'[f].run <= clock'
    <3>1. \A f \in Filings : output[f].run \in Nat /\ output[f].run <= clock
      BY DEF StoresTypeOK, StoreInv, OutputInv
    <3>2. stored # {} => written # {}
      <4>1. \A f \in stored : \E d \in Docs : d \in Resolved({f}) /\ f \in fs
        BY DEF ExtractWrites, HasRows, RowsOf, NoRows
      <4>. QED BY <4>1 DEF ExtractWrites, Resolved
    <3>. QED BY <1>0, <3>1, <3>2 DEF ExtractWrites, Extracted
  <2>2. ASSUME NEW d \in Docs, Intact(FilingOf[d])', ledger'[d].status = "read"
        PROVE  output'[FilingOf[d]].rows[d] = ledger'[d].hash
    <3>. PICK f \in Filings : f = FilingOf[d]
      BY FilingOfAssumption
    <3>0. d \in DocsOf(f) /\ output[f].run \in Nat /\ output[f].run <= clock
      BY DEF DocsOf, StoresTypeOK, StoreInv, OutputInv
    <3>1. CASE DocsOf(f) \cap written = {}
      BY <2>2, <3>0, <3>1, <1>2, ExtractedRuns DEF StoreInv, OutputInv, Intact
    <3>2. CASE DocsOf(f) \cap written # {}
      <4>1. output'[f].run = clock + 1
        BY <2>2, <3>2, ExtractedRuns DEF Intact, StoreInv
      <4>2. f \in stored
        BY <1>0, <3>0, <4>1 DEF ExtractWrites, Extracted
      <4>3. f \in fs /\ written = Lost \cup Resolved(fs)
        BY <4>2 DEF ExtractWrites, HasRows
      <4>4. output'[f].rows = RowsOf(f, reading)
        BY <4>2 DEF ExtractWrites, Extracted
      <4>5. d \in written
        <5>. SUFFICES ASSUME d \notin written PROVE FALSE
          OBVIOUS
        <5>1. bytes[d] = 0
          BY <3>0, <4>3 DEF Lost, Resolved, Known, DocsOf
        <5>. QED BY <1>1, <2>2, <5>1 DEF StoreInv, LedgerInv
      <4>6. d \notin Lost /\ reading[d] = "read" /\ ledger'[d].hash = bytes[d]
        BY <1>1, <2>2, <4>5, LedgerRowIs
      <4>7. d \in Resolved({f})
        BY <3>0, <4>3, <4>5, <4>6 DEF Resolved, DocsOf
      <4>. QED BY <4>4, <4>6, <4>7 DEF RowsOf
    <3>. QED BY <3>1, <3>2
  <2>. QED BY <2>1, <2>2 DEF OutputInv
<1>4. VerdictInv'
  <2>1. verdicts.run \in Nat /\ verdicts.run <= clock
    BY DEF StoresTypeOK, StoreInv, VerdictInv
  <2>2. ASSUME NEW f \in Filings, Intact(f)', CurrentRun(f)' < verdicts.run
        PROVE  verdicts.seen[f] = CurrentRun(f)'
    <3>1. DocsOf(f) \cap written = {}
      BY <1>0, <2>1, <2>2, ExtractedRuns DEF StoreInv
    <3>2. CurrentRun(f)' = CurrentRun(f) /\ output'[f] = output[f]
      BY <3>1, ExtractedRuns DEF StoreInv
    <3>. QED BY <2>2, <3>2 DEF StoreInv, VerdictInv, Intact
  <2>. QED BY <1>0, <2>1, <2>2 DEF VerdictInv
<1>. QED BY <1>2, <1>3, <1>4 DEF StoreInv

LEMMA StoreInvHolds == Spec => []StoreInv
<1>1. TypeOK /\ StoreInv /\ [Next]_vars => StoreInv'
  BY StoresMove, StoreInvSame, StoreInvIngest, StoreInvExtract, StoreInvValidate DEF TypeOK
<1>. QED BY TypeOKHolds, StoreInvInit, <1>1, PTL DEF Spec

-----------------------------------------------------------------------------
(* The fan-out *)

\* What a child that ran to some end is to the driver.
LEMMA FanoutStatus ==
    ASSUME child.code \in Codes \ {2, 3}, child.produced \in BOOLEAN
    PROVE  /\ ExtractStatus \in {"ok", "partial", "failed", "crashed"}
           /\ ExtractExit \in {0, 1}
           /\ ExtractExit = 0 => ExtractStatus \in {"ok", "partial"}
<1>1. ExtractStatus \in {"ok", "partial", "failed", "crashed"}
  BY DEF ExtractStatus, Crashed, Codes, Killed, NotStarted
<1>. QED BY <1>1 DEF ExtractExit

\* extract --filing asserts no gate.
LEMMA FilingChildCode ==
    ASSUME FilingChild
    PROVE  child'.code # 3
<1>1. PICK fs : ExtractEnds(fs, FALSE) \/ ExtractDies(fs) \/ Refused
  BY DEF FilingChild
<1>2. PICK code \in {0, 1, 2, Killed, NotStarted} :
        \E produced, failed : child' = Ended(code, produced, failed)
  <2>1. CASE ExtractEnds(fs, FALSE)
    BY <2>1 DEF ExtractEnds
  <2>2. CASE ExtractDies(fs)
    BY <2>2 DEF ExtractDies
  <2>3. CASE Refused
    BY <2>3 DEF Refused
  <2>. QED BY <1>1, <2>1, <2>2, <2>3
<1>. QED BY <1>2 DEF Ended, NoResult, Killed, NotStarted

LEMMA FanoutChildren == ASSUME FanoutInv, Children PROVE FanoutInv'
<1>1. UNCHANGED <<pc, decision, queue, nodes, fanout>>
  BY DEF Children, IngestChild, DetectChild, ExtractChild, FilingChild, ValidateChild,
     LoadChild, DbtChild, Running, driver
<1>2. pc = "extract_filing" => FilingChild
  BY DEF Children, IngestChild, DetectChild, ExtractChild, FilingChild, ValidateChild,
     LoadChild, DbtChild, Running
<1>. QED BY <1>1, <1>2, FilingChildCode
     DEF FanoutInv, NotAttempted, Attempted, FanoutRows, IsolatedFanout

\* The filing whose child ends leaves the queue and gets its row.
LEMMA FanoutFilingDone == ASSUME TypeOK, FanoutInv, FilingDone PROVE FanoutInv'
<1>. PICK f \in queue : f = Min(queue)
  BY LeastNatural, DocsAssumption DEF FilingDone, TypeOK
<1>1. f \in Filings /\ fanout \in [Filings -> NodeStatuses]
  BY DEF TypeOK
<1>2. /\ pc = "extract_filing" /\ child.ended /\ child' = NoResult
      /\ child.code \in Codes /\ child.produced \in BOOLEAN
  BY DEF FilingDone, Takes, TypeOK, StoresTypeOK
<1>3. CASE pc' = "exiting"
  BY <1>3 DEF FanoutInv, IsolatedFanout
<1>4. CASE pc' # "exiting"
  <2>1. /\ child.code # 2 /\ queue' = queue \ {f} /\ UNCHANGED <<decision, nodes>>
        /\ fanout' = [fanout EXCEPT ![f] = ExtractStatus]
        /\ pc' = IF queue' = {} THEN "redetect" ELSE "extract_filing"
    BY <1>4 DEF FilingDone, Halts, Stops, Finish, Remaining, Goes
  <2>2. ExtractStatus \in {"ok", "partial", "failed", "crashed"}
    BY <1>2, <2>1, FanoutStatus DEF FanoutInv
  <2>3. Attempted' = Attempted \cup {f}
    BY <1>1, <2>1, <2>2 DEF Attempted
  <2>4. Attempted' = decision.stale \ queue'
    BY <1>2, <2>1, <2>3 DEF FanoutInv
  <2>5. FanoutRows'
    BY <1>1, <1>2, <2>1, <2>2, <2>3 DEF FanoutInv, FanoutRows, Attempted
  <2>6. CASE queue' = {}
    BY <2>1, <2>4, <2>5, <2>6 DEF FanoutInv, IsolatedFanout, Attempted, FanoutRows
  <2>7. CASE queue' # {}
    BY <1>2, <2>1, <2>4, <2>5, <2>7 DEF FanoutInv, IsolatedFanout, NoResult
  <2>. QED BY <2>6, <2>7
<1>. QED BY <1>3, <1>4

LEMMA FanoutDriver == ASSUME TypeOK, FanoutInv, Driver PROVE FanoutInv'
<1>1. CASE Acquire \/ Release
  BY <1>1 DEF Acquire, Release, Forget, FanoutInv, NotAttempted, Attempted, IsolatedFanout,
     NoNodes, NoFanout, Nodes
<1>2. CASE Start
  <2>1. /\ pc = "starting" /\ pc' \in {"load", "detect", "ingest"} /\ fanout' = fanout
        /\ nodes'["extract"] = nodes["extract"]
    BY <1>2 DEF Start, TypeOK, Nodes
  <2>. QED BY <2>1 DEF FanoutInv, NotAttempted, Attempted, IsolatedFanout
<1>3. CASE IngestDone
  <2>1. /\ pc = "ingest" /\ pc' \in {"exiting", "detect"} /\ fanout' = fanout
        /\ nodes'["extract"] = nodes["extract"]
    BY <1>3 DEF IngestDone, Takes, Halts, Stops, Finish, Commit, Goes, TypeOK, Nodes
  <2>. QED BY <2>1 DEF FanoutInv, NotAttempted, Attempted, IsolatedFanout
<1>4. CASE DetectDone
  <2>1. pc = "detect" /\ fanout' = fanout /\ child' = NoResult
    BY <1>4 DEF DetectDone, Takes, NoDecision, Stops
  <2>2. CASE pc' = "exiting"
    BY <2>2 DEF FanoutInv, IsolatedFanout
  <2>3. CASE pc' # "exiting"
    <3>1. /\ pc' = AfterDetect(child.report) /\ decision' = child.report
          /\ queue' = IF pc' = "extract_filing" THEN child.report.stale ELSE {}
          /\ nodes'["extract"] = nodes["extract"]
      BY <1>4, <2>3 DEF DetectDone, NoDecision, Stops, Finish, Goes, TypeOK, Nodes
    <3>2. pc' = "extract_filing" => child.report.stale # {}
      BY <3>1 DEF AfterDetect
    <3>3. pc' \in {"extract", "extract_filing", "validate"}
      BY <3>1 DEF AfterDetect
    <3>. QED BY <2>1, <3>1, <3>2, <3>3
         DEF FanoutInv, NotAttempted, Attempted, FanoutRows, IsolatedFanout, NoResult
  <2>. QED BY <2>2, <2>3
<1>5. CASE ExtractDone
  <2>1. CASE pc' = "redetect"
    <3>1. child.code # 2 /\ nodes'["extract"] = ExtractStatus
      BY <1>5, <2>1 DEF ExtractDone, Halts, Stops, Finish, Commit, TypeOK, Nodes
    <3>2. ExtractStatus # "none"
      BY <3>1 DEF ExtractStatus, ExtractDone, TypeOK, StoresTypeOK, Codes, Crashed
    <3>. QED BY <2>1, <3>1, <3>2 DEF FanoutInv, IsolatedFanout
  <2>2. CASE pc' # "redetect"
    <3>1. pc' = "exiting"
      BY <1>5, <2>2 DEF ExtractDone, Halts, Stops, Finish, Goes
    <3>. QED BY <3>1 DEF FanoutInv, IsolatedFanout
  <2>. QED BY <2>1, <2>2
<1>6. CASE FilingDone
  BY <1>6, FanoutFilingDone
<1>7. CASE NoKey \/ RedetectDone \/ SkipValidate \/ ValidateDone \/ LoadDone \/ NoDbt \/ DbtDone
  <2>1. pc' \in {"exiting", "validate", "load", "dbt_build"}
    BY <1>7 DEF NoKey, RedetectDone, SkipValidate, ValidateDone, LoadDone, NoDbt, DbtDone,
       NoDecision, Halts, Stops, Finish, Goes
  <2>. QED BY <2>1 DEF FanoutInv, IsolatedFanout
<1>. QED BY <1>1, <1>2, <1>3, <1>4, <1>5, <1>6, <1>7 DEF Driver

LEMMA FanoutWorld == ASSUME FanoutInv, World PROVE FanoutInv'
<1>. USE DEF FanoutInv, NotAttempted, Attempted, FanoutRows, IsolatedFanout
<1>1. CASE Kill \/ Interrupt \/ RemoveLock
  BY <1>1 DEF Kill, Interrupt, RemoveLock, Finish, Forget, NoNodes, NoFanout, Nodes
<1>2. CASE FullExtractByHand
  BY <1>2 DEF FullExtractByHand
<1>3. CASE Publish \/ Lose
  BY <1>3 DEF Publish, Lose, Amend, LoseFile, driver
<1>. QED BY <1>1, <1>2, <1>3 DEF World

LEMMA FanoutInvHolds == Spec => []FanoutInv
<1>1. Init => FanoutInv
  BY DEF Init, FanoutInv, NotAttempted, Attempted, IsolatedFanout, NoNodes, NoFanout, Nodes
<1>2. TypeOK /\ FanoutInv /\ [Next]_vars => FanoutInv'
  <2>1. FanoutInv /\ UNCHANGED vars => FanoutInv'
    BY DEF vars, stores, driver, FanoutInv, NotAttempted, Attempted, FanoutRows, IsolatedFanout
  <2>. QED BY <2>1, FanoutChildren, FanoutDriver, FanoutWorld DEF Next
<1>. QED BY TypeOKHolds, <1>1, <1>2, PTL DEF Spec

\* One bad filing fails in isolation: the re-detect comes when every stale filing has been
\* attempted, for any number of filings and whatever their children did (_extract_node).
THEOREM IsolatedFanoutHolds == Spec => []IsolatedFanout
<1>1. FanoutInv => IsolatedFanout
  BY DEF FanoutInv
<1>. QED BY FanoutInvHolds, <1>1, PTL

-----------------------------------------------------------------------------
(* What the gate's detect can find *)

\* A ledger row is superseded, never withdrawn.
LEMMA OnceKept ==
    ASSUME TypeOK, [Next]_vars, ExtractedOnce
    PROVE  ExtractedOnce'
<1>. PICK d \in Docs : ledger[d].run # 0
  BY DEF ExtractedOnce
<1>1. CASE ledger' = ledger
  BY <1>1 DEF ExtractedOnce
<1>2. CASE \E fs, written, stored, reading : ExtractWrites(fs, written, stored, reading)
  <2>. PICK written, stored, reading : Extracted(written, stored, reading)
    BY <1>2 DEF ExtractWrites
  <2>1. ledger'[d] = ledger[d] \/ ledger'[d] = LedgerRow(d, reading)
    BY DEF Extracted
  <2>2. clock + 1 # 0
    BY DEF TypeOK, StoresTypeOK
  <2>. QED BY <2>1, <2>2, LedgerRowIs DEF ExtractedOnce
<1>. QED BY <1>1, <1>2, StoresMove DEF Durable, IngestSaw, Validated

\* An extract that left a new run id has left a row.
LEMMA ExtractProduces ==
    ASSUME TypeOK, NEW fs, NEW full, ExtractEnds(fs, full) \/ ExtractDies(fs), child'.produced
    PROVE  ExtractedOnce'
<1>. PICK written, stored, reading :
        ExtractWrites(fs, written, stored, reading) /\ child'.produced = (written # {})
  BY ExtractMoves
<1>1. PICK d \in Docs : d \in written
  BY DEF ExtractWrites, Lost, Resolved, Known
<1>2. ledger'[d] = LedgerRow(d, reading) /\ clock + 1 # 0
  BY <1>1 DEF ExtractWrites, Extracted, TypeOK, StoresTypeOK
<1>. QED BY <1>2, LedgerRowIs DEF ExtractedOnce

\* A stale document has been extracted.
LEMMA StaleIsExtracted ==
    ASSUME DetectReport.stale # {}
    PROVE  ExtractedOnce
<1>1. PICK d \in Docs : Currency(sighting[d] = "failed", bytes[d], ledger[d]) = "stale"
  BY DEF DetectReport, Report
<1>2. ledger[d].run # 0
  BY <1>1 DEF Currency
<1>. QED BY <1>2 DEF ExtractedOnce

\* The document that has been is known to detect, and not as never extracted.
LEMMA NoBootstrapAgain ==
    ASSUME StoreInv, ExtractedOnce
    PROVE  ~Bootstrap(DetectReport)
<1>. PICK d \in Docs : ledger[d].run # 0
  BY DEF ExtractedOnce
<1>1. bytes[d] # 0 /\ sighting[d] # "none"
  BY DEF StoreInv, LedgerInv
<1>2. d \in DetectReport.documents
  BY <1>1 DEF DetectReport, Report
<1>3. Currency(sighting[d] = "failed", bytes[d], ledger[d]) # "never_extracted"
  BY <1>1 DEF Currency
<1>4. d \notin DetectReport.never
  BY <1>3 DEF DetectReport, Report
<1>. QED BY <1>2, <1>4 DEF Bootstrap

\* The way to the second detect leads through an extraction.
LEMMA OnceInvNext ==
    ASSUME TypeOK, GateInv, OnceInv, [Next]_vars
    PROVE  OnceInv'
<1>. USE OnceKept DEF OnceInv
<1>1. CASE UNCHANGED vars
  BY <1>1 DEF vars, stores, driver
<1>2. CASE Children
  <2>1. UNCHANGED pc
    BY <1>2 DEF Children, IngestChild, DetectChild, ExtractChild, FilingChild, ValidateChild,
       LoadChild, DbtChild, Running, driver
  <2>2. pc = "extract" => ExtractChild
    BY <1>2 DEF Children, IngestChild, DetectChild, ExtractChild, FilingChild, ValidateChild,
       LoadChild, DbtChild, Running
  <2>3. Refused => ~child'.produced
    BY DEF Refused, Ended, NoResult
  <2>4. ExtractChild /\ child'.produced => ExtractedOnce'
    BY <2>3, ExtractProduces DEF ExtractChild
  <2>. QED BY <2>1, <2>2, <2>4
<1>3. CASE Acquire \/ Start \/ Release
  BY <1>3 DEF Acquire, Start, Release, Nodes
<1>4. CASE IngestDone \/ NoKey \/ RedetectDone \/ SkipValidate \/ ValidateDone \/ LoadDone
           \/ NoDbt \/ DbtDone
  <2>1. pc' \in {"detect", "exiting", "validate", "load", "dbt_build"}
    BY <1>4 DEF IngestDone, NoKey, RedetectDone, SkipValidate, ValidateDone, LoadDone, NoDbt,
       DbtDone, NoDecision, Halts, Stops, Finish, Goes
  <2>. QED BY <2>1
<1>5. CASE DetectDone
  <2>1. ~child'.ended
    BY <1>5 DEF DetectDone, Takes, NoResult
  <2>2. pc' \in {"extract_filing", "redetect"} => child.printed /\ child.report.stale # {}
    BY <1>5 DEF DetectDone, NoDecision, Stops, Finish, Goes, AfterDetect
  <2>3. pc' \in {"extract_filing", "redetect"} => ExtractedOnce
    BY <2>2, StaleIsExtracted DEF GateInv, ReportIsFresh
  <2>. QED BY <2>1, <2>3
<1>6. CASE ExtractDone
  <2>1. pc = "extract" /\ child.ended /\ ~child'.ended
    BY <1>6 DEF ExtractDone, Takes, NoResult
  <2>2. pc' = "redetect" => ~ExtractFailed /\ child.code # 2
    BY <1>6 DEF ExtractDone, Halts, Stops, Finish
  <2>3. child.code \in Codes /\ child.produced \in BOOLEAN
    BY DEF TypeOK, StoresTypeOK
  <2>4. pc' = "redetect" => child.produced
    BY <2>2, <2>3 DEF ExtractFailed, ExtractStatus, Codes, Crashed, Killed, NotStarted
  <2>5. pc' # "extract_filing"
    BY <1>6 DEF ExtractDone, Halts, Stops, Finish, Goes
  <2>. QED BY <2>1, <2>4, <2>5
<1>7. CASE FilingDone
  <2>1. pc = "extract_filing" /\ ~child'.ended
    BY <1>7 DEF FilingDone, Takes, NoResult
  <2>. QED BY <2>1
<1>8. CASE World
  <2>1. CASE Kill \/ Interrupt \/ RemoveLock \/ FullExtractByHand
    BY <2>1 DEF Kill, Interrupt, RemoveLock, Finish, FullExtractByHand
  <2>2. CASE Publish \/ Lose
    BY <2>2 DEF Publish, Lose, Amend, LoseFile, driver
  <2>. QED BY <1>8, <2>1, <2>2 DEF World
<1>. QED BY <1>1, <1>2, <1>3, <1>4, <1>5, <1>6, <1>7, <1>8 DEF Next, Driver

LEMMA OnceInvHolds == Spec => []OnceInv
<1>1. Init => OnceInv
  BY DEF Init, OnceInv
<1>2. TypeOK /\ GateInv /\ OnceInv /\ [Next]_vars => OnceInv'
  BY OnceInvNext
<1>. QED BY TypeOKHolds, GateInvHolds, <1>1, <1>2, PTL DEF Spec

-----------------------------------------------------------------------------
(* The exit code and the rows *)

LEMMA WorstOf ==
    ASSUME NEW a \in {0, 1}
    PROVE  CombineExit(a, 0) = a /\ CombineExit(a, 1) = 1 /\ CombineExit(a, 3) = 3
<1>1. ExitRank[0] = 0 /\ ExitRank[1] = 1 /\ ExitRank[3] = 2
  BY DEF ExitRank
<1>2. CASE a = 0
  BY <1>1, <1>2 DEF CombineExit
<1>3. CASE a = 1
  BY <1>1, <1>3 DEF CombineExit
<1>. QED BY <1>2, <1>3

\* A run that may still come to any end but 2 and 3.
Underway ==
    /\ ~Ran("halted") /\ ~Ran("gate_failed") /\ exit \in {0, 1}
    /\ pc \in Nodes \ {"load", "dbt_build"} => opts.dag = "full"
    /\ opts.dag # "full" => exit = 0
    /\ exit = 0 => (\A n \in Nodes : nodes[n] \in Worked)
                   /\ (\A f \in Filings : fanout[f] \in Worked)

\* What RecordInv says at a node.
LEMMA RecordUnderway ==
    ASSUME RecordInv, pc \in Nodes
    PROVE  Underway /\ opts.dag \in {"full", "warehouse"}
BY DEF RecordInv, Underway, Nodes

\* A run that goes on to another node keeps its record.
LEMMA UnderwayRecord ==
    ASSUME Underway', pc' \in Nodes, opts'.dag \in {"full", "warehouse"}
    PROVE  RecordInv'
BY DEF RecordInv, Underway, Nodes, ExitTellsTheRun

\* The ways to stop at a node: each writes a row, a code and a status that agree.
StopRows ==
    {<<"halted", 2, "halted">>, <<"gate_failed", 3, "gate_failed">>,
     <<"crashed", 1, "stopped">>, <<"failed", 1, "stopped">>, <<"ok", 1, "stopped">>}

\* A run that stops at a node says so in three places.
LEMMA StoppedRecord ==
    ASSUME TypeOK, RecordInv, pc \in Nodes, UNCHANGED opts, NEW node \in Nodes,
           NEW row \in StopRows, nodes' = [nodes EXCEPT ![node] = row[1]],
           run' = [status |-> row[3], exit |-> row[2]], pc' = "exiting"
    PROVE  RecordInv'
<1>1. Underway /\ opts.dag \in {"full", "warehouse"}
  BY RecordUnderway
<1>2. /\ nodes'[node] = row[1]
      /\ \A n \in Nodes \ {node} : nodes'[n] = nodes[n] /\ nodes[n] \notin {"halted", "gate_failed"}
  BY <1>1 DEF TypeOK, Underway, Ran
<1>3. /\ Ran("halted")' <=> row[1] = "halted"
      /\ Ran("gate_failed")' <=> row[1] = "gate_failed"
  BY <1>2 DEF Ran
<1>4. ExitTellsTheRun'
  BY <1>3 DEF ExitTellsTheRun, StopRows
<1>. QED BY <1>1, <1>4 DEF RecordInv, Nodes

LEMMA StopsRecord ==
    ASSUME TypeOK, RecordInv, pc \in Nodes, UNCHANGED opts, NEW node \in Nodes,
           NEW status, NEW code, NEW end, <<status, code, end>> \in StopRows,
           Stops(node, status, code, end)
    PROVE  RecordInv'
<1>. DEFINE row == <<status, code, end>>
<1>1. /\ nodes' = [nodes EXCEPT ![node] = row[1]] /\ pc' = "exiting"
      /\ run' = [status |-> row[3], exit |-> row[2]]
  BY DEF Stops, Commit, Finish
<1>. HIDE DEF row
<1>2. row \in StopRows
  BY DEF row
<1>. QED BY <1>1, <1>2, StoppedRecord

LEMMA HaltsRecord ==
    ASSUME TypeOK, RecordInv, pc \in Nodes, UNCHANGED opts, NEW node \in Nodes, Halts(node)
    PROVE  RecordInv'
BY StopsRecord DEF Halts, StopRows

LEMMA NoDecisionRecord ==
    ASSUME TypeOK, RecordInv, pc \in Nodes, UNCHANGED opts, NEW node \in Nodes, NoDecision(node)
    PROVE  RecordInv'
BY StopsRecord DEF NoDecision, StopRows

\* A node that did its work, and the code it adds.
LEMMA GoesRecord ==
    ASSUME TypeOK, RecordInv, pc \in Nodes, UNCHANGED <<opts, fanout>>, NEW node \in Nodes,
           NEW status \in Worked, nodes' = [nodes EXCEPT ![node] = status],
           pc' \in Nodes, pc' \in {"load", "dbt_build"} \/ pc \notin {"load", "dbt_build"},
           NEW code \in {0, 1}, exit' = CombineExit(exit, code),
           pc \in {"load", "dbt_build"} => code = 0
    PROVE  RecordInv'
<1>1. Underway /\ opts.dag \in {"full", "warehouse"}
  BY RecordUnderway
<1>2. exit' \in {0, 1} /\ (exit' = 0 => exit = 0) /\ (code = 0 => exit' = exit)
  BY <1>1, WorstOf DEF Underway
<1>3. nodes'[node] = status /\ \A n \in Nodes \ {node} : nodes'[n] = nodes[n]
  BY DEF TypeOK
<1>4. status \notin {"halted", "gate_failed"}
  BY DEF Worked
<1>5. Underway'
  BY <1>1, <1>2, <1>3, <1>4 DEF Underway, Ran
<1>. QED BY <1>1, <1>5, UnderwayRecord

\* The row and the code of an extract child.
LEMMA ExtractOutcome ==
    ASSUME child.code \in Codes \ {2}, child.produced \in BOOLEAN
    PROVE  \/ ExtractFailed /\ ExtractStatus = "gate_failed" /\ ExtractExit = 3
           \/ ExtractFailed /\ ExtractStatus \in {"crashed", "failed"} /\ ExtractExit = 1
           \/ ~ExtractFailed /\ ExtractStatus \in {"ok", "partial"} /\ ExtractExit \in {0, 1}
<1>1. CASE child.code = 3
  <2>1. ExtractStatus = "gate_failed"
    BY <1>1 DEF ExtractStatus, Crashed
  <2>. QED BY <2>1 DEF ExtractExit, ExtractFailed
<1>2. CASE child.code # 3
  <2>1. ExtractStatus \in {"ok", "partial", "failed", "crashed"} /\ ExtractExit \in {0, 1}
    BY <1>2, FanoutStatus
  <2>. QED BY <2>1 DEF ExtractExit, ExtractFailed
<1>. QED BY <1>1, <1>2

LEMMA RecordStart ==
    ASSUME TypeOK, RecordInv, Acquire \/ Start \/ Release
    PROVE  RecordInv'
<1>1. CASE Acquire
  <2>1. opts'.dag \in {"full", "warehouse"}
    BY <1>1, OptionsAssumption DEF Acquire, AllOptions
  <2>. QED BY <1>1, <2>1 DEF Acquire, RecordInv, Nodes, ExitTellsTheRun
<1>2. CASE Start
  <2>1. /\ opts.dag \in {"full", "warehouse"} /\ opts' = opts
        /\ exit' = 0 /\ nodes = NoNodes /\ fanout' = NoFanout
    BY <1>2 DEF Start, RecordInv
  <2>2. \A n \in Nodes : nodes'[n] \in {"none", "skipped"}
    BY <1>2, <2>1 DEF Start, NoNodes
  <2>3. pc' \in Nodes /\ (pc' # "load" => opts.dag = "full")
    BY <1>2, <2>1 DEF Start, Nodes
  <2>4. Underway'
    BY <2>1, <2>2, <2>3 DEF Underway, Ran, Worked, NoFanout
  <2>. QED BY <2>1, <2>3, <2>4, UnderwayRecord
<1>3. CASE Release
  BY <1>3 DEF Release, Forget, RecordInv, Nodes, ExitTellsTheRun
<1>. QED BY <1>1, <1>2, <1>3

LEMMA RecordDetectDone ==
    ASSUME TypeOK, RecordInv, DetectDone
    PROVE  RecordInv'
<1>1. pc = "detect" /\ "detect" \in Nodes /\ pc \in Nodes /\ UNCHANGED <<opts, fanout>>
  BY DEF DetectDone, Takes, Nodes, NoDecision, Stops
<1>2. CASE NoDecision("detect")
  BY <1>1, <1>2, NoDecisionRecord
<1>3. CASE Commit("detect", "gate_failed") /\ Finish(3, "gate_failed")
  <2>. DEFINE row == <<"gate_failed", 3, "gate_failed">>
  <2>1. row \in StopRows
    BY DEF StopRows
  <2>2. /\ nodes' = [nodes EXCEPT !["detect"] = row[1]] /\ pc' = "exiting"
        /\ run' = [status |-> row[3], exit |-> row[2]]
    BY <1>3 DEF Commit, Finish
  <2>. HIDE DEF row
  <2>. QED BY <1>1, <2>1, <2>2, StoppedRecord
<1>4. CASE pc' = AfterDetect(child.report)
  <2>1. Underway /\ opts.dag = "full"
    BY <1>1, RecordUnderway DEF RecordInv
  <2>2. pc' \in Nodes
    BY <1>4 DEF AfterDetect, Nodes
  <2>3. \A n \in Nodes : nodes'[n] \in {nodes[n], "ok", "skipped"}
    BY <1>1, <1>4, <2>2 DEF DetectDone, NoDecision, Stops, Finish, Nodes, TypeOK
  <2>4. exit' = exit \/ exit' = CombineExit(exit, 1)
    BY DEF DetectDone, NoDecision, Stops
  <2>5. exit' \in {0, 1} /\ (exit' = 0 => exit = 0)
    BY <2>1, <2>4, WorstOf DEF Underway
  <2>6. Underway'
    BY <1>1, <2>1, <2>3, <2>5 DEF Underway, Ran, Worked
  <2>. QED BY <1>1, <2>1, <2>2, <2>6, UnderwayRecord
<1>. QED BY <1>2, <1>3, <1>4 DEF DetectDone, Goes

LEMMA RecordExtractDone ==
    ASSUME TypeOK, RecordInv, ExtractDone
    PROVE  RecordInv'
<1>1. pc = "extract" /\ "extract" \in Nodes /\ pc \in Nodes /\ UNCHANGED <<opts, fanout>>
  BY DEF ExtractDone, Takes, Nodes, Halts, Stops
<1>2. CASE Halts("extract")
  BY <1>1, <1>2, HaltsRecord
<1>3. CASE child.code # 2 /\ ~Halts("extract")
  <2>1. child.code \in Codes \ {2} /\ child.produced \in BOOLEAN
    BY <1>3 DEF TypeOK, StoresTypeOK
  <2>2. /\ nodes' = [nodes EXCEPT !["extract"] = ExtractStatus]
        /\ exit' = CombineExit(exit, ExtractExit)
        /\ IF ExtractFailed
           THEN /\ pc' = "exiting"
                /\ run' = [status |-> IF ExtractStatus = "gate_failed" THEN "gate_failed"
                                                                      ELSE "stopped",
                           exit |-> exit']
           ELSE pc' = "redetect"
    BY <1>3 DEF ExtractDone, Commit, Finish, Goes
  <2>3. exit \in {0, 1}
    BY <1>1, RecordUnderway DEF Underway
  <2>4. CASE ExtractFailed
    <3>1. PICK row \in StopRows : row[1] = ExtractStatus /\ row[2] = exit'
             /\ row[3] = IF ExtractStatus = "gate_failed" THEN "gate_failed" ELSE "stopped"
      BY <2>1, <2>2, <2>3, <2>4, ExtractOutcome, WorstOf DEF StopRows
    <3>. QED BY <1>1, <2>2, <2>4, <3>1, StoppedRecord
  <2>5. CASE ~ExtractFailed
    <3>1. ExtractStatus \in Worked /\ ExtractExit \in {0, 1}
      BY <2>1, <2>5, ExtractOutcome DEF Worked
    <3>2. pc' \in Nodes
      BY <2>2, <2>5 DEF Nodes
    <3>. QED BY <1>1, <2>2, <3>1, <3>2, GoesRecord
  <2>. QED BY <2>4, <2>5
<1>. QED BY <1>2, <1>3 DEF ExtractDone

\* The row of a filing and the code it adds.
LEMMA RecordFilingDone ==
    ASSUME TypeOK, FanoutInv, RecordInv, FilingDone
    PROVE  RecordInv'
<1>1. /\ pc = "extract_filing" /\ "extract_filing" \in Nodes /\ pc \in Nodes /\ opts' = opts
      /\ child.ended
  BY DEF FilingDone, Takes, Nodes
<1>2. CASE Halts("extract_filing")
  BY <1>1, <1>2, HaltsRecord
<1>3. CASE child.code # 2 /\ ~Halts("extract_filing")
  <2>1. child.code \in Codes \ {2, 3} /\ child.produced \in BOOLEAN
    BY <1>1, <1>3 DEF TypeOK, StoresTypeOK, FanoutInv
  <2>2. /\ \E f : fanout' = [fanout EXCEPT ![f] = ExtractStatus]
        /\ exit' = CombineExit(exit, ExtractExit) /\ nodes' = nodes
        /\ pc' \in {"redetect", "extract_filing"}
    BY <1>3 DEF FilingDone, Goes
  <2>3. Underway /\ opts.dag = "full"
    BY <1>1, RecordUnderway DEF RecordInv
  <2>4. exit' \in {0, 1} /\ (exit' = 0 => exit = 0 /\ ExtractExit = 0)
    BY <2>1, <2>2, <2>3, FanoutStatus, WorstOf DEF Underway
  <2>5. exit' = 0 => \A f \in Filings : fanout'[f] \in Worked
    BY <2>1, <2>2, <2>3, <2>4, FanoutStatus DEF Underway, Worked, TypeOK
  <2>6. Underway'
    BY <1>1, <2>2, <2>3, <2>4, <2>5 DEF Underway, Ran
  <2>. QED BY <1>1, <2>2, <2>3, <2>6, UnderwayRecord DEF Nodes
<1>. QED BY <1>2, <1>3 DEF FilingDone

LEMMA RecordRedetectDone ==
    ASSUME TypeOK, GateInv, StoreInv, OnceInv, RecordInv, RedetectDone
    PROVE  RecordInv'
<1>1. pc = "redetect" /\ "redetect" \in Nodes /\ pc \in Nodes /\ UNCHANGED <<opts, fanout>>
  BY DEF RedetectDone, Takes, Nodes, NoDecision, Stops
<1>2. CASE NoDecision("redetect")
  BY <1>1, <1>2, NoDecisionRecord
<1>3. CASE child.printed /\ ~NoDecision("redetect")
  <2>1. exit \in {0, 1}
    BY <1>1, RecordUnderway DEF Underway
  <2>2. nodes' = [nodes EXCEPT !["redetect"] = GapStatus(child.report)]
    BY <1>3 DEF RedetectDone, Commit
  <2>3. ~Bootstrap(child.report)
    BY <1>1, <1>3, NoBootstrapAgain DEF GateInv, ReportIsFresh, OnceInv
  <2>4. GapStatus(child.report) = IF child.report.code = 3 THEN "gate_failed" ELSE "ok"
    BY <2>3 DEF GapStatus, CoverageGap, ExitCoverageGap
  <2>5. CASE child.report.code = 3
    <3>1. run' = [status |-> "gate_failed", exit |-> 3] /\ pc' = "exiting"
      BY <1>3, <2>5 DEF RedetectDone, Finish
    <3>2. PICK row \in StopRows : row = <<"gate_failed", 3, "gate_failed">>
      BY DEF StopRows
    <3>. QED BY <1>1, <2>2, <2>4, <2>5, <3>1, <3>2, StoppedRecord
  <2>6. CASE child.report.code # 3 /\ ~Converged(child.report)
    <3>1. exit' = 1 /\ run' = [status |-> RunStatusFor(exit'), exit |-> exit'] /\ pc' = "exiting"
      BY <1>3, <2>1, <2>6, WorstOf DEF RedetectDone, Finish
    <3>2. RunStatusFor(exit') = "stopped"
      BY <3>1 DEF RunStatusFor
    <3>3. PICK row \in StopRows : row = <<"ok", 1, "stopped">>
      BY DEF StopRows
    <3>. QED BY <1>1, <2>2, <2>4, <2>6, <3>1, <3>2, <3>3, StoppedRecord
  <2>7. CASE child.report.code # 3 /\ Converged(child.report)
    <3>1. /\ pc' = "validate"
          /\ exit' = IF HasUnknown(child.report) THEN CombineExit(exit, 1) ELSE exit
      BY <1>3, <2>7 DEF RedetectDone, Goes
    <3>2. PICK code \in {0, 1} : exit' = CombineExit(exit, code)
      BY <2>1, <3>1, WorstOf
    <3>3. pc' \in Nodes /\ "ok" \in Worked
      BY <3>1 DEF Nodes, Worked
    <3>. QED BY <1>1, <2>2, <2>4, <2>7, <3>2, <3>3, GoesRecord
  <2>. QED BY <2>5, <2>6, <2>7
<1>. QED BY <1>2, <1>3 DEF RedetectDone

LEMMA RecordIngestDone ==
    ASSUME TypeOK, RecordInv, IngestDone
    PROVE  RecordInv'
<1>1. pc = "ingest" /\ "ingest" \in Nodes /\ pc \in Nodes /\ UNCHANGED <<opts, fanout>>
  BY DEF IngestDone, Takes, Nodes, Halts, Stops
<1>2. CASE Halts("ingest") \/ Stops("ingest", "crashed", 1, "stopped")
           \/ Stops("ingest", "failed", 1, "stopped")
  BY <1>1, <1>2, HaltsRecord, StopsRecord DEF StopRows
<1>3. CASE child.code \in {0, 1} /\ Goes("detect")
           /\ Commit("ingest", IF child.code = 1 THEN "partial" ELSE "ok")
           /\ exit' = CombineExit(exit, child.code)
  <2>. PICK status \in Worked : status = IF child.code = 1 THEN "partial" ELSE "ok"
    BY DEF Worked
  <2>1. pc' \in Nodes /\ nodes' = [nodes EXCEPT !["ingest"] = status]
    BY <1>3 DEF Goes, Nodes, Commit
  <2>. QED BY <1>1, <1>3, <2>1, GoesRecord
<1>. QED BY <1>2, <1>3 DEF IngestDone

\* Skipped or done, validate and load leave the exit code alone.
LEMMA RecordTail ==
    ASSUME TypeOK, RecordInv, SkipValidate \/ ValidateDone \/ LoadDone \/ NoKey \/ NoDbt
    PROVE  RecordInv'
<1>1. pc \in Nodes /\ UNCHANGED <<opts, fanout>> /\ pc \notin {"ingest", "detect"}
  BY DEF SkipValidate, ValidateDone, LoadDone, NoKey, NoDbt, Takes, Nodes, Halts, Stops
<1>2. CASE Halts("validate") \/ Halts("load")
  BY <1>1, <1>2, HaltsRecord DEF Nodes
<1>3. ASSUME NEW node \in Nodes,
             \/ Stops(node, "crashed", 1, "stopped") \/ Stops(node, "failed", 1, "stopped")
             \/ Stops(node, "gate_failed", 3, "gate_failed")
      PROVE  RecordInv'
  BY <1>1, <1>3, StopsRecord DEF StopRows
<1>4. CASE \E node \in {"validate", "load"}, status \in {"ok", "findings", "skipped"} :
              /\ Commit(node, status) /\ exit' = exit
              /\ pc' \in {"load", "dbt_build"}
  <2>. PICK node \in {"validate", "load"}, status \in {"ok", "findings", "skipped"} :
              Commit(node, status) /\ exit' = exit /\ pc' \in {"load", "dbt_build"}
    BY <1>4
  <2>1. exit' = CombineExit(exit, 0)
    BY <1>1, RecordUnderway, WorstOf DEF Underway
  <2>2. node \in Nodes /\ status \in Worked /\ pc' \in Nodes
    BY DEF Nodes, Worked
  <2>. QED BY <1>1, <2>1, <2>2, GoesRecord DEF Commit
<1>. QED BY <1>1, <1>2, <1>3, <1>4
     DEF SkipValidate, ValidateDone, LoadDone, NoKey, NoDbt, Goes, Nodes

LEMMA RecordDbtDone ==
    ASSUME TypeOK, RecordInv, DbtDone
    PROVE  RecordInv'
<1>1. pc = "dbt_build" /\ "dbt_build" \in Nodes /\ pc \in Nodes /\ UNCHANGED <<opts, fanout, exit>>
  BY DEF DbtDone, Takes, Nodes, Stops
<1>2. CASE Stops("dbt_build", "gate_failed", 3, "gate_failed")
  BY <1>1, <1>2, StopsRecord DEF StopRows
<1>3. CASE /\ Commit("dbt_build", "ok")
           /\ IF opts.dag = "full" /\ exit # 0 THEN Finish(exit, "partial")
                                               ELSE Finish(0, "converged")
  <2>1. Underway /\ opts.dag \in {"full", "warehouse"}
    BY <1>1, RecordUnderway
  <2>2. nodes'["dbt_build"] = "ok" /\ \A n \in Nodes \ {"dbt_build"} : nodes'[n] = nodes[n]
    BY <1>1, <1>3 DEF Commit, TypeOK
  <2>3. ~Ran("halted")' /\ ~Ran("gate_failed")'
    BY <2>1, <2>2 DEF Underway, Ran
  <2>4. /\ pc' = "exiting"
        /\ run' = IF exit = 0 THEN [status |-> "converged", exit |-> 0]
                              ELSE [status |-> "partial", exit |-> 1]
    BY <1>3, <2>1 DEF Finish, Underway
  <2>5. exit = 0 => (\A n \in Nodes : nodes'[n] \in Worked)
                    /\ (\A f \in Filings : fanout'[f] \in Worked)
    BY <1>1, <2>1, <2>2 DEF Underway, Worked
  <2>6. ExitTellsTheRun'
    BY <2>2, <2>3, <2>4, <2>5 DEF ExitTellsTheRun
  <2>. QED BY <1>1, <2>1, <2>4, <2>6 DEF RecordInv, Nodes
<1>. QED BY <1>2, <1>3 DEF DbtDone

\* The record does not depend on the stores.
LEMMA RecordSame ==
    ASSUME RecordInv, UNCHANGED driver
    PROVE  RecordInv'
BY DEF driver, RecordInv, Ran, ExitTellsTheRun

LEMMA RecordWorld ==
    ASSUME TypeOK, RecordInv, World
    PROVE  RecordInv'
<1>1. CASE Kill
  BY <1>1 DEF Kill, Forget, RecordInv, Nodes, ExitTellsTheRun
<1>2. CASE Interrupt
  <2>1. /\ pc \in Nodes \cup {"starting"} /\ UNCHANGED <<opts, nodes>>
        /\ pc' = "exiting" /\ run' = [status |-> "stopped", exit |-> 1]
    BY <1>2 DEF Interrupt, Finish, Alive, TypeOK
  <2>2. ~Ran("halted") /\ ~Ran("gate_failed")
    BY <2>1 DEF RecordInv, Ran, NoNodes
  <2>3. ExitTellsTheRun'
    BY <2>1, <2>2 DEF ExitTellsTheRun, Ran
  <2>. QED BY <2>1, <2>3 DEF RecordInv, Nodes
<1>3. CASE RemoveLock
  BY <1>3 DEF RemoveLock, RecordInv, Nodes, ExitTellsTheRun
<1>4. CASE FullExtractByHand
  BY <1>4 DEF FullExtractByHand, RecordInv, Nodes, ExitTellsTheRun
<1>5. CASE Publish \/ Lose
  BY <1>5, RecordSame DEF Publish, Lose
<1>. QED BY <1>1, <1>2, <1>3, <1>4, <1>5 DEF World

LEMMA RecordNext ==
    ASSUME TypeOK, GateInv, StoreInv, OnceInv, FanoutInv, RecordInv, [Next]_vars
    PROVE  RecordInv'
<1>1. UNCHANGED vars \/ Children => UNCHANGED driver
  BY DEF vars, Children, IngestChild, DetectChild, ExtractChild, FilingChild, ValidateChild,
     LoadChild, DbtChild, Running
<1>. QED BY <1>1, RecordSame, RecordStart, RecordIngestDone, RecordDetectDone, RecordExtractDone,
     RecordFilingDone, RecordRedetectDone, RecordTail, RecordDbtDone, RecordWorld DEF Next, Driver

LEMMA RecordInvHolds == Spec => []RecordInv
<1>1. Init => RecordInv
  BY DEF Init, RecordInv, Nodes, ExitTellsTheRun
<1>2. TypeOK /\ GateInv /\ StoreInv /\ OnceInv /\ FanoutInv /\ RecordInv /\ [Next]_vars
        => RecordInv'
  BY RecordNext
<1>. QED BY TypeOKHolds, GateInvHolds, StoreInvHolds, OnceInvHolds, FanoutInvHolds, <1>1, <1>2,
     PTL DEF Spec

\* The exit code of a run that recorded its end, and its status, say what its node rows say
\* (_worsen, _finish, _run_status_for).
THEOREM ExitTellsTheRunHolds == Spec => []ExitTellsTheRun
<1>1. RecordInv => ExitTellsTheRun
  BY DEF RecordInv
<1>. QED BY RecordInvHolds, <1>1, PTL

-----------------------------------------------------------------------------
(* What the run publishes *)

LEMMA FactsSame ==
    ASSUME UNCHANGED Durable
    PROVE  /\ DetectReport' = DetectReport /\ AllVerdicts' = AllVerdicts
           /\ \A f : Intact(f)' = Intact(f)
           /\ raw' = raw => RawIsShown' = RawIsShown
           /\ raw'.rows = [d \in Docs |-> Shown(d)] => RawIsShown'
<1>1. \A f : CurrentRun(f)' = CurrentRun(f) /\ Intact(f)' = Intact(f)
  BY DEF Durable, CurrentRun, Intact, DocsOf
<1>2. \A d : Shown(d)' = Shown(d)
  BY <1>1 DEF Shown, Durable
<1>3. AllVerdicts' = AllVerdicts
  BY <1>1 DEF AllVerdicts, Durable
<1>4. DetectReport' = DetectReport
  BY SameReport DEF SameEvidence, Durable
<1>5. [d \in Docs |-> Shown(d)'] = [d \in Docs |-> Shown(d)]
  BY <1>2
<1>. QED BY <1>1, <1>3, <1>4, <1>5 DEF RawIsShown

\* PublishInv is of the stores, the child and the place of the driver.
LEMMA PublishSame ==
    ASSUME PublishInv, UNCHANGED Durable, UNCHANGED <<raw, marts, child, driver>>
    PROVE  PublishInv'
BY FactsSame
   DEF PublishInv, VerdictsCoverFacts, AllVerdicts, ConvergedIsPublished, Durable, driver

\* Before the tail there is nothing to show.
LEMMA PublishElsewhere ==
    ASSUME pc' \notin {"starting", "validate", "load", "dbt_build"},
           pc' = "exiting" => run'.status # "converged"
    PROVE  PublishInv'
BY DEF PublishInv, VerdictsCoverFacts, ConvergedIsPublished

\* What validate, load and dbt build leave is of what they read.
LEMMA PublishChildren == ASSUME TypeOK, StoreInv, PublishInv, Children PROVE PublishInv'
<1>. USE DEF Running
<1>0. Refused => UNCHANGED Durable /\ UNCHANGED <<raw, marts>>
        /\ ~child'.produced /\ child'.code # 0
  BY DEF Refused, disk, Durable, Ended, NoResult, NotStarted
<1>1. CASE IngestChild \/ DetectChild \/ ExtractChild \/ FilingChild
  BY <1>1, PublishElsewhere DEF IngestChild, DetectChild, ExtractChild, FilingChild, driver
<1>2. CASE ValidateChild
  <2>1. pc = "validate" /\ UNCHANGED driver /\ DetectReport' = DetectReport
    BY <1>2, SameReport DEF ValidateChild, ValidateEnds, ValidateGateFails, ValidateDies,
       Validated, Refused, disk, SameEvidence
  <2>2. child'.produced => \E ended : Validated(ended)
    BY <1>0, <1>2 DEF ValidateChild, ValidateEnds, ValidateGateFails, ValidateDies, Ended, NoResult
  <2>3. child'.produced => AllVerdicts'
    BY <2>2, StoreInvValidate DEF TypeOK
  <2>. QED BY <2>1, <2>3 DEF PublishInv, VerdictsCoverFacts, ConvergedIsPublished, driver
<1>3. CASE LoadChild
  <2>1. pc = "load" /\ UNCHANGED driver /\ UNCHANGED Durable
    BY <1>0, <1>3 DEF LoadChild, Load, Durable
  <2>2. child'.code = 0 => raw'.rows = [d \in Docs |-> Shown(d)]
    <3>1. CASE Load
      <4>. PICK commits \in BOOLEAN, code \in {0, 1, Killed} :
              /\ code = 0 => commits
              /\ raw' = IF commits THEN [rows |-> [d \in Docs |-> Shown(d)], covered |-> Covered]
                                   ELSE raw
              /\ child' = Ended(code, FALSE, FALSE)
        BY <3>1 DEF Load
      <4>1. child'.code = code
        BY DEF Ended, NoResult
      <4>. QED BY <4>1
    <3>. QED BY <1>0, <1>3, <3>1 DEF LoadChild
  <2>3. AllVerdicts' = AllVerdicts /\ DetectReport' = DetectReport
        /\ (child'.code = 0 => RawIsShown')
    BY <2>1, <2>2, FactsSame
  <2>. QED BY <2>1, <2>3
       DEF PublishInv, VerdictsCoverFacts, AllVerdicts, ConvergedIsPublished, driver
<1>4. CASE DbtChild
  <2>1. pc = "dbt_build" /\ UNCHANGED driver /\ UNCHANGED Durable /\ raw' = raw
    BY <1>0, <1>4 DEF DbtChild, DbtBuild, Durable
  <2>2. child'.code = 0 => marts' = raw.rows
    <3>1. CASE DbtBuild
      <4>. PICK built \in BOOLEAN, code \in {0, 1, Killed} :
              /\ code = 0 => built
              /\ marts' = IF built THEN raw.rows ELSE marts
              /\ child' = Ended(code, FALSE, FALSE)
        BY <3>1 DEF DbtBuild
      <4>1. child'.code = code
        BY DEF Ended, NoResult
      <4>. QED BY <4>1
    <3>. QED BY <1>0, <1>4, <3>1 DEF DbtChild
  <2>3. RawIsShown' = RawIsShown /\ DetectReport' = DetectReport
    BY <2>1, FactsSame
  <2>. QED BY <2>1, <2>2, <2>3
       DEF PublishInv, VerdictsCoverFacts, ConvergedIsPublished, driver
<1>. QED BY <1>1, <1>2, <1>3, <1>4 DEF Children

\* Verdicts newer than every extract run are of the directories the fact is built from.
LEMMA CurrentVerdicts ==
    ASSUME TypeOK, StoreInv, ValidateIsCurrent
    PROVE  AllVerdicts
<1>. SUFFICES ASSUME NEW f \in Filings, Intact(f) PROVE verdicts.seen[f] = CurrentRun(f)
  BY DEF AllVerdicts
<1>1. PICK d \in DocsOf(f) : CurrentRun(f) = ledger[d].run
  BY CurrentRunIsMax DEF Intact, StoreInv, LedgerInv, TypeOK
<1>2. CurrentRun(f) \in LedgerRuns
  BY <1>1 DEF LedgerRuns, Intact, DocsOf
<1>. QED BY <1>2 DEF ValidateIsCurrent, StoreInv, VerdictInv

\* Past the gate with nothing unknown, what was seen was seen now, and read or unreadable.
LEMMA ConvergedDocument ==
    ASSUME StoreInv, Converged(DetectReport), DetectReport.unknown = {},
           NEW d \in Docs, bytes[d] # 0, sighting[d] \in {"none", "ok", "failed"}
    PROVE  sighting[d] = "ok" /\ ledger[d].hash = bytes[d] /\ ledger[d].status # "none"
<1>. DEFINE class == Currency(sighting[d] = "failed", bytes[d], ledger[d])
<1>1. sighting[d] # "none"
  BY DEF StoreInv, LedgerInv
<1>2. class \notin {"stale", "never_extracted", "unknown"}
  BY <1>1 DEF Converged, DetectReport, Report
<1>3. ledger[d].run # 0 /\ ledger[d].hash = bytes[d] /\ sighting[d] # "failed"
  BY <1>2 DEF Currency
<1>. QED BY <1>1, <1>3 DEF StoreInv, LedgerInv

\* The end of the run: what the marts show is what was sighted last.
LEMMA PublishDbtDone ==
    ASSUME TypeOK, GateInv, StoreInv, RecordInv, PublishInv, DbtDone
    PROVE  PublishInv'
<1>1. pc = "dbt_build" /\ child.ended /\ opts' = opts /\ pc' = "exiting" /\ UNCHANGED Durable
      /\ marts' = marts /\ UNCHANGED exit
  BY DEF DbtDone, Takes, Stops, Finish, disk, Durable
<1>2. CASE run'.status # "converged" \/ opts.dag # "full"
  BY <1>1, <1>2 DEF PublishInv, VerdictsCoverFacts, ConvergedIsPublished
<1>3. CASE run'.status = "converged" /\ opts.dag = "full"
  <2>1. child.code = 0 /\ exit = 0
    BY <1>3 DEF DbtDone, Stops, Finish
  <2>2. marts = [d \in Docs |-> Shown(d)] /\ DetectReport.unknown = {}
    BY <1>1, <1>3, <2>1 DEF PublishInv, RawIsShown
  <2>3. Converged(DetectReport)
    BY <1>1, <1>3 DEF GateInv, PastTheGate
  <2>4. ASSUME NEW d \in Docs, bytes[d] # 0, Intact(FilingOf[d])
        PROVE  sighting[d] = "ok" /\ (marts[d] = bytes[d] \/ ledger[d].status = "failed")
    <3>1. /\ sighting[d] \in {"none", "ok", "failed"}
          /\ ledger[d].status \in {"none", "read", "failed"}
      BY DEF TypeOK, StoresTypeOK, OutcomeStatus
    <3>2. sighting[d] = "ok" /\ ledger[d].hash = bytes[d] /\ ledger[d].status # "none"
      BY <2>2, <2>3, <2>4, <3>1, ConvergedDocument
    <3>3. ledger[d].status = "read" => marts[d] = ledger[d].hash
      BY <2>2, <2>4 DEF Shown, StoreInv, OutputInv
    <3>. QED BY <3>1, <3>2, <3>3
  <2>5. \A f : Intact(f)' = Intact(f)
    BY <1>1, FactsSame
  <2>6. ConvergedIsPublished'
    BY <1>1, <2>4, <2>5 DEF ConvergedIsPublished, Durable
  <2>. QED BY <1>1, <2>6 DEF PublishInv, VerdictsCoverFacts
<1>. QED BY <1>2, <1>3
\* Where the gate lets a full run pass: nothing unknown, or an exit code that is not 0.
LEMMA GateExit ==
    ASSUME TypeOK, GateInv, RecordInv, DetectDone \/ RedetectDone, pc' \in Nodes,
           pc' \in {"validate", "load", "dbt_build"}, exit' = 0
    PROVE  DetectReport'.unknown = {} /\ pc' = "validate" /\ ~child'.ended
<1>1. /\ ~child'.ended /\ UNCHANGED Durable /\ pc \in Nodes
      /\ pc \in {"detect", "redetect"}
  BY DEF DetectDone, RedetectDone, Takes, NoResult, disk, Durable, Nodes
<1>2. DetectReport' = DetectReport /\ exit \in {0, 1}
  BY <1>1, FactsSame, RecordUnderway DEF Underway
<1>3. pc' = "validate" /\ child.printed
      /\ exit' = (IF HasUnknown(child.report) THEN CombineExit(exit, 1) ELSE exit)
  BY DEF DetectDone, RedetectDone, NoDecision, Stops, Finish, Goes, AfterDetect
<1>4. ~HasUnknown(child.report) /\ child.report = DetectReport
  BY <1>2, <1>3, WorstOf DEF GateInv, ReportIsFresh
<1>. QED BY <1>1, <1>2, <1>3, <1>4 DEF HasUnknown

\* Past the gate with code 0 no last sighting failed.
LEMMA PublishGate ==
    ASSUME TypeOK, GateInv, RecordInv, DetectDone \/ RedetectDone
    PROVE  PublishInv'
<1>1. pc' = "exiting" => run'.status # "converged"
  BY DEF DetectDone, RedetectDone, NoDecision, Stops, Finish, Goes, AfterDetect, RunStatusFor
<1>2. pc' \in {"exiting", "validate", "extract", "extract_filing", "detect", "redetect"}
      /\ ~child'.ended
  BY DEF DetectDone, RedetectDone, NoDecision, Stops, Finish, Goes, AfterDetect, Takes, NoResult
<1>3. pc' = "validate" => pc' \in Nodes
  BY DEF Nodes
<1>4. pc' = "validate" /\ exit' = 0 => DetectReport'.unknown = {}
  BY <1>3, GateExit
<1>. QED BY <1>1, <1>2, <1>4 DEF PublishInv, VerdictsCoverFacts, ConvergedIsPublished

LEMMA PublishStart ==
    ASSUME TypeOK, RecordInv, PublishInv, Acquire \/ Start \/ Release
    PROVE  PublishInv'
<1>1. CASE Acquire
  BY <1>1 DEF Acquire, NoResult, PublishInv, VerdictsCoverFacts, ConvergedIsPublished
<1>2. CASE Start
  <2>1. /\ pc = "starting" /\ ~child'.ended /\ opts' = opts
        /\ pc' \in {"ingest", "detect", "load"} /\ (pc' = "load" => opts.dag # "full")
    BY <1>2 DEF Start, stores, PublishInv
  <2>. QED BY <2>1 DEF PublishInv, VerdictsCoverFacts, ConvergedIsPublished
<1>3. CASE Release
  BY <1>3, PublishElsewhere DEF Release
<1>. QED BY <1>1, <1>2, <1>3

\* Validate, skipped or done, leaves verdicts of what the load is about to read.
LEMMA PublishValidateDone ==
    ASSUME TypeOK, StoreInv, PublishInv, SkipValidate \/ ValidateDone
    PROVE  PublishInv'
<1>1. pc = "validate" /\ UNCHANGED Durable /\ ~child'.ended
      /\ pc' \in {"load", "exiting"} /\ UNCHANGED <<opts, exit>>
  BY DEF SkipValidate, ValidateDone, Takes, Halts, Stops, Finish, Goes, stores, disk, Durable, NoResult
<1>2. CASE pc' = "exiting"
  <2>1. run'.status # "converged"
    BY <1>2 DEF SkipValidate, ValidateDone, Halts, Stops, Finish, Goes
  <2>. QED BY <1>2, <2>1, PublishElsewhere
<1>3. CASE pc' = "load"
  <2>1. SkipValidate => AllVerdicts
    BY CurrentVerdicts DEF SkipValidate
  <2>2. ValidateDone => AllVerdicts
    BY <1>3 DEF ValidateDone, Takes, Halts, Stops, Finish, PublishInv
  <2>3. AllVerdicts' /\ DetectReport' = DetectReport
    BY <1>1, <2>1, <2>2, FactsSame
  <2>. QED BY <1>1, <1>3, <2>3
       DEF PublishInv, AllVerdicts, VerdictsCoverFacts, ConvergedIsPublished
<1>. QED BY <1>1, <1>2, <1>3

LEMMA PublishLoadDone ==
    ASSUME PublishInv, LoadDone
    PROVE  PublishInv'
<1>1. pc = "load" /\ child.ended /\ UNCHANGED Durable /\ raw' = raw /\ ~child'.ended
      /\ pc' \in {"dbt_build", "exiting"} /\ UNCHANGED <<opts, exit>>
  BY DEF LoadDone, Takes, Halts, Stops, Finish, Goes, disk, Durable, NoResult
<1>2. CASE pc' = "exiting"
  <2>1. run'.status # "converged"
    BY <1>2 DEF LoadDone, Halts, Stops, Finish, Goes
  <2>. QED BY <1>2, <2>1, PublishElsewhere
<1>3. CASE pc' = "dbt_build"
  <2>1. child.code = 0
    BY <1>3 DEF LoadDone, Halts, Stops, Finish
  <2>2. RawIsShown' /\ DetectReport' = DetectReport
    BY <1>1, <2>1, FactsSame DEF PublishInv
  <2>. QED BY <1>1, <1>3, <2>2 DEF PublishInv, VerdictsCoverFacts, ConvergedIsPublished
<1>. QED BY <1>1, <1>2, <1>3

\* Before the gate a node goes on or ends the run, and never converged.
LEMMA PublishBefore ==
    ASSUME IngestDone \/ ExtractDone \/ FilingDone \/ NoKey \/ NoDbt
    PROVE  PublishInv'
<1>1. pc' \in {"detect", "redetect", "extract_filing", "exiting"}
      /\ (pc' = "exiting" => run'.status # "converged")
  BY DEF IngestDone, ExtractDone, FilingDone, NoKey, NoDbt, Halts, Stops, Finish, Goes
<1>. QED BY <1>1, PublishElsewhere

LEMMA PublishWorld == ASSUME PublishInv, World PROVE PublishInv'
<1>1. CASE Kill \/ Interrupt \/ RemoveLock \/ FullExtractByHand
  <2>1. pc' \in {"dead", "idle", "exiting"} /\ (pc' = "exiting" => run'.status = "stopped")
    <3>1. Kill \/ RemoveLock \/ FullExtractByHand => pc' \in {"dead", "idle"}
      BY DEF Kill, RemoveLock, FullExtractByHand
    <3>2. Interrupt => pc' = "exiting" /\ run'.status = "stopped"
      BY DEF Interrupt, Finish
    <3>. QED BY <1>1, <3>1, <3>2
  <2>. QED BY <2>1, PublishElsewhere
<1>2. CASE Publish \/ Lose
  <2>1. UNCHANGED Durable /\ UNCHANGED <<raw, marts, child, driver>>
    BY <1>2 DEF Publish, Lose, Amend, LoseFile, disk, Durable
  <2>. QED BY <2>1, PublishSame
<1>. QED BY <1>1, <1>2 DEF World

LEMMA PublishInvHolds == Spec => []PublishInv
<1>1. Init => PublishInv
  BY DEF Init, PublishInv, VerdictsCoverFacts, ConvergedIsPublished
<1>2. TypeOK /\ GateInv /\ StoreInv /\ RecordInv /\ PublishInv /\ [Next]_vars => PublishInv'
  <2>1. PublishInv /\ UNCHANGED vars => PublishInv'
    BY PublishSame DEF vars, stores, disk, Durable
  <2>. QED BY <2>1, PublishChildren, PublishStart, PublishGate, PublishValidateDone,
       PublishLoadDone, PublishBefore, PublishDbtDone, PublishWorld DEF Next, Driver
<1>. QED BY TypeOKHolds, GateInvHolds, StoreInvHolds, RecordInvHolds, <1>1, <1>2, PTL DEF Spec

\* A full run that comes to load has verdicts of the directories it will show, whether it
\* validated or took the newest verdicts for current (decisions.validate_is_current).
THEOREM VerdictsCoverFactsHolds == Spec => []VerdictsCoverFacts
<1>1. PublishInv => VerdictsCoverFacts
  BY DEF PublishInv
<1>. QED BY PublishInvHolds, <1>1, PTL

\* A full run recorded as converged has brought the bytes of the last sighting to the marts,
\* except of a document that cannot be read (driver._full_body, _tail and _finish).
THEOREM ConvergedIsPublishedHolds == Spec => []ConvergedIsPublished
<1>1. PublishInv => ConvergedIsPublished
  BY DEF PublishInv
<1>. QED BY PublishInvHolds, <1>1, PTL
=============================================================================
