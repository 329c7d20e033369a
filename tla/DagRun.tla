------------------------------- MODULE DagRun -------------------------------
(***************************************************************************)
(* The DAG driver (pipeline.orchestrate.driver) and the world it runs in.  *)
(*                                                                         *)
(*   full:       ingest -> detect -> [extract | one extract per stale      *)
(*               filing] -> re-detect -> validate -> load -> dbt build     *)
(*   warehouse:  load -> dbt build                                         *)
(*                                                                         *)
(* Each node is two steps: the child process runs (Stores.tla), then the   *)
(* driver reads its exit code and what it left on disk.  Between any two   *)
(* steps the driver can be killed or interrupted, a source can publish and *)
(* a stored file can be lost.  The lock file of record.py exists exactly   *)
(* while pc # "idle": a driver that was killed leaves it behind.  How      *)
(* several processes contend for it is the subject of RunLock.tla.         *)
(***************************************************************************)
EXTENDS Stores

CONSTANT Options    \* the command lines and environments runs are started with

AllOptions == [dag : {"full", "warehouse"},
               offline : BOOLEAN,   \* --offline
               key : BOOLEAN,       \* an API key is set
               dbt : BOOLEAN]       \* a dbt executable can be found

ASSUME OptionsAssumption == Options \subseteq AllOptions /\ Options # {}

VARIABLES
    pc,         \* the node that is due, or "idle", "starting", "exiting", "dead"
    opts,       \* the options of the run
    exit,       \* _State.exit_code: the worst code so far
    decision,   \* the first detect's decision
    queue,      \* stale filings not extracted yet
    nodes,      \* dag_nodes.jsonl: this run's row of each node, by status
    fanout,     \* the same for extract_filing, one row per filing
    run,        \* dag_runs.jsonl: the last row's status and exit code
    instructed  \* a COVERAGE GAP message asked a human for a full extract

driver == <<pc, opts, exit, decision, queue, nodes, fanout, run, instructed>>
vars   == <<stores, driver>>

Nodes == {"ingest", "detect", "extract", "extract_filing", "redetect",
          "validate", "load", "dbt_build"}
NodeStatuses == {"none", "ok", "partial", "findings", "failed", "halted",
                 "gate_failed", "skipped", "crashed"}
RunStatuses == {"none", "running", "converged", "partial", "stopped", "halted", "gate_failed"}

ExitRank == [code \in 0 .. 3 |-> CASE code = 0 -> 0 [] code = 1 -> 1
                                   [] code = 3 -> 2 [] code = 2 -> 3]
SumExit(current, new)     == current + new                                   \* mutant
FirstExit(current, new)   == IF current # 0 THEN current ELSE new            \* mutant
CombineExit(current, new) == IF ExitRank[new] > ExitRank[current] THEN new ELSE current

RunStatusFor(code) == CASE code = 2 -> "halted" [] code = 3 -> "gate_failed"
                        [] OTHER -> "stopped"

NoOptions == [dag |-> "none", offline |-> FALSE, key |-> FALSE, dbt |-> FALSE]
NoNodes   == [n \in Nodes |-> "none"]
NoFanout  == [f \in Filings |-> "none"]

Init ==
    /\ StoresInit
    /\ pc = "idle" /\ opts = NoOptions /\ exit = 0
    /\ decision = NoReport /\ queue = {}
    /\ nodes = NoNodes /\ fanout = NoFanout
    /\ run = [status |-> "none", exit |-> 0] /\ instructed = FALSE

-----------------------------------------------------------------------------
(* Pieces of the driver *)

\* _commit, _skip and _fail_without_running append one node row.
Commit(node, status) == nodes' = [nodes EXCEPT ![node] = status]

FinishUnrecorded(code, status) == pc' = "exiting" /\ UNCHANGED run            \* mutant

\* _finish supersedes the `running` row; the process then releases the lock.
Finish(code, status) ==
    /\ run' = [status |-> status, exit |-> code]
    /\ pc' = "exiting"

Crashed == child.code \notin 0 .. 3

\* The child of `node` has ended and the driver takes its result.
Takes(node) ==
    /\ pc = node /\ child.ended
    /\ child' = NoResult
    /\ UNCHANGED <<source, disk, faults, opts>>

\* The run ends here.
Stops(node, nodeStatus, code, status) ==
    /\ Commit(node, nodeStatus)
    /\ Finish(code, status)
    /\ UNCHANGED <<exit, decision, queue, fanout, instructed>>

\* Exit 2, from any child but dbt, ends the run: a human must act first.
Halts(node) == child.code = 2 /\ Stops(node, "halted", 2, "halted")

Goes(node) == pc' = node /\ UNCHANGED run

-----------------------------------------------------------------------------
(* Start, and the end of the process *)

\* RunLock.acquire succeeds: the lock file did not exist.
Acquire ==
    /\ pc = "idle"
    /\ pc' = "starting"
    /\ opts' \in Options
    /\ child' = NoResult
    /\ UNCHANGED <<source, disk, faults, exit, decision, queue, nodes, fanout, run, instructed>>

\* _start appends the `running` row; with --offline the ingest node is skipped.
Start ==
    /\ pc = "starting"
    /\ run' = [status |-> "running", exit |-> 0]
    /\ LET skip == opts.dag = "full" /\ opts.offline
       IN  /\ nodes' = [nodes EXCEPT !["ingest"] = IF skip THEN "skipped" ELSE @]
           /\ pc' = CASE opts.dag = "warehouse" -> "load"
                      [] skip                   -> "detect"
                      [] OTHER                  -> "ingest"
    /\ UNCHANGED <<stores, opts, exit, decision, queue, fanout, instructed>>

\* The process is gone with what it knew.  Its node rows stay on disk, but no later run
\* reads them.
Forget ==
    /\ opts' = NoOptions /\ exit' = 0 /\ decision' = NoReport /\ queue' = {}
    /\ nodes' = NoNodes /\ fanout' = NoFanout
    /\ UNCHANGED <<run, instructed>>

\* The `finally` clause.
Release ==
    /\ pc = "exiting"
    /\ pc' = "idle"
    /\ Forget
    /\ UNCHANGED stores

-----------------------------------------------------------------------------
(* The children *)

Running(node) == pc = node /\ ~child.ended /\ UNCHANGED driver

IngestChild   == Running("ingest") /\ (Ingest \/ Refused)
DetectChild   == (Running("detect") \/ Running("redetect"))
                    /\ (DetectPrints \/ NoManifest \/ DetectDies \/ Refused)
ExtractChild  == /\ Running("extract") /\ opts.key
                 /\ ExtractEnds(Filings, TRUE) \/ ExtractDies(Filings) \/ Refused
FilingChild   == /\ Running("extract_filing") /\ opts.key /\ queue # {}
                 /\ LET fs == {Min(queue)}
                    IN  ExtractEnds(fs, FALSE) \/ ExtractDies(fs) \/ Refused
ValidateChild == /\ Running("validate") /\ ~ValidateIsCurrent
                 /\ ValidateEnds \/ ValidateGateFails \/ ValidateDies \/ Refused
LoadChild     == Running("load") /\ (Load \/ Refused)
DbtChild      == Running("dbt_build") /\ opts.dbt /\ (DbtBuild \/ Refused)

-----------------------------------------------------------------------------
(* What the driver makes of them, in the order of _full_body *)

IngestDone ==
    /\ Takes("ingest")
    /\ \/ Halts("ingest")
       \/ Crashed /\ Stops("ingest", "crashed", 1, "stopped")
       \/ /\ child.code \in {0, 1} /\ ~child.produced
          /\ Stops("ingest", "failed", 1, "stopped")
       \/ /\ child.code \in {0, 1} /\ child.produced
          /\ Commit("ingest", IF child.code = 1 THEN "partial" ELSE "ok")
          /\ exit' = CombineExit(exit, child.code)
          /\ Goes("detect")
          /\ UNCHANGED <<decision, queue, fanout, instructed>>

\* Mutant: a detect that printed nothing is tried again.
RetriedDecision(node) ==
    \/ Crashed /\ Stops(node, "crashed", 1, "stopped")
    \/ /\ ~Crashed /\ ~child.printed
       /\ Goes(node)
       /\ UNCHANGED <<exit, decision, queue, nodes, fanout, instructed>>

\* _detect: the branch point.  An exit code in the vocabulary without a report is a failure.
NoDecision(node) ==
    \/ Crashed /\ Stops(node, "crashed", 1, "stopped")
    \/ ~Crashed /\ ~child.printed /\ Stops(node, "failed", 1, "stopped")

GapStatus(report) == IF CoverageGap(report) THEN "gate_failed" ELSE "ok"

AfterDetectUngated(report) == IF Bootstrap(report) THEN "extract" ELSE "validate" \* mutant

AfterDetect(report) ==
    IF Bootstrap(report) THEN "extract"
    ELSE IF report.stale # {} THEN "extract_filing"
    ELSE "validate"

DetectDone ==
    /\ Takes("detect")
    /\ \/ NoDecision("detect")
       \/ /\ child.printed /\ CoverageGap(child.report)
          /\ Commit("detect", "gate_failed")
          /\ instructed' = TRUE
          /\ Finish(3, "gate_failed")
          /\ decision' = child.report
          /\ UNCHANGED <<exit, queue, fanout>>
       \/ /\ child.printed /\ ~CoverageGap(child.report)
          /\ LET next    == AfterDetect(child.report)
                 nothing == next = "validate"
             IN  /\ Goes(next)
                 /\ queue' = IF next = "extract_filing" THEN child.report.stale ELSE {}
                 /\ nodes' = [nodes EXCEPT
                        !["detect"] = "ok",
                        !["extract_filing"] = IF nothing THEN "skipped" ELSE @,
                        !["redetect"] = IF nothing THEN "skipped" ELSE @]
                 /\ exit' = IF nothing /\ HasUnknown(child.report)
                            THEN CombineExit(exit, 1) ELSE exit
          /\ decision' = child.report
          /\ UNCHANGED <<fanout, instructed>>

\* No API key: the extract that is due fails before it runs.
NoKey ==
    /\ pc \in {"extract", "extract_filing"} /\ ~opts.key
    /\ Stops(pc, "failed", 1, "stopped")
    /\ UNCHANGED <<stores, opts>>

\* _extract_node: the node's status...
ExtractStatus ==
    CASE Crashed                               -> "crashed"
      [] child.code = 3                        -> "gate_failed"
      [] child.code \in {0, 1} /\ ~child.produced -> "failed"
      [] child.code = 1 /\ child.produced      -> "partial"
      [] child.code = 0 /\ child.produced      -> "ok"

\* ... and what it adds to the run's exit code.
ExtractExit ==
    CASE ExtractStatus = "gate_failed"          -> 3
      [] ExtractStatus \in {"crashed", "failed"} -> 1
      [] ExtractStatus = "partial" /\ child.failed -> 1
      [] OTHER                                  -> 0

ExtractFailed == ExtractStatus \in {"crashed", "gate_failed", "failed"}

\* The bootstrap extract: a failure ends the run.
ExtractDone ==
    /\ Takes("extract")
    /\ \/ Halts("extract")
       \/ /\ child.code # 2
          /\ Commit("extract", ExtractStatus)
          /\ exit' = CombineExit(exit, ExtractExit)
          /\ IF ExtractFailed
             THEN Finish(exit', IF ExtractStatus = "gate_failed" THEN "gate_failed"
                                                                 ELSE "stopped")
             ELSE Goes("redetect")
          /\ UNCHANGED <<decision, queue, fanout, instructed>>

ExtractedOrGivenUp(f) == IF ExtractFailed THEN {} ELSE queue \ {f}           \* mutant
Remaining(f)          == queue \ {f}

\* One filing of the fan-out: a failure is recorded and the next filing is extracted.
FilingDone ==
    /\ queue # {}
    /\ LET f == Min(queue)
       IN  /\ Takes("extract_filing")
           /\ \/ /\ Halts("extract_filing")
              \/ /\ child.code # 2
                 /\ fanout' = [fanout EXCEPT ![f] = ExtractStatus]
                 /\ exit' = CombineExit(exit, ExtractExit)
                 /\ queue' = Remaining(f)
                 /\ Goes(IF queue' = {} THEN "redetect" ELSE "extract_filing")
                 /\ UNCHANGED <<decision, nodes, instructed>>

\* The warehouse gate.
RedetectDone ==
    /\ Takes("redetect")
    /\ \/ NoDecision("redetect")
       \/ /\ child.printed
          /\ Commit("redetect", GapStatus(child.report))
          /\ instructed' = (instructed \/ CoverageGap(child.report))
          /\ \/ /\ child.report.code = 3
                /\ Finish(3, "gate_failed")
                /\ UNCHANGED exit
             \/ /\ child.report.code # 3 /\ ~Converged(child.report)
                /\ exit' = CombineExit(exit, 1)
                /\ Finish(exit', RunStatusFor(exit'))
             \/ /\ child.report.code # 3 /\ Converged(child.report)
                /\ exit' = IF HasUnknown(child.report) THEN CombineExit(exit, 1) ELSE exit
                /\ Goes("validate")
          /\ UNCHANGED <<decision, queue, fanout>>

SkipValidate ==
    /\ pc = "validate" /\ ~child.ended /\ ValidateIsCurrent
    /\ Commit("validate", "skipped")
    /\ Goes("load")
    /\ UNCHANGED <<stores, opts, exit, decision, queue, fanout, instructed>>

\* Open findings (exit 1) are data: they do not touch the run's exit code.
ValidateDone ==
    /\ Takes("validate")
    /\ \/ Halts("validate")
       \/ child.code = 3 /\ Stops("validate", "gate_failed", 3, "gate_failed")
       \/ Crashed /\ Stops("validate", "crashed", 1, "stopped")
       \/ /\ child.code \in {0, 1} /\ ~child.produced
          /\ Stops("validate", "failed", 1, "stopped")
       \/ /\ child.code \in {0, 1} /\ child.produced
          /\ Commit("validate", IF child.code = 1 THEN "findings" ELSE "ok")
          /\ Goes("load")
          /\ UNCHANGED <<exit, decision, queue, fanout, instructed>>

LoadDone ==
    /\ Takes("load")
    /\ \/ Halts("load")
       \/ Crashed /\ Stops("load", "crashed", 1, "stopped")
       \/ child.code \in {1, 3} /\ Stops("load", "failed", 1, "stopped")
       \/ /\ child.code = 0
          /\ Commit("load", "ok")
          /\ Goes("dbt_build")
          /\ UNCHANGED <<exit, decision, queue, fanout, instructed>>

NoDbt ==
    /\ pc = "dbt_build" /\ ~opts.dbt
    /\ Stops("dbt_build", "failed", 1, "stopped")
    /\ UNCHANGED <<stores, opts>>

\* dbt's codes are its own: whatever is not 0 is the warehouse's gate failing.
DbtDone ==
    /\ Takes("dbt_build")
    /\ \/ child.code # 0 /\ Stops("dbt_build", "gate_failed", 3, "gate_failed")
       \/ /\ child.code = 0
          /\ Commit("dbt_build", "ok")
          /\ IF opts.dag = "full" /\ exit # 0 THEN Finish(exit, "partial")
                                              ELSE Finish(0, "converged")
          /\ UNCHANGED <<exit, decision, queue, fanout, instructed>>

-----------------------------------------------------------------------------
(* The driver dies, and the human *)

Alive == pc \notin {"idle", "dead"}

\* SIGKILL, power: the lock file and the `running` row stay.
Kill ==
    /\ Alive
    /\ pc' = "dead"
    /\ Fault(TRUE)
    /\ child' = NoResult
    /\ Forget
    /\ UNCHANGED <<source, disk>>

\* Ctrl-C, or an exception in the driver: the terminal row is written, then it is re-raised.
Interrupt ==
    /\ Alive /\ pc # "exiting"
    /\ Finish(1, "stopped")
    /\ Fault(TRUE)
    /\ child' = NoResult
    /\ UNCHANGED <<source, disk, opts, exit, decision, queue, nodes, fanout, instructed>>

\* "If that pid is dead, remove the file by hand."
RemoveLock ==
    /\ pc = "dead"
    /\ pc' = "idle"
    /\ UNCHANGED <<stores, opts, exit, decision, queue, nodes, fanout, run, instructed>>

\* "Run a full `python -m pipeline.extract`": what the COVERAGE GAP message asks for.
FullExtractByHand ==
    /\ pc = "idle" /\ instructed
    /\ ExtractEnds(Filings, TRUE) \/ ExtractDies(Filings)
    /\ instructed' = FALSE
    /\ UNCHANGED <<pc, opts, exit, decision, queue, nodes, fanout, run>>

Publish == (\E d \in Docs : Amend(d)) /\ UNCHANGED driver
Lose    == (\E d \in Docs : LoseFile(d)) /\ UNCHANGED driver

-----------------------------------------------------------------------------
Children == IngestChild \/ DetectChild \/ ExtractChild \/ FilingChild \/ ValidateChild
            \/ LoadChild \/ DbtChild

Driver == Acquire \/ Start \/ Release \/ IngestDone \/ DetectDone \/ NoKey \/ ExtractDone
          \/ FilingDone \/ RedetectDone \/ SkipValidate \/ ValidateDone \/ LoadDone
          \/ NoDbt \/ DbtDone

World == Kill \/ Interrupt \/ RemoveLock \/ FullExtractByHand \/ Publish \/ Lose

Next == Children \/ Driver \/ World

Spec == Init /\ [][Next]_vars

-----------------------------------------------------------------------------
(* Properties *)

\* Every variable has its type.
TypeOK ==
    /\ StoresTypeOK
    /\ pc \in Nodes \cup {"idle", "starting", "exiting", "dead"}
    /\ opts \in Options \cup {NoOptions}
    /\ exit \in 0 .. 3
    /\ decision \in Reports
    /\ queue \subseteq Filings
    /\ nodes \in [Nodes -> NodeStatuses]
    /\ fanout \in [Filings -> NodeStatuses]
    /\ run \in [status : RunStatuses, exit : 0 .. 3]
    /\ instructed \in BOOLEAN

\* "The warehouse moves only when disk has converged" (decisions.py): in a full run the
\* load replaces the raw tables only in a state in which no document is stale or was never
\* extracted, although sources, files and half-finished children moved since the detect.
GateBeforeLoad ==
    [][raw' # raw /\ opts.dag = "full" => Converged(DetectReport)]_vars

\* Why the gate holds: a printed report is of the stores as they are, and a full run past
\* the gate runs on converged stores.
ReportIsFresh == child.printed =>
    pc \in {"detect", "redetect"} /\ child.report = DetectReport

PastTheGate == pc \in {"validate", "load", "dbt_build"} /\ opts.dag = "full" =>
    Converged(DetectReport)

GateInv == ReportIsFresh /\ PastTheGate

\* A full run that ends converged has published: every document of a filing whose current
\* run wrote its outputs shows the bytes of the last sighting, which succeeded, unless it
\* could not be read.
ConvergedIsPublished ==
    pc = "exiting" /\ run.status = "converged" /\ opts.dag = "full" =>
        \A d \in Docs : bytes[d] # 0 /\ Intact(FilingOf[d]) =>
            /\ sighting[d] = "ok"
            /\ marts[d] = bytes[d] \/ ledger[d].status = "failed"

\* When a full run comes to load, the newest verdicts are of the very run directories the
\* fact will be built from, also when validate was skipped as current.
VerdictsCoverFacts ==
    pc = "load" /\ opts.dag = "full" =>
        \A f \in Filings : Intact(f) => verdicts.seen[f] = CurrentRun(f)

\* One bad filing fails in isolation: the re-detect comes only when every filing the
\* detect found stale has been attempted, whatever became of the others.
IsolatedFanout ==
    pc = "redetect" /\ nodes["extract"] = "none" =>
        /\ {f \in Filings : fanout[f] # "none"} = decision.stale
        /\ \A f \in decision.stale :
              fanout[f] \in {"ok", "partial", "failed", "crashed"}

\* The exit code of a run that recorded its end says what its node rows say: 2 exactly when
\* a node was halted, 3 exactly when a gate failed, and 0 only for a run all of whose nodes
\* did their work up to the warehouse.
Ran(status) == \E n \in Nodes : nodes[n] = status

Worked == {"ok", "partial", "findings", "skipped", "none"}

ExitTellsTheRun ==
    pc = "exiting" =>
        /\ run.exit = 2 <=> Ran("halted")
        /\ run.exit = 3 <=> Ran("gate_failed")
        /\ run.exit = 0 => /\ nodes["dbt_build"] = "ok"
                           /\ \A n \in Nodes : nodes[n] \in Worked
                           /\ \A f \in Filings : fanout[f] \in Worked
        /\ run.status \in CASE run.exit = 0 -> {"converged"}
                            [] run.exit = 1 -> {"partial", "stopped"}
                            [] run.exit = 2 -> {"halted"}
                            [] run.exit = 3 -> {"gate_failed"}

\* Only a killed driver leaves its `running` row without a terminal one: whoever reads the
\* record can tell a run that died from a run that stopped.
OnlyTheDeadStayRunning ==
    [][pc # "dead" /\ pc' = "idle" /\ pc # pc' => run.status # "running"]_vars

-----------------------------------------------------------------------------
(* Liveness *)

\* A child ends, the driver goes on when it has, and the `finally` clause runs.
DriverFairness == WF_vars(Children \/ (Driver /\ ~Acquire))

LiveSpec == Spec /\ DriverFairness

\* A run that was started ends, by itself or by being killed.
RunEnds == Alive ~> ~Alive

\* Somebody keeps starting full runs that have what they need, and does what the messages
\* ask for: remove a dead driver's lock, run the full extract after a coverage gap.
Complete == [dag |-> "full", offline |-> FALSE, key |-> TRUE, dbt |-> TRUE]

OperatorFairness ==
    /\ SF_vars(Acquire /\ opts' = Complete)
    /\ WF_vars(RemoveLock)
    /\ SF_vars(FullExtractByHand)

OperatedSpec == LiveSpec /\ OperatorFairness

\* Once sources and faults have come to rest, runs bring every document the sources list
\* to the marts, unless it cannot be read or its filing's current run lost its outputs.
Published(d) ==
    source[d] = 0 \/ ~Intact(FilingOf[d]) \/ ledger[d].status = "failed" \/ marts[d] = source[d]

EventuallyPublished == <>[](\A d \in Docs : Published(d))

\* The ledger itself converges: nothing listed stays stale or unextracted.
EventuallyCurrent ==
    <>[](\A d \in Docs : source[d] # 0 => bytes[d] = source[d] /\ ledger[d].hash = bytes[d])

-----------------------------------------------------------------------------
(* What the documents say of the program and the code does not do *)

\* driver.py, of exit 0: the pipeline converged and every document it touched got read.
\* The marts of such a run show every document the ledger calls read.
ReadIsShown ==
    pc = "exiting" /\ run.exit = 0 /\ opts.dag = "full" =>
        \A d \in Docs : ledger[d].status = "read" => marts[d] = bytes[d]

\* nodes.py: a validate run that crashed mid-way does not count as complete.
CrashedValidateDoesNotCount ==
    pc = "load" /\ opts.dag = "full" => verdicts.ended # "crashed"

\* assert_quarantine_covers_fact_extract fails a build whose fact is of an extract run newer
\* than what the validate run evaluated, and only such a build.
ValidatedFactsPassTheBuild ==
    pc = "dbt_build" /\ opts.dag = "full"
        /\ (\A f \in Filings : Intact(f) => verdicts.seen[f] = CurrentRun(f)) => raw.covered
=============================================================================
