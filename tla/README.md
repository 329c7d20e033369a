# Verification of the rate-filing warehouse

TLA+ modules for the pipeline in this repository: `rfp-run` and `rfp-warehouse` (the DAG
driver), the child processes they start, the files and tables those read and write, and the
lock that keeps runs apart. TLC checks the properties on small instances; TLAPS proves all of
them but the liveness properties for every value of the constants.

Source paths below are relative to the repository root.

## 1. The system

A run of the full DAG is `ingest -> detect -> [extract | extract --filing F ...] ->
re-detect -> validate -> load -> dbt build`. Each node is a child process. The driver waits
for one child at a time, reads its exit code (0 ok, 1 partial, 2 denied, 3 gate failed,
anything else crashed) and probes the stores for the child's effect: did a new run id appear?
Everything durable is an append-only log or a directory per run under the data root, except
the Postgres schema `raw` (truncated and reloaded) and what dbt builds from it.

| component | state | operations | talks to |
| --- | --- | --- | --- |
| DAG driver (`pipeline/orchestrate/driver.py`) | exit code so far, decision of the first detect, remaining filings | `full`, `warehouse`, `_detect`, `_extract_node`, `_tail` | starts every child, probes their stores, writes the run record |
| decisions, detect (`orchestrate/decisions.py`, `cdc/detect.py`) | none | `detect`, `bootstrap`, `coverage_gap`, `converged`, `validate_is_current` | read manifest, ledger and quarantine results |
| run record (`orchestrate/record.py`) | `dag_runs.jsonl`, `dag_nodes.jsonl` | append, last row wins | driver; humans |
| run lock (`orchestrate/record.py`) | one file with a pid | `acquire`, `release` | drivers; humans |
| nodes (`orchestrate/nodes.py`) | none | argv builders, `run_command`, probes, `dbt_status` | children |
| ingest (`pipeline/ingest`) | manifest, raw store | discover, conditional GET, store, append a row | state websites |
| extraction (`pipeline/extract`) | ledger, field misses, cost log, run directories | `run`, `write_outputs`, `assert_gate` | manifest, raw store, LLM |
| validation (`pipeline/validate`) | quarantine rows, results rows | `run`, `resolve_cleared`, gate | run directories, ledger |
| load (`pipeline/load`) | Postgres `raw` | one transaction | every store |
| dbt (`dbt/`) | Postgres marts | models and tests | `raw` |

**What is hard.** Nothing here is multi-threaded; the difficulty is that every step is a
process that can die, that half of a step's effect stays on disk, and that the next run must
find out from the stores alone. The run id orders everything ("validated after extracted"),
the ledger and the output directories are written one after the other, and between a gate and
what it guards the world moves.

**What makes each component correct.** The driver: loads only converged stores, attempts every
stale filing, and reports in its exit code what its nodes did. Detect: never calls a document
current that is not. The record: tells a run that died from one that stopped. The lock: one
run at a time, and it comes free. Ingest: certifies only bytes that are on disk. Extraction:
every document gets a row and the rows agree with the outputs. Validation: verdicts are of
the rows the fact shows. Load: all or nothing. dbt: shows the current run of each filing.

The hazards this leaves are listed, line by line, in `PROJECT.json`.

## 2. Modules

| module | models | lines of the code |
| --- | --- | --- |
| `Detect` | currency of a document, detect's report, the predicates of `decisions.py` | pure functions; no state |
| `Stores` | what is on disk and in Postgres, one action per child process (and per way it dies) | ingest, extract, validate, load, dbt |
| `DagRun` | the driver: each node as "the child runs", then "the driver takes its result"; kills, interrupts, publications, lost files, the human's part | `driver.py` |
| `RunLock` | several processes contending for the lock file | `record.py` |
| `Ingest` | one ingest process from inside: states, discovery, requests and retries, 304s and refetches, the store, the log | `ingest/cli.py`, `http.py`, `store.py`, `manifest.py`, adapters |
| `Sightings` | what an ingest run promises, document by document | `Ingest` implements it |
| `Extraction` | extract commands from inside: documents, readings, model calls, counts, the ledger and its gate, the output files | `extract/runner.py`, `outcome.py`, `documents.py`, `cli.py`, `llm/client.py`, `costlog.py` |
| `Quarantine` | validate commands from inside: findings, adopted misses, resolutions, results, the gate, and what the warehouse shows of the log | `validate/cli.py`, `runner.py`, `quarantine.py`, `gate.py`, `subjects.py`, `int_quarantine_current.sql` |
| `MCDagRun`, `MCIngest`, `MCExtraction`, `MCQuarantine` | instances for TLC | |
| `DagRun_proofs`, `DagRunOutcome_proofs` | proofs about `DagRun`: types, the gate, the record; then what a run tells and publishes | |
| `RunLock_proofs` | proofs about `RunLock` | |
| `Ingest_proofs`, `IngestPromise_proofs` | proofs about `Ingest`: the store and the log; then the exit code, denial, and that it implements `Sightings` | |
| `Extraction_proofs`, `Quarantine_proofs` | proofs about `Extraction` and `Quarantine` | |
| `Maxima_proofs` | facts on the greatest and the least of a set of numbers, which the other proofs use | |

`DagRun` extends `Stores`, which extends `Detect`. `RunLock` stands alone: `DagRun` models one
run at a time, its lock file exists exactly while `pc # "idle"`, and `RunLock` shows why that
is allowed. `Sightings` has the manifest variables of `Stores` (`sighting`, `bytes`,
`missing`); the `Ingest` action of `Stores` is many of its steps at once, and the module
`Ingest` shows that conditional requests, a log and a deduplicated store amount to them.
`Extraction` and `Quarantine` are the insides of the `ExtractEnds`/`ExtractDies` and
`ValidateEnds`/`ValidateGateFails`/`ValidateDies` actions of `Stores`, with the logs those
actions reduce to their latest rows; that they refine them is not shown.

### How the model reads

A document's content is a version number: `source[d]` is what the site publishes, `bytes[d]`
the last successful sighting, `ledger[d].hash` what the extraction read, `marts[d]` what the
warehouse shows; 0 is "none". A filing is extracted as a whole, into one run directory
(`output[f]`), and the warehouse shows the rows of the filing's newest ledger run
(`CurrentRun`) if that run wrote its directory (`Intact`). Only the latest row of an
append-only log is kept where only the latest is read: `sighting` and `bytes` for the
manifest, `ledger` for live outcomes, `verdicts` for the newest complete validate run, `nodes`,
`fanout` and `run` for the run record of the newest run (`nodes` and `fanout` only while its
process lives: no later run reads them).

`child` is what the driver learns of a child: exit code, whether a new run id appeared
(`produced`), whether its summary counts a failed row (`failed`), and detect's report.

### What a child's action chooses

- `Ingest`: which listed documents it came to (`seen`) and which of these failed (`bad`). A
  denial, a failed discovery or the child's death leaves documents unseen. A lost file is
  fetched again, because a 304 without bytes is refetched.
- `ExtractEnds`, `ExtractDies`: for each document whether it was read, was unreadable (a failed
  row with the hash of the bytes), or raised (a failed row without one); how far the rows came;
  which directories were written. Rows first, directories last, as in `extract/cli.py`.
- `ValidateEnds`, `ValidateGateFails`, `ValidateDies`: whether a results row was written.
- `Load`, `DbtBuild`: whether the effect happened before the child ended.
- `Refused`: exit 2 that is no denial (argparse), or an executable that is missing.

### How `Ingest` reads

`manifest` is the whole log, a sequence of rows: run, document, status (stored, unchanged,
failed, denied), hash, validator, and the run directory (`path`) that holds the bytes;
`files[d][r]` is the content of document `d` in run directory `r`. `pc` follows
`run_ingest` (`discover`), `ingest_state` (`documents`, `append`) and `_retrieve_one`
(`fetch`, `refetch`). `pending` is the row between the store and the log line. An answer of
the site is one action: `Denied`, `Transient`, `GivesUp`, `NotModified`, `Refetch`, `Content`.
The validator of a content is the content's number; a 200 may leave it out. 304 is answered
only to the current validator. Robots.txt and 403 are one action, and so are 404 and the last
failed attempt, which leave the same row. Retries cost no fault, so only `MaxAttempts` ends
them.

`outcomes` is what the `StateResult`s say went wrong: `<<"discovery", "denied">>` is
`access_denied` with a `discovery_error`, `<<"document", "failed">>` a document counted as failed.

Left out of `Ingest`: throttling and backoff times, the User-Agent, a 304 to a request without
a validator, a second ingest process at the same time, the order of the documents of a state
(any order is allowed), a file extension that changes with the URL. Files are lost between
runs only. `Traceback` is an exception nobody catches.

### How `Extraction` reads

`outcomes` is the ledger, a sequence of rows with their counts; `misses`, `calls` and `outputs`
are the field misses, the cost log and the rows of the output files, by run and document. What
a parser makes of a document is a *reading* (anchors or cells found and missing, plan rows kept
and lost, rates rejected, the stated number of plans, sections, a note, an exception before or
after the filing row), and what comes of a prompt is an *answer* (sent or not, an `LlmError`,
values kept and dropped, valid JSON of another shape, on which the handler raises). `pc` follows
`run` (`next`), `_handle_urrt` and `_handle_pdf` (`identity`, `build`, `justify`, `record`,
`raised`), and `main` (`gate`, `ended`). `count` is what the handler has counted, `made` what it
has appended to the result; `made` survives a document that raises, `count` does not. `todo` is a
set: the order is that of the keys, what does not resolve first (`DocOf`), so that which document
is in hand follows from what is left to do. Ingest may
change the manifest at any time: documents come, or stop resolving; the command has read
it once (`known`, `broken`), and the gate reads it again.

`Record` writes the misses of a document and its outcome row in one step, with a kill in between as an
alternative. An exception between the two would leave a failed row without misses beside recorded ones;
it is not modelled, because between the last `record_miss` and the row (`runner.py`, 299-302 and
446-471) stand only comparisons and string formatting of values already typed.

Values and provenance are left out: an unreadable anchor, a refused plan row and an ungrounded
number are choices of the reading or the answer. So is loading the configuration, and `--no-gate`.

### How `Quarantine` reads

`quarantine` and `results` are the two logs. `extracts` has, for each extract run and filing,
whether it was dry, whether it wrote a directory, which rules its rows violate and whether a field
was missed. A run makes directories for some of its filings, those it has rows of. A filing has one
subject, so a finding is a rule and a filing; the extract run is a column that the resolver ignores
and the warehouse does not. `pc` follows `ValidationRunner.run`: `evaluate` (findings and adopted
misses), `resolve`, `report` (the results rows), then the gate. A kill leaves any part of the rows
of a pass. Extracts and edits of the rules happen between commands: a command reads both once, when
it begins. The model keeps one row for a rule, a filing and an extract run. In the code adopted
misses share the key of their role and field, so a pass may write several rows of one identity and
extract run; all of them are open, so which is the last tells nothing, and the gate counts misses
and rows alike. For the same reason the order of the rows of one pass is immaterial, and the model
takes any one order.

In both modules run ids are stamps of one second, advanced until no row bears them: two commands may
take the same id when the first has no row yet. `begun` counts that, and the properties speak of ids
that are one command's (`Own`).

### Assumptions and abstractions

- In `DagRun` and `Stores` run ids are a counter. The code takes a stamp of one second and advances it until unused.
- A driver that is killed takes its child with it in `DagRun`; the orphan is in `RunLock`.
- The kill between a node's row and the run's terminal row is not a step of its own.
- An exception inside `_finish`, or between `acquire()` and the `try`, is not modelled in
  `DagRun` (the latter is `Kill` in `RunLock`).
- `continue_on_failure = False` is test-only and left out. Output files are written or not.
- Ingest never exits 3 and `extract --filing` asserts no gate, so it never exits 3.
- `CleanFilings` are filings without findings. The passing runs have none, because of the
  finding of section 5 about the coverage test.

## 3. Properties

Safety, in `DagRun`:

- `GateBeforeLoad` (action): in a full run the raw tables change only in a state in which no
  document is stale or never extracted. `GateInv` is the inductive reason.
- `ConvergedIsPublished`: a full run that ends `converged` shows, for every document of a
  filing whose current run wrote its outputs, the bytes of a last sighting that succeeded,
  unless the document could not be read.
- `VerdictsCoverFacts`: at the load, the newest verdicts are of the run directories the fact
  is built from, also when validate was skipped.
- `IsolatedFanout`: the re-detect comes when every stale filing has been attempted.
- `ExitTellsTheRun`: 2 exactly if a node was halted, 3 exactly if a gate failed, 0 only if
  every node worked up to the warehouse, and the run status agrees with the code.
- `OnlyTheDeadStayRunning` (action): only a killed driver leaves no terminal row.

Liveness, in `DagRun`: `RunEnds`; `EventuallyCurrent` (the ledger catches up with the sources);
`EventuallyPublished` (so do the marts, but for documents that cannot be read and filings whose
current run lost its outputs).

In `Ingest`:

- `KeepsThePromise` (refinement): `Ingest` implements `Sightings`. A good row is of what the
  site served when asked, leaves its bytes on disk, and a failed row displaces nothing; also
  for a 304, after a lost file, and after a kill between file and log line.
- `RowsKeepTheirBytes`: no file a row points to is ever overwritten, though run stamps have
  one-second granularity and name the directories. `NaturalKey`: nor has a document two rows
  of one run. `IngestInv` is the inductive reason of both.
- `StoresOnlyNews` (action): a fetch of the bytes the last good row points to adds no file.
- `ExitTellsTheRows`: the exit code says what the run met, both ways. 2 exactly when a document or
  an index was denied (the driver halts on 2, so an ordinary failure must not give it), 1 exactly
  when a document or a discovery failed and nothing was denied, 0 only if every listed document has
  a good row; and only a denial leaves listed documents of its state without a row. Of documents
  this is said of the rows in the log, of indexes of what discovery raised.
- `DeniedIsNotAsked`: after a denial nothing of that state is requested in that run.
- `RunEnds` (liveness).

In `Extraction`:

- `GateAccounts` (action): whatever the parsers and the model return, and whatever raises, a full run
  fails its own gate only if the manifest moved under it. The gate is what stops a live run after
  it was paid for, and the counts it adds up come from five places.
- `OutputsTold`: for each document the ledger says was read, its counts are the rows in the files.
- `WholeFiling`: a run that ends has a row of every document of the filings asked for, also under
  `--filing`, where no gate is asserted and the run still becomes the filing's current one.
- `CallsLinked`: a row names exactly the answered calls of its document. `EveryCallLogged`: a
  request the API answered is in the cost log unless a kill came between (one call at most for each
  fault; manifest changes count as faults too, so behaviours with them are checked less tightly).
- `OutputsTold`, `WholeFiling`, `CallsLinked` and `GateAccounts` speak of runs whose id is their own.
- `ReadersAgree`: the run validation reads of a filing (`current_runs`, by way of the latest row
  of each document) is the run the warehouse shows (over all rows), after dry runs and kills.

In `Quarantine`:

- `NothingVanishes` (action): what the warehouse shows as open goes only when the run that replaces
  it resolves it: across kills, retired rules, re-extractions and `--filing` runs. Of commands that
  overlap it speaks of the first to report. It asks that the run shown is one command's: if two
  commands shared its id, the resolver keeps the last row of an identity and may take for resolved
  what the warehouse still shows as open. The attempt to prove it without that condition found this
  (TLC needs seven commands for it).
- `ViewsAgree`: resolver and warehouse agree on which findings (rule and filing) are open, though
  the warehouse also tells rows by their extract run.
- `OpenIsFound`: what is open at the end of a run is what it found, and the exit code says whether
  an error is among it; a cleared error is none.
- `GateHolds`: a command fails its own gate only for a finding of a retired rule.
- `FilingRunShowsNothing` (action): nothing a `--filing` run writes changes what is shown.

All of these are of runs whose id is their own.

In `RunLock`: `MutualExclusion`, `ReleasesItsOwn` (action), `LockComesFree` (liveness), and
`LockInv`, the inductive invariant.

## 4. Runs

| run | instance | shows |
| --- | --- | --- |
| `dag` | 2 filings of 1 document, 2 versions, 2 faults, 3 command lines; 3.6 million states | all safety properties |
| `dag_live` | 2 filings of 1 document, 2 versions, 1 fault, full runs online and offline | liveness |
| `run_lock` | 3 processes, 1 human | the lock |
| `ingest` | 1 document, 3 contents, up to 3 runs, 3 attempts, 2 faults; 300,000 states | refinement, the store, termination |
| `ingest_batch` | 1 run over 2 states and 3 documents, 2 contents, 2 faults; 840,000 states | failure isolation, exit code, denial |
| `extract` | 2 commands over 3 documents of 2 filings, 6 readings, 5 answers, 1 fault; 1.9 million states | ledger, misses, cost log and files account for each other |
| `quarantine` | 4 extract runs and validate commands, up to 2 validates at once, 2 filings, 2 rules, 1 fault; 1.8 million states | no finding vanishes; the two readers agree |

**Bounds.** `MaxVersion` bounds publications per document: one change after the first listing
is what makes a document stale again. `MaxFaults` bounds what goes wrong: a child with a
nonzero code that a fault caused, a kill, an interrupt, a lost file, an unreadable document.
Two faults are what it takes to spoil one run and then the run that repairs it. Two filings are
what isolation needs; filings of several documents are in `extract`. The
clock has no bound of its own: a run id is handed out only when something was published or
went wrong. `ingest` needs one document but several runs (one that stores, one that goes wrong, one that
finds out) and `ingest_batch` one run but several documents, two of them in one state, with a
second state after or before it. `MaxRun` bounds run stamps; dry runs, which leave no row, go on
beyond it. `extract` needs a packet (every
kind of row, two calls), a workbook, and a filing of two documents; two commands are a run and the
one that outranks it or does not, and the fault is a kill or a manifest that moves. One command
at a time: two at once pass as well without faults, in more time than a run should take.
`quarantine` needs a corpus run, an extract or a `--filing` run after it, and the run that
resolves, in any order, with one thing going wrong; two faults with one command at a time
pass too. Its constraint (`NothingAfterARefusal`) does not go on from a state in which a command was
refused: it writes nothing and takes no id, so the same goes on without it. Three processes are one that died, one that is started in its place and one that
interferes.

The three command lines of `dag` are: online with everything; offline without an API key;
`rfp-warehouse` without dbt. Deadlock is checked in the `DagRun` and `Ingest` runs;
the processes of `RunLock` end, and so do the commands of `Extraction` and `Quarantine` when
`MaxCommands` have begun, so it is not there.

**Fairness.** `DriverFairness`: children end (there is no timeout in `run_command`, so this is
an assumption about the children) and the driver goes on. `OperatorFairness`: a full run with
network and key is started again and again (strong, because other runs hold the lock in
between), a dead driver's lock is removed, and the full extract the COVERAGE GAP message asks
for is run. Nothing is assumed about faults except their number. In `Ingest` the run takes its
next step: a request is answered or times out (`timeout_seconds`). In `RunLock`: `WritePid`,
`ChildEnds` and the human are weakly fair, `Release` strongly (a driver alternates between
waiting for a child and not).

Each property of a passing run has a mutant in `PROJECT.json`: a plausible bug in the code
(a swapped branch, a stale row counted, a lock without `O_EXCL`) that breaks it.

## 5. Findings: what the documents say and the code does not do

Each is a run with one property that TLC violates; `PROJECT.json` has the quotation.

| run | what happens |
| --- | --- |
| `read_is_shown` | An extract that dies after its ledger rows and before its directories: exit 0, `converged`, and the warehouse has no rows for the filing. Later runs do not repair it, since detect reads the ledger. |
| `crashed_validate` | One results row makes a validate run complete; a validate that died loads in the same run (traceback, exit 1) or is skipped in the next (killed). |
| `coverage_test` | The dbt coverage test takes the newest run that has findings for the newest run validated; a clean filing extracted last fails the build. |
| `uncaught` | A redirect loop or an undecodable body raises an exception `fetch` does not catch: the run ends without a row of that document and of those after it. The property lets the failing document go without a row and asks that no other does; in TLC's trace two are listed, the first fails, and the second is never asked for. |
| `other_filing` | Under `--filing F` a document of another filing that does not resolve gets a failed row under the new run id. The warehouse then takes that run for the other filing's current one, where it has no rows at all. In the DAG the gate stops the build, since that document is stale; a human's `--filing` and `rfp-warehouse` have no gate. |

Seen in the model and in the code, without a run of their own:

- A fan-out child that crashed after its last row does not block the gate (ADR 0020 says it does).
- A killed bootstrap looks like a changed document set, so every later run stops with 3 until a
  human runs the full extract.
- `--state PA --state PA` ingests PA twice under one run id.
- The lock is the driver's: the orphaned child of a killed driver writes beside the next run.
- A manifest row keeps an older validator when a 200 names none (or after a refetch); a site that
  restores the older content then gets the newer bytes certified by a 304. The runs of `Ingest` have
  no restoring sites (`Restores = FALSE`).
- `_field_misses` says it takes the misses "for the extract runs actually being validated", and tests
  run and filing apart: after an extract of one filing its superseded misses are adopted again for
  as long as another filing is still at the old run.
- A retired rule with open findings: the resolver copies them as resolved, the gate asks for these
  rows (assertion 7) and refuses them (assertion 1), so that one run exits 3.
- Two validate commands that overlap: the second to report resolves against a run that is no
  longer the one shown.
- An exception after the filing row was appended to the result (the plan table, a malformed answer)
  leaves the row in the output files, while the ledger says failed, with no rows and no calls.
- An extract that is killed before its first outcome row leaves misses and cost rows under an id the
  next command may take.

## 6. Proofs

Every safety property of a passing run, whether an invariant, an action property or the
refinement, is a theorem. The proofs hold for every set of documents, filings, states, rules,
processes and options and every bound, under the `ASSUME`s of the modules (documents and filings
are naturals in sorted order, and the documents of a filing are contiguous; in `Quarantine` the
filings and rules are finite, because misses are counted). What else is assumed is a
hypothesis of the theorem, and is named below.

**The driver** (`DagRun_proofs`, `DagRunOutcome_proofs`).

- **`TypeOKHolds`**, **`OnlyTheDeadStayRunningHolds`**. Types need one lemma per child; the second
  rests on "a driver about to release has a terminal row" (`ExitingIsRecorded`).
- **`GateInvHolds`**, **`GateBeforeLoadHolds`**. The property of a step is not inductive. The
  invariant `GateInv` says, first, that a printed report that has not been taken is of the
  stores as they are: the driver waits for detect, so nothing that detect reads changes before
  the driver reads the report, although sites publish and files are lost meanwhile (detect
  reads neither). Second, that between the gate and the end of a full run the stores are
  converged: the children that run there write neither the manifest nor the ledger.
  `NothingToDoIsConverged` is the branch without a re-detect: a report that is no gap and no
  bootstrap and lists no stale filing has no never-extracted document either.
- **`IsolatedFanoutHolds`**, from `FanoutInv`: during the fan-out the filings that have a row are
  the stale ones that have left the queue, and a child of it never says 3.
- **`ExitTellsTheRunHolds`**, from `RecordInv`: at a node no row is yet of a kind that stops a run,
  the code is 0 or 1, and it is 0 only while every row says that the node worked. Each way to
  stop writes a row, a code and a status that agree (`StopRows`).
- **`VerdictsCoverFactsHolds`**, **`ConvergedIsPublishedHolds`**, from two invariants. `StoreInv`
  relates the stores, whoever writes them: an intact directory holds what the ledger says was
  read, run ids are of the past, and verdicts of a later run than a filing's current one are of
  that run. `PublishInv` carries this along the tail: nothing sighted as failed while the code is
  0, the raw tables are what would be shown, the marts are the raw tables. `OnceInv` excludes
  that the gate's detect finds a bootstrap. It is here that "validate is skipped as current" is
  justified by the comparison of run ids alone.

**The lock** (`RunLock_proofs`), for any number of processes and at most one human (`OneHuman`):
**`MutualExclusionHolds`**, **`ReleasesItsOwnHolds`**, and **`LockInvHolds`**, their invariant:
`LockIsHeld` (the file is the active driver's) and `ErrandIsSafe` (the file a human is about to
remove is still the dead process's). With two humans exclusion fails: the second removes the next
run's file.

**Ingest** (`Ingest_proofs`, `IngestPromise_proofs`), if no command line names a state twice
(`DistinctRequests`; with a repeated state the natural key and the bytes are lost in the code).

- **`IngestInvHolds`**, **`RowsKeepTheirBytesHolds`**, **`NaturalKeyHolds`**, and with them
  **`IngestTypeOKHolds`** (`IngestInv` is inductive only together with the types). `IngestInv` says
  where the documents without a row of this run are (`OnePlace`), that they and the states not begun
  have none (`NoRowYet`), that a good row points to the directory of a run that has a row of the
  document (`KeepsBytes`) and that the last good row is a row (`LastGoodExists`). A new file goes to
  the directory of this run; a row that pointed there would make some row of this run one of the
  document, which `NoRowYet` excludes.
- **`StoresOnlyNewsHolds`**, from the same invariant: the directory of a last good row still has
  its bytes or lost them, and a file is added only for other bytes.
- **`DeniedIsNotAskedHolds`**, from `DenialHalts`: the documents in hand are of one state, and
  no document of it has been denied in this run.
- **`ExitTellsTheRowsHolds`**, from `Accounted`: what the run has counted at documents are the
  failures and denials it has written, no more (else 2 could come of an ordinary failure) and no
  less, and a listed document is in hand, has its row, or was dropped with a denied state.
- **`KeepsThePromiseHolds`**: `Ingest` implements `Sightings`, for sites that restore no
  older content (`~Restores`; section 5 has what happens when one does). The invariant is
  `Served`: the validator of every good row is of its content or of an older one, that content was
  published, and the file of the row in hand exists. So a 304 certifies the bytes on disk. Each
  step is shown to change the mapped answer, sighting, bytes and losses of one document as an
  action of `Sightings` does (one lemma per part), or to change none.

**Extraction** (`Extraction_proofs`), for any number of commands at a time.

- **`ExtractionTypeOKHolds`**. The inductive form `Typed` adds the types of what a command holds
  and `Sound`: a document in hand is one to do, none is left at the gate, and what a handler
  has targeted it has populated or missed.
- **`ReadersAgreeHolds`**, over any ledger: the latest row of a document is of the greatest run,
  live before dry (`_outranks`), so the greatest run over the latest rows is that over all rows,
  and if one of them is live so is its document's latest.
- **`EveryCallLoggedHolds`**, from `LoggedInv`: the ids in the log are no greater than their
  number, so a new row is one more.
- **`WholeFilingHolds`**, **`OutputsToldHolds`**, **`CallsLinkedHolds`**, **`GateAccountsHolds`**,
  from `AccountsInv`. For a command whose run id is its own (`CountInv` says that two commands
  with one id are counted, and that an id nobody took has no rows) it says what the logs hold of
  the run at each step: each document asked for is still to do or has its one row (`Covers`);
  the misses of a document come with its row (`MissesTold`); of the documents to do only the one
  in hand has calls, and its count names them (`CallsTold`); what has been made is of documents
  that have their row or are in hand, as the row or the counts so far say (`MadeTold`); the
  directory is empty until all of it is written (`FilesTold`). The names of the calls in a row
  (`Linked`) are kept when the command is gone. None of the four properties is inductive: each
  is of a command that has ended, and what makes it true is written while it runs. The steps
  are first described by their effect on one command and its logs (`Opened`, `Called`, `Built`,
  `FinishedWith`, `Closing`, `Dead`, `Begun`), and the parts of the invariant are proved of those.

**Validation** (`Quarantine_proofs`), for any number of commands at a time.

- **`QuarantineTypeOKHolds`**, with `ActiveRuns`, `ExtractsOnce` and `CommandInv`: while a
  command works, its rules and findings are what they would be if it read them again, since extracts and
  edits come between commands; it clears only what it has not found.
- **`ViewsAgreeHolds`**, from `RunInv`. Under a run id of its own, a command has written what it
  holds, each row once (`OwnInv`), so that the rows of an identity under such a run have one status
  (`StatusInv`), and then the last row, which the resolver reads, and the rows by extract run,
  which the warehouse reads, show the same as open.
- **`NothingVanishesHolds`**, from `ResolveInv`: past the resolution a command has a row for all
  that its prior run leaves open. That holds even if the prior run's command still writes, since
  rows are only appended, and what a run leaves open never grows but by its own findings.
- **`FilingRunShowsNothingHolds`**: the run shown is the newest corpus run reported, and under a run
  id of its own a `--filing` command writes no results row of that scope, and no row of that run.
- **`GateHoldsHolds`**, **`OpenIsFoundHolds`**, from `ToldInv`: what a command that has ended
  said of the rows it held. The four assertions of the gate follow from `OwnInv` but for the
  resolutions of a retired rule.

`Maxima_proofs` has the greatest of a finite or bounded set of numbers, which "the last row", "the newest
run" and "the next free stamp" rest on. It takes the least bound and the smallest unbounded set
(`WFMin`), where one would otherwise argue by induction.

**Only model-checked** are the liveness properties: `RunEnds` of `DagRun` and of `Ingest`,
`EventuallyCurrent`, `EventuallyPublished`, `LockComesFree`. They need `ENABLED` and fairness,
which the prover cannot do. No function of the models is proved by induction over data; there is
no recursion in them but the folds of the community modules, of which the proofs need nothing.

## 7. Not modelled, and the plan

Not modelled: text and table parsers, field anchors, prompts, rule predicates, the
parsing of index pages, the normalized field hash, staging SQL and seeds, the loading of the YAML
files: functions of values without protocol, which unit tests reach. The reconciliation of
verdicts (`evaluated` is the sum of four counters) holds by the shape of `DqResult.record`, and
prices are arithmetic on decimals.

Planned, in this order:

1. `WarehouseGate`, an abstract specification (evidence, gate, publish) that `DagRun` implements,
   with the refinement proved from `GateInv` and `PublishInv`.
2. `Extraction` and `Quarantine` shown to implement the actions of `Stores`.
3. `Warehouse`: the load table by table, and a human's command lines concurrent with the DAG.
4. The types of `Ingest` without `DistinctRequests`.
