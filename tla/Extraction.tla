----------------------------- MODULE Extraction -----------------------------
(***************************************************************************)
(* python -m pipeline.extract: every document of the manifest is read by   *)
(* the handler of its role, its rows are kept in memory until the end, and *)
(* its one outcome row, its field misses and its model calls are appended  *)
(* to their logs as they happen.  Then the rows are written, one directory *)
(* per filing, and the gate asks the ledger to account for the run.        *)
(*                                                                         *)
(* What a parser makes of a document (a reading) and the model of a prompt *)
(* (an answer) are chosen from sets of counts.  Ingest may work meanwhile, *)
(* and a command may be killed.                                            *)
(***************************************************************************)
EXTENDS Naturals, Sequences, FiniteSetsExt, SequencesExt

CONSTANTS
    Procs,          \* extract commands that may run at the same time
    Order,          \* the documents, in the order of their keys
    FilingOf,       \* the filing of each
    RoleOf,         \* the role of each
    Readings,       \* for each role, what its parser may make of a document
    Answers,        \* what may come of a model call
    Ingested,       \* the documents the manifest has at first
    MaxCommands,    \* bound: extract commands
    MaxFaults       \* bound: manifest changes and killed commands

Docs    == Range(Order)
Filings == Range(FilingOf)
Runs    == 1 .. MaxCommands
Roles   == {"urrt", "filing_packet", "rate_request", "cost_containment", "rate_tables"}
All     == "all"                     \* the scope of a run without --filing
Scopes  == {All} \cup Filings
Crashed == 9                    \* killed: no exit code of its own

\* found and missing: the anchors, or the header cells; lost: plan rows the schema refuses;
\* rejected: rates outside the stated range; stated: the number of plans, if the carrier says it; sections: justification sections were located;
\* note: a cross-check disagrees, a section is missing; raises: before or after the filing row.
Reading == [readable : BOOLEAN, found : Nat, missing : Nat, plans : Nat, lost : Nat,
            rejected : Nat, stated : SUBSET Nat, sections : BOOLEAN, note : BOOLEAN,
            raises : {"never", "early", "late"}]

\* sent: the request reached the API; error: an LlmError; kept and dropped: the values or
\* entries that are grounded in a quote, and those that are not; malformed: valid JSON of
\* another shape, on which the handler raises.
Answer == [sent : BOOLEAN, error : BOOLEAN, kept : Nat, dropped : Nat, malformed : BOOLEAN]

ASSUME ExtractionAssumption ==
    /\ Order \in Seq(Docs) /\ IsInjective(Order)
    /\ DOMAIN FilingOf = Docs /\ RoleOf \in [Docs -> Roles]
    /\ \A r \in Roles : Readings[r] \subseteq Reading
    /\ Answers \subseteq Answer /\ Ingested \subseteq Docs
    /\ MaxCommands \in Nat \ {0} /\ MaxFaults \in Nat

VARIABLES
    manifest,   \* latest_index of the ingest manifest, and whether the document resolves
    outcomes,   \* extraction_outcomes.jsonl
    misses,     \* field_misses.jsonl: how many rows of each run and document
    calls,      \* llm_calls.jsonl
    outputs,    \* the rows of the output directories, by run, document and kind
    clock,      \* the second of the last start
    begun,      \* how many commands took each run id
    paid,       \* requests the API answered, whether anyone logged it or not
    faults,     \* what has gone wrong so far
    proc        \* the state of each command

logs == <<outcomes, misses, calls, outputs>>
vars == <<manifest, logs, clock, begun, paid, faults, proc>>

Kinds == {"filing", "plan", "justification"}

Rows == [run : Runs, doc : Docs, dry : BOOLEAN,
         status : {"extracted", "partial", "skipped", "failed"},
         emitted : [Kinds -> Nat], targeted : Nat, populated : Nat, missed : Nat,
         stated : SUBSET Nat, calls : SUBSET Nat]

\* What a handler has counted of its document so far.
Nothing == [emitted |-> [k \in Kinds |-> 0], targeted |-> 0, populated |-> 0, missed |-> 0,
            stated |-> {}, calls |-> {}, note |-> FALSE]

NoReading == [readable |-> FALSE, found |-> 0, missing |-> 0, plans |-> 0, lost |-> 0,
              rejected |-> 0, stated |-> {}, sections |-> FALSE, note |-> FALSE,
              raises |-> "never"]

Idle == [pc |-> "idle", scope |-> All, dry |-> FALSE, run |-> 0, known |-> {}, broken |-> {}, todo |-> {},
         reading |-> NoReading, count |-> Nothing, made |-> {}, exit |-> 0]

Fault == faults < MaxFaults /\ faults' = faults + 1

-----------------------------------------------------------------------------
(* Readers of the ledger *)

OutcomesOf(run) == {i \in DOMAIN outcomes : outcomes[i].run = run}

OutcomeRows(run) == {outcomes[i] : i \in OutcomesOf(run)}

\* The greater run, or the later line.
Later(i, j) ==
    outcomes[i].run > outcomes[j].run \/ (outcomes[i].run = outcomes[j].run /\ i >= j)

\* _outranks: live beats dry, and only then is the later one taken.
Outranks(i, j) == IF outcomes[i].dry # outcomes[j].dry THEN outcomes[j].dry ELSE Later(i, j)

\* latest_index, which change detection and current_runs read.
Latest(d) ==
    LET mine == {i \in DOMAIN outcomes : outcomes[i].doc = d}
    IN  outcomes[CHOOSE i \in mine : \A j \in mine : Outranks(i, j)]

Recorded(f) == {d \in Docs : FilingOf[d] = f /\ \E i \in DOMAIN outcomes : outcomes[i].doc = d}

\* current_runs: over the latest rows of a filing's documents, live first, then the greatest run.
ValidatedRun(f) ==
    LET latest == {Latest(d) : d \in Recorded(f)}
        live   == {row \in latest : ~row.dry}
    IN  Max({0} \cup {row.run : row \in IF live = {} THEN latest ELSE live})

\* int_extract_run_current: over every row of the filing.
CurrentRun(f) ==
    LET rows == {outcomes[i] : i \in {j \in DOMAIN outcomes : FilingOf[outcomes[j].doc] = f}}
        live == {row \in rows : ~row.dry}
    IN  Max({0} \cup {row.run : row \in IF live = {} THEN rows ELSE live})

UsedRuns == {outcomes[i].run : i \in DOMAIN outcomes}

\* new_run_id: the second of the start, advanced until no outcome row bears it.
NextRunId(now, stamp) == /\ now <= stamp /\ stamp \notin UsedRuns
                         /\ now .. stamp - 1 \subseteq UsedRuns

-----------------------------------------------------------------------------
(* The world around an extract command *)

Init ==
    /\ manifest = [d \in Docs |-> IF d \in Ingested THEN "stored" ELSE "absent"]
    /\ outcomes = <<>> /\ misses = [x \in Runs \X Docs |-> 0] /\ calls = {} /\ outputs = {}
    /\ clock = 1 /\ begun = [r \in Runs |-> 0] /\ paid = 0 /\ faults = 0
    /\ proc = [p \in Procs |-> Idle]

Known == {d \in Docs : manifest[d] # "absent"}

\* A document is ingested; its bytes are gone, or its type, extension and role disagree; or it
\* is whole again.  No row of the manifest is ever removed.
Ingest(d) ==
    /\ \E s \in {"stored", "unresolvable"} \ {manifest[d]} : manifest' = [manifest EXCEPT ![d] = s]
    /\ Fault
    /\ UNCHANGED <<logs, clock, begun, paid, proc>>

-----------------------------------------------------------------------------
(* One command *)

Becomes(p, state) == proc' = [proc EXCEPT ![p] = state]

Resting(p) == proc[p].pc \in {"idle", "ended"}

\* No API key: nothing is written and no id is taken.
Refuse(p) ==
    /\ Resting(p)
    /\ Becomes(p, [Idle EXCEPT !.pc = "ended", !.exit = 1])
    /\ UNCHANGED <<manifest, logs, clock, begun, paid, faults>>

Broken == {d \in Docs : manifest[d] = "unresolvable"}

\* Mutant: what does not resolve is left out.
TodoResolved(scope) == {d \in Docs : manifest[d] = "stored" /\ scope \in {All, FilingOf[d]}}

\* resolve_documents: what does not resolve, whatever the filing asked for, and the documents of
\* that filing.
Todo(scope) == Broken \cup {d \in Docs : manifest[d] = "stored" /\ scope \in {All, FilingOf[d]}}

Begin(p) ==
    /\ Resting(p)
    /\ FoldFunction(+, 0, begun) < MaxCommands
    /\ \E scope \in Scopes, dry \in BOOLEAN, now \in {clock, clock + 1}, run \in Runs :
          /\ now > clock => begun[clock] > 0      \* whether two starts share a second is all that counts
          /\ NextRunId(now, run)
          /\ clock' = now
          /\ begun' = [begun EXCEPT ![run] = @ + 1]
          /\ Becomes(p, [Idle EXCEPT !.pc = "next", !.scope = scope, !.dry = dry, !.run = run,
                            !.known = Known, !.broken = Broken, !.todo = Todo(scope)])
    /\ UNCHANGED <<manifest, logs, paid, faults>>

First(docs) == Order[Min({i \in DOMAIN Order : Order[i] \in docs})]

\* What does not resolve comes first; both parts are in the order of the keys.
DocOf(state) ==
    First(IF state.todo \cap state.broken = {} THEN state.todo ELSE state.todo \cap state.broken)

Doc(p)  == DocOf(proc[p])
Role(p) == RoleOf[Doc(p)]

Row(p, status, count) ==
    [run |-> proc[p].run, doc |-> Doc(p), dry |-> proc[p].dry, status |-> status,
     emitted |-> count.emitted, targeted |-> count.targeted, populated |-> count.populated,
     missed |-> count.missed, stated |-> count.stated, calls |-> count.calls]

\* The document is finished with: its one row is appended, and the next document is taken.
Finish(p, row) ==
    /\ outcomes' = Append(outcomes, row)
    /\ Becomes(p, [proc[p] EXCEPT !.pc = "next", !.todo = @ \ {Doc(p)}, !.reading = NoReading,
                      !.count = Nothing])

Takes(p) == proc[p].pc = "next" /\ proc[p].todo # {}

\* A document that does not resolve still gets a row.
Unresolvable(p) ==
    /\ Takes(p) /\ Doc(p) \in proc[p].broken
    /\ Finish(p, Row(p, "failed", Nothing))
    /\ UNCHANGED <<manifest, misses, calls, outputs, clock, begun, paid, faults>>

\* Superseded by the workbook.
Skip(p) ==
    /\ Takes(p) /\ Doc(p) \notin proc[p].broken
    /\ Role(p) = "rate_tables"
    /\ Finish(p, Row(p, "skipped", Nothing))
    /\ UNCHANGED <<manifest, misses, calls, outputs, clock, begun, paid, faults>>

\* WorkbookError or PdfError: the handler itself says failed.
Unreadable(p) ==
    /\ Takes(p) /\ Doc(p) \notin proc[p].broken
    /\ \E reading \in Readings[Role(p)] : ~reading.readable
    /\ Finish(p, Row(p, "failed", Nothing))
    /\ UNCHANGED <<manifest, misses, calls, outputs, clock, begun, paid, faults>>

\* The anchors of a PDF, or the header of a workbook: each is found, or a field miss.  Only the
\* packets of Pennsylvania have a window the model reads the identity of the filing from.
Open(p) ==
    /\ Takes(p) /\ Doc(p) \notin proc[p].broken
    /\ Role(p) # "rate_tables"
    /\ \E reading \in {r \in Readings[Role(p)] : r.readable} :
          Becomes(p, [proc[p] EXCEPT
              !.pc = IF Role(p) = "filing_packet" THEN "identity" ELSE "build",
              !.reading = reading,
              !.count = [Nothing EXCEPT !.targeted = reading.found + reading.missing,
                                        !.populated = reading.found, !.missed = reading.missing,
                                        !.stated = reading.stated, !.note = reading.note]])
    /\ UNCHANGED <<manifest, logs, clock, begun, paid, faults>>

-----------------------------------------------------------------------------
(* The calls of the model *)

\* A dry run sends nothing; its window may still be too large.
Possible(p) == {a \in Answers : IF proc[p].dry THEN ~a.sent ELSE a.sent \/ a.error}

FreshCall == Cardinality(calls) + 1

\* Mutant: a response that is not parsed is not logged.
LogsAnswered(p, answer) ==
    /\ calls' = IF answer.error THEN calls
                ELSE calls \cup {[id |-> FreshCall, run |-> proc[p].run, doc |-> Doc(p),
                                  sent |-> answer.sent, error |-> answer.error]}
    /\ paid' = IF answer.sent THEN paid + 1 ELSE paid

\* ExtractionClient.extract: one row, whatever comes of it.
Logs(p, answer) ==
    /\ calls' = calls \cup {[id |-> FreshCall, run |-> proc[p].run, doc |-> Doc(p),
                             sent |-> answer.sent, error |-> answer.error]}
    /\ paid' = IF answer.sent THEN paid + 1 ELSE paid

\* The handler goes on with what it has counted, or raises.
GoesOn(p, answer, pc, count) ==
    Becomes(p, [proc[p] EXCEPT !.pc = IF answer.malformed THEN "raised" ELSE pc,
                               !.count = IF answer.error THEN [@ EXCEPT !.note = TRUE] ELSE count])

\* Mutant: the call is not linked to the row.
WithIdentityUnlinked(count, answer) ==
    [count EXCEPT !.targeted = @ + answer.kept, !.populated = @ + answer.kept,
                  !.note = @ \/ answer.dropped > 0]

\* A value without a quote is dropped, with a note.
WithIdentity(count, answer) ==
    [count EXCEPT !.targeted = @ + answer.kept, !.populated = @ + answer.kept,
                  !.note = @ \/ answer.dropped > 0, !.calls = @ \cup {FreshCall}]

Identity(p) ==
    /\ proc[p].pc = "identity"
    /\ \E answer \in Possible(p) :
          /\ Logs(p, answer)
          /\ GoesOn(p, answer, "build", WithIdentity(proc[p].count, answer))
    /\ UNCHANGED <<manifest, outcomes, misses, outputs, clock, begun, faults>>

\* Mutant: an ungrounded impact is a miss nobody targeted.
WithEntriesUntargeted(count, answer) ==
    [count EXCEPT !.emitted["justification"] = answer.kept,
                  !.missed = @ + answer.dropped, !.calls = @ \cup {FreshCall}]

\* An impact that is not in its own quote drops its entry, and was a targeted field.
WithEntries(count, answer) ==
    [count EXCEPT !.emitted["justification"] = answer.kept, !.targeted = @ + answer.dropped,
                  !.missed = @ + answer.dropped, !.calls = @ \cup {FreshCall}]

Made(p, kind, n) == {[doc |-> Doc(p), kind |-> kind, n |-> m] : m \in {n} \ {0}}

Justify(p) ==
    /\ proc[p].pc = "justify" /\ proc[p].reading.sections
    /\ \E answer \in Possible(p) :
          /\ Logs(p, answer)
          /\ LET next == WithEntries(proc[p].count, answer)
                 kept == IF answer.error \/ answer.malformed THEN 0 ELSE answer.kept
             IN  Becomes(p, [proc[p] EXCEPT
                     !.pc = IF answer.malformed THEN "raised" ELSE "record",
                     !.count = IF answer.error THEN [@ EXCEPT !.note = TRUE] ELSE next,
                     !.made = @ \cup Made(p, "justification", kept)])
    /\ UNCHANGED <<manifest, outcomes, misses, outputs, clock, begun, faults>>

NoSections(p) ==
    /\ proc[p].pc = "justify" /\ ~proc[p].reading.sections
    /\ Becomes(p, [proc[p] EXCEPT !.pc = "record"])
    /\ UNCHANGED <<manifest, logs, clock, begun, paid, faults>>

-----------------------------------------------------------------------------
(* The rows of a document *)

HasFiling(role) == role \in {"urrt", "filing_packet", "rate_request"}
HasPlans(role)  == role \in {"urrt", "filing_packet"}

\* Mutant: the plan rows are counted before the schema refuses some.
WithRowsParsed(count, reading, role) ==
    [count EXCEPT !.emitted["filing"] = IF HasFiling(role) THEN 1 ELSE 0,
                  !.emitted["plan"] = IF HasPlans(role) THEN reading.plans + reading.lost ELSE 0,
                  !.targeted = @ + reading.rejected, !.missed = @ + reading.rejected,
                  !.note = @ \/ (role = "filing_packet" /\ reading.lost > 0)]

\* A rate outside the stated range was a targeted field of its plan.  A plan row the schema
\* refuses is a note in a packet; a workbook just has fewer.
WithRows(count, reading, role) ==
    [count EXCEPT !.emitted["filing"] = IF HasFiling(role) THEN 1 ELSE 0,
                  !.emitted["plan"] = IF HasPlans(role) THEN reading.plans ELSE 0,
                  !.targeted = @ + reading.rejected, !.missed = @ + reading.rejected,
                  !.note = @ \/ (role = "filing_packet" /\ reading.lost > 0)]

\* The filing row goes to the result before the plan table is read: an exception there leaves it.
Build(p) ==
    /\ proc[p].pc = "build"
    /\ LET reading == proc[p].reading
           filing  == Made(p, "filing", IF HasFiling(Role(p)) THEN 1 ELSE 0)
           plans   == Made(p, "plan", IF HasPlans(Role(p)) THEN reading.plans ELSE 0)
       IN  Becomes(p, [proc[p] EXCEPT
               !.pc = CASE reading.raises # "never" -> "raised"
                        [] reading.raises = "never" -> IF Role(p) = "urrt" THEN "record" ELSE "justify",
               !.count = WithRows(@, reading, Role(p)),
               !.made = @ \cup (CASE reading.raises = "early" -> {}
                                  [] reading.raises = "late"  -> filing
                                  [] reading.raises = "never" -> filing \cup plans)])
    /\ UNCHANGED <<manifest, logs, clock, begun, paid, faults>>

\* A mismatch of the stated number of plans is partial, never extracted.
Status(count) ==
    IF \/ count.missed > 0 \/ count.note
       \/ \E n \in count.stated : n # count.emitted["plan"]
    THEN "partial" ELSE "extracted"

MissedMore(p, n) == misses' = [misses EXCEPT ![<<proc[p].run, Doc(p)>>] = @ + n]

\* The misses one by one, then the row.
Record(p) ==
    /\ proc[p].pc = "record"
    /\ MissedMore(p, proc[p].count.missed)
    /\ Finish(p, Row(p, Status(proc[p].count), proc[p].count))
    /\ UNCHANGED <<manifest, calls, outputs, clock, begun, paid, faults>>

\* record_failure: a crash becomes a row, without counts and without calls.
RecordFailure(p) ==
    /\ proc[p].pc = "raised"
    /\ Finish(p, Row(p, "failed", Nothing))
    /\ UNCHANGED <<manifest, misses, calls, outputs, clock, begun, paid, faults>>

-----------------------------------------------------------------------------
(* The end of a command *)

\* write_outputs: one file per kind and filing, in the directory of the run.
Written(p, made) ==
    LET same(o) == \E m \in made : /\ o.run = proc[p].run /\ o.kind = m.kind
                                   /\ FilingOf[o.doc] = FilingOf[m.doc]
    IN  {o \in outputs : ~same(o)}
        \cup {[run |-> proc[p].run, doc |-> m.doc, kind |-> m.kind, n |-> m.n] : m \in made}

WriteOutputs(p) ==
    /\ proc[p].pc = "next" /\ proc[p].todo = {}
    /\ outputs' = Written(p, proc[p].made)
    /\ Becomes(p, [proc[p] EXCEPT !.pc = "gate"])
    /\ UNCHANGED <<manifest, outcomes, misses, calls, clock, begun, paid, faults>>

\* assert_gate: each document of the manifest has one row, each targeted field is populated or
\* missed, each miss is recorded, and no extracted row is short of the stated plans.  Its other
\* two assertions are of what every row here has: a terminal status, a reason, an error class.
GatePasses(run) ==
    /\ {row.doc : row \in OutcomeRows(run)} = Known
    /\ \A i, j \in OutcomesOf(run) : outcomes[i].doc = outcomes[j].doc => i = j
    /\ \A row \in OutcomeRows(run) :
          /\ row.targeted = row.populated + row.missed
          /\ row.missed = misses[<<run, row.doc>>]
          /\ row.status = "extracted" => row.stated \subseteq {row.emitted["plan"]}

\* Mutant: the number of the documents that are partial or failed.
ExitCodeCounts(run) ==
    Cardinality({row \in OutcomeRows(run) : row.status \in {"partial", "failed"}})

ExitCode(run) ==
    IF \E row \in OutcomeRows(run) : row.status \in {"partial", "failed"} THEN 1 ELSE 0

\* The gate is not asserted of a single filing.
Ends(p) ==
    /\ proc[p].pc = "gate"
    /\ Becomes(p, [proc[p] EXCEPT !.pc = "ended",
                       !.exit = IF proc[p].scope = All /\ ~GatePasses(proc[p].run) THEN 3
                                ELSE ExitCode(proc[p].run)])
    /\ UNCHANGED <<manifest, logs, clock, begun, paid, faults>>

\* A kill: between the answer of the API and its row, among the misses, among the files.
Dies(p) ==
    /\ proc[p].pc \notin {"idle", "ended"}
    /\ \/ UNCHANGED <<misses, outputs, paid>>
       \/ /\ proc[p].pc = "identity" \/ (proc[p].pc = "justify" /\ proc[p].reading.sections)
          /\ ~proc[p].dry
          /\ paid' = paid + 1
          /\ UNCHANGED <<misses, outputs>>
       \/ /\ proc[p].pc = "record"
          /\ \E n \in 1 .. proc[p].count.missed : MissedMore(p, n)
          /\ UNCHANGED <<outputs, paid>>
       \/ /\ proc[p].pc = "next" /\ proc[p].todo = {}
          /\ \E part \in SUBSET proc[p].made : outputs' = Written(p, part)
          /\ UNCHANGED <<misses, paid>>
    /\ Becomes(p, [Idle EXCEPT !.run = proc[p].run, !.exit = Crashed])
    /\ Fault
    /\ UNCHANGED <<manifest, outcomes, calls, clock, begun>>

Step(p) ==
    \/ Unresolvable(p) \/ Skip(p) \/ Unreadable(p) \/ Open(p)
    \/ Identity(p) \/ Build(p) \/ Justify(p) \/ NoSections(p)
    \/ Record(p) \/ RecordFailure(p)
    \/ WriteOutputs(p) \/ Ends(p)

Next ==
    \/ \E d \in Docs : Ingest(d)
    \/ \E p \in Procs : Refuse(p) \/ Begin(p) \/ Step(p) \/ Dies(p)

Spec == Init /\ [][Next]_vars

-----------------------------------------------------------------------------
(* Properties *)

Call == [id : Nat, run : Runs, doc : Docs, sent : BOOLEAN, error : BOOLEAN]

\* Every variable has its type.
TypeOK ==
    /\ manifest \in [Docs -> {"absent", "stored", "unresolvable"}]
    /\ outcomes \in Seq(Rows) /\ misses \in [Runs \X Docs -> Nat] /\ calls \subseteq Call
    /\ outputs \subseteq [run : Runs, doc : Docs, kind : Kinds, n : Nat]
    /\ clock \in Runs /\ begun \in [Runs -> Nat] /\ paid \in Nat /\ faults \in 0 .. MaxFaults
    /\ \A p \in Procs :
          /\ proc[p].pc \in {"idle", "next", "identity", "build", "justify", "record", "raised",
                             "gate", "ended"}
          /\ proc[p].run \in Runs \cup {0} /\ proc[p].exit \in {0, 1, 3, Crashed}
          /\ proc[p].todo \subseteq Docs /\ proc[p].reading \in Reading

\* A run id is one command's, but for a start in the second of a command that has no row yet.
Own(run) == run # 0 /\ begun[run] = 1

Complete(p) == proc[p].pc \in {"gate", "ended"} /\ Own(proc[p].run)

\* "Zero silent drops", of the runs themselves: whatever the parsers and the model return, a
\* full run fails its gate only when the manifest has moved under it.
GateAccounts ==
    [][\A p \in Procs : proc[p].pc = "gate" /\ proc'[p].exit = 3 /\ Own(proc[p].run) =>
          Known # proc[p].known]_vars

\* ADR 0018: "one run directory holds the whole filing's rows".  A run that ends has a row of
\* every document of the filings asked for, though no gate is asserted of a --filing run.
WholeFiling ==
    \A p \in Procs : Complete(p) =>
        {d \in proc[p].known : proc[p].scope \in {All, FilingOf[d]}}
            \subseteq {row.doc : row \in OutcomeRows(proc[p].run)}

\* The ledger is "the authority on what a run covered": for each document it says was read, the
\* counts of its row are the rows in the output files, and no file has rows of other documents.
OutputsTold ==
    \A p \in Procs : Complete(p) =>
        LET mine == {o \in outputs : o.run = proc[p].run} IN
        /\ {o.doc : o \in mine} \subseteq {row.doc : row \in OutcomeRows(proc[p].run)}
        /\ \A row \in OutcomeRows(proc[p].run), k \in Kinds : row.status # "failed" =>
              {o.n : o \in {x \in mine : x.doc = row.doc /\ x.kind = k}} = {row.emitted[k]} \ {0}

\* The calls a row names are the ones of its document that were answered: the rows of the model
\* and their cost can be told apart by document.
CallsLinked ==
    \A i \in DOMAIN outcomes : outcomes[i].status # "failed" /\ Own(outcomes[i].run) =>
        outcomes[i].calls = {c.id : c \in {x \in calls : /\ x.run = outcomes[i].run
                                                         /\ x.doc = outcomes[i].doc
                                                         /\ ~x.error}}

\* "Always writes exactly one cost-log row": a request the API answered and nobody logged was
\* lost to a kill, at most one to each.  (Manifest changes count among the faults too.)
EveryCallLogged == Cardinality({c \in calls : c.sent}) + faults >= paid

\* current_runs is "the mirror of int_extract_run_current": what validation reads and what the
\* warehouse shows is the same run of every filing, after dry runs, kills and --filing runs.
ReadersAgree == \A f \in Filings : ValidatedRun(f) = CurrentRun(f)

-----------------------------------------------------------------------------
(* What the docs say and the code does not do *)

\* int_plans_current and int_filings_current: the rows of the filing's current run.
Shown(f) == {o \in outputs : FilingOf[o.doc] = f /\ o.run = CurrentRun(f)}

\* cli.py: "Extract a single filing_id".  A --filing run leaves what the warehouse shows of every
\* other filing alone.
OwnFilingOnly ==
    [][\A p \in Procs : proc[p].scope # All /\ proc'[p] # proc[p] =>
          \A f \in Filings \ {proc[p].scope} : Shown(f)' = Shown(f)]_vars
=============================================================================
