----------------------------- MODULE Quarantine -----------------------------
(***************************************************************************)
(* python -m pipeline.validate: evaluate, adopt, resolve, report, assert   *)
(* the gate, over an append-only quarantine log and one results row per    *)
(* rule.  Stores.tla takes a whole run as one action.                      *)
(*                                                                         *)
(* A filing has one subject; a finding is a rule and a filing, and its     *)
(* rows also name the extract run it was found in.  Filings are extracted  *)
(* again and the rules edited between the commands: a command reads both   *)
(* once, when it begins.  Two commands may work at a time, and die.        *)
(***************************************************************************)
EXTENDS Naturals, Sequences, FiniteSetsExt, SequencesExt

CONSTANTS
    Procs,          \* validate commands that may run at the same time
    Filings,
    Rules,          \* the rules dq_rules.yml may name
    AdoptRule,      \* the one adopted_reasons maps the field misses to; it has no predicate
    ErrorRules,     \* those of severity error
    Contents,       \* what a filing's rows may come to: rules violated, a field missed
    MaxCommands,    \* bound: extract runs and validate commands, together
    MaxFaults       \* bound: edits of the rules, killed commands, extracts without output

ASSUME QuarantineAssumption ==
    /\ IsFiniteSet(Filings) /\ IsFiniteSet(Rules)
    /\ AdoptRule \in Rules /\ ErrorRules \subseteq Rules
    /\ Contents \subseteq [bad : SUBSET (Rules \ {AdoptRule}), miss : BOOLEAN]
    /\ MaxCommands \in Nat \ {0} /\ MaxFaults \in Nat

VARIABLES
    extracts,   \* ledger, field misses and output directories: what each run made of a filing
    rules,      \* the rules dq_rules.yml names
    quarantine, \* quarantine.jsonl
    results,    \* dq_results.jsonl
    clock,      \* the second of the last start
    begun,      \* how many commands took each run id
    faults,     \* what has gone wrong so far
    proc        \* the state of each command

logs == <<quarantine, results>>
vars == <<extracts, rules, logs, clock, begun, faults, proc>>

Runs    == 1 .. MaxCommands
Corpus  == "corpus"                  \* the scope of a run without --filing
Scopes  == {Corpus} \cup Filings
Crashed == 9                    \* killed: no exit code of its own

Extracts == [run : Runs, filing : Filings, dry : BOOLEAN, dir : BOOLEAN,
             bad : SUBSET Rules, miss : BOOLEAN]

Rows == [run : Runs, rule : Rules, filing : Filings, xrun : Runs,
         origin : {"evaluated", "adopted"}, status : {"open", "resolved"}]

Results == [run : Runs, rule : Rules, scope : Scopes, violated : Nat, adopted : Nat, resolved : Nat]

Idle == [pc |-> "idle", scope |-> Corpus, run |-> 0, prior |-> 0, rules |-> {},
         found |-> {}, cleared |-> {}, misses |-> 0, exit |-> 0]

Fault == faults < MaxFaults /\ faults' = faults + 1

-----------------------------------------------------------------------------
(* Reading the extract store *)

Newest(xs) == CHOOSE x \in xs : \A y \in xs : y.run <= x.run

\* current_runs, the mirror of int_extract_run_current: live before dry, then the greatest run.
LedgerRun(f) ==
    LET known == {x \in extracts : x.filing = f}
        live  == {x \in known : ~x.dry}
    IN  Newest(IF live = {} THEN known ELSE live)

\* select_run_dir: that run if it has a directory here, or the newest live one that has.
ReadAt(f) ==
    LET stored == {x \in extracts : x.filing = f /\ x.dir}
        live   == {x \in stored : ~x.dry}
    IN  IF LedgerRun(f).dir THEN LedgerRun(f) ELSE Newest(IF live = {} THEN stored ELSE live)

InScope(scope) == IF scope = Corpus THEN Filings ELSE {scope}

\* load_bundles
Bundles(scope) ==
    {ReadAt(f) : f \in {g \in InScope(scope) : \E x \in extracts : x.filing = g /\ x.dir}}

\* _field_misses: of the runs and of the filings of the bundles.
Misses(bundles) ==
    {x \in extracts : /\ x.miss
                      /\ x.run \in {b.run : b \in bundles}
                      /\ x.filing \in {b.filing : b \in bundles}}

-----------------------------------------------------------------------------
(* Reading the quarantine store *)

Identity(row) == <<row.rule, row.filing>>

At(run) == {i \in DOMAIN quarantine : quarantine[i].run = run}

\* The last row of each identity, in file order.
LastRows(run) ==
    {quarantine[i] : i \in {j \in At(run) :
        \A k \in At(run) : Identity(quarantine[k]) = Identity(quarantine[j]) => k <= j}}

OpenFindings(run) == {row \in LastRows(run) : row.status = "open"}

Identities(rows) == {Identity(row) : row \in rows}

Reported == {x.run : x \in results}

\* Mutant: every run with results is a full run.
CorpusRunsAny == Reported

\* A results row is enough: they are written last.
CorpusRuns == {x.run : x \in {y \in results : y.scope = Corpus}}

\* new_run_id: the second of the start, advanced until no results row bears it.
NextRunId(now, stamp) == /\ now <= stamp /\ stamp \notin Reported
                         /\ now .. stamp - 1 \subseteq Reported

\* int_quarantine_current: the newest corpus run; within it the last row of each finding and
\* extract run.
Current == Max({0} \cup CorpusRuns)

Shown ==
    {quarantine[i] : i \in {j \in At(Current) :
        \A k \in At(Current) :
            /\ Identity(quarantine[k]) = Identity(quarantine[j])
            /\ quarantine[k].xrun = quarantine[j].xrun
            => k <= j}}

ShownOpen == {row \in Shown : row.status = "open"}

-----------------------------------------------------------------------------
(* The world around a validate command *)

Init ==
    /\ extracts = {} /\ rules = Rules
    /\ quarantine = <<>> /\ results = {}
    /\ clock = 1 /\ begun = [r \in Runs |-> 0] /\ faults = 0
    /\ proc = [p \in Procs |-> Idle]

ExtractRuns == Max({0} \cup {x.run : x \in extracts})

\* Each of them counts against the bound.
Commands == ExtractRuns + FoldFunction(+, 0, begun)

Quiet == \A p \in Procs : proc[p].pc \in {"idle", "ended"}

\* An extract run, of all filings or of one, live or dry: for each the rules its rows violate
\* and whether a field was missed.  A filing without rows gets no directory, and none gets one
\* when the run dies after its ledger rows.  So with --reprocess raw, before its Begin.
Extract(scope) ==
    /\ Quiet
    /\ Commands < MaxCommands
    /\ LET run == ExtractRuns + 1 IN
          \E dry \in BOOLEAN, dirs \in SUBSET InScope(scope),
             content \in [InScope(scope) -> Contents] :
             /\ run \in Runs
             /\ IF dirs = InScope(scope) THEN UNCHANGED faults ELSE Fault
             /\ extracts' = extracts \cup
                    {[run |-> run, filing |-> f, dry |-> dry, dir |-> f \in dirs,
                      bad |-> IF f \in dirs THEN content[f].bad ELSE {},
                      miss |-> content[f].miss] : f \in InScope(scope)}
    /\ UNCHANGED <<rules, logs, clock, begun, proc>>

\* A rule is retired, or comes back.
EditRules(r) ==
    /\ Quiet
    /\ rules' = IF r \in rules THEN rules \ {r} ELSE rules \cup {r}
    /\ Fault
    /\ UNCHANGED <<extracts, logs, clock, begun, proc>>

-----------------------------------------------------------------------------
(* One command *)

Becomes(p, state) == proc' = [proc EXCEPT ![p] = state]

\* No extract, or a reason no rule is mapped to: nothing is written and no id is taken.
Refuse(p) ==
    /\ proc[p].pc \in {"idle", "ended"}
    /\ \E scope \in Scopes :
          \/ Bundles(scope) = {} /\ Becomes(p, [Idle EXCEPT !.pc = "ended", !.exit = 1])
          \/ /\ Misses(Bundles(scope)) # {} /\ AdoptRule \notin rules
             /\ Becomes(p, [Idle EXCEPT !.pc = "ended", !.exit = 3])
    /\ UNCHANGED <<extracts, rules, logs, clock, begun, faults>>

\* Pass 1 and pass 2: what the rules find in the bundles, and the misses.
Found(run, bundles) ==
    (UNION {{[run |-> run, rule |-> r, filing |-> b.filing, xrun |-> b.run,
              origin |-> "evaluated", status |-> "open"] : r \in rules \cap b.bad} : b \in bundles})
    \cup
    {[run |-> run, rule |-> AdoptRule, filing |-> x.filing, xrun |-> x.run,
      origin |-> "adopted", status |-> "open"] : x \in Misses(bundles)}

\* The latest full-corpus run before this one; --filing has none.
Prior(scope, run) ==
    IF scope = Corpus THEN Max({0} \cup {r \in CorpusRuns : r < run}) ELSE 0

Begin(p) ==
    /\ proc[p].pc \in {"idle", "ended"}
    /\ Commands < MaxCommands
    /\ \E scope \in Scopes, now \in {clock, clock + 1}, run \in Runs :
          /\ Bundles(scope) # {}
          /\ Misses(Bundles(scope)) # {} => AdoptRule \in rules
          /\ now > clock => begun[clock] > 0      \* whether two starts share a second is all that counts
          /\ NextRunId(now, run)
          /\ clock' = now
          /\ begun' = [begun EXCEPT ![run] = @ + 1]
          /\ Becomes(p, [Idle EXCEPT !.pc = "evaluate", !.scope = scope, !.run = run,
                            !.prior = Prior(scope, run), !.rules = rules,
                            !.found = Found(run, Bundles(scope)),
                            !.misses = Cardinality(Misses(Bundles(scope)))])
    /\ UNCHANGED <<extracts, rules, logs, faults>>

\* A dead command leaves some of the rows of a pass.
Appends(rows) == quarantine' = quarantine \o SetToSeq(rows)

Evaluate(p) ==
    /\ proc[p].pc = "evaluate"
    /\ Appends(proc[p].found)
    /\ Becomes(p, [proc[p] EXCEPT !.pc = IF proc[p].prior = 0 THEN "report" ELSE "resolve"])
    /\ UNCHANGED <<extracts, rules, results, clock, begun, faults>>

\* Mutant: the extract run is part of the identity.
ClearedByExtract(p) ==
    {[row EXCEPT !.run = proc[p].run, !.status = "resolved"] :
        row \in {x \in OpenFindings(proc[p].prior) :
                    ~\E y \in proc[p].found : Identity(y) = Identity(x) /\ y.xrun = x.xrun}}

\* Mutant: a retired rule's findings are passed over.
ClearedOfKnownRules(p) ==
    {[row EXCEPT !.run = proc[p].run, !.status = "resolved"] :
        row \in {x \in OpenFindings(proc[p].prior) :
                    Identity(x) \notin Identities(proc[p].found) /\ x.rule \in proc[p].rules}}

\* What was open at the end of the prior run and was not found again.
Cleared(p) ==
    {[row EXCEPT !.run = proc[p].run, !.status = "resolved"] :
        row \in {x \in OpenFindings(proc[p].prior) :
                    Identity(x) \notin Identities(proc[p].found)}}

\* Pass 3: the original stays, and a copy says that it was resolved.
ResolveCleared(p) ==
    /\ proc[p].pc = "resolve"
    /\ Appends(Cleared(p))
    /\ Becomes(p, [proc[p] EXCEPT !.pc = "report", !.cleared = Cleared(p)])
    /\ UNCHANGED <<extracts, rules, results, clock, begun, faults>>

\* Mutant: a resolution is not counted.
ResultWithoutResolved(p, r) ==
    [run |-> proc[p].run, rule |-> r, scope |-> proc[p].scope,
     violated |-> Cardinality({x \in proc[p].found : x.rule = r /\ x.origin = "evaluated"}),
     adopted  |-> Cardinality({x \in proc[p].found : x.rule = r /\ x.origin = "adopted"}),
     resolved |-> 0]

Result(p, r) ==
    [run |-> proc[p].run, rule |-> r, scope |-> proc[p].scope,
     violated |-> Cardinality({x \in proc[p].found : x.rule = r /\ x.origin = "evaluated"}),
     adopted  |-> Cardinality({x \in proc[p].found : x.rule = r /\ x.origin = "adopted"}),
     resolved |-> Cardinality({x \in proc[p].cleared : x.rule = r})]

\* The results rows, after everything else.
RecordResults(p) ==
    /\ proc[p].pc = "report"
    /\ results' = results \cup {Result(p, r) : r \in proc[p].rules}
    /\ Becomes(p, [proc[p] EXCEPT !.pc = "gate"])
    /\ UNCHANGED <<extracts, rules, quarantine, clock, begun, faults>>

RowsOf(run) == {quarantine[i] : i \in At(run)}

AdoptedRows(run) ==
    {i \in At(run) : quarantine[i].origin = "adopted" /\ quarantine[i].status = "open"}

\* assert_dq_gate: rules exist, one result per rule, the counts reconcile, every miss was
\* adopted, and nothing open at the end of the prior run has gone without a row.
GatePasses(p) ==
    LET run == proc[p].run IN
    /\ \A row \in RowsOf(run) : row.rule \in proc[p].rules
    /\ {x.rule : x \in {y \in results : y.run = run}} = proc[p].rules
    /\ \A x, y \in results : x.run = run /\ y.run = run /\ x.rule = y.rule => x = y
    /\ \A x \in results : x.run = run =>
          x.violated + x.adopted + x.resolved =
              Cardinality({i \in At(run) : quarantine[i].rule = x.rule})
    /\ Cardinality(AdoptedRows(run)) = proc[p].misses
    /\ Identities(OpenFindings(proc[p].prior)) \subseteq Identities(RowsOf(run))

\* Mutant: the number of the errors.
ExitCodeCounts(run) ==
    Cardinality({i \in At(run) : quarantine[i].rule \in ErrorRules /\ quarantine[i].status = "open"})

\* Mutant: a resolved row counts like the finding it resolves.
ExitCodeAnyRow(run) == IF \E row \in RowsOf(run) : row.rule \in ErrorRules THEN 1 ELSE 0

ExitCode(run) ==
    IF \E row \in RowsOf(run) : row.rule \in ErrorRules /\ row.status = "open" THEN 1 ELSE 0

\* The gate is not asserted of a single filing.
Ends(p) ==
    /\ proc[p].pc = "gate"
    /\ Becomes(p, [proc[p] EXCEPT !.pc = "ended",
                       !.exit = IF proc[p].scope = Corpus /\ ~GatePasses(p) THEN 3
                                ELSE ExitCode(proc[p].run)])
    /\ UNCHANGED <<extracts, rules, logs, clock, begun, faults>>

\* A kill, in the middle of a pass: some of its rows are there.
Dies(p) ==
    /\ \/ /\ proc[p].pc = "evaluate"
          /\ \E part \in SUBSET proc[p].found : Appends(part)
          /\ UNCHANGED results
       \/ /\ proc[p].pc = "resolve"
          /\ \E part \in SUBSET Cleared(p) : Appends(part)
          /\ UNCHANGED results
       \/ /\ proc[p].pc = "report"
          /\ \E part \in SUBSET proc[p].rules : results' = results \cup {Result(p, r) : r \in part}
          /\ UNCHANGED quarantine
    /\ Becomes(p, [Idle EXCEPT !.exit = Crashed])
    /\ Fault
    /\ UNCHANGED <<extracts, rules, clock, begun>>

Step(p) == Evaluate(p) \/ ResolveCleared(p) \/ RecordResults(p) \/ Ends(p)

Next ==
    \/ \E scope \in Scopes : Extract(scope)
    \/ \E r \in Rules : EditRules(r)
    \/ \E p \in Procs : Refuse(p) \/ Begin(p) \/ Step(p) \/ Dies(p)

Spec == Init /\ [][Next]_vars

-----------------------------------------------------------------------------
(* Properties *)

\* Every variable has its type.
TypeOK ==
    /\ extracts \subseteq Extracts /\ rules \subseteq Rules
    /\ quarantine \in Seq(Rows) /\ results \subseteq Results
    /\ clock \in Runs /\ begun \in [Runs -> Nat] /\ faults \in 0 .. MaxFaults
    /\ proc \in [Procs -> [pc : {"idle", "evaluate", "resolve", "report", "gate", "ended"},
                           scope : Scopes, run : Runs \cup {0}, prior : Runs \cup {0},
                           rules : SUBSET Rules, found : SUBSET Rows, cleared : SUBSET Rows,
                           misses : Nat, exit : {0, 1, 3, Crashed}]]

\* A run id is one command's, but for a start in the second of a command that has no results.
Own(run) == run # 0 /\ begun[run] = 1

\* ADR 0019: "the warehouse and the resolver agree" on what is open at the end of a run, though
\* only the warehouse tells rows of different extract runs apart.
ViewsAgree == Own(Current) => Identities(ShownOpen) = Identities(OpenFindings(Current))

\* A finding the warehouse shows as open goes only when the run that replaces it says so: it is
\* resolved there.  Across killed commands, retired rules, re-extractions and --filing runs; of
\* two commands at work at once, only the first to report has resolved what was shown.  The run
\* shown is one command's: of two that share an id the resolver may miss what is shown.
NothingVanishes ==
    [][\A p \in Procs :
          results' # results /\ proc'[p] # proc[p] /\ proc[p].prior = Current /\ Own(Current) =>
              \A row \in ShownOpen :
                  Identity(row) \notin Identities(ShownOpen)' =>
                      \E new \in Shown' : Identity(new) = Identity(row) /\ new.status = "resolved"]_vars

\* "A run whose store does not account for its own findings is a bug in this layer": a command
\* that shared its id with no other fails the gate only for a finding of a retired rule.
GateHolds ==
    \A p \in Procs : proc[p].exit = 3 /\ Own(proc[p].run) =>
        \E row \in proc[p].cleared : row.rule \notin proc[p].rules

\* What is open at the end of a run is what it found, and the exit code tells whether an error
\* is among it: clearing an error finding is no failure.
OpenIsFound ==
    \A p \in Procs : proc[p].pc = "ended" /\ Own(proc[p].run) =>
        /\ Identities(OpenFindings(proc[p].run)) = Identities(proc[p].found)
        /\ proc[p].exit # 3 =>
              (proc[p].exit = 1 <=> \E row \in proc[p].found : row.rule \in ErrorRules)

\* "A --filing run that became current would erase every other filing's findings from the
\* warehouse": what it writes changes nothing the warehouse shows.
FilingRunShowsNothing ==
    [][\A p \in Procs : proc[p].scope # Corpus /\ Own(proc[p].run) /\ proc'[p] # proc[p] =>
          Shown' = Shown]_vars

=============================================================================
