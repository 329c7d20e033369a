-------------------------- MODULE Quarantine_proofs --------------------------
(***************************************************************************)
(* Proofs about Quarantine.tla, for any finite corpus and set of rules and *)
(* any number of validate commands.                                        *)
(***************************************************************************)
EXTENDS Quarantine, Maxima_proofs

-----------------------------------------------------------------------------
(* Sets written out as sequences *)

\* SetToSeq lists every element of a finite set once.
LEMMA Listed ==
    ASSUME NEW S, IsFiniteSet(S)
    PROVE  /\ SetToSeq(S) \in Seq(S)
           /\ \A i, j \in DOMAIN SetToSeq(S) : SetToSeq(S)[i] = SetToSeq(S)[j] => i = j
           /\ \A x \in S : \E i \in DOMAIN SetToSeq(S) : SetToSeq(S)[i] = x
<1>. DEFINE n == Cardinality(S)
            list == SetToSeq(S)
<1>1. n \in Nat /\ ExistsBijection(1..n, S)
  BY FS_CardinalityType
<1>2. \E f \in [1..n -> S] : IsInjective(f)
  BY <1>1 DEF ExistsBijection, Bijection, Injection
<1>3. list \in [1..n -> S] /\ IsInjective(list)
  BY <1>2 DEF SetToSeq
<1>4. list \in Injection(1..n, S)
  BY <1>3 DEF Injection
<1>5. IsFiniteSet(1..n) /\ Cardinality(1..n) = n
  BY <1>1, FS_Interval
<1>6. list \in Surjection(1..n, S)
  BY <1>4, <1>5, FS_Injection
<1>7. list \in Seq(S)
  BY <1>1, <1>3
<1>. QED BY <1>3, <1>6, <1>7 DEF IsInjective, Surjection

\* Appended to a log, the rows of a set follow it, each in one place.
LEMMA Follow ==
    ASSUME NEW T, NEW log \in Seq(T), NEW S, S \subseteq T, IsFiniteSet(S)
    PROVE  LET longer == log \o SetToSeq(S)
               news   == DOMAIN longer \ DOMAIN log
           IN  /\ longer \in Seq(T)
               /\ DOMAIN log \subseteq DOMAIN longer
               /\ \A i \in DOMAIN log : longer[i] = log[i]
               /\ \A i \in news : longer[i] \in S
               /\ \A i, j \in news : longer[i] = longer[j] => i = j
               /\ \A x \in S : \E i \in news : longer[i] = x
<1>. DEFINE list == SetToSeq(S)
            longer == log \o list
<1>1. list \in Seq(S) /\ list \in Seq(T)
      /\ (\A i, j \in DOMAIN list : list[i] = list[j] => i = j)
      /\ \A x \in S : \E i \in DOMAIN list : list[i] = x
  BY Listed
<1>. HIDE DEF list
<1>2. /\ Len(log) \in Nat /\ DOMAIN log = 1 .. Len(log)
      /\ Len(list) \in Nat /\ DOMAIN list = 1 .. Len(list)
      /\ longer \in Seq(T) /\ DOMAIN longer = 1 .. Len(log) + Len(list)
      /\ \A i \in DOMAIN longer : longer[i] = IF i <= Len(log) THEN log[i] ELSE list[i - Len(log)]
  BY <1>1
<1>3. \A i \in DOMAIN longer \ DOMAIN log : i - Len(log) \in DOMAIN list
         /\ longer[i] = list[i - Len(log)]
  BY <1>2
<1>4. \A k \in DOMAIN list : k + Len(log) \in DOMAIN longer \ DOMAIN log
         /\ longer[k + Len(log)] = list[k]
  BY <1>2
<1>5. \A i \in DOMAIN longer \ DOMAIN log : longer[i] \in S
  BY <1>1, <1>3
<1>6. ASSUME NEW i \in DOMAIN longer \ DOMAIN log, NEW j \in DOMAIN longer \ DOMAIN log,
             longer[i] = longer[j]
      PROVE  i = j
  BY <1>1, <1>2, <1>3, <1>6
<1>7. \A x \in S : \E i \in DOMAIN longer \ DOMAIN log : longer[i] = x
  BY <1>1, <1>4
<1>. HIDE DEF longer
<1>8. DOMAIN log \subseteq DOMAIN longer /\ \A i \in DOMAIN log : longer[i] = log[i]
  BY <1>2
<1>. QED BY <1>2, <1>5, <1>6, <1>7, <1>8 DEF longer, list

-----------------------------------------------------------------------------
(* Finite types *)

LEMMA SameCount ==
    ASSUME NEW S, NEW T, IsFiniteSet(S), NEW f \in [S -> T],
           \A x, y \in S : f[x] = f[y] => x = y, \A t \in T : \E x \in S : f[x] = t
    PROVE  IsFiniteSet(T) /\ Cardinality(T) = Cardinality(S)
<1>1. f \in Bijection(S, T)
  BY DEF Bijection, Injection, Surjection, IsInjective
<1>. QED BY <1>1, FS_Bijection DEF ExistsBijection

\* A set that maps one to one into a finite set is finite.
LEMMA InjectedFinite ==
    ASSUME NEW S, NEW T, IsFiniteSet(T), NEW f \in [S -> T],
           \A x, y \in S : f[x] = f[y] => x = y
    PROVE  IsFiniteSet(S)
<1>1. f \in Injection(S, T)
  BY DEF Injection, IsInjective
<1>. QED BY <1>1, FS_Injection

\* Rows and extracts are records over finite sets, so they can be counted.
LEMMA TypesFinite == IsFiniteSet(Rows) /\ IsFiniteSet(Extracts)
<1>1. /\ IsFiniteSet(Runs) /\ IsFiniteSet(Rules) /\ IsFiniteSet(Filings)
      /\ IsFiniteSet(BOOLEAN) /\ IsFiniteSet({"evaluated", "adopted"})
      /\ IsFiniteSet({"open", "resolved"})
  <2>1. IsFiniteSet(Runs)
    BY QuarantineAssumption, FS_Interval DEF Runs
  <2>2. IsFiniteSet({TRUE} \cup {FALSE}) /\ IsFiniteSet({"evaluated"} \cup {"adopted"})
        /\ IsFiniteSet({"open"} \cup {"resolved"})
    BY FS_Singleton, FS_AddElement
  <2>3. /\ BOOLEAN = {TRUE} \cup {FALSE} /\ {"evaluated", "adopted"} = {"evaluated"} \cup {"adopted"}
        /\ {"open", "resolved"} = {"open"} \cup {"resolved"}
    OBVIOUS
  <2>. QED BY <2>1, <2>2, <2>3, QuarantineAssumption
<1>2. IsFiniteSet(Rows)
  <2>. DEFINE Pairs == ((Runs \X Rules) \X (Filings \X Runs))
                          \X ({"evaluated", "adopted"} \X {"open", "resolved"})
              f == [x \in Rows |-> <<<<<<x.run, x.rule>>, <<x.filing, x.xrun>>>>,
                                     <<x.origin, x.status>>>>]
  <2>1. IsFiniteSet(Pairs)
    BY <1>1, FS_Product
  <2>2. f \in [Rows -> Pairs]
    BY DEF Rows
  <2>3. \A x, y \in Rows : f[x] = f[y] => x = y
    BY DEF Rows
  <2>. QED BY <2>1, <2>2, <2>3, InjectedFinite
<1>3. IsFiniteSet(Extracts)
  <2>. DEFINE Pairs == ((Runs \X Filings) \X (BOOLEAN \X BOOLEAN)) \X ((SUBSET Rules) \X BOOLEAN)
              f == [x \in Extracts |-> <<<<<<x.run, x.filing>>, <<x.dry, x.dir>>>>,
                                         <<x.bad, x.miss>>>>]
  <2>1. IsFiniteSet(Pairs)
    BY <1>1, FS_Product, FS_SUBSET
  <2>2. f \in [Extracts -> Pairs]
    BY DEF Extracts
  <2>3. \A x, y \in Extracts : f[x] = f[y] => x = y
    BY DEF Extracts
  <2>. QED BY <2>1, <2>2, <2>3, InjectedFinite
<1>. QED BY <1>2, <1>3

LEMMA FiniteSubset ==
    ASSUME NEW S, S \subseteq Rows \/ S \subseteq Extracts
    PROVE  IsFiniteSet(S) /\ Cardinality(S) \in Nat
BY TypesFinite, FS_Subset, FS_CardinalityType

-----------------------------------------------------------------------------
(* Types *)

States == [pc : {"idle", "evaluate", "resolve", "report", "gate", "ended"},
           scope : Scopes, run : Runs \cup {0}, prior : Runs \cup {0},
           rules : SUBSET Rules, found : SUBSET Rows, cleared : SUBSET Rows,
           misses : Nat, exit : {0, 1, 3, Crashed}]

LEMMA StateType ==
    ASSUME TypeOK, NEW p \in Procs
    PROVE  /\ proc \in [Procs -> States]
           /\ proc[p] \in States
BY DEF TypeOK, States

LEMMA IdleType == Idle \in States
BY DEF Idle, States, Scopes

\* The newest of some extracts is one of them, and none is newer.
LEMMA NewestIs ==
    ASSUME NEW xs, xs \subseteq Extracts, xs # {}
    PROVE  Newest(xs) \in xs /\ \A y \in xs : y.run <= Newest(xs).run
<1>. DEFINE S == {x.run : x \in xs}
<1>1. S \subseteq Nat /\ S # {} /\ MaxCommands \in Nat /\ \A s \in S : s <= MaxCommands
  BY QuarantineAssumption DEF Extracts, Runs
<1>2. Max(S) \in S /\ \A s \in S : s <= Max(S)
  BY <1>1, BoundedMax
<1>3. PICK x \in xs : x.run = Max(S)
  BY <1>2
<1>4. \A y \in xs : y.run <= x.run
  BY <1>2, <1>3
<1>. QED BY <1>3, <1>4 DEF Newest

\* A filing with a stored extract is read at one of its extracts.
LEMMA ReadAtIs ==
    ASSUME TypeOK, NEW f, \E x \in extracts : x.filing = f /\ x.dir
    PROVE  ReadAt(f) \in extracts /\ ReadAt(f).filing = f
<1>. DEFINE known  == {x \in extracts : x.filing = f}
            stored == {x \in extracts : x.filing = f /\ x.dir}
            live(xs) == {x \in xs : ~x.dry}
            pick(xs) == Newest(IF live(xs) = {} THEN xs ELSE live(xs))
<1>1. ASSUME NEW xs \in SUBSET known, xs # {}
      PROVE  pick(xs) \in known
  <2>1. CASE live(xs) = {}
    BY <1>1, <2>1, NewestIs DEF TypeOK
  <2>2. CASE live(xs) # {}
    BY <1>1, <2>2, NewestIs DEF TypeOK
  <2>. QED BY <2>1, <2>2
<1>2. known # {} /\ stored # {} /\ stored \in SUBSET known
  OBVIOUS
<1>3. pick(known) \in known /\ pick(stored) \in known
  BY <1>1, <1>2
<1>4. ReadAt(f) = IF LedgerRun(f).dir THEN LedgerRun(f) ELSE pick(stored)
  BY DEF ReadAt
<1>5. LedgerRun(f) = pick(known)
  BY DEF LedgerRun
<1>. HIDE DEF pick
<1>. QED BY <1>3, <1>4, <1>5

LEMMA BundlesAre ==
    ASSUME TypeOK, NEW scope
    PROVE  /\ Bundles(scope) \subseteq extracts /\ Misses(Bundles(scope)) \subseteq extracts
           /\ Bundles(scope) \subseteq Extracts /\ Misses(Bundles(scope)) \subseteq Extracts
           /\ Cardinality(Misses(Bundles(scope))) \in Nat
<1>1. Bundles(scope) \subseteq extracts
  BY ReadAtIs DEF Bundles
<1>2. Misses(Bundles(scope)) \subseteq extracts
  BY DEF Misses
<1>3. extracts \subseteq Extracts
  BY DEF TypeOK
<1>. QED BY <1>1, <1>2, <1>3, FiniteSubset

LEMMA FoundRows ==
    ASSUME TypeOK, NEW scope, NEW run \in Runs,
           Misses(Bundles(scope)) # {} => AdoptRule \in rules,
           NEW x \in Found(run, Bundles(scope))
    PROVE  x \in Rows /\ x.run = run /\ x.status = "open" /\ x.rule \in rules
<1>1. rules \subseteq Rules /\ \A b \in Extracts : b.filing \in Filings /\ b.run \in Runs
  BY DEF TypeOK, Extracts
<1>2. CASE \E b \in Bundles(scope) : \E r \in rules \cap b.bad :
              x = [run |-> run, rule |-> r, filing |-> b.filing, xrun |-> b.run,
                   origin |-> "evaluated", status |-> "open"]
  BY <1>1, <1>2, BundlesAre DEF Rows
<1>3. CASE \E b \in Misses(Bundles(scope)) :
              x = [run |-> run, rule |-> AdoptRule, filing |-> b.filing, xrun |-> b.run,
                   origin |-> "adopted", status |-> "open"]
  BY <1>1, <1>3, BundlesAre DEF Rows
<1>4. \/ \E b \in Bundles(scope) : \E r \in rules \cap b.bad :
            x = [run |-> run, rule |-> r, filing |-> b.filing, xrun |-> b.run,
                 origin |-> "evaluated", status |-> "open"]
      \/ \E b \in Misses(Bundles(scope)) :
            x = [run |-> run, rule |-> AdoptRule, filing |-> b.filing, xrun |-> b.run,
                 origin |-> "adopted", status |-> "open"]
  BY DEF Found
<1>. QED BY <1>2, <1>3, <1>4

\* The corpus runs reported are run ids.
LEMMA CorpusRunsAre ==
    ASSUME TypeOK
    PROVE  /\ CorpusRuns \subseteq Runs /\ CorpusRuns \subseteq Nat
           /\ \A r \in CorpusRuns : r \in Nat /\ r <= MaxCommands
BY QuarantineAssumption DEF TypeOK, CorpusRuns, Results, Runs

\* The prior run is an earlier corpus run, or none.
LEMMA PriorIs ==
    ASSUME TypeOK, NEW scope, NEW run \in Runs
    PROVE  \/ Prior(scope, run) = 0
           \/ /\ scope = Corpus /\ Prior(scope, run) \in CorpusRuns
              /\ Prior(scope, run) \in Runs /\ Prior(scope, run) < run
<1>. DEFINE S == {0} \cup {r \in CorpusRuns : r < run}
<1>1. S \subseteq Nat /\ S # {} /\ MaxCommands \in Nat /\ \A r \in S : r <= MaxCommands
  BY CorpusRunsAre, QuarantineAssumption
<1>2. Max(S) \in S
  BY <1>1, BoundedMax
<1>. QED BY <1>2, CorpusRunsAre DEF Prior

LEMMA RowsInLog ==
    ASSUME TypeOK, NEW run
    PROVE  /\ \A i \in At(run) : i \in Nat /\ i <= Len(quarantine) /\ quarantine[i] \in Rows
           /\ OpenFindings(run) \subseteq RowsOf(run) /\ RowsOf(run) \subseteq Rows
           /\ Len(quarantine) \in Nat
<1>1. \A i \in DOMAIN quarantine : i \in Nat /\ i <= Len(quarantine) /\ quarantine[i] \in Rows
  BY DEF TypeOK
<1>. QED BY <1>1 DEF TypeOK, At, OpenFindings, LastRows, RowsOf

\* A resolution is a row of this run for a finding of the prior one.
LEMMA ClearedRows ==
    ASSUME TypeOK, NEW p \in Procs, proc[p].run \in Runs, NEW x \in Cleared(p)
    PROVE  /\ x \in Rows /\ x.run = proc[p].run /\ x.status = "resolved"
           /\ Identity(x) \notin Identities(proc[p].found)
<1>1. PICK row \in OpenFindings(proc[p].prior) :
         /\ Identity(row) \notin Identities(proc[p].found)
         /\ x = [row EXCEPT !.run = proc[p].run, !.status = "resolved"]
  BY DEF Cleared
<1>2. row \in Rows
  BY RowsInLog
<1>3. x = [run |-> proc[p].run, rule |-> row.rule, filing |-> row.filing, xrun |-> row.xrun,
           origin |-> row.origin, status |-> "resolved"]
  BY <1>1, <1>2 DEF Rows
<1>. QED BY <1>1, <1>2, <1>3 DEF Rows, Identity
\* A command at work has taken a run id.
AtWork == {"evaluate", "resolve", "report", "gate"}

Active(p) == proc[p].pc \in AtWork

ActiveRuns == \A p \in Procs : Active(p) => proc[p].run \in Runs

\* A command's step changes its own state only.
LEMMA Became ==
    ASSUME TypeOK, NEW p \in Procs, NEW state, Becomes(p, state)
    PROVE  /\ proc'[p] = state
           /\ \A q \in Procs \ {p} : proc'[q] = proc[q]
           /\ state \in States => proc' \in [Procs -> States]
BY StateType DEF Becomes

\* A pass appends rows of its set, each once, in some order.
LEMMA Appended ==
    ASSUME TypeOK, NEW S, S \subseteq Rows, Appends(S)
    PROVE  /\ quarantine' \in Seq(Rows)
           /\ DOMAIN quarantine \subseteq DOMAIN quarantine'
           /\ \A i \in DOMAIN quarantine : quarantine'[i] = quarantine[i]
           /\ \A i \in DOMAIN quarantine' \ DOMAIN quarantine : quarantine'[i] \in S
           /\ \A i, j \in DOMAIN quarantine' \ DOMAIN quarantine :
                 quarantine'[i] = quarantine'[j] => i = j
           /\ \A x \in S : \E i \in DOMAIN quarantine' \ DOMAIN quarantine : quarantine'[i] = x
<1>1. quarantine \in Seq(Rows) /\ IsFiniteSet(S) /\ quarantine' = quarantine \o SetToSeq(S)
  BY FiniteSubset DEF Appends, TypeOK
<1>. QED BY <1>1, Follow

LEMMA ResultType ==
    ASSUME TypeOK, NEW p \in Procs, proc[p].run \in Runs, NEW r \in Rules
    PROVE  Result(p, r) \in Results
<1>1. proc[p].found \subseteq Rows /\ proc[p].cleared \subseteq Rows /\ proc[p].scope \in Scopes
  BY StateType DEF States
<1>2. /\ Cardinality({x \in proc[p].found : x.rule = r /\ x.origin = "evaluated"}) \in Nat
      /\ Cardinality({x \in proc[p].found : x.rule = r /\ x.origin = "adopted"}) \in Nat
      /\ Cardinality({x \in proc[p].cleared : x.rule = r}) \in Nat
  BY <1>1, FiniteSubset
<1>. QED BY <1>1, <1>2 DEF Result, Results

LEMMA TypeWorld ==
    ASSUME TypeOK, ActiveRuns, (\E scope \in Scopes : Extract(scope)) \/ (\E r \in Rules : EditRules(r))
    PROVE  TypeOK' /\ ActiveRuns'
<1>1. UNCHANGED <<logs, clock, begun, proc>> /\ ActiveRuns'
  BY DEF Extract, EditRules, ActiveRuns, Active, AtWork
<1>2. faults' \in 0 .. MaxFaults
  BY QuarantineAssumption DEF Extract, EditRules, Fault, TypeOK
<1>3. rules' \subseteq Rules
  BY DEF Extract, EditRules, TypeOK
<1>4. extracts' \subseteq Extracts
  <2>1. CASE \E r \in Rules : EditRules(r)
    BY <2>1 DEF EditRules, TypeOK
  <2>2. ASSUME NEW scope \in Scopes, Extract(scope)
        PROVE  extracts' \subseteq Extracts
    <3>. DEFINE run == ExtractRuns + 1
    <3>1. PICK dry \in BOOLEAN, dirs \in SUBSET InScope(scope), content \in [InScope(scope) -> Contents] :
             /\ run \in Runs
             /\ extracts' = extracts \cup
                   {[run |-> run, filing |-> f, dry |-> dry, dir |-> f \in dirs,
                     bad |-> IF f \in dirs THEN content[f].bad ELSE {},
                     miss |-> content[f].miss] : f \in InScope(scope)}
      BY <2>2 DEF Extract
    <3>2. InScope(scope) \subseteq Filings
      BY DEF InScope, Scopes
    <3>3. \A f \in InScope(scope) : content[f].bad \in SUBSET Rules /\ content[f].miss \in BOOLEAN
      BY QuarantineAssumption
    <3>4. ASSUME NEW f \in InScope(scope), NEW dir, dir = (f \in dirs),
                 NEW bad, bad = IF f \in dirs THEN content[f].bad ELSE {}
          PROVE  [run |-> run, filing |-> f, dry |-> dry, dir |-> dir, bad |-> bad,
                  miss |-> content[f].miss] \in Extracts
      <4>1. dir \in BOOLEAN
        BY <3>4
      <4>2. bad \in SUBSET Rules
        BY <3>3, <3>4
      <4>. HIDE DEF run
      <4>. QED BY <3>1, <3>2, <3>3, <4>1, <4>2 DEF Extracts
    <3>5. \A f \in InScope(scope) :
             [run |-> run, filing |-> f, dry |-> dry, dir |-> f \in dirs,
              bad |-> IF f \in dirs THEN content[f].bad ELSE {}, miss |-> content[f].miss] \in Extracts
      BY <3>4
    <3>6. extracts \subseteq Extracts
      BY DEF TypeOK
    <3>. HIDE DEF run
    <3>. QED BY <3>1, <3>5, <3>6
  <2>. QED BY <2>1, <2>2
<1>. QED BY <1>1, <1>2, <1>3, <1>4 DEF TypeOK, logs

LEMMA TypeBegin ==
    ASSUME TypeOK, ActiveRuns, NEW p \in Procs, Refuse(p) \/ Begin(p)
    PROVE  TypeOK' /\ ActiveRuns'
<1>1. PICK state \in States : Becomes(p, state) /\ (state.pc # "ended" => state.run \in Runs)
  <2>1. CASE Refuse(p)
    <3>1. PICK code \in {1, 3} : Becomes(p, [Idle EXCEPT !.pc = "ended", !.exit = code])
      BY <2>1 DEF Refuse
    <3>2. [Idle EXCEPT !.pc = "ended", !.exit = code] \in States
      BY IdleType DEF States
    <3>3. [Idle EXCEPT !.pc = "ended", !.exit = code].pc = "ended"
      BY DEF Idle
    <3>. QED BY <3>1, <3>2, <3>3
  <2>2. CASE Begin(p)
    <3>1. PICK scope \in Scopes, run \in Runs :
             /\ Misses(Bundles(scope)) # {} => AdoptRule \in rules
             /\ Becomes(p, [Idle EXCEPT !.pc = "evaluate", !.scope = scope, !.run = run,
                            !.prior = Prior(scope, run), !.rules = rules,
                            !.found = Found(run, Bundles(scope)),
                            !.misses = Cardinality(Misses(Bundles(scope)))])
      BY <2>2 DEF Begin
    <3>2. Found(run, Bundles(scope)) \subseteq Rows /\ Prior(scope, run) \in Runs \cup {0}
          /\ Cardinality(Misses(Bundles(scope))) \in Nat /\ rules \subseteq Rules
      BY <3>1, FoundRows, PriorIs, BundlesAre DEF TypeOK
    <3>. DEFINE state == [Idle EXCEPT !.pc = "evaluate", !.scope = scope, !.run = run,
                            !.prior = Prior(scope, run), !.rules = rules,
                            !.found = Found(run, Bundles(scope)),
                            !.misses = Cardinality(Misses(Bundles(scope)))]
    <3>3. state \in States /\ state.run = run
      BY <3>2, IdleType DEF States, Idle
    <3>. QED BY <3>1, <3>3
  <2>. QED BY <2>1, <2>2
<1>2. proc' \in [Procs -> States] /\ proc'[p] = state /\ \A q \in Procs \ {p} : proc'[q] = proc[q]
  BY <1>1, Became
<1>3. ActiveRuns'
  BY <1>1, <1>2 DEF ActiveRuns, Active, AtWork
<1>4. clock' \in Runs /\ begun' \in [Runs -> Nat]
  <2>1. CASE Refuse(p)
    BY <2>1 DEF Refuse, TypeOK
  <2>2. CASE Begin(p)
    <3>1. PICK now \in {clock, clock + 1}, run \in Runs :
             clock' = now /\ now <= run /\ begun' = [begun EXCEPT ![run] = @ + 1]
      BY <2>2 DEF Begin, NextRunId
    <3>2. clock \in Runs /\ begun \in [Runs -> Nat] /\ MaxCommands \in Nat
      BY QuarantineAssumption DEF TypeOK
    <3>3. clock' \in Runs
      BY <3>1, <3>2 DEF Runs
    <3>4. begun[run] + 1 \in Nat
      BY <3>2
    <3>. QED BY <3>1, <3>2, <3>3, <3>4
  <2>. QED BY <2>1, <2>2
<1>5. UNCHANGED <<extracts, rules, logs, faults>>
  BY DEF Refuse, Begin
<1>. QED BY <1>2, <1>3, <1>4, <1>5 DEF TypeOK, States, logs
\* What a command appends, alive or dying: rows of its run, found or cleared.
Writes(p, S) ==
    \/ proc[p].pc = "evaluate" /\ S \subseteq proc[p].found
    \/ proc[p].pc = "resolve" /\ S \subseteq Cleared(p)

\* What a step of a command changes of it.
LEMMA StepMoves ==
    ASSUME TypeOK, NEW p \in Procs, Step(p) \/ Dies(p)
    PROVE  /\ UNCHANGED <<extracts, rules, clock, begun>>
           /\ \E state : Becomes(p, state)
           /\ \/ UNCHANGED logs
              \/ UNCHANGED results /\ \E S : Writes(p, S) /\ Appends(S)
              \/ /\ UNCHANGED quarantine /\ proc[p].pc = "report"
                 /\ \E part \in SUBSET proc[p].rules :
                       results' = results \cup {Result(p, r) : r \in part}
<1>1. CASE Evaluate(p)
  <2>1. Writes(p, proc[p].found)
    BY <1>1 DEF Evaluate, Writes
  <2>. QED BY <1>1, <2>1 DEF Evaluate
<1>2. CASE ResolveCleared(p)
  <2>1. Writes(p, Cleared(p))
    BY <1>2 DEF ResolveCleared, Writes
  <2>. QED BY <1>2, <2>1 DEF ResolveCleared
<1>3. CASE RecordResults(p)
  BY <1>3 DEF RecordResults
<1>4. CASE Ends(p)
  BY <1>4 DEF Ends
<1>5. CASE Dies(p)
  <2>1. CASE proc[p].pc = "evaluate" /\ \E part \in SUBSET proc[p].found : Appends(part)
    BY <1>5, <2>1 DEF Dies, Writes
  <2>2. CASE proc[p].pc = "resolve" /\ \E part \in SUBSET Cleared(p) : Appends(part)
    BY <1>5, <2>2 DEF Dies, Writes
  <2>3. CASE proc[p].pc = "report"
    BY <1>5, <2>3 DEF Dies
  <2>. QED BY <1>5, <2>1, <2>2, <2>3 DEF Dies
<1>. QED BY <1>1, <1>2, <1>3, <1>4, <1>5 DEF Step

\* What a pass writes are rows.
LEMMA WritesRows ==
    ASSUME TypeOK, ActiveRuns, NEW p \in Procs, NEW S, Writes(p, S)
    PROVE  S \subseteq Rows /\ proc[p].run \in Runs
<1>1. proc[p].run \in Runs
  BY DEF Writes, ActiveRuns, Active, AtWork
<1>. QED BY <1>1, ClearedRows, StateType DEF Writes, States

LEMMA TypeStep ==
    ASSUME TypeOK, ActiveRuns, NEW p \in Procs, Step(p) \/ Dies(p)
    PROVE  TypeOK' /\ ActiveRuns'
<1>1. PICK state \in States :
         /\ Becomes(p, state)
         /\ \/ state.pc = "idle"
            \/ state.run = proc[p].run /\ Active(p)
  <2>1. CASE Evaluate(p)
    <3>. DEFINE state == [proc[p] EXCEPT !.pc = IF proc[p].prior = 0 THEN "report" ELSE "resolve"]
    <3>1. state \in States /\ state.pc \in {"resolve", "report"} /\ state.run = proc[p].run
      BY StateType DEF States
    <3>. QED BY <2>1, <3>1 DEF Evaluate, Active, AtWork
  <2>2. CASE ResolveCleared(p)
    <3>. DEFINE state == [proc[p] EXCEPT !.pc = "report", !.cleared = Cleared(p)]
    <3>1. Cleared(p) \subseteq Rows
      BY <2>2, ClearedRows DEF ResolveCleared, ActiveRuns, Active, AtWork
    <3>2. state \in States /\ state.pc = "report" /\ state.run = proc[p].run
      BY <3>1, StateType DEF States
    <3>. QED BY <2>2, <3>2 DEF ResolveCleared, Active, AtWork
  <2>3. CASE RecordResults(p)
    <3>. DEFINE state == [proc[p] EXCEPT !.pc = "gate"]
    <3>1. state \in States /\ state.pc = "gate" /\ state.run = proc[p].run
      BY StateType DEF States
    <3>. QED BY <2>3, <3>1 DEF RecordResults, Active, AtWork
  <2>4. CASE Ends(p)
    <3>1. PICK code \in {0, 1, 3} : Becomes(p, [proc[p] EXCEPT !.pc = "ended", !.exit = code])
      BY <2>4 DEF Ends, ExitCode
    <3>. DEFINE state == [proc[p] EXCEPT !.pc = "ended", !.exit = code]
    <3>2. state \in States /\ state.pc = "ended" /\ state.run = proc[p].run
      BY StateType DEF States
    <3>. QED BY <2>4, <3>1, <3>2 DEF Ends, Active, AtWork
  <2>5. CASE Dies(p)
    <3>. DEFINE state == [Idle EXCEPT !.exit = Crashed]
    <3>1. state \in States /\ state.pc = "idle"
      BY IdleType DEF States, Idle
    <3>. QED BY <2>5, <3>1 DEF Dies
  <2>. QED BY <2>1, <2>2, <2>3, <2>4, <2>5 DEF Step
<1>2. proc' \in [Procs -> States] /\ proc'[p] = state /\ \A q \in Procs \ {p} : proc'[q] = proc[q]
  BY <1>1, Became
<1>3. ActiveRuns'
  BY <1>1, <1>2 DEF ActiveRuns, Active, AtWork
<1>4. quarantine' \in Seq(Rows)
  BY StepMoves, WritesRows, Appended DEF TypeOK, logs
<1>5. results' \subseteq Results
  <2>1. ASSUME proc[p].pc = "report", NEW part \in SUBSET proc[p].rules,
               results' = results \cup {Result(p, r) : r \in part}
        PROVE  results' \subseteq Results
    <3>1. proc[p].run \in Runs /\ part \subseteq Rules
      BY <2>1, StateType DEF ActiveRuns, Active, AtWork, States
    <3>. QED BY <2>1, <3>1, ResultType DEF TypeOK
  <2>. QED BY <2>1, StepMoves DEF TypeOK, logs
<1>6. faults' \in 0 .. MaxFaults
  BY QuarantineAssumption
     DEF Step, Evaluate, ResolveCleared, RecordResults, Ends, Dies, Fault, TypeOK
<1>. QED BY <1>2, <1>3, <1>4, <1>5, <1>6, StepMoves DEF TypeOK, States

LEMMA TypeInit == Init => TypeOK /\ ActiveRuns
<1>1. Runs # {} /\ 1 \in Runs /\ 0 \in 0 .. MaxFaults
  BY QuarantineAssumption DEF Runs
<1>2. Idle.pc = "idle"
  BY DEF Idle
<1>. QED BY <1>1, <1>2, IdleType DEF Init, TypeOK, States, ActiveRuns, Active, AtWork

\* What a step is.
LEMMA Moves ==
    ASSUME [Next]_vars
    PROVE  \/ UNCHANGED vars
           \/ (\E scope \in Scopes : Extract(scope)) \/ (\E r \in Rules : EditRules(r))
           \/ \E p \in Procs : Refuse(p) \/ Begin(p) \/ Step(p) \/ Dies(p)
BY DEF Next

LEMMA TypeInv == Spec => [](TypeOK /\ ActiveRuns)
<1>1. TypeOK /\ ActiveRuns /\ [Next]_vars => (TypeOK /\ ActiveRuns)'
  <2>1. TypeOK /\ ActiveRuns /\ UNCHANGED vars => (TypeOK /\ ActiveRuns)'
    BY DEF vars, logs, TypeOK, ActiveRuns, Active, AtWork
  <2>. QED BY <2>1, Moves, TypeWorld, TypeBegin, TypeStep
<1>. QED BY TypeInit, <1>1, PTL DEF Spec

\* Every variable keeps its type, whatever is extracted, retired or killed when.
THEOREM QuarantineTypeOKHolds == Spec => []TypeOK
BY TypeInv, PTL
-----------------------------------------------------------------------------
(* The log *)

\* Rows of another run do not touch a run's.
LEMMA OtherRun ==
    ASSUME TypeOK, NEW S, S \subseteq Rows, Appends(S), NEW r, \A x \in S : x.run # r
    PROVE  /\ At(r)' = At(r) /\ \A i \in At(r) : quarantine'[i] = quarantine[i]
           /\ RowsOf(r)' = RowsOf(r) /\ OpenFindings(r)' = OpenFindings(r)
<1>1. At(r)' = At(r) /\ \A i \in At(r) : quarantine'[i] = quarantine[i]
  BY Appended DEF At
<1>2. RowsOf(r)' = RowsOf(r)
  BY <1>1 DEF RowsOf
<1>3. LastRows(r)' = LastRows(r)
  <2>. DEFINE last(log, j) == \A k \in At(r) : Identity(log[k]) = Identity(log[j]) => k <= j
  <2>1. \A j \in At(r) : last(quarantine', j) <=> last(quarantine, j)
    BY <1>1
  <2>. HIDE DEF last
  <2>2. {j \in At(r) : last(quarantine', j)} = {j \in At(r) : last(quarantine, j)}
    BY <2>1
  <2>3. LastRows(r)' = {quarantine'[i] : i \in {j \in At(r) : last(quarantine', j)}}
    BY <1>1 DEF LastRows, last
  <2>4. LastRows(r) = {quarantine[i] : i \in {j \in At(r) : last(quarantine, j)}}
    BY DEF LastRows, last
  <2>. QED BY <1>1, <2>2, <2>3, <2>4
<1>. QED BY <1>1, <1>2, <1>3 DEF OpenFindings

\* A run's own are added to its rows, each in a new place.
LEMMA OwnRun ==
    ASSUME TypeOK, NEW S, S \subseteq Rows, Appends(S), NEW r
    PROVE  /\ RowsOf(r) \subseteq RowsOf(r)'
           /\ (\A x \in S : x.run = r) =>
                 /\ RowsOf(r)' = RowsOf(r) \cup S
                 /\ (At(r) = {} \/ S \cap RowsOf(r) = {})
                        /\ (\A i, j \in At(r) : quarantine[i] = quarantine[j] => i = j)
                    => \A i, j \in At(r)' : quarantine'[i] = quarantine'[j] => i = j
<1>1. At(r) \subseteq At(r)' /\ \A i \in At(r) : quarantine'[i] = quarantine[i]
  BY Appended DEF At
<1>2. RowsOf(r) \subseteq RowsOf(r)'
  BY <1>1 DEF RowsOf
<1>3. ASSUME \A x \in S : x.run = r
      PROVE  RowsOf(r)' = RowsOf(r) \cup S
  <2>1. \A i \in At(r)' \ At(r) : quarantine'[i] \in S
    BY Appended DEF At
  <2>2. \A x \in S : \E i \in At(r)' : quarantine'[i] = x
    BY <1>3, Appended DEF At
  <2>. QED BY <1>1, <2>1, <2>2 DEF RowsOf
<1>4. ASSUME \A x \in S : x.run = r, At(r) = {} \/ S \cap RowsOf(r) = {},
             \A i, j \in At(r) : quarantine[i] = quarantine[j] => i = j,
             NEW i \in At(r)', NEW j \in At(r)', quarantine'[i] = quarantine'[j]
      PROVE  i = j
  <2>1. CASE i \in At(r) /\ j \in At(r)
    BY <1>1, <1>4, <2>1
  <2>2. CASE i \notin At(r) /\ j \notin At(r)
    BY <1>4, <2>2, Appended DEF At
  <2>3. CASE i \in At(r) /\ j \notin At(r)
    <3>1. quarantine'[j] \in S /\ quarantine'[i] \in RowsOf(r)
      BY <1>1, <2>3, Appended DEF At, RowsOf
    <3>. QED BY <1>4, <2>3, <3>1
  <2>4. CASE i \notin At(r) /\ j \in At(r)
    <3>1. quarantine'[i] \in S /\ quarantine'[j] \in RowsOf(r)
      BY <1>1, <2>4, Appended DEF At, RowsOf
    <3>. QED BY <1>4, <2>4, <3>1
  <2>. QED BY <2>1, <2>2, <2>3, <2>4
<1>. QED BY <1>2, <1>3, <1>4

\* The last row of an identity in a run.
LEMMA LastPlace ==
    ASSUME TypeOK, NEW r, NEW places, places \subseteq At(r), places # {}
    PROVE  Max(places) \in places /\ \A k \in places : k <= Max(places)
<1>1. places \subseteq Nat /\ Len(quarantine) \in Nat /\ \A k \in places : k <= Len(quarantine)
  BY RowsInLog
<1>. QED BY <1>1, BoundedMax

\* Every finding with a row has a last one, in each of its extract runs too.
LEMMA HasLast ==
    ASSUME TypeOK, NEW r, NEW i \in At(r)
    PROVE  /\ \E row \in LastRows(r) : Identity(row) = Identity(quarantine[i])
           /\ r = Current => \E row \in Shown : /\ Identity(row) = Identity(quarantine[i])
                                               /\ row.xrun = quarantine[i].xrun
<1>1. \E row \in LastRows(r) : Identity(row) = Identity(quarantine[i])
  <2>. DEFINE places == {k \in At(r) : Identity(quarantine[k]) = Identity(quarantine[i])}
  <2>1. PICK last \in places : \A k \in places : k <= last
    BY LastPlace
  <2>2. quarantine[last] \in LastRows(r)
    BY <2>1 DEF LastRows
  <2>. QED BY <2>1, <2>2
<1>2. ASSUME r = Current
      PROVE  \E row \in Shown : /\ Identity(row) = Identity(quarantine[i])
                               /\ row.xrun = quarantine[i].xrun
  <2>. DEFINE places == {k \in At(r) : /\ Identity(quarantine[k]) = Identity(quarantine[i])
                                       /\ quarantine[k].xrun = quarantine[i].xrun}
  <2>1. PICK last \in places : \A k \in places : k <= last
    BY LastPlace
  <2>2. quarantine[last] \in Shown
    BY <1>2, <2>1 DEF Shown
  <2>. QED BY <2>1, <2>2
<1>. QED BY <1>1, <1>2

\* Of a run whose findings are each of one status, both readings show the same as open.
OneStatus(r) ==
    \A i, j \in At(r) : Identity(quarantine[i]) = Identity(quarantine[j])
                            => quarantine[i].status = quarantine[j].status

OpenRows(r) == {row \in RowsOf(r) : row.status = "open"}

\* Of a run with one status for each identity, the resolver and the warehouse read the same.
LEMMA OneStatusReads ==
    ASSUME TypeOK, NEW r, OneStatus(r)
    PROVE  /\ Identities(OpenFindings(r)) = Identities(OpenRows(r))
           /\ r = Current => Identities(ShownOpen) = Identities(OpenRows(r))
<1>1. LastRows(r) \subseteq RowsOf(r) /\ (r = Current => Shown \subseteq RowsOf(r))
  BY DEF LastRows, RowsOf, Shown
<1>2. ASSUME NEW row \in OpenRows(r)
      PROVE  /\ \E x \in OpenFindings(r) : Identity(x) = Identity(row)
             /\ r = Current => \E x \in ShownOpen : Identity(x) = Identity(row)
  <2>1. PICK i \in At(r) : quarantine[i] = row
    BY DEF OpenRows, RowsOf
  <2>2. \A x \in RowsOf(r) : Identity(x) = Identity(row) => x.status = "open"
    BY <2>1 DEF OneStatus, OpenRows, RowsOf
  <2>3. \E x \in LastRows(r) : Identity(x) = Identity(row)
    BY <2>1, HasLast
  <2>4. r = Current => \E x \in Shown : Identity(x) = Identity(row)
    BY <2>1, HasLast
  <2>. QED BY <1>1, <2>2, <2>3, <2>4 DEF OpenFindings, ShownOpen
<1>3. OpenFindings(r) \subseteq OpenRows(r) /\ (r = Current => ShownOpen \subseteq OpenRows(r))
  BY <1>1 DEF OpenFindings, ShownOpen, OpenRows
<1>. QED BY <1>2, <1>3 DEF Identities
-----------------------------------------------------------------------------
(* The commands *)

\* A filing is extracted once in a run.
ExtractsOnce ==
    \A x, y \in extracts : x.run = y.run /\ x.filing = y.filing => x = y

\* What a command holds: the extracts and rules as they still are while it works, a row of its
\* own for each finding and each miss, and resolutions of what it has not found.
Good(c) ==
    /\ c.pc = "idle" => c.run = 0
    /\ c.exit = 3 => c.pc = "ended"
    /\ c.pc \in AtWork => c.rules = rules /\ c.found = Found(c.run, Bundles(c.scope))
    /\ \A x \in c.found : x.run = c.run /\ x.status = "open" /\ x.rule \in c.rules
    /\ Cardinality({x \in c.found : x.origin = "adopted"}) = c.misses
    /\ \A x \in c.cleared : /\ x.run = c.run /\ x.status = "resolved"
                           /\ Identity(x) \notin Identities(c.found)
    /\ c.prior # 0 => c.prior < c.run /\ c.scope = Corpus
    /\ c.pc \in {"evaluate", "resolve"} => c.cleared = {}

CommandInv == \A p \in Procs : Good(proc[p])

LEMMA ExtractsOnceNext == ASSUME TypeOK, ExtractsOnce, [Next]_vars PROVE ExtractsOnce'
<1>1. ASSUME NEW scope \in Scopes, Extract(scope)
      PROVE  ExtractsOnce'
  <2>. DEFINE run == ExtractRuns + 1
              S == {0} \cup {x.run : x \in extracts}
  <2>1. S \subseteq Nat /\ S # {} /\ MaxCommands \in Nat /\ \A s \in S : s <= MaxCommands
    BY QuarantineAssumption DEF TypeOK, Extracts, Runs
  <2>2. \A x \in extracts : x.run \in Nat /\ x.run <= ExtractRuns /\ ExtractRuns \in Nat
    BY <2>1, BoundedMax DEF ExtractRuns
  <2>3. PICK dry \in BOOLEAN, dirs \in SUBSET InScope(scope), content \in [InScope(scope) -> Contents] :
           extracts' = extracts \cup
               {[run |-> run, filing |-> f, dry |-> dry, dir |-> f \in dirs,
                 bad |-> IF f \in dirs THEN content[f].bad ELSE {},
                 miss |-> content[f].miss] : f \in InScope(scope)}
    BY <1>1 DEF Extract
  <2>4. \A x \in extracts : x.run # run
    BY <2>2
  <2>. HIDE DEF run
  <2>. QED BY <2>3, <2>4 DEF ExtractsOnce
<1>2. UNCHANGED extracts => ExtractsOnce'
  BY DEF ExtractsOnce
<1>3. (\E r \in Rules : EditRules(r)) \/ (\E p \in Procs : Refuse(p) \/ Begin(p)) => UNCHANGED extracts
  BY DEF EditRules, Refuse, Begin
<1>. QED BY <1>1, <1>2, <1>3, Moves, StepMoves DEF vars

\* What a command finds depends on the extracts and the rules only.
LEMMA ReadsSame ==
    ASSUME UNCHANGED <<extracts, rules>>, NEW scope, NEW run
    PROVE  Found(run, Bundles(scope))' = Found(run, Bundles(scope))
BY DEF Found, Bundles, Misses, ReadAt, LedgerRun

\* One adopted row for each miss.
LEMMA AdoptedAreMisses ==
    ASSUME TypeOK, ExtractsOnce, NEW scope, NEW run
    PROVE  Cardinality({x \in Found(run, Bundles(scope)) : x.origin = "adopted"})
              = Cardinality(Misses(Bundles(scope)))
<1>. DEFINE M == Misses(Bundles(scope))
            row(x) == [run |-> run, rule |-> AdoptRule, filing |-> x.filing, xrun |-> x.run,
                       origin |-> "adopted", status |-> "open"]
            T == {row(x) : x \in M}
            f == [x \in M |-> row(x)]
<1>1. IsFiniteSet(M) /\ M \subseteq extracts
  BY BundlesAre, FiniteSubset
<1>2. \A x, y \in M : f[x] = f[y] => x = y
  BY <1>1 DEF ExtractsOnce
<1>3. f \in [M -> T] /\ \A t \in T : \E x \in M : f[x] = t
  OBVIOUS
<1>4. Cardinality(T) = Cardinality(M)
  BY <1>1, <1>2, <1>3, SameCount
<1>5. {x \in Found(run, Bundles(scope)) : x.origin = "adopted"} = T
  BY DEF Found
<1>. QED BY <1>4, <1>5

LEMMA GoodSame ==
    ASSUME UNCHANGED <<extracts, rules>>, NEW c
    PROVE  Good(c)' <=> Good(c)
BY ReadsSame DEF Good

LEMMA GoodIdle == ASSUME NEW code PROVE Good([Idle EXCEPT !.exit = code]) \/ code = 3
<1>1. {x \in {} : x.origin = "adopted"} = {} /\ Cardinality({}) = 0
  BY FS_EmptySet
<1>. QED BY <1>1 DEF Good, Idle, AtWork

\* A command's next state.
LEMMA GoodStep ==
    ASSUME TypeOK, ActiveRuns, ExtractsOnce, CommandInv, NEW p \in Procs,
           Refuse(p) \/ Begin(p) \/ Step(p) \/ Dies(p)
    PROVE  \E state : Becomes(p, state) /\ Good(state)
<1>1. Good(proc[p]) /\ proc[p] \in States
  BY StateType DEF CommandInv
<1>2. {x \in {} : x.origin = "adopted"} = {} /\ Cardinality({}) = 0
  BY FS_EmptySet
<1>3. CASE Refuse(p)
  <2>1. PICK code \in {1, 3} : Becomes(p, [Idle EXCEPT !.pc = "ended", !.exit = code])
    BY <1>3 DEF Refuse
  <2>2. Good([Idle EXCEPT !.pc = "ended", !.exit = code])
    BY <1>2 DEF Idle, Good, AtWork
  <2>. QED BY <2>1, <2>2
<1>4. CASE Begin(p)
  <2>1. PICK scope \in Scopes, run \in Runs :
           /\ Misses(Bundles(scope)) # {} => AdoptRule \in rules
           /\ Becomes(p, [Idle EXCEPT !.pc = "evaluate", !.scope = scope, !.run = run,
                          !.prior = Prior(scope, run), !.rules = rules,
                          !.found = Found(run, Bundles(scope)),
                          !.misses = Cardinality(Misses(Bundles(scope)))])
    BY <1>4 DEF Begin
  <2>. DEFINE prior  == Prior(scope, run)
              found  == Found(run, Bundles(scope))
              misses == Cardinality(Misses(Bundles(scope)))
              state  == [Idle EXCEPT !.pc = "evaluate", !.scope = scope, !.run = run,
                            !.prior = prior, !.rules = rules, !.found = found, !.misses = misses]
  <2>2. \A x \in found : x.run = run /\ x.status = "open" /\ x.rule \in rules
    BY <2>1, FoundRows
  <2>3. prior # 0 => prior < run /\ scope = Corpus
    BY PriorIs
  <2>4. Cardinality({x \in found : x.origin = "adopted"}) = misses
    BY AdoptedAreMisses
  <2>5. /\ state.pc = "evaluate" /\ state.scope = scope /\ state.run = run
        /\ state.prior = prior /\ state.rules = rules /\ state.found = found
        /\ state.misses = misses /\ state.cleared = {} /\ state.exit = 0
    BY DEF Idle
  <2>6. Becomes(p, state)
    BY <2>1
  <2>. HIDE DEF state
  <2>7. Good(state)
    BY <2>2, <2>3, <2>4, <2>5 DEF Good
  <2>. QED BY <2>6, <2>7
<1>5. CASE Evaluate(p)
  <2>. DEFINE state == [proc[p] EXCEPT !.pc = IF proc[p].prior = 0 THEN "report" ELSE "resolve"]
  <2>1. Good(state)
    BY <1>1, <1>5 DEF Evaluate, States, Good, AtWork
  <2>. QED BY <1>5, <2>1 DEF Evaluate
<1>6. CASE ResolveCleared(p)
  <2>. DEFINE state == [proc[p] EXCEPT !.pc = "report", !.cleared = Cleared(p)]
  <2>1. proc[p].run \in Runs
    BY <1>6 DEF ResolveCleared, ActiveRuns, Active, AtWork
  <2>2. Good(state)
    BY <1>1, <1>6, <2>1, ClearedRows DEF ResolveCleared, States, Good, AtWork
  <2>. QED BY <1>6, <2>2 DEF ResolveCleared
<1>7. CASE RecordResults(p)
  <2>. DEFINE state == [proc[p] EXCEPT !.pc = "gate"]
  <2>1. Good(state)
    BY <1>1, <1>7 DEF RecordResults, States, Good, AtWork
  <2>. QED BY <1>7, <2>1 DEF RecordResults
<1>8. CASE Ends(p)
  <2>1. PICK code : Becomes(p, [proc[p] EXCEPT !.pc = "ended", !.exit = code])
    BY <1>8 DEF Ends
  <2>2. Good([proc[p] EXCEPT !.pc = "ended", !.exit = code])
    BY <1>1, <1>8 DEF Ends, States, Good, AtWork
  <2>. QED BY <2>1, <2>2
<1>9. CASE Dies(p)
  <2>1. Becomes(p, [Idle EXCEPT !.exit = Crashed])
    BY <1>9 DEF Dies
  <2>2. Good([Idle EXCEPT !.exit = Crashed])
    BY GoodIdle DEF Crashed
  <2>. QED BY <2>1, <2>2
<1>. QED BY <1>3, <1>4, <1>5, <1>6, <1>7, <1>8, <1>9 DEF Step

LEMMA CommandInvNext ==
    ASSUME TypeOK, ActiveRuns, ExtractsOnce, CommandInv, [Next]_vars
    PROVE  CommandInv'
<1>1. CASE UNCHANGED vars
  BY <1>1, GoodSame DEF CommandInv, vars
<1>2. CASE (\E scope \in Scopes : Extract(scope)) \/ (\E r \in Rules : EditRules(r))
  <2>1. Quiet /\ UNCHANGED proc
    BY <1>2 DEF Extract, EditRules
  <2>2. \A p \in Procs : proc[p].pc \notin AtWork
    BY <2>1 DEF Quiet, AtWork
  <2>. QED BY <2>1, <2>2 DEF CommandInv, Good
<1>3. ASSUME NEW p \in Procs, Refuse(p) \/ Begin(p) \/ Step(p) \/ Dies(p)
      PROVE  CommandInv'
  <2>1. PICK state : Becomes(p, state) /\ Good(state)
    BY <1>3, GoodStep
  <2>2. UNCHANGED <<extracts, rules>>
    BY <1>3, StepMoves DEF Refuse, Begin
  <2>3. \A q \in Procs : Good(proc'[q])
    BY <2>1, Became DEF CommandInv
  <2>. QED BY <2>2, <2>3, GoodSame DEF CommandInv
<1>. QED BY <1>1, <1>2, <1>3, Moves

LEMMA CommandInvHolds == Spec => [](TypeOK /\ ActiveRuns /\ ExtractsOnce /\ CommandInv)
<1>1. Init => ExtractsOnce /\ CommandInv
  <2>1. Idle = [Idle EXCEPT !.exit = 0]
    BY DEF Idle
  <2>2. Good(Idle)
    BY <2>1, GoodIdle
  <2>. QED BY <2>2 DEF Init, ExtractsOnce, CommandInv
<1>2. TypeOK /\ ActiveRuns /\ ExtractsOnce /\ CommandInv /\ [Next]_vars
        => (ExtractsOnce /\ CommandInv)'
  BY ExtractsOnceNext, CommandInvNext
<1>. QED BY TypeInv, <1>1, <1>2, PTL DEF Spec
-----------------------------------------------------------------------------
(* Run ids and the rows under them *)

Base == TypeOK /\ ActiveRuns /\ ExtractsOnce /\ CommandInv

\* A command's run id has been counted, two commands' twice, and one never counted is unused.
CountInv ==
    /\ \A p \in Procs : proc[p].run # 0 => begun[proc[p].run] # 0
    /\ \A p, q \in Procs : p # q /\ proc[p].run = proc[q].run => ~Own(proc[p].run)
    /\ \A r \in Runs : begun[r] = 0 => At(r) = {} /\ r \notin Reported

\* Under a run id of its own, a command has written what it says it has, each row once.
Written(c) == IF c.pc = "evaluate" THEN {} ELSE c.found \cup c.cleared

ResultsOf(run) == {x \in results : x.run = run}

Recorded(p) == IF proc[p].pc \in {"gate", "ended"} THEN {Result(p, r) : r \in proc[p].rules}
                                                  ELSE {}

OwnInv ==
    \A p \in Procs : Own(proc[p].run) =>
        /\ RowsOf(proc[p].run) = Written(proc[p])
        /\ \A i, j \in At(proc[p].run) : quarantine[i] = quarantine[j] => i = j
        /\ ResultsOf(proc[p].run) = Recorded(p)

StatusInv == \A r \in Runs : begun[r] = 1 => OneStatus(r)

RunInv == CountInv /\ OwnInv /\ StatusInv

LEMMA NoRows ==
    ASSUME NEW r
    PROVE  RowsOf(r) = {} <=> At(r) = {}
BY DEF RowsOf

LEMMA ResultIs ==
    ASSUME NEW p, NEW r
    PROVE  Result(p, r).run = proc[p].run /\ Result(p, r).scope = proc[p].scope
           /\ Result(p, r).rule = r
BY DEF Result

\* What a command writes bears its run, and nothing of it is there yet if the id is its own.
LEMMA WritesOwn ==
    ASSUME Base, OwnInv, NEW p \in Procs, NEW S, Writes(p, S)
    PROVE  /\ S \subseteq Rows /\ \A x \in S : x.run = proc[p].run
           /\ Own(proc[p].run) => /\ S \cap RowsOf(proc[p].run) = {}
                                 /\ \A x, y \in RowsOf(proc[p].run) \cup S :
                                       Identity(x) = Identity(y) => x.status = y.status
<1>. DEFINE run == proc[p].run
<1>1. S \subseteq Rows /\ run \in Runs /\ Good(proc[p])
  BY WritesRows DEF Base, CommandInv
<1>2. CASE proc[p].pc = "evaluate" /\ S \subseteq proc[p].found
  <2>1. \A x \in S : x.run = run /\ x.status = "open"
    BY <1>1, <1>2 DEF Good
  <2>2. Own(run) => RowsOf(run) = {}
    BY <1>2 DEF OwnInv, Written
  <2>. QED BY <1>1, <2>1, <2>2
<1>3. CASE proc[p].pc = "resolve" /\ S \subseteq Cleared(p)
  <2>1. \A x \in S : /\ x.run = run /\ x.status = "resolved"
                    /\ Identity(x) \notin Identities(proc[p].found)
    BY <1>1, <1>3, ClearedRows DEF Base
  <2>2. proc[p].cleared = {} /\ \A x \in proc[p].found : x.status = "open"
    BY <1>1, <1>3 DEF Good
  <2>3. Own(run) => RowsOf(run) = proc[p].found
    BY <1>3, <2>2 DEF OwnInv, Written
  <2>. QED BY <1>1, <2>1, <2>2, <2>3 DEF Identities
<1>. QED BY <1>2, <1>3 DEF Writes

\* The next state of a command at work.
LEMMA StepState ==
    ASSUME TypeOK, NEW p \in Procs, Step(p)
    PROVE  LET c == proc[p]
               d == proc'[p]
           IN  /\ d.run = c.run /\ d.scope = c.scope /\ d.prior = c.prior /\ d.rules = c.rules
               /\ d.found = c.found /\ d.misses = c.misses
               /\ \/ /\ Evaluate(p) /\ d.cleared = c.cleared /\ d.exit = c.exit
                     /\ c.pc = "evaluate" /\ d.pc = IF c.prior = 0 THEN "report" ELSE "resolve"
                  \/ /\ ResolveCleared(p) /\ d.cleared = Cleared(p) /\ d.exit = c.exit
                     /\ c.pc = "resolve" /\ d.pc = "report"
                  \/ /\ RecordResults(p) /\ d.cleared = c.cleared /\ d.exit = c.exit
                     /\ c.pc = "report" /\ d.pc = "gate"
                  \/ /\ Ends(p) /\ d.cleared = c.cleared
                     /\ d.exit = IF c.scope = Corpus /\ ~GatePasses(p) THEN 3 ELSE ExitCode(c.run)
                     /\ c.pc = "gate" /\ d.pc = "ended"
<1>1. proc[p] \in States
  BY StateType
<1>2. CASE Evaluate(p)
  <2>1. proc'[p] = [proc[p] EXCEPT !.pc = IF proc[p].prior = 0 THEN "report" ELSE "resolve"]
    BY <1>2, Became DEF Evaluate
  <2>. QED BY <1>1, <1>2, <2>1 DEF States, Evaluate
<1>3. CASE ResolveCleared(p)
  <2>1. proc'[p] = [proc[p] EXCEPT !.pc = "report", !.cleared = Cleared(p)]
    BY <1>3, Became DEF ResolveCleared
  <2>. QED BY <1>1, <1>3, <2>1 DEF States, ResolveCleared
<1>4. CASE RecordResults(p)
  <2>1. proc'[p] = [proc[p] EXCEPT !.pc = "gate"]
    BY <1>4, Became DEF RecordResults
  <2>. QED BY <1>1, <1>4, <2>1 DEF States, RecordResults
<1>5. CASE Ends(p)
  <2>. DEFINE code == IF proc[p].scope = Corpus /\ ~GatePasses(p) THEN 3 ELSE ExitCode(proc[p].run)
  <2>1. proc'[p] = [proc[p] EXCEPT !.pc = "ended", !.exit = code]
    BY <1>5, Became DEF Ends
  <2>2. proc[p].pc = "gate"
    BY <1>5 DEF Ends
  <2>. HIDE DEF code
  <2>3. /\ proc'[p].pc = "ended" /\ proc'[p].exit = code /\ proc'[p].run = proc[p].run
        /\ proc'[p].scope = proc[p].scope /\ proc'[p].prior = proc[p].prior
        /\ proc'[p].rules = proc[p].rules /\ proc'[p].found = proc[p].found
        /\ proc'[p].misses = proc[p].misses /\ proc'[p].cleared = proc[p].cleared
    BY <1>1, <2>1 DEF States
  <2>. QED BY <1>5, <2>2, <2>3 DEF code
<1>. QED BY <1>2, <1>3, <1>4, <1>5 DEF Step

\* A step keeps the run id of the command; a kill forgets it.
LEMMA NextState ==
    ASSUME TypeOK, NEW p \in Procs, Step(p) \/ Dies(p)
    PROVE  \/ Dies(p) /\ proc'[p] = [Idle EXCEPT !.exit = Crashed] /\ proc'[p].run = 0
           \/ Step(p) /\ proc'[p].run = proc[p].run
<1>1. CASE Step(p)
  BY <1>1, StepState
<1>2. CASE Dies(p)
  <2>1. proc'[p] = [Idle EXCEPT !.exit = Crashed]
    BY <1>2, Became DEF Dies
  <2>. QED BY <1>2, <2>1 DEF Idle
<1>. QED BY <1>1, <1>2

LEMMA AtWorkSteps ==
    ASSUME NEW p, Step(p) \/ Dies(p)
    PROVE  Active(p)
BY DEF Step, Evaluate, ResolveCleared, RecordResults, Ends, Dies, Active, AtWork

\* Steps at work take no run id.
LEMMA CountStep ==
    ASSUME Base, RunInv, NEW p \in Procs, Step(p) \/ Dies(p)
    PROVE  CountInv'
<1>1. UNCHANGED begun /\ Active(p) /\ \E state : Becomes(p, state)
  BY StepMoves, AtWorkSteps DEF Base
<1>2. proc'[p].run \in {0, proc[p].run}
  BY NextState DEF Base
<1>3. \A q \in Procs : proc'[q].run \in {0, proc[q].run}
  BY <1>1, <1>2, Became DEF Base
<1>4. \A q, s \in Procs : (q # s /\ proc[q].run = proc[s].run => ~Own(proc[q].run))'
  BY <1>1, <1>3 DEF RunInv, CountInv, Own
<1>5. ASSUME NEW r \in Runs, begun'[r] = 0
      PROVE  At(r)' = {} /\ r \notin Reported'
  <2>1. At(r) = {} /\ r \notin Reported /\ r # proc[p].run
    BY <1>1, <1>5, QuarantineAssumption DEF RunInv, CountInv, Runs
  <2>2. CASE UNCHANGED logs
    BY <2>1, <2>2 DEF logs, At, Reported
  <2>3. ASSUME NEW S, Writes(p, S), Appends(S), UNCHANGED results
        PROVE  At(r)' = {} /\ r \notin Reported'
    <3>1. S \subseteq Rows /\ \A x \in S : x.run # r
      BY <2>1, <2>3, WritesOwn DEF RunInv
    <3>2. At(r)' = At(r)
      BY <2>3, <3>1, OtherRun DEF Base
    <3>. QED BY <2>1, <2>3, <3>2 DEF Reported
  <2>4. ASSUME UNCHANGED quarantine, NEW part, results' = results \cup {Result(p, x) : x \in part}
        PROVE  At(r)' = {} /\ r \notin Reported'
    BY <2>1, <2>4, ResultIs DEF Reported, At
  <2>. QED BY <2>2, <2>3, <2>4, StepMoves DEF Base
<1>. QED BY <1>1, <1>3, <1>4, <1>5 DEF RunInv, CountInv

\* A row appended under a run id of its own has the status of its identity.
LEMMA StatusStep ==
    ASSUME Base, RunInv, NEW p \in Procs, Step(p) \/ Dies(p)
    PROVE  StatusInv'
<1>1. UNCHANGED begun
  BY StepMoves DEF Base
<1>2. CASE UNCHANGED quarantine
  BY <1>1, <1>2 DEF RunInv, StatusInv, OneStatus, At
<1>3. ASSUME NEW S, Writes(p, S), Appends(S)
      PROVE  StatusInv'
  <2>1. S \subseteq Rows /\ proc[p].run \in Runs /\ TypeOK
    BY <1>3, WritesRows DEF Base
  <2>. PICK run \in Runs : run = proc[p].run
    BY <2>1
  <2>2. ASSUME NEW r \in Runs, begun[r] = 1, r # run
        PROVE  OneStatus(r)'
    <3>1. \A x \in S : x.run # r
      BY <1>3, <2>2, WritesOwn DEF RunInv
    <3>2. At(r)' = At(r) /\ \A i \in At(r) : quarantine'[i] = quarantine[i]
      BY <1>3, <2>1, <3>1, OtherRun
    <3>. QED BY <2>2, <3>2 DEF OneStatus, RunInv, StatusInv
  <2>3. ASSUME begun[run] = 1
        PROVE  OneStatus(run)'
    <3>1. Own(run)
      BY <2>1, <2>3, QuarantineAssumption DEF Own, Runs
    <3>2. \A x \in S : x.run = run
      BY <1>3, WritesOwn DEF RunInv
    <3>3. RowsOf(run)' = RowsOf(run) \cup S
      BY <1>3, <2>1, <3>2, OwnRun
    <3>4. \A x, y \in RowsOf(run)' : Identity(x) = Identity(y) => x.status = y.status
      BY <1>3, <3>1, <3>3, WritesOwn DEF RunInv
    <3>5. \A i \in At(run)' : quarantine'[i] \in RowsOf(run)'
      BY DEF RowsOf
    <3>. QED BY <3>4, <3>5 DEF OneStatus
  <2>. QED BY <1>1, <2>2, <2>3 DEF StatusInv
<1>. QED BY <1>2, <1>3, StepMoves DEF Base, logs
\* What OwnInv says of a command, its run named.
OwnRows(p, run) ==
    /\ RowsOf(run) = Written(proc[p])
    /\ \A i, j \in At(run) : quarantine[i] = quarantine[j] => i = j
    /\ ResultsOf(run) = Recorded(p)

\* OwnInv, with the run named.
LEMMA OwnRowsAre ==
    OwnInv <=> \A p \in Procs : \A run : run = proc[p].run /\ Own(run) => OwnRows(p, run)
BY DEF OwnInv, OwnRows

LEMMA RecordedSame ==
    ASSUME NEW p, proc'[p].run = proc[p].run, proc'[p].scope = proc[p].scope,
           proc'[p].rules = proc[p].rules, proc'[p].found = proc[p].found,
           proc'[p].cleared = proc[p].cleared
    PROVE  /\ \A r : Result(p, r)' = Result(p, r)
           /\ proc'[p].pc = proc[p].pc => Recorded(p)' = Recorded(p)
BY DEF Result, Recorded

\* Another command's step leaves a run of its own alone.
LEMMA OwnStepOther ==
    ASSUME Base, RunInv, NEW p \in Procs, Step(p) \/ Dies(p), NEW q \in Procs, q # p,
           NEW run, run = proc[q].run, Own(run)
    PROVE  OwnRows(q, run)'
<1>1. Active(p) /\ proc'[q] = proc[q] /\ UNCHANGED begun
  BY StepMoves, AtWorkSteps, Became DEF Base
<1>2. proc[p].run # run
  BY <1>1 DEF RunInv, CountInv
<1>3. OwnRows(q, run)
  BY OwnRowsAre DEF RunInv
<1>4. At(run)' = At(run) /\ (\A i \in At(run) : quarantine'[i] = quarantine[i])
      /\ RowsOf(run)' = RowsOf(run)
  <2>1. CASE UNCHANGED quarantine
    BY <2>1 DEF At, RowsOf
  <2>2. ASSUME NEW S, Writes(p, S), Appends(S)
        PROVE  At(run)' = At(run) /\ (\A i \in At(run) : quarantine'[i] = quarantine[i])
               /\ RowsOf(run)' = RowsOf(run)
    <3>1. S \subseteq Rows /\ \A x \in S : x.run # run
      BY <1>2, <2>2, WritesOwn DEF RunInv
    <3>. QED BY <2>2, <3>1, OtherRun DEF Base
  <2>. QED BY <2>1, <2>2, StepMoves DEF Base, logs
<1>5. ResultsOf(run)' = ResultsOf(run)
  BY <1>2, StepMoves, ResultIs DEF Base, logs, ResultsOf
<1>6. Recorded(q)' = Recorded(q) /\ Written(proc[q])' = Written(proc[q])
  BY <1>1, RecordedSame DEF Written
<1>. QED BY <1>3, <1>4, <1>5, <1>6 DEF OwnRows

\* A command's own step writes what it then holds.
LEMMA OwnStepSelf ==
    ASSUME Base, RunInv, NEW p \in Procs, Step(p),
           NEW run, run = proc[p].run, Own(run)
    PROVE  OwnRows(p, run)'
<1>1. OwnRows(p, run) /\ Good(proc[p]) /\ TypeOK /\ UNCHANGED begun
  BY OwnRowsAre, StepMoves DEF RunInv, Base, CommandInv
<1>2. ASSUME NEW S, Writes(p, S), Appends(S), UNCHANGED results
      PROVE  /\ RowsOf(run)' = RowsOf(run) \cup S /\ ResultsOf(run)' = ResultsOf(run)
             /\ \A i, j \in At(run)' : quarantine'[i] = quarantine'[j] => i = j
  <2>1. S \subseteq Rows /\ (\A x \in S : x.run = run) /\ S \cap RowsOf(run) = {}
    BY <1>2, WritesOwn DEF RunInv
  <2>2. \A i, j \in At(run) : quarantine[i] = quarantine[j] => i = j
    BY <1>1 DEF OwnRows
  <2>. QED BY <1>1, <1>2, <2>1, <2>2, OwnRun DEF ResultsOf
<1>3. CASE Evaluate(p)
  <2>1. /\ proc[p].pc = "evaluate" /\ Writes(p, proc[p].found) /\ Appends(proc[p].found)
        /\ UNCHANGED results
    BY <1>3 DEF Evaluate, Writes
  <2>2. /\ proc'[p].pc \in {"report", "resolve"} /\ proc'[p].found = proc[p].found
        /\ proc'[p].cleared = {}
    BY <1>1, <2>1, StepState DEF Good
  <2>3. RowsOf(run) = {} /\ ResultsOf(run) = {}
    BY <1>1, <2>1 DEF OwnRows, Written, Recorded
  <2>4. Written(proc[p])' = proc[p].found /\ Recorded(p)' = {}
    BY <2>2 DEF Written, Recorded
  <2>. QED BY <1>2, <2>1, <2>3, <2>4 DEF OwnRows
<1>4. CASE ResolveCleared(p)
  <2>1. /\ proc[p].pc = "resolve" /\ Writes(p, Cleared(p)) /\ Appends(Cleared(p))
        /\ UNCHANGED results
    BY <1>4 DEF ResolveCleared, Writes
  <2>2. /\ proc'[p].pc = "report" /\ proc'[p].found = proc[p].found
        /\ proc'[p].cleared = Cleared(p)
    BY <1>1, <2>1, StepState
  <2>3. RowsOf(run) = proc[p].found /\ ResultsOf(run) = {}
    BY <1>1, <2>1 DEF OwnRows, Written, Recorded, Good
  <2>4. Written(proc[p])' = proc[p].found \cup Cleared(p) /\ Recorded(p)' = {}
    BY <2>2 DEF Written, Recorded
  <2>. QED BY <1>2, <2>1, <2>3, <2>4 DEF OwnRows
<1>5. CASE RecordResults(p)
  <2>1. /\ proc[p].pc = "report" /\ UNCHANGED quarantine
        /\ results' = results \cup {Result(p, r) : r \in proc[p].rules}
    BY <1>5 DEF RecordResults
  <2>2. /\ proc'[p].pc = "gate" /\ proc'[p].found = proc[p].found
        /\ proc'[p].cleared = proc[p].cleared /\ proc'[p].rules = proc[p].rules
        /\ proc'[p].run = proc[p].run /\ proc'[p].scope = proc[p].scope
    BY <1>1, <2>1, StepState
  <2>3. ResultsOf(run) = {}
    BY <1>1, <2>1 DEF OwnRows, Recorded
  <2>4. ResultsOf(run)' = {Result(p, r) : r \in proc[p].rules}
    BY <2>1, <2>3, ResultIs DEF ResultsOf
  <2>5. Recorded(p)' = {Result(p, r) : r \in proc[p].rules}
    BY <2>2, RecordedSame DEF Recorded
  <2>6. Written(proc[p])' = Written(proc[p]) /\ At(run)' = At(run) /\ RowsOf(run)' = RowsOf(run)
    BY <2>1, <2>2 DEF Written, At, RowsOf
  <2>. QED BY <1>1, <2>1, <2>4, <2>5, <2>6 DEF OwnRows
<1>6. CASE Ends(p)
  <2>1. proc[p].pc = "gate" /\ UNCHANGED logs
    BY <1>6 DEF Ends
  <2>2. /\ proc'[p].pc = "ended" /\ proc'[p].found = proc[p].found
        /\ proc'[p].cleared = proc[p].cleared /\ proc'[p].rules = proc[p].rules
        /\ proc'[p].run = proc[p].run /\ proc'[p].scope = proc[p].scope
    BY <1>1, <2>1, StepState
  <2>3. Recorded(p)' = Recorded(p) /\ Written(proc[p])' = Written(proc[p])
    BY <2>1, <2>2, RecordedSame DEF Recorded, Written
  <2>. QED BY <1>1, <2>1, <2>3 DEF OwnRows, logs, At, RowsOf, ResultsOf
<1>. QED BY <1>3, <1>4, <1>5, <1>6 DEF Step

\* The steps of a command at work; others write under other ids.
LEMMA RunInvStep ==
    ASSUME Base, RunInv, NEW p \in Procs, Step(p) \/ Dies(p)
    PROVE  RunInv'
<1>1. ASSUME NEW q \in Procs, NEW run, run = proc'[q].run, Own(run)'
      PROVE  OwnRows(q, run)'
  <2>1. UNCHANGED begun /\ run # 0 /\ Own(run)
    BY <1>1, StepMoves DEF Base, Own
  <2>2. CASE q # p
    <3>1. proc'[q] = proc[q]
      BY <2>2, StepMoves, Became DEF Base
    <3>. QED BY <1>1, <2>1, <2>2, <3>1, OwnStepOther
  <2>3. CASE q = p
    <3>1. Step(p) /\ proc[p].run = run
      BY <1>1, <2>1, <2>3, NextState DEF Base
    <3>. QED BY <2>1, <2>3, <3>1, OwnStepSelf
  <2>. QED BY <2>2, <2>3
<1>2. OwnInv'
  BY <1>1 DEF OwnInv, OwnRows
<1>. QED BY <1>2, CountStep, StatusStep DEF RunInv

\* What a command begins with.
LEMMA BeginState ==
    ASSUME TypeOK, NEW p \in Procs, Begin(p)
    PROVE  /\ UNCHANGED <<extracts, rules, logs>> /\ \A q \in Procs \ {p} : proc'[q] = proc[q]
           /\ \E run \in Runs :
                 /\ begun' = [begun EXCEPT ![run] = @ + 1] /\ run \notin Reported
                 /\ proc'[p].run = run /\ proc'[p].pc = "evaluate" /\ proc'[p].exit = 0
<1>1. PICK scope \in Scopes, now \in {clock, clock + 1}, run \in Runs :
         /\ NextRunId(now, run)
         /\ begun' = [begun EXCEPT ![run] = @ + 1]
         /\ Becomes(p, [Idle EXCEPT !.pc = "evaluate", !.scope = scope, !.run = run,
                            !.prior = Prior(scope, run), !.rules = rules,
                            !.found = Found(run, Bundles(scope)),
                            !.misses = Cardinality(Misses(Bundles(scope)))])
  BY DEF Begin
<1>. DEFINE state == [Idle EXCEPT !.pc = "evaluate", !.scope = scope, !.run = run,
                          !.prior = Prior(scope, run), !.rules = rules,
                          !.found = Found(run, Bundles(scope)),
                          !.misses = Cardinality(Misses(Bundles(scope)))]
<1>2. proc'[p].run = run /\ proc'[p].pc = "evaluate" /\ proc'[p].exit = 0
  <2>1. proc'[p] = state
    BY <1>1, Became
  <2>2. state.run = run /\ state.pc = "evaluate" /\ state.exit = 0
    BY DEF Idle
  <2>. QED BY <2>1, <2>2
<1>3. \A q \in Procs \ {p} : proc'[q] = proc[q]
  BY <1>1, Became
<1>4. UNCHANGED <<extracts, rules, logs>>
  BY DEF Begin
<1>. QED BY <1>1, <1>2, <1>3, <1>4 DEF NextRunId

LEMMA RefuseState ==
    ASSUME TypeOK, NEW p \in Procs, Refuse(p)
    PROVE  /\ UNCHANGED <<extracts, rules, logs, begun>> /\ \A q \in Procs \ {p} : proc'[q] = proc[q]
           /\ proc'[p].run = 0 /\ proc'[p].pc = "ended"
<1>1. PICK code \in {1, 3} : Becomes(p, [Idle EXCEPT !.pc = "ended", !.exit = code])
  BY DEF Refuse
<1>2. proc'[p].run = 0 /\ proc'[p].pc = "ended" /\ \A q \in Procs \ {p} : proc'[q] = proc[q]
  <2>1. proc'[p] = [Idle EXCEPT !.pc = "ended", !.exit = code]
    BY <1>1, Became
  <2>. QED BY <1>1, <2>1, Became DEF Idle
<1>. QED BY <1>2 DEF Refuse

\* A run id that is its command's own has been so since the command took it.
LEMMA OwnBefore ==
    ASSUME Base, RunInv, NEW p \in Procs, Begin(p), NEW q \in Procs, q # p,
           NEW run, run = proc[q].run, Own(run)'
    PROVE  Own(run)
<1>1. PICK new \in Runs : begun' = [begun EXCEPT ![new] = @ + 1]
  BY BeginState DEF Base
<1>2. run \in Runs /\ begun \in [Runs -> Nat] /\ run # 0
  BY StateType DEF Base, TypeOK, States, Own
<1>3. begun[run] # 0 /\ begun[run] \in Nat /\ begun'[run] \in {begun[run], begun[run] + 1}
  BY <1>1, <1>2 DEF RunInv, CountInv
<1>. QED BY <1>2, <1>3 DEF Own

\* A command that begins has no rows, or shares its id from then on.
LEMMA RunInvBegin ==
    ASSUME Base, RunInv, NEW p \in Procs, Begin(p)
    PROVE  RunInv'
<1>1. PICK run \in Runs :
         /\ begun' = [begun EXCEPT ![run] = @ + 1] /\ run \notin Reported
         /\ proc'[p].run = run /\ proc'[p].pc = "evaluate"
  BY BeginState DEF Base
<1>2. UNCHANGED logs /\ \A q \in Procs \ {p} : proc'[q] = proc[q]
  BY BeginState DEF Base
<1>3. begun \in [Runs -> Nat] /\ run # 0 /\ \A q \in Procs : proc[q].run \in Runs \cup {0}
  BY QuarantineAssumption, StateType DEF Base, TypeOK, States, Runs
<1>4. /\ \A r \in Runs : begun[r] \in Nat /\ begun'[r] = IF r = run THEN begun[r] + 1 ELSE begun[r]
      /\ \A r : At(r)' = At(r) /\ RowsOf(r)' = RowsOf(r) /\ ResultsOf(r)' = ResultsOf(r)
      /\ Reported' = Reported
  BY <1>1, <1>2, <1>3 DEF logs, At, RowsOf, ResultsOf, Reported
<1>5. CountInv'
  <2>1. \A q \in Procs : proc[q].run # 0 => begun[proc[q].run] # 0
    BY DEF RunInv, CountInv
  <2>2. ASSUME NEW q \in Procs, proc'[q].run # 0
        PROVE  begun'[proc'[q].run] # 0
    <3>1. CASE q = p
      BY <1>1, <1>4, <3>1
    <3>2. CASE q # p
      BY <1>2, <1>3, <1>4, <2>1, <2>2, <3>2
    <3>. QED BY <3>1, <3>2
  <2>3. ASSUME NEW q \in Procs, NEW s \in Procs, q # s, proc'[q].run = proc'[s].run
        PROVE  ~(proc'[q].run # 0 /\ begun'[proc'[q].run] = 1)
    <3>1. CASE q # p /\ s # p
      <4>1. proc[q].run = 0 \/ begun[proc[q].run] # 1
        BY <1>2, <2>3, <3>1 DEF RunInv, CountInv, Own
      <4>. QED BY <1>2, <1>3, <1>4, <2>1, <2>3, <3>1, <4>1
    <3>2. CASE q = p \/ s = p
      <4>1. begun[run] # 0
        BY <1>1, <1>2, <1>3, <2>1, <2>3, <3>2
      <4>. QED BY <1>1, <1>4, <2>3, <3>2, <4>1
    <3>. QED BY <3>1, <3>2
  <2>4. ASSUME NEW r \in Runs, begun'[r] = 0
        PROVE  At(r)' = {} /\ r \notin Reported'
    BY <1>4, <2>4 DEF RunInv, CountInv
  <2>. QED BY <2>2, <2>3, <2>4 DEF CountInv, Own
<1>6. ASSUME NEW q \in Procs, NEW r, r = proc'[q].run, Own(r)'
      PROVE  OwnRows(q, r)'
  <2>1. CASE q = p
    <3>1. r = run /\ begun[run] = 0
      BY <1>1, <1>4, <1>6, <2>1 DEF Own
    <3>2. At(run) = {} /\ RowsOf(run) = {} /\ ResultsOf(run) = {}
      BY <1>1, <3>1, NoRows DEF RunInv, CountInv, Reported, ResultsOf
    <3>. QED BY <1>1, <1>4, <2>1, <3>1, <3>2 DEF OwnRows, Written, Recorded
  <2>2. CASE q # p
    <3>1. proc'[q] = proc[q] /\ Own(r)
      BY <1>2, <1>6, <2>2, OwnBefore
    <3>2. OwnRows(q, r)
      BY <1>6, <3>1, OwnRowsAre DEF RunInv
    <3>3. Recorded(q)' = Recorded(q) /\ Written(proc[q])' = Written(proc[q])
      BY <3>1, RecordedSame DEF Written
    <3>. QED BY <1>2, <1>4, <3>2, <3>3 DEF OwnRows, logs
  <2>. QED BY <2>1, <2>2
<1>7. StatusInv'
  <2>1. ASSUME NEW r \in Runs, begun'[r] = 1
        PROVE  OneStatus(r)'
    <3>1. OneStatus(r)
      BY <1>4, <2>1 DEF RunInv, CountInv, StatusInv, OneStatus
    <3>. QED BY <1>2, <1>4, <3>1 DEF OneStatus, logs
  <2>. QED BY <2>1 DEF StatusInv
<1>8. OwnInv'
  BY <1>6 DEF OwnInv, OwnRows
<1>. QED BY <1>5, <1>7, <1>8 DEF RunInv

\* A command of no run says nothing of the logs.
LEMMA RunInvStill ==
    ASSUME TypeOK, RunInv, UNCHANGED <<logs, begun>>,
           \A q \in Procs : proc'[q] = proc[q] \/ proc'[q].run = 0
    PROVE  RunInv'
<1>1. \A r : Own(r)' = Own(r) /\ At(r)' = At(r) /\ RowsOf(r)' = RowsOf(r)
             /\ ResultsOf(r)' = ResultsOf(r) /\ Reported' = Reported
  BY DEF Own, logs, At, RowsOf, ResultsOf, Reported
<1>2. CountInv'
  BY <1>1 DEF RunInv, CountInv, Own
<1>3. ASSUME NEW q \in Procs, NEW r, r = proc'[q].run, Own(r)'
      PROVE  OwnRows(q, r)'
  <2>1. proc'[q] = proc[q]
    BY <1>3 DEF Own
  <2>2. OwnRows(q, r)
    BY <1>1, <1>3, <2>1, OwnRowsAre DEF RunInv
  <2>3. Recorded(q)' = Recorded(q) /\ Written(proc[q])' = Written(proc[q])
    BY <2>1, RecordedSame DEF Written
  <2>. QED BY <1>1, <2>2, <2>3 DEF OwnRows, logs
<1>4. StatusInv'
  BY <1>1 DEF RunInv, StatusInv, OneStatus, logs
<1>5. OwnInv'
  BY <1>3 DEF OwnInv, OwnRows
<1>. QED BY <1>2, <1>4, <1>5 DEF RunInv

LEMMA RunInvNext == ASSUME Base, RunInv, [Next]_vars PROVE RunInv'
<1>1. CASE UNCHANGED vars
  BY <1>1, RunInvStill DEF Base, vars, logs
<1>2. CASE (\E scope \in Scopes : Extract(scope)) \/ (\E r \in Rules : EditRules(r))
  <2>1. UNCHANGED <<logs, begun, proc>>
    BY <1>2 DEF Extract, EditRules
  <2>. QED BY <2>1, RunInvStill DEF Base, logs
<1>3. ASSUME NEW p \in Procs, Refuse(p)
      PROVE  RunInv'
  BY <1>3, RefuseState, RunInvStill DEF Base, logs
<1>. QED BY <1>1, <1>2, <1>3, RunInvBegin, RunInvStep, Moves

LEMMA RunInvHolds == Spec => [](Base /\ RunInv)
<1>1. Init => RunInv
  <2>1. ASSUME Init
        PROVE  RunInv
    <3>1. \A p \in Procs : proc[p].run = 0
      BY <2>1 DEF Init, Idle
    <3>2. \A r : At(r) = {} /\ r \notin Reported
      BY <2>1 DEF Init, At, Reported
    <3>. QED BY <3>1, <3>2 DEF RunInv, CountInv, OwnInv, StatusInv, OneStatus, Own
  <2>. QED BY <2>1
<1>2. Base /\ RunInv /\ [Next]_vars => RunInv'
  BY RunInvNext
<1>. QED BY <1>1, <1>2, CommandInvHolds, PTL DEF Spec, Base

\* Current is the run of a corpus command, if there is any.
LEMMA CurrentIs ==
    ASSUME TypeOK
    PROVE  /\ Current \in {0} \cup CorpusRuns
           /\ Current \in Nat /\ \A r \in CorpusRuns : r <= Current
<1>. DEFINE S == {0} \cup CorpusRuns
<1>1. S \subseteq Nat /\ S # {} /\ MaxCommands \in Nat /\ \A r \in S : r <= MaxCommands
  BY CorpusRunsAre, QuarantineAssumption
<1>2. Max(S) \in S /\ \A r \in S : r <= Max(S)
  BY <1>1, BoundedMax
<1>. QED BY <1>1, <1>2 DEF Current

LEMMA ViewsAgreeNow == ASSUME Base, RunInv PROVE ViewsAgree
<1>1. ASSUME NEW run, run = Current, Own(run)
      PROVE  Identities(ShownOpen) = Identities(OpenFindings(run))
  <2>1. run \in Runs /\ begun[run] = 1
    BY <1>1, CurrentIs, CorpusRunsAre DEF Base, Own
  <2>2. OneStatus(run)
    BY <2>1 DEF RunInv, StatusInv
  <2>. QED BY <1>1, <2>2, OneStatusReads DEF Base
<1>. QED BY <1>1 DEF ViewsAgree

\* Of the run the warehouse shows, it and the resolver call the same findings (rule and filing)
\* open, though one of them tells extract runs apart: under an id of its own a command gives a
\* finding one status.
THEOREM ViewsAgreeHolds == Spec => []ViewsAgree
BY RunInvHolds, ViewsAgreeNow, PTL
-----------------------------------------------------------------------------
(* What the resolver leaves open *)

\* Past a pass a command has its rows; past the resolution it has one for all that the prior run
\* leaves open, even if a command that shares the prior run's id is still writing under it.
Resolves(c) ==
    /\ c.pc \in {"resolve", "report", "gate"} => c.found \subseteq RowsOf(c.run)
    /\ c.pc \in {"report", "gate"} =>
          /\ c.cleared \subseteq RowsOf(c.run)
          /\ Identities(OpenFindings(c.prior)) \subseteq Identities(c.found \cup c.cleared)

ResolveInv == \A p \in Procs : Resolves(proc[p])

\* What a run leaves open it left open before, or it has just been written.
LEMMA OpenGrows ==
    ASSUME TypeOK, NEW S, S \subseteq Rows, Appends(S), NEW r
    PROVE  Identities(OpenFindings(r))' \subseteq
              Identities(OpenFindings(r)) \cup
              Identities({x \in S : x.run = r /\ x.status = "open"})
<1>. SUFFICES ASSUME NEW row \in OpenFindings(r)'
              PROVE  Identity(row) \in Identities(OpenFindings(r)) \cup
                        Identities({x \in S : x.run = r /\ x.status = "open"})
  BY DEF Identities
<1>1. PICK i \in At(r)' :
         /\ row = quarantine'[i] /\ row.status = "open"
         /\ \A k \in At(r)' : Identity(quarantine'[k]) = Identity(quarantine'[i]) => k <= i
  BY DEF OpenFindings, LastRows
<1>2. At(r) \subseteq At(r)' /\ \A k \in At(r) : quarantine'[k] = quarantine[k]
  BY Appended DEF At
<1>3. CASE i \in At(r)
  <2>1. quarantine[i] \in LastRows(r)
    BY <1>1, <1>2, <1>3 DEF LastRows
  <2>. QED BY <1>1, <1>2, <1>3, <2>1 DEF OpenFindings, Identities
<1>4. CASE i \notin At(r)
  <2>1. row \in S /\ row.run = r
    BY <1>1, <1>2, <1>4, Appended DEF At
  <2>. QED BY <1>1, <2>1 DEF Identities
<1>. QED BY <1>3, <1>4

\* There is no run 0.
LEMMA NoRunNoRows == ASSUME TypeOK PROVE At(0) = {} /\ OpenFindings(0) = {}
<1>1. \A i \in DOMAIN quarantine : quarantine[i].run \in Runs
  <2>1. \A i \in DOMAIN quarantine : quarantine[i] \in Rows
    BY DEF TypeOK
  <2>. QED BY <2>1 DEF Rows
<1>2. 0 \notin Runs
  BY QuarantineAssumption DEF Runs
<1>. QED BY <1>1, <1>2 DEF At, OpenFindings, LastRows

\* A command of the whole corpus finds whatever any other finds at the same time.
LEMMA FoundWider ==
    ASSUME NEW scope \in Scopes, NEW run, NEW other
    PROVE  Identities(Found(run, Bundles(scope))) \subseteq Identities(Found(other, Bundles(Corpus)))
<1>1. Bundles(scope) \subseteq Bundles(Corpus)
  BY DEF Bundles, InScope, Scopes
<1>2. Misses(Bundles(scope)) \subseteq Misses(Bundles(Corpus))
  BY <1>1 DEF Misses
<1>. SUFFICES ASSUME NEW x \in Found(run, Bundles(scope))
              PROVE  \E y \in Found(other, Bundles(Corpus)) : Identity(y) = Identity(x)
  BY DEF Identities
<1>3. CASE \E b \in Bundles(scope) : \E r \in rules \cap b.bad :
              x = [run |-> run, rule |-> r, filing |-> b.filing, xrun |-> b.run,
                   origin |-> "evaluated", status |-> "open"]
  <2>0. PICK b \in Bundles(Corpus) : \E r \in rules \cap b.bad :
           x = [run |-> run, rule |-> r, filing |-> b.filing, xrun |-> b.run,
                origin |-> "evaluated", status |-> "open"]
    BY <1>1, <1>3
  <2>1. PICK r \in rules \cap b.bad :
           x = [run |-> run, rule |-> r, filing |-> b.filing, xrun |-> b.run,
                origin |-> "evaluated", status |-> "open"]
    BY <2>0
  <2>. DEFINE y == [run |-> other, rule |-> r, filing |-> b.filing, xrun |-> b.run,
                    origin |-> "evaluated", status |-> "open"]
  <2>2. y \in Found(other, Bundles(Corpus)) /\ Identity(y) = Identity(x)
    BY <2>1 DEF Found, Identity
  <2>. QED BY <2>2
<1>4. CASE \E b \in Misses(Bundles(scope)) :
              x = [run |-> run, rule |-> AdoptRule, filing |-> b.filing, xrun |-> b.run,
                   origin |-> "adopted", status |-> "open"]
  <2>1. PICK b \in Misses(Bundles(Corpus)) :
           x = [run |-> run, rule |-> AdoptRule, filing |-> b.filing, xrun |-> b.run,
                origin |-> "adopted", status |-> "open"]
    BY <1>2, <1>4
  <2>. DEFINE y == [run |-> other, rule |-> AdoptRule, filing |-> b.filing, xrun |-> b.run,
                    origin |-> "adopted", status |-> "open"]
  <2>2. y \in Found(other, Bundles(Corpus)) /\ Identity(y) = Identity(x)
    BY <2>1 DEF Found, Identity
  <2>. QED BY <2>2
<1>. QED BY <1>3, <1>4 DEF Found

\* What is cleared was open, and bears the same identity.
LEMMA ClearedCovers ==
    ASSUME TypeOK, NEW p \in Procs
    PROVE  Identities(OpenFindings(proc[p].prior)) \subseteq
              Identities(proc[p].found \cup Cleared(p))
<1>. SUFFICES ASSUME NEW row \in OpenFindings(proc[p].prior),
                     Identity(row) \notin Identities(proc[p].found)
              PROVE  \E x \in Cleared(p) : Identity(x) = Identity(row)
  BY DEF Identities
<1>. DEFINE x == [row EXCEPT !.run = proc[p].run, !.status = "resolved"]
<1>1. row \in Rows
  BY RowsInLog
<1>2. x \in Cleared(p) /\ Identity(x) = Identity(row)
  BY <1>1 DEF Cleared, Rows, Identity
<1>. QED BY <1>2

\* Another's step.
LEMMA ResolvesOther ==
    ASSUME Base, RunInv, ResolveInv, NEW p \in Procs, Step(p) \/ Dies(p), NEW q \in Procs, q # p
    PROVE  Resolves(proc[q])'
<1>1. proc'[q] = proc[q]
  BY StepMoves, Became DEF Base
<1>2. CASE UNCHANGED quarantine
  <2>1. \A r : RowsOf(r)' = RowsOf(r) /\ OpenFindings(r)' = OpenFindings(r)
    BY <1>2 DEF RowsOf, At, OpenFindings, LastRows
  <2>. PICK prior \in Runs \cup {0}, run \in Runs \cup {0} : prior = proc[q].prior /\ run = proc[q].run
    BY StateType DEF Base, States
  <2>2. RowsOf(run)' = RowsOf(run) /\ OpenFindings(prior)' = OpenFindings(prior)
    BY <2>1
  <2>. QED BY <1>1, <2>2 DEF ResolveInv, Resolves
<1>3. ASSUME NEW S, Writes(p, S), Appends(S)
      PROVE  Resolves(proc[q])'
  <2>1. S \subseteq Rows /\ TypeOK /\ \A r : RowsOf(r) \subseteq RowsOf(r)'
    BY <1>3, WritesRows, OwnRun DEF Base
  <2>. PICK prior \in Runs \cup {0}, run \in Runs \cup {0} : prior = proc[q].prior /\ run = proc[q].run
    BY StateType DEF Base, States
  <2>2. ASSUME proc[q].pc \in {"report", "gate"}
        PROVE  Identities(OpenFindings(prior))'
                  \subseteq Identities(proc[q].found \cup proc[q].cleared)
    <3>1. ASSUME NEW x \in S, x.run = prior, x.status = "open"
          PROVE  Identity(x) \in Identities(proc[q].found)
      <4>1. Good(proc[p]) /\ Good(proc[q]) /\ x.run \in Runs /\ 0 \notin Runs
        BY <2>1, QuarantineAssumption DEF Base, CommandInv, Rows, Runs
      <4>2. proc[p].pc = "evaluate" /\ x \in proc[p].found
        BY <1>3, <2>1, <3>1, WritesRows, ClearedRows DEF Writes, Base
      <4>3. proc[q].scope = Corpus
        BY <3>1, <4>1 DEF Good
      <4>4. /\ proc[p].found = Found(proc[p].run, Bundles(proc[p].scope))
            /\ proc[q].found = Found(proc[q].run, Bundles(Corpus))
        BY <2>2, <4>1, <4>2, <4>3 DEF Good, AtWork
      <4>5. proc[p].scope \in Scopes
        BY StateType DEF Base, States
      <4>6. Identities(proc[p].found) \subseteq Identities(proc[q].found)
        BY <4>4, <4>5, FoundWider
      <4>. QED BY <4>2, <4>6 DEF Identities
    <3>2. Identities(OpenFindings(prior)) \subseteq Identities(proc[q].found \cup proc[q].cleared)
      BY <2>2 DEF ResolveInv, Resolves
    <3>3. Identities(OpenFindings(prior))' \subseteq
             Identities(OpenFindings(prior)) \cup
             Identities({x \in S : x.run = prior /\ x.status = "open"})
      BY <1>3, <2>1, OpenGrows
    <3>4. Identities({x \in S : x.run = prior /\ x.status = "open"})
             \subseteq Identities(proc[q].found)
      BY <3>1 DEF Identities
    <3>. QED BY <3>2, <3>3, <3>4 DEF Identities
  <2>3. /\ proc[q].pc \in {"resolve", "report", "gate"} => proc[q].found \subseteq RowsOf(run)'
        /\ proc[q].pc \in {"report", "gate"} => proc[q].cleared \subseteq RowsOf(run)'
    BY <2>1 DEF ResolveInv, Resolves
  <2>. QED BY <1>1, <2>2, <2>3 DEF Resolves
<1>. QED BY <1>2, <1>3, StepMoves DEF Base, logs

\* Its own.
LEMMA ResolvesSelf ==
    ASSUME Base, RunInv, ResolveInv, NEW p \in Procs, Step(p)
    PROVE  Resolves(proc[p])'
<1>. PICK prior \in Runs \cup {0}, run \in Runs \cup {0} : prior = proc[p].prior /\ run = proc[p].run
  BY StateType DEF Base, States
<1>1. TypeOK /\ Active(p) /\ Good(proc[p]) /\ Resolves(proc[p])
  BY AtWorkSteps DEF Base, CommandInv, ResolveInv
<1>2. run \in Runs /\ run # 0 /\ prior # run
  BY <1>1, QuarantineAssumption DEF Base, ActiveRuns, Good, Runs
<1>3. /\ proc'[p].run = run /\ proc'[p].prior = prior /\ proc'[p].found = proc[p].found
  BY <1>1, StepState
<1>4. ASSUME NEW S, Writes(p, S), Appends(S)
      PROVE  /\ RowsOf(run) \subseteq RowsOf(run)' /\ S \subseteq RowsOf(run)'
             /\ OpenFindings(prior)' = OpenFindings(prior)
  <2>1. S \subseteq Rows /\ \A x \in S : x.run = run
    BY <1>4, WritesOwn DEF RunInv
  <2>2. \A x \in S : x.run # prior
    BY <1>2, <2>1
  <2>. QED BY <1>1, <1>4, <2>1, <2>2, OwnRun, OtherRun
<1>5. CASE Evaluate(p)
  <2>1. /\ proc[p].pc = "evaluate" /\ Writes(p, proc[p].found) /\ Appends(proc[p].found)
    BY <1>5 DEF Evaluate, Writes
  <2>2. /\ proc'[p].cleared = {} /\ proc'[p].pc = IF prior = 0 THEN "report" ELSE "resolve"
    BY <1>1, <2>1, StepState DEF Good
  <2>3. OpenFindings(0) = {}
    BY <1>1, NoRunNoRows
  <2>. QED BY <1>3, <1>4, <2>1, <2>2, <2>3 DEF Resolves, Identities
<1>6. CASE ResolveCleared(p)
  <2>1. /\ proc[p].pc = "resolve" /\ Writes(p, Cleared(p)) /\ Appends(Cleared(p))
    BY <1>6 DEF ResolveCleared, Writes
  <2>2. proc'[p].cleared = Cleared(p)
    BY <1>1, <2>1, StepState
  <2>3. proc[p].found \subseteq RowsOf(run)
    BY <1>1, <2>1 DEF Resolves
  <2>4. Identities(OpenFindings(prior)) \subseteq Identities(proc[p].found \cup Cleared(p))
    BY <1>1, ClearedCovers
  <2>5. /\ RowsOf(run) \subseteq RowsOf(run)' /\ Cleared(p) \subseteq RowsOf(run)'
        /\ OpenFindings(prior)' = OpenFindings(prior)
    BY <1>4, <2>1
  <2>6. Identities(OpenFindings(prior))' = Identities(OpenFindings(prior))
    BY <2>5 DEF Identities
  <2>. QED BY <1>3, <2>2, <2>3, <2>4, <2>5, <2>6 DEF Resolves, Identities
<1>7. CASE RecordResults(p)
  <2>1. proc[p].pc = "report" /\ UNCHANGED quarantine
    BY <1>7 DEF RecordResults
  <2>2. proc'[p].cleared = proc[p].cleared
    BY <1>1, <2>1, StepState
  <2>3. RowsOf(run)' = RowsOf(run) /\ OpenFindings(prior)' = OpenFindings(prior)
    BY <2>1 DEF RowsOf, At, OpenFindings, LastRows
  <2>. QED BY <1>1, <1>3, <2>1, <2>2, <2>3 DEF Resolves
<1>8. CASE Ends(p)
  <2>1. proc[p].pc = "gate"
    BY <1>8 DEF Ends
  <2>2. proc'[p].pc = "ended"
    BY <1>1, <2>1, StepState
  <2>. QED BY <2>2 DEF Resolves
<1>. QED BY <1>5, <1>6, <1>7, <1>8 DEF Step

\* A command that ends, refuses or begins has nothing to keep; the logs are as they were.
LEMMA ResolvesStill ==
    ASSUME TypeOK, ResolveInv, UNCHANGED quarantine,
           \A q \in Procs : proc'[q] = proc[q] \/ proc'[q].pc \in {"idle", "evaluate", "ended"}
    PROVE  ResolveInv'
<1>1. \A r : RowsOf(r)' = RowsOf(r) /\ OpenFindings(r)' = OpenFindings(r)
  BY DEF RowsOf, At, OpenFindings, LastRows
<1>2. ASSUME NEW q \in Procs, proc'[q] = proc[q]
      PROVE  Resolves(proc[q])'
  <2>. PICK prior \in Runs \cup {0}, run \in Runs \cup {0} : prior = proc[q].prior /\ run = proc[q].run
    BY StateType DEF States
  <2>1. RowsOf(run)' = RowsOf(run) /\ OpenFindings(prior)' = OpenFindings(prior)
    BY <1>1
  <2>. QED BY <1>2, <2>1 DEF ResolveInv, Resolves
<1>3. ASSUME NEW q \in Procs, proc'[q].pc \in {"idle", "evaluate", "ended"}
      PROVE  Resolves(proc[q])'
  BY <1>3 DEF Resolves
<1>. QED BY <1>2, <1>3 DEF ResolveInv

LEMMA ResolveInvNext == ASSUME Base, RunInv, ResolveInv, [Next]_vars PROVE ResolveInv'
<1>0. TypeOK
  BY DEF Base
<1>1. CASE UNCHANGED vars
  BY <1>0, <1>1, ResolvesStill DEF vars, logs
<1>2. CASE (\E scope \in Scopes : Extract(scope)) \/ (\E r \in Rules : EditRules(r))
  <2>1. UNCHANGED quarantine /\ UNCHANGED proc
    BY <1>2 DEF Extract, EditRules, logs
  <2>. QED BY <1>0, <2>1, ResolvesStill
<1>3. ASSUME NEW p \in Procs, Refuse(p) \/ Begin(p)
      PROVE  ResolveInv'
  <2>1. UNCHANGED quarantine /\ (\A q \in Procs \ {p} : proc'[q] = proc[q])
        /\ proc'[p].pc \in {"evaluate", "ended"}
    BY <1>0, <1>3, RefuseState, BeginState DEF logs
  <2>. QED BY <1>0, <2>1, ResolvesStill
<1>4. ASSUME NEW p \in Procs, Step(p)
      PROVE  ResolveInv'
  BY <1>4, ResolvesOther, ResolvesSelf DEF ResolveInv
<1>5. ASSUME NEW p \in Procs, Dies(p)
      PROVE  ResolveInv'
  <2>1. proc'[p].pc = "idle"
    BY <1>0, <1>5, Became DEF Dies, Idle
  <2>2. Resolves(proc[p])'
    BY <2>1 DEF Resolves
  <2>. QED BY <1>5, <2>2, ResolvesOther DEF ResolveInv
<1>. QED BY <1>1, <1>2, <1>3, <1>4, <1>5, Moves

LEMMA ResolveInvHolds == Spec => [](Base /\ RunInv /\ ResolveInv)
<1>1. Init => ResolveInv
  BY DEF Init, Idle, ResolveInv, Resolves
<1>2. Base /\ RunInv /\ ResolveInv /\ [Next]_vars => ResolveInv'
  BY ResolveInvNext
<1>. QED BY <1>1, <1>2, RunInvHolds, PTL DEF Spec
-----------------------------------------------------------------------------
(* What replaces the run the warehouse shows *)

\* After a step, as before it.
LEMMA CurrentIsNext ==
    (TypeOK => Current \in {0} \cup CorpusRuns /\ Current \in Nat /\ \A r \in CorpusRuns : r <= Current)'
<1>1. TypeOK => Current \in {0} \cup CorpusRuns /\ Current \in Nat /\ \A r \in CorpusRuns : r <= Current
  BY CurrentIs
<1>. QED BY <1>1, PTL

\* HasLast, of the state after the step.
LEMMA HasLastNext ==
    (TypeOK => \A r : \A i \in At(r) : r = Current =>
                  \E x \in Shown : Identity(x) = Identity(quarantine[i]))'
<1>1. TypeOK => \A r : \A i \in At(r) : r = Current =>
                  \E x \in Shown : Identity(x) = Identity(quarantine[i])
  BY HasLast
<1>. QED BY <1>1, PTL

\* A command of the corpus that reports becomes what is shown, if it comes after what was.
LEMMA Replaces ==
    ASSUME Base, NEW p \in Procs, Step(p) \/ Dies(p), results' # results,
           NEW run, run = proc[p].run, Current < run, proc[p].scope = Corpus
    PROVE  proc[p].pc = "report" /\ UNCHANGED quarantine /\ Current' = run
<1>1. PICK part \in SUBSET proc[p].rules :
         /\ UNCHANGED quarantine /\ proc[p].pc = "report"
         /\ results' = results \cup {Result(p, r) : r \in part}
  BY StepMoves DEF Base, logs
<1>2. part # {}
  BY <1>1
<1>3. CorpusRuns' = CorpusRuns \cup {run}
  <2>1. \A r : Result(p, r).run = run /\ Result(p, r).scope = Corpus
    BY ResultIs
  <2>. QED BY <1>1, <1>2, <2>1 DEF CorpusRuns
<1>4. run \in Nat /\ TypeOK'
  BY <1>1, TypeStep, QuarantineAssumption DEF Base, ActiveRuns, Active, AtWork, Runs
<1>5. Current' \in {0} \cup CorpusRuns' /\ Current' \in Nat /\ \A r \in CorpusRuns' : r <= Current'
  BY <1>4, CurrentIsNext
<1>6. Current \in Nat /\ \A r \in CorpusRuns : r <= Current
  BY CurrentIs DEF Base
<1>7. Current' = run
  BY <1>3, <1>4, <1>5, <1>6
<1>. QED BY <1>1, <1>7

\* The step that replaces the run shown is the results row of one that has resolved it.
LEMMA NothingVanishesNow ==
    ASSUME Base, RunInv, ResolveInv, NEW p \in Procs, Step(p) \/ Dies(p), results' # results,
           proc[p].prior = Current, Own(Current),
           NEW row \in ShownOpen, Identity(row) \notin Identities(ShownOpen)'
    PROVE  \E new \in Shown' : Identity(new) = Identity(row) /\ new.status = "resolved"
<1>. PICK run \in Runs \cup {0}, prior \in Runs \cup {0} : prior = proc[p].prior /\ run = proc[p].run
  BY StateType DEF Base, States
<1>1. prior # 0 /\ prior < run /\ proc[p].scope = Corpus /\ Current = prior
  BY DEF Base, CommandInv, Good, Own
<1>2. proc[p].pc = "report" /\ UNCHANGED quarantine /\ Current' = run
  BY <1>1, Replaces
<1>3. Identity(row) \in Identities(OpenFindings(prior))
  BY <1>1, ViewsAgreeNow DEF ViewsAgree, Identities
<1>4. Identity(row) \in Identities(RowsOf(run))
  BY <1>2, <1>3 DEF ResolveInv, Resolves, Identities
<1>5. PICK i \in At(run) : Identity(quarantine[i]) = Identity(row)
  BY <1>4 DEF Identities, RowsOf
<1>6. TypeOK' /\ At(run)' = At(run)
  BY <1>2, TypeStep DEF Base, At
<1>7. \A j \in At(run)' : \E x \in Shown' : Identity(x) = Identity(quarantine'[j])
  BY <1>2, <1>6, HasLastNext
<1>8. PICK new \in Shown' : Identity(new) = Identity(row)
  BY <1>2, <1>5, <1>6, <1>7
<1>9. new.status # "open"
  BY <1>8 DEF ShownOpen, Identities
<1>10. new \in Rows
  <2>1. PICK j \in DOMAIN quarantine : new = quarantine[j]
    BY <1>2, <1>8 DEF Shown, At
  <2>. QED BY <2>1 DEF Base, TypeOK
<1>. QED BY <1>8, <1>9, <1>10 DEF Rows

\* Whoever changes is the one that made the step.
LEMMA OnlyItsOwn ==
    ASSUME [Next]_vars, TypeOK, NEW p \in Procs, proc'[p] # proc[p]
    PROVE  Refuse(p) \/ Begin(p) \/ Step(p) \/ Dies(p)
<1>1. PICK q \in Procs : Refuse(q) \/ Begin(q) \/ Step(q) \/ Dies(q)
  BY Moves DEF vars, Extract, EditRules
<1>2. \E state : Becomes(q, state)
  BY <1>1, StepMoves DEF Refuse, Begin
<1>. QED BY <1>1, <1>2, Became

\* Whatever the first run to report after it replaces in the warehouse, it has a row for: a finding
\* shown as open, by a run with an id of its own, is open after it or shown as resolved, though
\* commands are killed and rules retired between.
THEOREM NothingVanishesHolds == Spec => NothingVanishes
<1>1. ASSUME Base, RunInv, ResolveInv, [Next]_vars,
             NEW p \in Procs, results' # results, proc'[p] # proc[p],
             proc[p].prior = Current, Own(Current),
             NEW row \in ShownOpen, Identity(row) \notin Identities(ShownOpen)'
      PROVE  \E new \in Shown' : Identity(new) = Identity(row) /\ new.status = "resolved"
  <2>1. Step(p) \/ Dies(p)
    BY <1>1, OnlyItsOwn DEF Base, Refuse, Begin, logs
  <2>. QED BY <1>1, <2>1, NothingVanishesNow
<1>2. Base /\ RunInv /\ ResolveInv /\ [Next]_vars =>
         (\A p \in Procs :
            results' # results /\ proc'[p] # proc[p] /\ proc[p].prior = Current /\ Own(Current) =>
              \A row \in ShownOpen :
                  Identity(row) \notin Identities(ShownOpen)' =>
                      \E new \in Shown' : Identity(new) = Identity(row) /\ new.status = "resolved")
  BY <1>1
<1>. QED BY <1>2, ResolveInvHolds, PTL DEF Spec, NothingVanishes

\* A --filing command is never the run shown.
LEMMA FilingShowsNothing ==
    ASSUME Base, RunInv, NEW p \in Procs, Step(p) \/ Dies(p),
           NEW run, run = proc[p].run, Own(run), proc[p].scope # Corpus
    PROVE  Shown' = Shown
<1>1. run \notin CorpusRuns
  <2>1. ResultsOf(run) = Recorded(p)
    BY OwnRowsAre DEF RunInv, OwnRows
  <2>2. \A x \in Recorded(p) : x.scope = proc[p].scope
    BY ResultIs DEF Recorded
  <2>. QED BY <2>1, <2>2 DEF CorpusRuns, ResultsOf
<1>2. run # Current /\ run # 0
  BY <1>1, CurrentIs DEF Base, Own
<1>3. CorpusRuns' = CorpusRuns
  <2>1. CASE UNCHANGED results
    BY <2>1 DEF CorpusRuns
  <2>2. ASSUME NEW part, results' = results \cup {Result(p, r) : r \in part}
        PROVE  CorpusRuns' = CorpusRuns
    <3>1. \A r : Result(p, r).scope # Corpus
      BY ResultIs
    <3>. QED BY <2>2, <3>1 DEF CorpusRuns
  <2>. QED BY <2>1, <2>2, StepMoves DEF Base, logs
<1>4. Current' = Current
  BY <1>3 DEF Current
<1>. PICK shown : shown = Current
  OBVIOUS
<1>5. At(shown)' = At(shown) /\ \A i \in At(shown) : quarantine'[i] = quarantine[i]
  <2>1. CASE UNCHANGED quarantine
    BY <2>1 DEF At
  <2>2. ASSUME NEW S, Writes(p, S), Appends(S)
        PROVE  At(shown)' = At(shown) /\ \A i \in At(shown) : quarantine'[i] = quarantine[i]
    <3>1. S \subseteq Rows /\ \A x \in S : x.run # shown
      BY <1>2, <2>2, WritesOwn DEF RunInv
    <3>. QED BY <2>2, <3>1, OtherRun DEF Base
  <2>. QED BY <2>1, <2>2, StepMoves DEF Base, logs
<1>6. Shown' = Shown
  <2>. DEFINE last(log, j) == \A k \in At(shown) :
                                 /\ Identity(log[k]) = Identity(log[j])
                                 /\ log[k].xrun = log[j].xrun
                                 => k <= j
  <2>1. \A j \in At(shown) : last(quarantine', j) <=> last(quarantine, j)
    BY <1>5
  <2>2. Shown' = {quarantine'[i] : i \in {j \in At(shown) : last(quarantine', j)}}
    BY <1>4, <1>5 DEF Shown
  <2>3. Shown = {quarantine[i] : i \in {j \in At(shown) : last(quarantine, j)}}
    BY DEF Shown
  <2>. HIDE DEF last
  <2>4. {j \in At(shown) : last(quarantine', j)} = {j \in At(shown) : last(quarantine, j)}
    BY <2>1
  <2>. QED BY <1>5, <2>2, <2>3, <2>4
<1>. QED BY <1>6

\* A run of one filing, under an id of its own, never becomes what the warehouse shows, nor adds to
\* it, alive or dying.
THEOREM FilingRunShowsNothingHolds == Spec => FilingRunShowsNothing
<1>1. ASSUME Base, RunInv, [Next]_vars, NEW p \in Procs,
             proc[p].scope # Corpus, Own(proc[p].run), proc'[p] # proc[p]
      PROVE  Shown' = Shown
  <2>1. CASE Step(p) \/ Dies(p)
    BY <1>1, <2>1, FilingShowsNothing
  <2>2. CASE UNCHANGED logs
    BY <2>2 DEF logs, Shown, At, Current, CorpusRuns
  <2>. QED BY <1>1, <2>1, <2>2, OnlyItsOwn DEF Base, Refuse, Begin
<1>2. Base /\ RunInv /\ [Next]_vars =>
         (\A p \in Procs : proc[p].scope # Corpus /\ Own(proc[p].run) /\ proc'[p] # proc[p] =>
             Shown' = Shown)
  BY <1>1
<1>. QED BY <1>2, RunInvHolds, PTL DEF Spec, FilingRunShowsNothing
-----------------------------------------------------------------------------
(* The gate *)

\* Under an id of its own the places of a run's rows are as many as the rows.
LEMMA PlacesAreRows ==
    ASSUME TypeOK, NEW run, \A i, j \in At(run) : quarantine[i] = quarantine[j] => i = j,
           NEW places, places \subseteq At(run), NEW T, T \subseteq Rows,
           \A i \in places : quarantine[i] \in T, \A x \in T : \E i \in places : quarantine[i] = x
    PROVE  Cardinality(places) = Cardinality(T)
<1>. DEFINE f == [i \in places |-> quarantine[i]]
<1>1. f \in [places -> T] /\ (\A x, y \in places : f[x] = f[y] => x = y)
      /\ \A t \in T : \E x \in places : f[x] = t
  OBVIOUS
<1>2. IsFiniteSet(places)
  <2>1. IsFiniteSet(T)
    BY FiniteSubset
  <2>. HIDE DEF f
  <2>. QED BY <1>1, <2>1, InjectedFinite
<1>. HIDE DEF f
<1>. QED BY <1>1, <1>2, SameCount

\* Three disjoint sets of rows are counted together: found, adopted and resolved.
LEMMA ThreeParts ==
    ASSUME NEW A, NEW B, NEW C, A \subseteq Rows, B \subseteq Rows, C \subseteq Rows,
           A \cap B = {}, (A \cup B) \cap C = {}
    PROVE  Cardinality(A) + Cardinality(B) + Cardinality(C) = Cardinality((A \cup B) \cup C)
<1>1. /\ IsFiniteSet(A) /\ IsFiniteSet(B) /\ IsFiniteSet(C) /\ IsFiniteSet(A \cup B)
      /\ Cardinality(A) \in Nat /\ Cardinality(B) \in Nat /\ Cardinality(C) \in Nat
      /\ Cardinality({}) = 0
  BY FiniteSubset, FS_EmptySet
<1>2. Cardinality(A \cup B) = Cardinality(A) + Cardinality(B) - Cardinality(A \cap B)
  BY <1>1, FS_Union
<1>3. Cardinality((A \cup B) \cup C)
         = Cardinality(A \cup B) + Cardinality(C) - Cardinality((A \cup B) \cap C)
  BY <1>1, FS_Union
<1>4. Cardinality(A \cap B) = 0 /\ Cardinality((A \cup B) \cap C) = 0
  BY <1>1
<1>. QED BY <1>1, <1>2, <1>3, <1>4

\* A results row counts the rows the run wrote of its rule.
LEMMA CountsReconcile ==
    ASSUME Base, RunInv, NEW p \in Procs, NEW run, run = proc[p].run, Own(run),
           proc[p].pc = "gate", NEW r
    PROVE  Result(p, r).violated + Result(p, r).adopted + Result(p, r).resolved
              = Cardinality({i \in At(run) : quarantine[i].rule = r})
<1>. DEFINE A == {x \in proc[p].found : x.rule = r /\ x.origin = "evaluated"}
            B == {x \in proc[p].found : x.rule = r /\ x.origin = "adopted"}
            C == {x \in proc[p].cleared : x.rule = r}
            T == (A \cup B) \cup C
            places == {i \in At(run) : quarantine[i].rule = r}
<1>1. /\ proc[p].found \subseteq Rows /\ proc[p].cleared \subseteq Rows
      /\ RowsOf(run) = proc[p].found \cup proc[p].cleared
      /\ \A i, j \in At(run) : quarantine[i] = quarantine[j] => i = j
      /\ Good(proc[p]) /\ TypeOK
  BY StateType, OwnRowsAre DEF Base, CommandInv, RunInv, OwnRows, Written, States
<1>2. A \subseteq Rows /\ B \subseteq Rows /\ C \subseteq Rows /\ T \subseteq Rows
  BY <1>1
<1>3. A \cap B = {} /\ (A \cup B) \cap C = {}
  BY <1>1 DEF Good
<1>4. \A x \in RowsOf(run) : x.rule = r => x \in T
  BY <1>1 DEF Rows
<1>5. /\ \A i \in places : quarantine[i] \in T
      /\ \A x \in T : \E i \in places : quarantine[i] = x
  BY <1>1, <1>4 DEF RowsOf
<1>6. Cardinality(A) + Cardinality(B) + Cardinality(C) = Cardinality(T)
  <2>. HIDE DEF A, B, C
  <2>. QED BY <1>2, <1>3, ThreeParts
<1>7. Cardinality(places) = Cardinality(T)
  <2>1. places \subseteq At(run)
    OBVIOUS
  <2>. HIDE DEF places, T
  <2>. QED BY <1>1, <1>2, <1>5, <2>1, PlacesAreRows
<1>8. /\ Result(p, r).violated = Cardinality(A) /\ Result(p, r).adopted = Cardinality(B)
      /\ Result(p, r).resolved = Cardinality(C)
  BY DEF Result
<1>. QED BY <1>6, <1>7, <1>8

\* Under a run id of its own only a resolution of a retired rule fails the gate.
LEMMA GatePassesOwn ==
    ASSUME Base, RunInv, ResolveInv, NEW p \in Procs, NEW run, run = proc[p].run, Own(run),
           proc[p].pc = "gate", \A row \in proc[p].cleared : row.rule \in proc[p].rules
    PROVE  GatePasses(p)
<1>1. /\ Good(proc[p]) /\ TypeOK /\ proc[p].found \subseteq Rows
      /\ RowsOf(run) = proc[p].found \cup proc[p].cleared
      /\ \A i, j \in At(run) : quarantine[i] = quarantine[j] => i = j
      /\ ResultsOf(run) = {Result(p, r) : r \in proc[p].rules}
  BY StateType, OwnRowsAre DEF Base, CommandInv, RunInv, OwnRows, Written, Recorded, States
<1>2. \A row \in RowsOf(run) : row.rule \in proc[p].rules
  BY <1>1 DEF Good
<1>3. \A x \in results : x.run = run <=> \E r \in proc[p].rules : x = Result(p, r)
  BY <1>1, ResultIs DEF ResultsOf
<1>4. {x.rule : x \in {y \in results : y.run = run}} = proc[p].rules
  <2>1. {y \in results : y.run = run} = {Result(p, r) : r \in proc[p].rules}
    BY <1>1 DEF ResultsOf
  <2>. QED BY <2>1, ResultIs
<1>5. \A x, y \in results : x.run = run /\ y.run = run /\ x.rule = y.rule => x = y
  BY <1>3, ResultIs
<1>6. \A x \in results : x.run = run =>
         x.violated + x.adopted + x.resolved
            = Cardinality({i \in At(run) : quarantine[i].rule = x.rule})
  BY <1>3, CountsReconcile, ResultIs
<1>7. Cardinality(AdoptedRows(run)) = proc[p].misses
  <2>. DEFINE T == {x \in proc[p].found : x.origin = "adopted"}
  <2>1. T \subseteq Rows /\ AdoptedRows(run) \subseteq At(run) /\ Cardinality(T) = proc[p].misses
    BY <1>1 DEF AdoptedRows, Good
  <2>2. /\ \A x \in RowsOf(run) : x.origin = "adopted" /\ x.status = "open" <=> x \in T
        /\ T \subseteq RowsOf(run)
    BY <1>1 DEF Good
  <2>3. /\ \A i \in AdoptedRows(run) : quarantine[i] \in T
        /\ \A x \in T : \E i \in AdoptedRows(run) : quarantine[i] = x
    BY <2>2 DEF AdoptedRows, RowsOf
  <2>. HIDE DEF T
  <2>4. Cardinality(AdoptedRows(run)) = Cardinality(T)
    BY <1>1, <2>1, <2>3, PlacesAreRows
  <2>. QED BY <2>1, <2>4
<1>8. Identities(OpenFindings(proc[p].prior)) \subseteq Identities(RowsOf(run))
  BY <1>1 DEF ResolveInv, Resolves
<1>. QED BY <1>2, <1>4, <1>5, <1>6, <1>7, <1>8 DEF GatePasses

\* What a command that has ended told.
Told(c) ==
    c.pc = "ended" /\ Own(c.run) =>
        /\ c.exit = 3 => \E row \in c.cleared : row.rule \notin c.rules
        /\ c.exit # 3 => (c.exit = 1 <=> \E row \in c.found : row.rule \in ErrorRules)

ToldInv == \A p \in Procs : Told(proc[p])

\* The exit code is of the rows the command holds.
LEMMA ToldAtEnd ==
    ASSUME Base, RunInv, ResolveInv, NEW p \in Procs, Ends(p)
    PROVE  Told(proc[p])'
<1>. PICK run \in Runs \cup {0} : run = proc[p].run
  BY StateType DEF Base, States
<1>1. /\ proc[p].pc = "gate" /\ UNCHANGED begun
      /\ proc'[p].run = run /\ proc'[p].rules = proc[p].rules
      /\ proc'[p].found = proc[p].found /\ proc'[p].cleared = proc[p].cleared
      /\ proc'[p].exit = IF proc[p].scope = Corpus /\ ~GatePasses(p) THEN 3 ELSE ExitCode(run)
  BY StepState DEF Base, Ends, Step
<1>. SUFFICES ASSUME Own(run)
              PROVE  /\ proc'[p].exit = 3 => \E row \in proc[p].cleared : row.rule \notin proc[p].rules
                     /\ proc'[p].exit # 3 =>
                           (proc'[p].exit = 1 <=> \E row \in proc[p].found : row.rule \in ErrorRules)
  BY <1>1 DEF Told, Own
<1>2. ~GatePasses(p) => \E row \in proc[p].cleared : row.rule \notin proc[p].rules
  BY <1>1, GatePassesOwn
<1>3. RowsOf(run) = proc[p].found \cup proc[p].cleared /\ Good(proc[p])
  BY <1>1, OwnRowsAre DEF Base, CommandInv, RunInv, OwnRows, Written
<1>4. ExitCode(run) \in {0, 1}
      /\ (ExitCode(run) = 1 <=> \E row \in proc[p].found : row.rule \in ErrorRules)
  BY <1>3 DEF ExitCode, Good
<1>. QED BY <1>1, <1>2, <1>4

LEMMA ToldNext == ASSUME Base, RunInv, ResolveInv, ToldInv, [Next]_vars PROVE ToldInv'
<1>1. CASE UNCHANGED <<proc, begun>>
  BY <1>1 DEF ToldInv, Told, Own
<1>2. ASSUME NEW p \in Procs, Refuse(p)
      PROVE  ToldInv'
  BY <1>2, RefuseState DEF Base, ToldInv, Told, Own
<1>3. ASSUME NEW p \in Procs, Begin(p)
      PROVE  ToldInv'
  <2>1. \A q \in Procs \ {p} : proc'[q] = proc[q] /\ (Own(proc[q].run)' => Own(proc[q].run))
    BY <1>3, BeginState, OwnBefore DEF Base
  <2>2. Told(proc[p])'
    BY <1>3, BeginState DEF Base, Told
  <2>. QED BY <2>1, <2>2 DEF ToldInv, Told
<1>4. ASSUME NEW p \in Procs, Step(p) \/ Dies(p)
      PROVE  ToldInv'
  <2>1. UNCHANGED begun /\ \A q \in Procs \ {p} : proc'[q] = proc[q]
    BY <1>4, StepMoves, Became DEF Base
  <2>2. Told(proc[p])'
    <3>1. CASE Dies(p)
      BY <3>1, Became DEF Base, Dies, Idle, Told
    <3>2. CASE Step(p) /\ ~Ends(p)
      <4>1. proc'[p].pc # "ended"
        BY <3>2, StepState DEF Base
      <4>. QED BY <4>1 DEF Told
    <3>. QED BY <1>4, <3>1, <3>2, ToldAtEnd
  <2>. QED BY <2>1, <2>2 DEF ToldInv, Told, Own
<1>. QED BY <1>1, <1>2, <1>3, <1>4, Moves DEF vars, Extract, EditRules

LEMMA ToldHolds == Spec => [](Base /\ RunInv /\ ToldInv)
<1>1. Init => ToldInv
  BY DEF Init, Idle, ToldInv, Told
<1>2. Base /\ RunInv /\ ResolveInv /\ ToldInv /\ [Next]_vars => ToldInv'
  BY ToldNext
<1>. QED BY <1>1, <1>2, ResolveInvHolds, PTL DEF Spec

\* A command that shared its id with no other is failed by its gate only over a finding of a rule
\* retired since: its rows, its counts, its misses and its resolutions always reconcile.
THEOREM GateHoldsHolds == Spec => []GateHolds
<1>1. Base /\ ToldInv => GateHolds
  BY DEF Base, CommandInv, Good, ToldInv, Told, GateHolds
<1>. QED BY <1>1, ToldHolds, PTL

LEMMA OpenIsFoundNow == ASSUME Base, RunInv, ToldInv PROVE OpenIsFound
<1>1. ASSUME NEW p \in Procs, NEW run, run = proc[p].run, proc[p].pc = "ended", Own(run)
      PROVE  Identities(OpenFindings(run)) = Identities(proc[p].found)
  <2>1. run \in Runs /\ begun[run] = 1
    BY <1>1, StateType DEF Base, States, Own
  <2>2. OneStatus(run)
    BY <2>1 DEF RunInv, StatusInv
  <2>3. RowsOf(run) = proc[p].found \cup proc[p].cleared /\ Good(proc[p])
    BY <1>1, OwnRowsAre DEF Base, CommandInv, RunInv, OwnRows, Written
  <2>4. OpenRows(run) = proc[p].found
    BY <2>3 DEF OpenRows, Good
  <2>. QED BY <2>2, <2>4, OneStatusReads DEF Base
<1>. QED BY <1>1 DEF OpenIsFound, ToldInv, Told

\* What a command that shared its id with no other leaves open is what it found, and its exit code
\* says whether an error is among it.
THEOREM OpenIsFoundHolds == Spec => []OpenIsFound
BY ToldHolds, OpenIsFoundNow, PTL
=============================================================================
