-------------------------- MODULE Extraction_proofs --------------------------
(***************************************************************************)
(* Proofs about Extraction.tla, for any documents, parsers and models, and *)
(* any number of extract commands.                                         *)
(***************************************************************************)
EXTENDS Extraction, Maxima_proofs

-----------------------------------------------------------------------------
(* The two readers of the ledger *)

\* All that they rest on of the ledger.
LEMMA LedgerIs ==
    ASSUME outcomes \in Seq(Rows)
    PROVE  /\ \A i \in DOMAIN outcomes : /\ i \in Nat /\ i <= Len(outcomes)
                                         /\ outcomes[i].run \in Nat /\ outcomes[i].run <= MaxCommands
                                         /\ outcomes[i].doc \in Docs /\ outcomes[i].dry \in BOOLEAN
           /\ Len(outcomes) \in Nat /\ MaxCommands \in Nat
<1>1. \A i \in DOMAIN outcomes : i \in Nat /\ i <= Len(outcomes) /\ outcomes[i] \in Rows
  OBVIOUS
<1>. QED BY <1>1, ExtractionAssumption DEF Rows, Runs

\* Of some rows, one outranks them all.
LEMMA SomeOutranks ==
    ASSUME outcomes \in Seq(Rows), NEW mine, mine \subseteq DOMAIN outcomes, mine # {}
    PROVE  \E i \in mine : \A j \in mine : Outranks(i, j)
<1>. DEFINE live == {i \in mine : ~outcomes[i].dry}
            best == IF live = {} THEN mine ELSE live
            runs == {outcomes[i].run : i \in best}
            newest == Max(runs)
            last == {i \in best : outcomes[i].run = newest}
            i == Max(last)
<1>1. best \subseteq mine /\ best # {}
  OBVIOUS
<1>2. newest \in runs /\ \A r \in runs : r <= newest
  <2>1. runs \subseteq Nat /\ runs # {} /\ \A r \in runs : r <= MaxCommands
    BY <1>1, LedgerIs
  <2>. HIDE DEF runs
  <2>. QED BY <2>1, BoundedMax, LedgerIs
<1>. HIDE DEF newest
<1>3. i \in last /\ \A j \in last : j <= i
  <2>1. last \subseteq Nat /\ last # {} /\ \A j \in last : j <= Len(outcomes)
    BY <1>1, <1>2, LedgerIs
  <2>. HIDE DEF last
  <2>. QED BY <2>1, BoundedMax, LedgerIs
<1>. HIDE DEF i
<1>4. i \in best /\ i \in mine /\ i \in Nat /\ outcomes[i].run = newest
  BY <1>1, <1>3, LedgerIs
<1>5. \A j \in best : Later(i, j)
  <2>. SUFFICES ASSUME NEW j \in best PROVE Later(i, j)
    OBVIOUS
  <2>1. outcomes[j].run \in runs /\ j \in Nat /\ outcomes[j].run \in Nat /\ outcomes[i].run \in Nat
    BY <1>1, <1>4, LedgerIs
  <2>2. outcomes[j].run <= newest
    BY <1>2, <2>1
  <2>3. outcomes[j].run = newest => j <= i
    BY <1>3
  <2>. QED BY <1>4, <2>1, <2>2, <2>3 DEF Later
<1>6. \A j \in mine : outcomes[i].dry = outcomes[j].dry => j \in best
  BY <1>4, LedgerIs
<1>7. \A j \in mine : outcomes[i].dry # outcomes[j].dry => outcomes[j].dry
  BY <1>4, LedgerIs
<1>. QED BY <1>4, <1>5, <1>6, <1>7 DEF Outranks

\* The latest row of a document outranks its other rows.
LEMMA LatestIs ==
    ASSUME outcomes \in Seq(Rows), NEW j \in DOMAIN outcomes
    PROVE  \E i \in DOMAIN outcomes :
              /\ outcomes[i].doc = outcomes[j].doc /\ Latest(outcomes[j].doc) = outcomes[i]
              /\ \A k \in DOMAIN outcomes : outcomes[k].doc = outcomes[j].doc => Outranks(i, k)
<1>. DEFINE d == outcomes[j].doc
            mine == {i \in DOMAIN outcomes : outcomes[i].doc = d}
            i == CHOOSE i \in mine : \A k \in mine : Outranks(i, k)
<1>1. i \in mine /\ \A k \in mine : Outranks(i, k)
  BY SomeOutranks
<1>2. Latest(d) = outcomes[i]
  BY DEF Latest
<1>. QED BY <1>1, <1>2

LEMMA ReadersAgreeNow == ASSUME outcomes \in Seq(Rows) PROVE ReadersAgree
<1>. SUFFICES ASSUME NEW f \in Filings PROVE ValidatedRun(f) = CurrentRun(f)
  BY DEF ReadersAgree
<1>. DEFINE places == {j \in DOMAIN outcomes : FilingOf[outcomes[j].doc] = f}
            rows   == {outcomes[i] : i \in places}
            live   == {row \in rows : ~row.dry}
            read   == IF live = {} THEN rows ELSE live
            latest == {Latest(d) : d \in Recorded(f)}
            liveLatest == {row \in latest : ~row.dry}
            readLatest == IF liveLatest = {} THEN latest ELSE liveLatest
            S == {0} \cup {row.run : row \in read}
            T == {0} \cup {row.run : row \in readLatest}
<1>1. \A i \in places : \E k \in places :
         /\ outcomes[k].doc = outcomes[i].doc /\ outcomes[k] = Latest(outcomes[i].doc)
         /\ Latest(outcomes[i].doc) \in latest /\ Outranks(k, i)
  BY LatestIs, LedgerIs DEF Recorded
<1>2. latest \subseteq rows
  <2>. SUFFICES ASSUME NEW d \in Recorded(f) PROVE Latest(d) \in rows
    OBVIOUS
  <2>1. PICK i \in places : outcomes[i].doc = d
    BY DEF Recorded
  <2>. QED BY <1>1, <2>1
<1>3. live # {} <=> liveLatest # {}
  <2>1. ASSUME NEW row \in live PROVE liveLatest # {}
    <3>1. PICK i \in places : outcomes[i] = row /\ ~row.dry
      OBVIOUS
    <3>2. PICK k \in places : outcomes[k] \in latest /\ Outranks(k, i)
      BY <1>1
    <3>3. ~outcomes[k].dry
      BY <3>1, <3>2, LedgerIs DEF Outranks
    <3>. QED BY <3>2, <3>3
  <2>. QED BY <1>2, <2>1
<1>4. readLatest \subseteq read
  BY <1>2, <1>3
<1>5. \A row \in read : \E new \in readLatest : row.run <= new.run
  <2>. SUFFICES ASSUME NEW row \in read PROVE \E new \in readLatest : row.run <= new.run
    OBVIOUS
  <2>1. PICK i \in places : outcomes[i] = row
    OBVIOUS
  <2>2. PICK k \in places : outcomes[k] \in latest /\ Outranks(k, i)
    BY <1>1
  <2>3. outcomes[k].dry = outcomes[i].dry
    <3>1. live # {} => ~outcomes[i].dry
      BY <2>1
    <3>2. live = {} => outcomes[i].dry /\ outcomes[k].dry
      BY <2>1, LedgerIs
    <3>. QED BY <2>2, <3>1, <3>2, LedgerIs DEF Outranks
  <2>4. outcomes[i].run <= outcomes[k].run
    BY <2>2, <2>3, LedgerIs DEF Outranks, Later
  <2>5. outcomes[k] \in readLatest
    BY <1>3, <2>1, <2>2, <2>3
  <2>. QED BY <2>1, <2>4, <2>5
<1>6. Max(S) \in S /\ (\A s \in S : s <= Max(S)) /\ Max(S) \in Nat
  <2>1. S \subseteq Nat /\ S # {} /\ \A s \in S : s <= MaxCommands
    BY LedgerIs
  <2>. HIDE DEF S
  <2>. QED BY <2>1, BoundedMax, LedgerIs
<1>7. Max(T) \in T /\ (\A s \in T : s <= Max(T)) /\ Max(T) \in Nat
  <2>1. T \subseteq S /\ T # {}
    BY <1>4
  <2>2. S \subseteq Nat /\ \A s \in S : s <= MaxCommands
    BY LedgerIs
  <2>. HIDE DEF S, T
  <2>. QED BY <2>1, <2>2, BoundedMax, LedgerIs
<1>8. T \subseteq S
  BY <1>4
<1>9. Max(T) <= Max(S)
  BY <1>6, <1>7, <1>8
<1>10. \E t \in T : Max(S) <= t
  <2>1. CASE Max(S) = 0
    <3>1. 0 \in T /\ 0 <= 0
      OBVIOUS
    <3>. HIDE DEF S, T
    <3>. QED BY <2>1, <3>1
  <2>2. CASE Max(S) # 0
    <3>1. PICK row \in read : row.run = Max(S)
      BY <1>6, <2>2
    <3>. QED BY <1>5, <3>1
  <2>. QED BY <2>1, <2>2
<1>11. \A t \in T : t \in Nat
  BY <1>8, LedgerIs
<1>12. Max(S) = Max(T)
  <2>. HIDE DEF S, T
  <2>. QED BY <1>6, <1>7, <1>9, <1>10, <1>11
<1>13. CurrentRun(f) = Max(S)
  BY DEF CurrentRun
<1>14. ValidatedRun(f) = Max(T)
  BY DEF ValidatedRun
<1>. QED BY <1>12, <1>13, <1>14

-----------------------------------------------------------------------------
(* Types *)

\* What a handler counts, and what it appends to the result.
Counts == [emitted : [Kinds -> Nat], targeted : Nat, populated : Nat, missed : Nat,
           stated : SUBSET Nat, calls : SUBSET Nat, note : BOOLEAN]

Things == [doc : Docs, kind : Kinds, n : Nat]

InHand == {"identity", "build", "justify", "record", "raised"}

States == [pc : {"idle", "next", "gate", "ended"} \cup InHand, scope : Scopes, dry : BOOLEAN,
           run : Runs \cup {0}, known : SUBSET Docs, broken : SUBSET Docs, todo : SUBSET Docs,
           reading : Reading, count : Counts, made : SUBSET Things, exit : {0, 1, 3, Crashed}]

\* A command at work has a run and no exit code yet; with a document in hand, there is one to do,
\* at the gate none; and what it has targeted it has populated or missed.
Sound(c) ==
    /\ c.pc \notin {"idle", "ended"} => c.run \in Runs /\ c.exit = 0
    /\ c.pc \in InHand => c.todo # {}
    /\ c.pc \in {"idle", "gate", "ended"} => c.todo = {}
    /\ c.count.targeted = c.count.populated + c.count.missed

Typed ==
    /\ TypeOK /\ IsFiniteSet(calls)
    /\ proc \in [Procs -> States] /\ \A p \in Procs : Sound(proc[p])

\* The types of one command.
LEMMA CommandIs ==
    ASSUME Typed, NEW p \in Procs
    PROVE  proc[p] \in States /\ Sound(proc[p])
BY DEF Typed

\* A command's step changes its own state only.
LEMMA Became ==
    ASSUME Typed, NEW p \in Procs, NEW state, Becomes(p, state)
    PROVE  /\ proc'[p] = state /\ \A q \in Procs \ {p} : proc'[q] = proc[q]
           /\ state \in States /\ Sound(state) =>
                 proc' \in [Procs -> States] /\ \A q \in Procs : Sound(proc'[q])
BY DEF Becomes, Typed

\* The first of some documents is one of them.
LEMMA FirstIs == ASSUME NEW docs, docs \subseteq Docs, docs # {} PROVE First(docs) \in docs
<1>. DEFINE places == {i \in DOMAIN Order : Order[i] \in docs}
<1>1. places # {} /\ places \subseteq Nat
  BY ExtractionAssumption DEF Docs, Range
<1>2. Min(places) \in places
  BY <1>1, LeastNatural
<1>. QED BY <1>2 DEF First

\* The document in hand is one to do.
LEMMA DocIs ==
    ASSUME NEW c \in States, c.todo # {}
    PROVE  DocOf(c) \in c.todo /\ DocOf(c) \in Docs
BY FirstIs DEF DocOf, States

LEMMA NothingType ==
    /\ Nothing \in Counts /\ Nothing.targeted = Nothing.populated + Nothing.missed
    /\ NoReading \in Reading
BY DEF Nothing, Counts, NoReading, Reading

LEMMA IdleType ==
    /\ Idle \in States /\ Idle.run = 0 /\ Idle.pc = "idle" /\ Idle.todo = {} /\ Idle.exit = 0
    /\ Idle.count = Nothing /\ Idle.made = {}
<1>1. Idle.pc = "idle" /\ Idle.scope \in Scopes /\ Idle.dry \in BOOLEAN /\ Idle.run = 0
      /\ Idle.known = {} /\ Idle.broken = {} /\ Idle.todo = {} /\ Idle.reading = NoReading
      /\ Idle.count = Nothing /\ Idle.made = {} /\ Idle.exit = 0
  BY DEF Idle, Scopes
<1>. QED BY <1>1, NothingType DEF States, Idle

\* A command that is not at work.
LEMMA RestingSound ==
    ASSUME NEW pc \in {"idle", "ended"}, NEW run \in Runs \cup {0}, NEW exit \in {0, 1, 3, Crashed}
    PROVE  LET state == [Idle EXCEPT !.pc = pc, !.run = run, !.exit = exit]
           IN  state \in States /\ Sound(state)
<1>. DEFINE state == [Idle EXCEPT !.pc = pc, !.run = run, !.exit = exit]
<1>1. state \in States /\ state.pc = pc /\ state.count = Nothing /\ state.todo = {}
  BY IdleType DEF States
<1>. QED BY <1>1, NothingType DEF Sound, InHand

\* The next id is one more than the number of rows.
LEMMA FreshCallIs ==
    ASSUME Typed
    PROVE  FreshCall \in Nat /\ Cardinality(calls) \in Nat /\ FreshCall = Cardinality(calls) + 1
BY FS_CardinalityType DEF Typed, FreshCall

Adds(count) == count.targeted = count.populated + count.missed

\* The identity call adds as much to what is populated as to what is targeted.
LEMMA WithIdentityType ==
    ASSUME Typed, NEW count \in Counts, NEW answer \in Answer
    PROVE  LET next == WithIdentity(count, answer)
           IN  /\ next \in Counts /\ (Adds(count) => Adds(next))
               /\ next.emitted = count.emitted /\ next.calls = count.calls \cup {FreshCall}
<1>. DEFINE t == count.targeted + answer.kept
            p == count.populated + answer.kept
            n == (count.note \/ answer.dropped > 0)
            c == count.calls \cup {FreshCall}
            next == [count EXCEPT !.targeted = t, !.populated = p, !.note = n, !.calls = c]
<1>1. t \in Nat /\ p \in Nat /\ (Adds(count) => t = p + count.missed)
  BY DEF Counts, Answer, Adds
<1>2. n \in BOOLEAN
  OBVIOUS
<1>3. c \in SUBSET Nat
  BY FreshCallIs DEF Counts
<1>4. WithIdentity(count, answer) = next
  BY DEF WithIdentity
<1>. HIDE DEF t, p, n, c
<1>5. next \in Counts
  BY <1>1, <1>2, <1>3 DEF Counts
<1>6. next.targeted = t /\ next.populated = p /\ next.missed = count.missed
      /\ next.emitted = count.emitted /\ next.calls = c
  BY DEF Counts
<1>. HIDE DEF next
<1>. QED BY <1>1, <1>4, <1>5, <1>6 DEF Adds, c

\* A dropped entry adds as much to what is missed as to what is targeted.
LEMMA WithEntriesType ==
    ASSUME Typed, NEW count \in Counts, NEW answer \in Answer
    PROVE  LET next == WithEntries(count, answer)
           IN  /\ next \in Counts /\ (Adds(count) => Adds(next))
               /\ next.emitted = [count.emitted EXCEPT !["justification"] = answer.kept]
               /\ next.calls = count.calls \cup {FreshCall}
<1>. DEFINE e == [count.emitted EXCEPT !["justification"] = answer.kept]
            t == count.targeted + answer.dropped
            m == count.missed + answer.dropped
            c == count.calls \cup {FreshCall}
            next == [count EXCEPT !.emitted = e, !.targeted = t, !.missed = m, !.calls = c]
<1>1. t \in Nat /\ m \in Nat /\ (Adds(count) => t = count.populated + m)
  BY DEF Counts, Answer, Adds
<1>2. e \in [Kinds -> Nat]
  BY DEF Counts, Answer
<1>3. c \in SUBSET Nat
  BY FreshCallIs DEF Counts
<1>4. WithEntries(count, answer) = next
  BY DEF WithEntries
<1>. HIDE DEF t, m, e, c
<1>5. next \in Counts
  BY <1>1, <1>2, <1>3 DEF Counts
<1>6. next.targeted = t /\ next.populated = count.populated /\ next.missed = m
      /\ next.emitted = e /\ next.calls = c
  BY DEF Counts
<1>. HIDE DEF next
<1>. QED BY <1>1, <1>4, <1>5, <1>6 DEF Adds, c, e

\* A rejected rate adds as much to what is missed as to what is targeted.
LEMMA WithRowsType ==
    ASSUME NEW count \in Counts, NEW reading \in Reading, NEW role
    PROVE  LET next == WithRows(count, reading, role)
           IN  /\ next \in Counts /\ (Adds(count) => Adds(next)) /\ next.calls = count.calls
               /\ next.emitted = [count.emitted EXCEPT
                      !["filing"] = IF HasFiling(role) THEN 1 ELSE 0,
                      !["plan"] = IF HasPlans(role) THEN reading.plans ELSE 0]
<1>. DEFINE filing == IF HasFiling(role) THEN 1 ELSE 0
            plan == IF HasPlans(role) THEN reading.plans ELSE 0
            e == [count.emitted EXCEPT !["filing"] = filing, !["plan"] = plan]
            t == count.targeted + reading.rejected
            m == count.missed + reading.rejected
            n == (count.note \/ (role = "filing_packet" /\ reading.lost > 0))
            next == [count EXCEPT !.emitted = e, !.targeted = t, !.missed = m, !.note = n]
<1>1. t \in Nat /\ m \in Nat /\ (Adds(count) => t = count.populated + m)
  BY DEF Counts, Reading, Adds
<1>2. e \in [Kinds -> Nat]
  <2>1. filing \in Nat /\ plan \in Nat
    BY DEF Reading
  <2>. HIDE DEF filing, plan
  <2>. QED BY <2>1 DEF Counts
<1>3. n \in BOOLEAN
  OBVIOUS
<1>4. WithRows(count, reading, role) = next
  BY DEF WithRows
<1>. HIDE DEF t, m, e, n
<1>5. next \in Counts
  BY <1>1, <1>2, <1>3 DEF Counts
<1>6. next.targeted = t /\ next.populated = count.populated /\ next.missed = m
      /\ next.emitted = e /\ next.calls = count.calls
  BY DEF Counts
<1>. HIDE DEF next
<1>. QED BY <1>1, <1>4, <1>5, <1>6 DEF Adds, e, filing, plan

-----------------------------------------------------------------------------
(* What the steps of a command do *)

\* What no step at work changes of a command.
SameRun(c, d) ==
    /\ d.run = c.run /\ d.scope = c.scope /\ d.dry = c.dry /\ d.known = c.known
    /\ d.broken = c.broken

Finishing(p) == Unresolvable(p) \/ Skip(p) \/ Unreadable(p) \/ Record(p) \/ RecordFailure(p)

\* Whatever a row says, it adds up.
RowAdds(row) ==
    /\ row.targeted = row.populated + row.missed
    /\ row.status = "extracted" => row.stated \subseteq {row.emitted["plan"]}

\* A document that is finished with.
FinishedWith(p, row) ==
    LET c == proc[p]
        d == proc'[p]
    IN  /\ row \in Rows /\ RowAdds(row) /\ row.run = c.run /\ row.doc = Doc(p)
        /\ c.run \in Runs /\ c.todo # {} /\ c.pc \in {"next"} \cup InHand
        /\ row.status # "failed" =>
              \/ /\ c.pc = "next" /\ row.emitted = Nothing.emitted /\ row.calls = {}
              \/ /\ c.pc = "record" /\ row.emitted = c.count.emitted /\ row.calls = c.count.calls
        /\ misses' = [misses EXCEPT ![<<c.run, Doc(p)>>] = @ + row.missed]
        /\ outcomes' = Append(outcomes, row) /\ UNCHANGED <<calls, outputs, clock, begun>>
        /\ SameRun(c, d) /\ d.pc = "next" /\ d.todo = c.todo \ {Doc(p)} /\ d.made = c.made
        /\ d \in States /\ Sound(d)

LEMMA FinishState ==
    ASSUME Typed, NEW p \in Procs, NEW row, Finish(p, row), proc[p].run \in Runs, proc[p].exit = 0
    PROVE  LET c == proc[p]
               d == proc'[p]
           IN  /\ SameRun(c, d) /\ d.pc = "next" /\ d.todo = c.todo \ {Doc(p)} /\ d.made = c.made
               /\ d \in States /\ Sound(d)
<1>. DEFINE d == [proc[p] EXCEPT !.pc = "next", !.todo = @ \ {Doc(p)}, !.reading = NoReading,
                      !.count = Nothing]
<1>1. proc[p] \in States
  BY CommandIs
<1>2. d \in States
  BY <1>1, NothingType DEF States
<1>3. d.pc = "next" /\ d.todo = proc[p].todo \ {Doc(p)} /\ d.made = proc[p].made
      /\ d.count = Nothing /\ d.exit = 0 /\ SameRun(proc[p], d)
  BY <1>1 DEF States, SameRun
<1>4. Sound(d)
  BY <1>1, <1>3, NothingType DEF Sound, InHand, SameRun
<1>5. proc'[p] = d
  BY Became DEF Finish
<1>. HIDE DEF d
<1>. QED BY <1>2, <1>3, <1>4, <1>5

\* A row says what has been counted.
LEMMA RowIs ==
    ASSUME Typed, NEW p \in Procs, NEW status \in {"extracted", "partial", "skipped", "failed"},
           NEW count \in Counts, proc[p].run \in Runs, proc[p].todo # {}
    PROVE  LET row == Row(p, status, count)
           IN  /\ row \in Rows /\ row.run = proc[p].run /\ row.doc = Doc(p) /\ row.status = status
               /\ row.emitted = count.emitted /\ row.targeted = count.targeted
               /\ row.populated = count.populated /\ row.missed = count.missed
               /\ row.stated = count.stated /\ row.calls = count.calls
<1>1. proc[p] \in States /\ Doc(p) \in Docs
  BY CommandIs, DocIs DEF Doc
<1>. QED BY <1>1 DEF Row, Rows, Counts, States

\* A row without misses leaves the log of misses alone.
LEMMA NoMoreMisses ==
    ASSUME Typed, NEW run \in Runs, NEW d \in Docs, UNCHANGED misses
    PROVE  misses' = [misses EXCEPT ![<<run, d>>] = @ + 0]
<1>1. misses \in [Runs \X Docs -> Nat] /\ <<run, d>> \in Runs \X Docs
  BY DEF Typed, TypeOK
<1>2. misses[<<run, d>>] + 0 = misses[<<run, d>>]
  BY <1>1
<1>. QED BY <1>1, <1>2

\* However a document ends, it gets its one row and leaves the list.
LEMMA FinishingDoes ==
    ASSUME Typed, NEW p \in Procs, Finishing(p)
    PROVE  \E row : FinishedWith(p, row)
<1>1. CASE Unresolvable(p) \/ Skip(p) \/ Unreadable(p) \/ RecordFailure(p)
  <2>1. PICK status \in {"skipped", "failed"} :
           /\ Finish(p, Row(p, status, Nothing))
           /\ UNCHANGED <<misses, calls, outputs, clock, begun>>
           /\ status # "failed" => proc[p].pc = "next"
    BY <1>1 DEF Unresolvable, Skip, Unreadable, RecordFailure, Takes
  <2>2. proc[p].todo # {} /\ proc[p].run \in Runs /\ proc[p].exit = 0
        /\ proc[p].pc \in {"next"} \cup InHand
    BY <1>1, CommandIs DEF Unresolvable, Skip, Unreadable, RecordFailure, Takes, Sound, InHand
  <2>. DEFINE row == Row(p, status, Nothing)
  <2>3. /\ row \in Rows /\ row.run = proc[p].run /\ row.doc = Doc(p) /\ row.status = status
        /\ row.emitted = Nothing.emitted /\ row.targeted = Nothing.targeted
        /\ row.populated = Nothing.populated /\ row.missed = Nothing.missed
        /\ row.calls = Nothing.calls
    BY <2>2, NothingType, RowIs
  <2>4. RowAdds(row) /\ row.missed = 0 /\ row.calls = {}
    BY <2>3, NothingType DEF RowAdds, Nothing
  <2>5. misses' = [misses EXCEPT ![<<proc[p].run, Doc(p)>>] = @ + row.missed]
    BY <2>1, <2>2, <2>4, NoMoreMisses, DocIs, CommandIs DEF Doc
  <2>6. outcomes' = Append(outcomes, row)
    BY <2>1 DEF Finish
  <2>. HIDE DEF row
  <2>7. FinishedWith(p, row)
    BY <2>1, <2>2, <2>3, <2>4, <2>5, <2>6, FinishState DEF FinishedWith, row
  <2>. QED BY <2>7
<1>2. CASE Record(p)
  <2>. DEFINE count == proc[p].count
              row == Row(p, Status(count), count)
  <2>1. proc[p].todo # {} /\ proc[p].run \in Runs /\ proc[p].exit = 0 /\ proc[p].pc = "record"
        /\ count \in Counts /\ Adds(count)
    BY <1>2, CommandIs DEF Record, Sound, InHand, States, Adds
  <2>2. Status(count) \in {"extracted", "partial"}
    BY DEF Status
  <2>3. /\ row \in Rows /\ row.run = proc[p].run /\ row.doc = Doc(p) /\ row.status = Status(count)
        /\ row.emitted = count.emitted /\ row.targeted = count.targeted
        /\ row.populated = count.populated /\ row.missed = count.missed
        /\ row.stated = count.stated /\ row.calls = count.calls
    BY <2>1, <2>2, RowIs
  <2>4. RowAdds(row)
    BY <2>1, <2>3 DEF RowAdds, Adds, Status
  <2>5. Finish(p, row) /\ UNCHANGED <<calls, outputs, clock, begun>>
        /\ misses' = [misses EXCEPT ![<<proc[p].run, Doc(p)>>] = @ + row.missed]
    BY <1>2, <2>3 DEF Record, MissedMore
  <2>. HIDE DEF row
  <2>6. outcomes' = Append(outcomes, row)
    BY <2>5 DEF Finish
  <2>7. FinishedWith(p, row)
    BY <2>1, <2>3, <2>4, <2>5, <2>6, FinishState DEF FinishedWith, InHand
  <2>. QED BY <2>7
<1>. QED BY <1>1, <1>2 DEF Finishing

\* What is made of a document, and how many rows of a kind it comes to.
Of(doc, kind, n) == {[doc |-> doc, kind |-> kind, n |-> m] : m \in {n} \ {0}}

SizesOf(made, doc, kind) == {m.n : m \in {x \in made : x.doc = doc /\ x.kind = kind}}

\* What is made of a document are things.
LEMMA OfIs ==
    ASSUME NEW doc \in Docs, NEW kind \in Kinds, NEW n \in Nat
    PROVE  Of(doc, kind, n) \subseteq Things
BY DEF Of, Things

\* It has one number for its kind, and none for others.
LEMMA OfSizes ==
    ASSUME NEW doc, NEW kind, NEW n, NEW k
    PROVE  /\ SizesOf(Of(doc, kind, n), doc, kind) = {n} \ {0}
           /\ k # kind => SizesOf(Of(doc, kind, n), doc, k) = {}
<1>. DEFINE new == Of(doc, kind, n)
<1>1. \A x \in new : x.doc = doc /\ x.kind = kind /\ x.n = n /\ n # 0
  BY DEF Of
<1>2. n # 0 => \E x \in new : x.doc = doc /\ x.kind = kind /\ x.n = n
  <2>1. n # 0 => [doc |-> doc, kind |-> kind, n |-> n] \in new
    BY DEF Of
  <2>. HIDE DEF new
  <2>. QED BY <2>1
<1>. HIDE DEF new
<1>3. SizesOf(new, doc, kind) = {n} \ {0}
  BY <1>1, <1>2 DEF SizesOf
<1>4. k # kind => SizesOf(new, doc, k) = {}
  BY <1>1 DEF SizesOf
<1>. QED BY <1>3, <1>4 DEF new

\* What is made of two lots has the numbers of both.
LEMMA SizesGrow ==
    ASSUME NEW made, NEW new, NEW doc, NEW kind
    PROVE  SizesOf(made \cup new, doc, kind) = SizesOf(made, doc, kind) \cup SizesOf(new, doc, kind)
BY DEF SizesOf

\* A document that is opened.
Opened(p) ==
    LET c == proc[p]
        d == proc'[p]
    IN  /\ c.pc = "next" /\ c.todo # {} /\ c.run \in Runs
        /\ UNCHANGED <<outcomes, misses, calls, outputs, clock, begun, paid>>
        /\ SameRun(c, d) /\ d.pc \in {"identity", "build"} /\ d.todo = c.todo /\ d.made = c.made
        /\ d.count.emitted = Nothing.emitted /\ d.count.calls = {}
        /\ d \in States /\ Sound(d)

LEMMA OpenDoes == ASSUME Typed, NEW p \in Procs, Open(p) PROVE Opened(p)
<1>1. PICK reading \in Readings[Role(p)] :
         /\ Role(p) # "rate_tables"
         /\ Becomes(p, [proc[p] EXCEPT
              !.pc = IF Role(p) = "filing_packet" THEN "identity" ELSE "build",
              !.reading = reading,
              !.count = [Nothing EXCEPT !.targeted = reading.found + reading.missing,
                                        !.populated = reading.found, !.missed = reading.missing,
                                        !.stated = reading.stated, !.note = reading.note]])
  BY DEF Open
<1>2. proc[p] \in States /\ Sound(proc[p]) /\ proc[p].pc = "next" /\ proc[p].todo # {}
  BY CommandIs DEF Open, Takes
<1>3. reading \in Reading
  <2>1. Doc(p) \in Docs
    BY <1>2, DocIs DEF Doc
  <2>2. Role(p) \in Roles
    BY <2>1, ExtractionAssumption DEF Role
  <2>. QED BY <1>1, <2>2, ExtractionAssumption
<1>. DEFINE t == reading.found + reading.missing
            count == [Nothing EXCEPT !.targeted = t, !.populated = reading.found,
                          !.missed = reading.missing, !.stated = reading.stated, !.note = reading.note]
            pc == IF Role(p) = "filing_packet" THEN "identity" ELSE "build"
            d == [proc[p] EXCEPT !.pc = pc, !.reading = reading, !.count = count]
<1>4. t \in Nat /\ reading.found \in Nat /\ reading.missing \in Nat /\ reading.stated \in SUBSET Nat
      /\ reading.note \in BOOLEAN
  BY <1>3 DEF Reading
<1>5. count \in Counts /\ count.targeted = count.populated + count.missed
      /\ count.emitted = Nothing.emitted /\ count.calls = {}
  <2>1. count.targeted = t /\ count.populated = reading.found /\ count.missed = reading.missing
        /\ count.emitted = Nothing.emitted /\ count.calls = {}
    BY DEF Nothing
  <2>. HIDE DEF t
  <2>2. count \in Counts
    BY <1>4, NothingType DEF Counts
  <2>. HIDE DEF count
  <2>. QED BY <2>1, <2>2 DEF t
<1>6. pc \in {"identity", "build"}
  OBVIOUS
<1>7. proc'[p] = d
  BY <1>1, Became
<1>. HIDE DEF count, pc
<1>8. d \in States
  BY <1>2, <1>3, <1>5, <1>6 DEF States, InHand
<1>9. d.pc = pc /\ d.todo = proc[p].todo /\ d.made = proc[p].made /\ d.count = count
      /\ d.exit = proc[p].exit /\ SameRun(proc[p], d)
  BY <1>2 DEF States, SameRun
<1>. HIDE DEF d
<1>10. proc[p].run \in Runs /\ proc[p].exit = 0
  BY <1>2 DEF Sound
<1>11. Sound(d)
  BY <1>2, <1>5, <1>6, <1>9, <1>10 DEF Sound, SameRun
<1>12. UNCHANGED <<outcomes, misses, calls, outputs, clock, begun, paid>>
  BY DEF Open, logs
<1>. QED BY <1>2, <1>5, <1>6, <1>7, <1>8, <1>9, <1>10, <1>11, <1>12 DEF Opened

\* A call of the model, with the id of its row.
Called(p, id, answer) ==
    LET c == proc[p]
        d == proc'[p]
    IN  /\ answer \in Answer /\ id = FreshCall
        /\ calls' = calls \cup {[id |-> id, run |-> c.run, doc |-> Doc(p),
                                 sent |-> answer.sent, error |-> answer.error]}
        /\ paid' = (IF answer.sent THEN paid + 1 ELSE paid)
        /\ UNCHANGED <<outcomes, misses, outputs, clock, begun>>
        /\ c.run \in Runs /\ c.todo # {} /\ SameRun(c, d) /\ d.todo = c.todo
        /\ d.pc # "raised" =>
              d.count.calls = c.count.calls \cup (IF answer.error THEN {} ELSE {id})
        /\ \/ /\ c.pc = "identity" /\ d.pc \in {"build", "raised"}
              /\ d.made = c.made /\ d.count.emitted = c.count.emitted
           \/ /\ c.pc = "justify" /\ d.pc \in {"record", "raised"}
              /\ \E kept \in Nat :
                    /\ d.made = c.made \cup Of(Doc(p), "justification", kept)
                    /\ d.pc # "raised" =>
                          \/ d.count.emitted = [c.count.emitted EXCEPT !["justification"] = kept]
                          \/ kept = 0 /\ d.count.emitted = c.count.emitted
        /\ d \in States /\ Sound(d)

\* A call that failed adds a note and nothing else.
LEMMA NotedType ==
    ASSUME NEW count \in Counts
    PROVE  LET next == [count EXCEPT !.note = TRUE]
           IN  /\ next \in Counts /\ (Adds(count) => Adds(next))
               /\ next.emitted = count.emitted /\ next.calls = count.calls
<1>1. TRUE \in BOOLEAN
  OBVIOUS
<1>. QED BY <1>1 DEF Counts, Adds

\* A command with its document in hand that counts on.
LEMMA InHandState ==
    ASSUME Typed, NEW p \in Procs, NEW pc \in InHand, NEW count \in Counts,
           NEW made \in SUBSET Things, proc[p].pc \in InHand, Adds(count),
           Becomes(p, [proc[p] EXCEPT !.pc = pc, !.count = count, !.made = made])
    PROVE  LET c == proc[p]
               d == proc'[p]
           IN  /\ d \in States /\ Sound(d) /\ SameRun(c, d) /\ c.run \in Runs /\ c.todo # {}
               /\ d.todo = c.todo /\ d.pc = pc /\ d.count = count /\ d.made = made
<1>. DEFINE d == [proc[p] EXCEPT !.pc = pc, !.count = count, !.made = made]
<1>1. proc[p] \in States /\ Sound(proc[p])
  BY CommandIs
<1>2. d \in States
  BY <1>1 DEF States
<1>3. d.pc = pc /\ d.count = count /\ d.made = made /\ d.todo = proc[p].todo
      /\ d.exit = proc[p].exit /\ SameRun(proc[p], d)
  BY <1>1 DEF States, SameRun
<1>4. proc'[p] = d
  BY Became
<1>. HIDE DEF d
<1>5. proc[p].run \in Runs /\ proc[p].exit = 0 /\ proc[p].todo # {}
  BY <1>1 DEF Sound, InHand
<1>6. Sound(d)
  BY <1>3, <1>5 DEF Sound, SameRun, Adds, InHand
<1>. QED BY <1>2, <1>3, <1>4, <1>5, <1>6

LEMMA IdentityDoes ==
    ASSUME Typed, NEW p \in Procs, Identity(p)
    PROVE  \E answer : Called(p, FreshCall, answer)
<1>1. PICK answer \in Possible(p) : /\ Logs(p, answer)
                                    /\ GoesOn(p, answer, "build", WithIdentity(proc[p].count, answer))
  BY DEF Identity
<1>. DEFINE c == proc[p]
            count == IF answer.error THEN [c.count EXCEPT !.note = TRUE]
                     ELSE WithIdentity(c.count, answer)
            pc == IF answer.malformed THEN "raised" ELSE "build"
            made == c.made
<1>2. c \in States /\ Sound(c) /\ c.pc = "identity" /\ c.count \in Counts /\ answer \in Answer
      /\ made \in SUBSET Things /\ Adds(c.count)
  BY <1>1, CommandIs, ExtractionAssumption DEF Identity, Possible, States, Sound, Adds
<1>3. count \in Counts /\ Adds(count) /\ count.emitted = c.count.emitted
      /\ count.calls = c.count.calls \cup (IF answer.error THEN {} ELSE {FreshCall})
  BY <1>2, WithIdentityType, NotedType
<1>4. Becomes(p, [c EXCEPT !.pc = pc, !.count = count, !.made = made])
  <2>1. [c EXCEPT !.pc = pc, !.count = count, !.made = made] = [c EXCEPT !.pc = pc, !.count = count]
    BY <1>2 DEF States
  <2>. QED BY <1>1, <2>1 DEF GoesOn
<1>5. pc \in {"build", "raised"} /\ pc \in InHand /\ c.pc \in InHand
  BY <1>2 DEF InHand
<1>. HIDE DEF count, pc, made
<1>6. LET d == proc'[p]
      IN  /\ d \in States /\ Sound(d) /\ SameRun(c, d) /\ c.run \in Runs /\ c.todo # {}
          /\ d.todo = c.todo /\ d.pc = pc /\ d.count = count /\ d.made = made
  BY <1>2, <1>3, <1>4, <1>5, InHandState
<1>7. /\ calls' = calls \cup {[id |-> FreshCall, run |-> c.run, doc |-> Doc(p),
                               sent |-> answer.sent, error |-> answer.error]}
      /\ paid' = (IF answer.sent THEN paid + 1 ELSE paid)
      /\ UNCHANGED <<outcomes, misses, outputs, clock, begun>>
  BY <1>1 DEF Logs, Identity
<1>8. Called(p, FreshCall, answer)
  BY <1>2, <1>3, <1>5, <1>6, <1>7 DEF Called, made
<1>. QED BY <1>8

LEMMA JustifyDoes ==
    ASSUME Typed, NEW p \in Procs, Justify(p)
    PROVE  \E answer : Called(p, FreshCall, answer)
<1>. DEFINE c == proc[p]
            Kept(answer) == IF answer.error \/ answer.malformed THEN 0 ELSE answer.kept
<1>1. PICK answer \in Possible(p) :
         /\ Logs(p, answer)
         /\ Becomes(p, [c EXCEPT
                !.pc = IF answer.malformed THEN "raised" ELSE "record",
                !.count = IF answer.error THEN [@ EXCEPT !.note = TRUE]
                          ELSE WithEntries(c.count, answer),
                !.made = @ \cup Made(p, "justification", Kept(answer))])
  BY DEF Justify
<1>. DEFINE count == IF answer.error THEN [c.count EXCEPT !.note = TRUE]
                     ELSE WithEntries(c.count, answer)
            pc == IF answer.malformed THEN "raised" ELSE "record"
            kept == Kept(answer)
            made == c.made \cup Of(Doc(p), "justification", kept)
<1>2. c \in States /\ Sound(c) /\ c.pc = "justify" /\ c.count \in Counts /\ answer \in Answer
      /\ c.made \in SUBSET Things /\ Adds(c.count)
  BY <1>1, CommandIs, ExtractionAssumption DEF Justify, Possible, States, Sound, Adds
<1>3. count \in Counts /\ Adds(count)
      /\ count.calls = c.count.calls \cup (IF answer.error THEN {} ELSE {FreshCall})
      /\ count.emitted = IF answer.error THEN c.count.emitted
                         ELSE [c.count.emitted EXCEPT !["justification"] = answer.kept]
  BY <1>2, WithEntriesType, NotedType
<1>4. kept \in Nat /\ (pc # "raised" => kept = IF answer.error THEN 0 ELSE answer.kept)
  BY <1>2 DEF Answer
<1>5. made \in SUBSET Things
  <2>1. Doc(p) \in Docs
    BY <1>2, DocIs DEF Doc, Sound, InHand
  <2>. HIDE DEF kept
  <2>. QED BY <1>2, <1>4, <2>1, OfIs DEF Kinds
<1>6. Becomes(p, [c EXCEPT !.pc = pc, !.count = count, !.made = made])
  BY <1>1 DEF Made, Of
<1>7. pc \in {"record", "raised"} /\ pc \in InHand /\ c.pc \in InHand
  BY <1>2 DEF InHand
<1>. HIDE DEF count, pc, made, kept
<1>8. LET d == proc'[p]
      IN  /\ d \in States /\ Sound(d) /\ SameRun(c, d) /\ c.run \in Runs /\ c.todo # {}
          /\ d.todo = c.todo /\ d.pc = pc /\ d.count = count /\ d.made = made
  BY <1>2, <1>3, <1>5, <1>6, <1>7, InHandState
<1>9. /\ calls' = calls \cup {[id |-> FreshCall, run |-> c.run, doc |-> Doc(p),
                               sent |-> answer.sent, error |-> answer.error]}
      /\ paid' = (IF answer.sent THEN paid + 1 ELSE paid)
      /\ UNCHANGED <<outcomes, misses, outputs, clock, begun>>
  BY <1>1 DEF Logs, Justify
<1>10. /\ made = c.made \cup Of(Doc(p), "justification", kept)
       /\ pc # "raised" =>
             \/ count.emitted = [c.count.emitted EXCEPT !["justification"] = kept]
             \/ kept = 0 /\ count.emitted = c.count.emitted
  BY <1>3, <1>4 DEF made
<1>11. Called(p, FreshCall, answer)
  BY <1>2, <1>3, <1>4, <1>7, <1>8, <1>9, <1>10 DEF Called
<1>. QED BY <1>11

\* The rows of a document are made.
Built(p) ==
    LET c == proc[p]
        d == proc'[p]
    IN  /\ c.pc = "build" /\ c.run \in Runs /\ c.todo # {}
        /\ UNCHANGED <<outcomes, misses, calls, outputs, clock, begun, paid>>
        /\ SameRun(c, d) /\ d.todo = c.todo /\ d.count.calls = c.count.calls
        /\ \/ /\ d.pc = "raised"
              /\ \E n \in Nat : d.made = c.made \/ d.made = c.made \cup Of(Doc(p), "filing", n)
           \/ /\ d.pc \in {"record", "justify"}
              /\ \E filing, plan \in Nat :
                    /\ d.made = (c.made \cup Of(Doc(p), "filing", filing)) \cup Of(Doc(p), "plan", plan)
                    /\ d.count.emitted =
                          [c.count.emitted EXCEPT !["filing"] = filing, !["plan"] = plan]
        /\ d \in States /\ Sound(d)

LEMMA BuildDoes == ASSUME Typed, NEW p \in Procs, Build(p) PROVE Built(p)
<1>. DEFINE c == proc[p]
            reading == c.reading
            role == Role(p)
            filing == IF HasFiling(role) THEN 1 ELSE 0
            plan == IF HasPlans(role) THEN reading.plans ELSE 0
            filings == Of(Doc(p), "filing", filing)
            plans == Of(Doc(p), "plan", plan)
            pc == IF reading.raises # "never" THEN "raised"
                  ELSE IF role = "urrt" THEN "record" ELSE "justify"
            count == WithRows(c.count, reading, role)
            made == c.made \cup (IF reading.raises = "early" THEN {}
                                 ELSE IF reading.raises = "late" THEN filings
                                 ELSE filings \cup plans)
<1>1. c \in States /\ Sound(c) /\ c.pc = "build" /\ c.count \in Counts /\ reading \in Reading
      /\ c.made \in SUBSET Things /\ Adds(c.count) /\ c.pc \in InHand
      /\ reading.raises \in {"never", "early", "late"} /\ reading.plans \in Nat
  BY CommandIs DEF Build, States, Sound, Adds, InHand, Reading
<1>2. Becomes(p, [c EXCEPT !.pc = pc, !.count = count, !.made = made])
  BY <1>1 DEF Build, Made, Of
<1>3. filing \in Nat /\ plan \in Nat
  BY <1>1
<1>4. count \in Counts /\ Adds(count) /\ count.calls = c.count.calls
      /\ count.emitted = [c.count.emitted EXCEPT !["filing"] = filing, !["plan"] = plan]
  BY <1>1, WithRowsType
<1>5. Doc(p) \in Docs
  BY <1>1, DocIs DEF Doc, Sound
<1>. HIDE DEF filing, plan
<1>6. filings \subseteq Things /\ plans \subseteq Things
  BY <1>3, <1>5, OfIs DEF Kinds
<1>7. pc \in {"raised", "record", "justify"} /\ pc \in InHand
      /\ (pc = "raised" => reading.raises # "never") /\ (pc # "raised" => reading.raises = "never")
  BY DEF InHand
<1>. HIDE DEF filings, plans
<1>8. made \in SUBSET Things
      /\ (reading.raises # "never" => made = c.made \/ made = c.made \cup filings)
      /\ (reading.raises = "never" => made = (c.made \cup filings) \cup plans)
  BY <1>1, <1>6
<1>. HIDE DEF count, pc, made, role, reading
<1>9. LET d == proc'[p]
      IN  /\ d \in States /\ Sound(d) /\ SameRun(c, d) /\ c.run \in Runs /\ c.todo # {}
          /\ d.todo = c.todo /\ d.pc = pc /\ d.count = count /\ d.made = made
  <2>1. c.pc \in InHand /\ count \in Counts /\ Adds(count) /\ pc \in InHand /\ made \in SUBSET Things
    BY <1>1, <1>4, <1>7, <1>8
  <2>2. PICK n \in Counts, m \in SUBSET Things, at \in InHand : n = count /\ m = made /\ at = pc
    BY <2>1
  <2>3. Becomes(p, [proc[p] EXCEPT !.pc = at, !.count = n, !.made = m]) /\ Adds(n)
    BY <1>2, <2>1, <2>2
  <2>4. LET d == proc'[p]
        IN  /\ d \in States /\ Sound(d) /\ SameRun(c, d) /\ c.run \in Runs /\ c.todo # {}
            /\ d.todo = c.todo /\ d.pc = at /\ d.count = n /\ d.made = m
    <3>1. Typed /\ p \in Procs /\ proc[p].pc \in InHand /\ Adds(n)
          /\ Becomes(p, [proc[p] EXCEPT !.pc = at, !.count = n, !.made = m])
      BY <2>1, <2>3
    <3>2. proc'[p] = [proc[p] EXCEPT !.pc = at, !.count = n, !.made = m]
      BY <2>3, Became
    <3>3. proc'[p].count = n /\ proc'[p].todo = proc[p].todo /\ proc'[p].pc = at
          /\ proc'[p].made = m
      BY <1>1, <3>2 DEF States
    <3>4. proc'[p] \in States /\ Sound(proc'[p]) /\ SameRun(proc[p], proc'[p])
          /\ proc[p].run \in Runs /\ proc[p].todo # {}
      BY <3>1, InHandState
    <3>. QED BY <3>3, <3>4
  <2>. QED BY <2>2, <2>4
<1>10. UNCHANGED <<outcomes, misses, calls, outputs, clock, begun, paid>>
  BY DEF Build, logs
<1>11. CASE pc = "raised"
  <2>1. \E n \in Nat : made = c.made \/ made = c.made \cup Of(Doc(p), "filing", n)
    BY <1>3, <1>7, <1>8, <1>11 DEF filings
  <2>. QED BY <1>1, <1>4, <1>9, <1>10, <1>11, <2>1 DEF Built
<1>12. CASE pc \in {"record", "justify"}
  <2>1. \E m, n \in Nat :
           /\ made = (c.made \cup Of(Doc(p), "filing", m)) \cup Of(Doc(p), "plan", n)
           /\ count.emitted = [c.count.emitted EXCEPT !["filing"] = m, !["plan"] = n]
    BY <1>3, <1>4, <1>7, <1>8, <1>12 DEF filings, plans
  <2>. QED BY <1>1, <1>4, <1>9, <1>10, <1>12, <2>1 DEF Built
<1>. QED BY <1>7, <1>11, <1>12

\* A packet without sections goes straight to its record.
LEMMA NoSectionsDoes ==
    ASSUME Typed, NEW p \in Procs, NoSections(p)
    PROVE  LET c == proc[p]
               d == proc'[p]
           IN  /\ c.pc = "justify" /\ c.run \in Runs /\ c.todo # {}
               /\ UNCHANGED <<outcomes, misses, calls, outputs, clock, begun, paid>>
               /\ SameRun(c, d) /\ d.todo = c.todo /\ d.pc = "record" /\ d.made = c.made
               /\ d.count = c.count /\ d \in States /\ Sound(d)
<1>. DEFINE count == proc[p].count
            made == proc[p].made
<1>1. proc[p] \in States /\ Sound(proc[p]) /\ proc[p].pc = "justify" /\ count \in Counts
      /\ made \in SUBSET Things /\ Adds(count) /\ "record" \in InHand /\ proc[p].pc \in InHand
  BY CommandIs DEF NoSections, States, Sound, Adds, InHand
<1>2. Becomes(p, [proc[p] EXCEPT !.pc = "record", !.count = count, !.made = made])
  <2>1. [proc[p] EXCEPT !.pc = "record"] =
           [proc[p] EXCEPT !.pc = "record", !.count = count, !.made = made]
    BY <1>1 DEF States
  <2>. QED BY <2>1 DEF NoSections
<1>. HIDE DEF count, made
<1>3. LET c == proc[p]
          d == proc'[p]
      IN  /\ d \in States /\ Sound(d) /\ SameRun(c, d) /\ c.run \in Runs /\ c.todo # {}
          /\ d.todo = c.todo /\ d.pc = "record" /\ d.count = count /\ d.made = made
  BY <1>1, <1>2, InHandState
<1>4. UNCHANGED <<outcomes, misses, calls, outputs, clock, begun, paid>>
  BY DEF NoSections, logs
<1>. QED BY <1>1, <1>3, <1>4 DEF count, made

\* What a directory holds of what is made.
Files(run, made) == {[run |-> run, doc |-> m.doc, kind |-> m.kind, n |-> m.n] : m \in made}

\* The rows are written, and the gate is asked.
Closing(p) ==
    LET c == proc[p]
        d == proc'[p]
    IN  /\ c.run \in Runs /\ c.todo = {} /\ UNCHANGED <<outcomes, misses, calls, clock, begun, paid>>
        /\ SameRun(c, d) /\ d.todo = c.todo /\ d.made = c.made
        /\ \/ /\ c.pc = "next" /\ d.pc = "gate" /\ d.exit = 0 /\ outputs' = Written(p, c.made)
           \/ /\ c.pc = "gate" /\ d.pc = "ended" /\ outputs' = outputs
              /\ d.exit = IF c.scope = All /\ ~GatePasses(c.run) THEN 3 ELSE ExitCode(c.run)
        /\ d \in States /\ Sound(d)

LEMMA ClosingDoes ==
    ASSUME Typed, NEW p \in Procs, WriteOutputs(p) \/ Ends(p)
    PROVE  Closing(p)
<1>1. proc[p] \in States /\ Sound(proc[p]) /\ proc[p].pc \in {"next", "gate"} /\ proc[p].todo = {}
  BY CommandIs DEF WriteOutputs, Ends, Sound
<1>2. proc[p].run \in Runs /\ proc[p].exit = 0
  BY <1>1 DEF Sound
<1>3. CASE WriteOutputs(p)
  <2>. DEFINE d == [proc[p] EXCEPT !.pc = "gate"]
  <2>1. d \in States
    BY <1>1 DEF States
  <2>2. d.pc = "gate" /\ d.todo = proc[p].todo /\ d.made = proc[p].made /\ d.exit = 0
        /\ d.count = proc[p].count /\ SameRun(proc[p], d)
    BY <1>1, <1>2 DEF States, SameRun
  <2>3. proc'[p] = d
    BY <1>3, Became DEF WriteOutputs
  <2>. HIDE DEF d
  <2>4. Sound(d)
    BY <1>1, <1>2, <2>2 DEF Sound, SameRun, InHand
  <2>. QED BY <1>1, <1>2, <1>3, <2>1, <2>2, <2>3, <2>4 DEF Closing, WriteOutputs
<1>4. CASE Ends(p)
  <2>. DEFINE exit == IF proc[p].scope = All /\ ~GatePasses(proc[p].run) THEN 3
                      ELSE ExitCode(proc[p].run)
              d == [proc[p] EXCEPT !.pc = "ended", !.exit = exit]
  <2>1. exit \in {0, 1, 3}
    BY DEF ExitCode
  <2>2. proc'[p] = d /\ exit = exit
    BY <1>4, Became DEF Ends
  <2>3. exit = IF proc[p].scope = All /\ ~GatePasses(proc[p].run) THEN 3 ELSE ExitCode(proc[p].run)
    OBVIOUS
  <2>. HIDE DEF exit
  <2>4. d \in States
    BY <1>1, <2>1 DEF States
  <2>5. d.pc = "ended" /\ d.todo = proc[p].todo /\ d.made = proc[p].made /\ d.exit = exit
        /\ d.count = proc[p].count /\ SameRun(proc[p], d)
    BY <1>1, <1>2 DEF States, SameRun
  <2>. HIDE DEF d
  <2>6. Sound(d)
    BY <1>1, <1>2, <2>5 DEF Sound, SameRun, InHand
  <2>7. UNCHANGED <<outcomes, misses, calls, outputs, clock, begun, paid>> /\ proc[p].pc = "gate"
    BY <1>4 DEF Ends, logs
  <2>. QED BY <1>1, <1>2, <2>2, <2>3, <2>4, <2>5, <2>6, <2>7 DEF Closing
<1>. QED BY <1>3, <1>4

\* A killed command keeps nothing but its run id, and may leave some of its misses or its files.
Dead(p) ==
    LET c == proc[p]
        d == proc'[p]
    IN  /\ c.pc \notin {"idle", "ended"} /\ c.run \in Runs
        /\ UNCHANGED <<manifest, outcomes, calls, clock, begun>> /\ paid' \in {paid, paid + 1}
        /\ \/ misses' = misses
           \/ /\ c.todo # {}
              /\ \E n \in Nat : misses' = [misses EXCEPT ![<<c.run, Doc(p)>>] = @ + n]
        /\ outputs' = outputs \/ \E part \in SUBSET c.made : outputs' = Written(p, part)
        /\ d.pc = "idle" /\ d.run = c.run /\ d.exit = Crashed /\ d \in States /\ Sound(d)

LEMMA DiesDoes == ASSUME Typed, NEW p \in Procs, Dies(p) PROVE Dead(p)
<1>1. proc[p] \in States /\ Sound(proc[p]) /\ proc[p].pc \notin {"idle", "ended"}
      /\ proc[p].count.missed \in Nat
  BY CommandIs DEF Dies, States, Counts
<1>2. proc[p].run \in Runs
  BY <1>1 DEF Sound
<1>3. UNCHANGED <<manifest, outcomes, calls, clock, begun>>
  BY DEF Dies
<1>4. paid' \in {paid, paid + 1}
  BY DEF Dies
<1>5. \/ misses' = misses
      \/ /\ proc[p].todo # {}
         /\ \E n \in Nat : misses' = [misses EXCEPT ![<<proc[p].run, Doc(p)>>] = @ + n]
  <2>1. \/ misses' = misses
        \/ proc[p].pc = "record" /\ \E n \in 1 .. proc[p].count.missed : MissedMore(p, n)
    BY DEF Dies
  <2>2. 1 .. proc[p].count.missed \subseteq Nat
    BY <1>1
  <2>. QED BY <1>1, <2>1, <2>2 DEF MissedMore, Sound, InHand
<1>6. outputs' = outputs \/ \E part \in SUBSET proc[p].made : outputs' = Written(p, part)
  BY DEF Dies
<1>. DEFINE d == [Idle EXCEPT !.run = proc[p].run, !.exit = Crashed]
<1>7. proc'[p] = d
  BY Became DEF Dies
<1>8. d = [Idle EXCEPT !.pc = "idle", !.run = proc[p].run, !.exit = Crashed]
  BY IdleType DEF States
<1>9. d.pc = "idle" /\ d.run = proc[p].run /\ d.exit = Crashed
  BY IdleType DEF States
<1>10. d \in States /\ Sound(d)
  BY <1>2, <1>8, RestingSound
<1>. HIDE DEF d
<1>. QED BY <1>1, <1>2, <1>3, <1>4, <1>5, <1>6, <1>7, <1>9, <1>10 DEF Dead

\* A command that begins, on a run id of which the ledger has no row.
Begun(p, run) ==
    LET d == proc'[p]
    IN  /\ clock' \in Runs /\ begun' = [begun EXCEPT ![run] = @ + 1] /\ run \notin UsedRuns
        /\ UNCHANGED <<manifest, logs, paid, faults>>
        /\ d.pc = "next" /\ d.run = run /\ d.known = Known /\ d.broken = Broken
        /\ d.todo = Todo(d.scope) /\ d.made = {} /\ d \in States /\ Sound(d)

LEMMA BeginDoes ==
    ASSUME Typed, NEW p \in Procs, Begin(p)
    PROVE  \E run \in Runs : Begun(p, run)
<1>1. PICK scope \in Scopes, dry \in BOOLEAN, now \in {clock, clock + 1}, run \in Runs :
         /\ NextRunId(now, run) /\ clock' = now /\ begun' = [begun EXCEPT ![run] = @ + 1]
         /\ Becomes(p, [Idle EXCEPT !.pc = "next", !.scope = scope, !.dry = dry, !.run = run,
                            !.known = Known, !.broken = Broken, !.todo = Todo(scope)])
  BY DEF Begin
<1>2. clock' \in Runs /\ run \notin UsedRuns
  <2>1. clock \in Runs /\ MaxCommands \in Nat
    BY ExtractionAssumption DEF Typed, TypeOK
  <2>2. clock' >= clock /\ clock' <= run /\ run <= MaxCommands /\ clock' \in Nat /\ clock >= 1
    BY <1>1, <2>1 DEF NextRunId, Runs
  <2>. QED BY <1>1, <2>1, <2>2 DEF Runs, NextRunId
<1>3. Known \in SUBSET Docs /\ Broken \in SUBSET Docs /\ Todo(scope) \in SUBSET Docs
  BY DEF Known, Broken, Todo
<1>. DEFINE known == Known
            broken == Broken
            todo == Todo(scope)
            d == [Idle EXCEPT !.pc = "next", !.scope = scope, !.dry = dry, !.run = run,
                     !.known = known, !.broken = broken, !.todo = todo]
<1>4. proc'[p] = d
  BY <1>1, Became
<1>. HIDE DEF known, broken, todo
<1>5. d.pc = "next" /\ d.scope = scope /\ d.run = run /\ d.known = known /\ d.broken = broken
      /\ d.todo = todo /\ d.made = {} /\ d.count = Nothing /\ d.exit = 0
  BY IdleType DEF States
<1>6. d \in States
  BY <1>3, IdleType DEF known, broken, todo, States
<1>. HIDE DEF d
<1>7. Sound(d)
  BY <1>5, NothingType DEF Sound, InHand
<1>8. UNCHANGED <<manifest, logs, paid, faults>>
  BY DEF Begin
<1>9. Begun(p, run)
  BY <1>1, <1>2, <1>4, <1>5, <1>6, <1>7, <1>8 DEF Begun, known, broken, todo
<1>. QED BY <1>9

LEMMA RefuseDoes ==
    ASSUME Typed, NEW p \in Procs, Refuse(p)
    PROVE  LET d == proc'[p]
           IN  /\ UNCHANGED <<manifest, logs, clock, begun, paid, faults>>
               /\ d.run = 0 /\ d.pc = "ended" /\ d \in States /\ Sound(d)
<1>. DEFINE d == [Idle EXCEPT !.pc = "ended", !.exit = 1]
<1>1. proc'[p] = d
  BY Became DEF Refuse
<1>2. d = [Idle EXCEPT !.pc = "ended", !.run = 0, !.exit = 1]
  BY IdleType DEF States
<1>3. d.run = 0 /\ d.pc = "ended"
  BY IdleType DEF States
<1>4. d \in States /\ Sound(d)
  BY <1>2, RestingSound
<1>. HIDE DEF d
<1>. QED BY <1>1, <1>3, <1>4 DEF Refuse

-----------------------------------------------------------------------------
(* The type invariant *)

\* What a step of p is.
Moves(p) ==
    \/ \E row : FinishedWith(p, row)
    \/ Opened(p)
    \/ \E answer : Called(p, FreshCall, answer)
    \/ Built(p)
    \/ NoSections(p)
    \/ Closing(p)

\* A step is one of these seven.
LEMMA StepMoves ==
    ASSUME Typed, NEW p \in Procs, Step(p)
    PROVE  /\ Moves(p) /\ UNCHANGED <<manifest, faults>>
           /\ \A q \in Procs \ {p} : proc'[q] = proc[q]
           /\ proc' \in [Procs -> States] /\ \A q \in Procs : Sound(proc'[q])
<1>1. Moves(p)
  BY FinishingDoes, OpenDoes, IdentityDoes, JustifyDoes, BuildDoes, ClosingDoes
  DEF Step, Moves, Finishing
<1>2. \E state : Becomes(p, state)
  BY DEF Step, Unresolvable, Skip, Unreadable, Open, Identity, Build, Justify, NoSections, Record,
         RecordFailure, WriteOutputs, Ends, Finish, GoesOn
<1>3. proc'[p] \in States /\ Sound(proc'[p])
  BY <1>1, NoSectionsDoes DEF Moves, FinishedWith, Opened, Called, Built, Closing
<1>4. UNCHANGED <<manifest, faults>>
  BY DEF Step, Unresolvable, Skip, Unreadable, Open, Identity, Build, Justify, NoSections, Record,
         RecordFailure, WriteOutputs, Ends
<1>. QED BY <1>1, <1>2, <1>3, <1>4, Became

OutputType == [run : Runs, doc : Docs, kind : Kinds, n : Nat]

\* What is written are rows of output files.
LEMMA WrittenType ==
    ASSUME Typed, NEW p \in Procs, proc[p].run \in Runs, NEW part \in SUBSET proc[p].made
    PROVE  Written(p, part) \subseteq OutputType
<1>1. proc[p].made \subseteq Things /\ outputs \subseteq OutputType
  BY CommandIs DEF States, Typed, TypeOK, OutputType
<1>. QED BY <1>1 DEF Written, Things, OutputType

LEMMA MissesType ==
    ASSUME Typed, NEW run \in Runs, NEW d \in Docs, NEW n \in Nat
    PROVE  [misses EXCEPT ![<<run, d>>] = @ + n] \in [Runs \X Docs -> Nat]
BY DEF Typed, TypeOK

LEMMA StepTyped ==
    ASSUME Typed, NEW p \in Procs, Step(p)
    PROVE  Typed'
<1>1. /\ Moves(p) /\ UNCHANGED <<manifest, faults>>
      /\ proc' \in [Procs -> States] /\ \A q \in Procs : Sound(proc'[q])
  BY StepMoves
<1>2. /\ outcomes \in Seq(Rows) /\ misses \in [Runs \X Docs -> Nat] /\ calls \subseteq Call
      /\ outputs \subseteq OutputType /\ clock \in Runs /\ begun \in [Runs -> Nat] /\ paid \in Nat
      /\ IsFiniteSet(calls)
  BY DEF Typed, TypeOK, OutputType
<1>3. outcomes' \in Seq(Rows)
  <2>1. outcomes' = outcomes \/ \E row \in Rows : outcomes' = Append(outcomes, row)
    BY <1>1, NoSectionsDoes DEF Moves, FinishedWith, Opened, Called, Built, Closing
  <2>. QED BY <1>2, <2>1
<1>4. misses' \in [Runs \X Docs -> Nat]
  <2>1. CASE \E row : FinishedWith(p, row)
    <3>1. PICK row : FinishedWith(p, row)
      BY <2>1
    <3>2. proc[p].run \in Runs /\ Doc(p) \in Docs /\ row.missed \in Nat
          /\ misses' = [misses EXCEPT ![<<proc[p].run, Doc(p)>>] = @ + row.missed]
      BY <3>1, DocIs, CommandIs DEF FinishedWith, Doc, Rows
    <3>. QED BY <3>2, MissesType
  <2>2. CASE ~\E row : FinishedWith(p, row)
    BY <1>1, <1>2, <2>2, NoSectionsDoes DEF Moves, Opened, Called, Built, Closing
  <2>. QED BY <2>1, <2>2
<1>5. calls' \subseteq Call /\ IsFiniteSet(calls') /\ paid' \in Nat
  <2>1. CASE \E answer : Called(p, FreshCall, answer)
    <3>1. PICK answer \in Answer : Called(p, FreshCall, answer)
      BY <2>1 DEF Called
    <3>. DEFINE call == [id |-> FreshCall, run |-> proc[p].run, doc |-> Doc(p),
                         sent |-> answer.sent, error |-> answer.error]
    <3>2. calls' = calls \cup {call} /\ proc[p].run \in Runs /\ Doc(p) \in Docs
      BY <3>1, CommandIs, DocIs DEF Called, Doc
    <3>3. call \in Call
      BY <3>2, FreshCallIs DEF Call, Answer
    <3>4. paid' \in Nat
      BY <1>2, <3>1 DEF Called
    <3>. HIDE DEF call
    <3>. QED BY <1>2, <3>2, <3>3, <3>4, FS_AddElement
  <2>2. CASE ~\E answer : Called(p, FreshCall, answer)
    <3>1. calls' = calls /\ paid' = paid
      <4>1. CASE \E row : FinishedWith(p, row)
        <5>1. paid' = paid
          BY <2>2, IdentityDoes, JustifyDoes
          DEF Step, Unresolvable, Skip, Unreadable, Open, Build, NoSections, Record,
              RecordFailure, WriteOutputs, Ends
        <5>. QED BY <4>1, <5>1 DEF FinishedWith
      <4>2. CASE ~\E row : FinishedWith(p, row)
        BY <1>1, <2>2, <4>2, NoSectionsDoes DEF Moves, Opened, Built, Closing
      <4>. QED BY <4>1, <4>2
    <3>. QED BY <1>2, <3>1
  <2>. QED BY <2>1, <2>2
<1>6. outputs' \subseteq OutputType
  <2>1. outputs' = outputs \/ (proc[p].run \in Runs /\ outputs' = Written(p, proc[p].made))
    BY <1>1, NoSectionsDoes DEF Moves, FinishedWith, Opened, Called, Built, Closing
  <2>. QED BY <1>2, <2>1, WrittenType
<1>7. clock' = clock /\ begun' = begun
  BY <1>1, NoSectionsDoes DEF Moves, FinishedWith, Opened, Called, Built, Closing
<1>. QED BY <1>1, <1>2, <1>3, <1>4, <1>5, <1>6, <1>7 DEF Typed, TypeOK, States, InHand, OutputType

LEMMA RestTyped ==
    ASSUME Typed, NEW p \in Procs, Refuse(p) \/ Begin(p) \/ Dies(p)
    PROVE  Typed'
<1>1. /\ outcomes \in Seq(Rows) /\ misses \in [Runs \X Docs -> Nat] /\ calls \subseteq Call
      /\ outputs \subseteq OutputType /\ clock \in Runs /\ begun \in [Runs -> Nat] /\ paid \in Nat
      /\ IsFiniteSet(calls) /\ faults \in 0 .. MaxFaults
      /\ manifest \in [Docs -> {"absent", "stored", "unresolvable"}]
  BY DEF Typed, TypeOK, OutputType
<1>2. \E state : Becomes(p, state)
  BY DEF Refuse, Begin, Dies
<1>3. proc'[p] \in States /\ Sound(proc'[p])
  BY RefuseDoes, BeginDoes, DiesDoes DEF Begun, Dead
<1>4. proc' \in [Procs -> States] /\ \A q \in Procs : Sound(proc'[q])
  BY <1>2, <1>3, Became
<1>5. CASE Refuse(p)
  <2>1. UNCHANGED <<manifest, logs, clock, begun, paid, faults>>
    BY <1>5 DEF Refuse
  <2>. QED BY <1>1, <1>4, <2>1 DEF Typed, TypeOK, States, InHand, OutputType, logs
<1>6. CASE Begin(p)
  <2>1. PICK run \in Runs : Begun(p, run)
    BY <1>6, BeginDoes
  <2>2. UNCHANGED <<manifest, logs, paid, faults>> /\ clock' \in Runs /\ begun' \in [Runs -> Nat]
    <3>1. begun[run] + 1 \in Nat
      BY <1>1
    <3>. QED BY <1>1, <2>1, <3>1 DEF Begun
  <2>. QED BY <1>1, <1>4, <2>2 DEF Typed, TypeOK, States, InHand, OutputType, logs
<1>7. CASE Dies(p)
  <2>1. Dead(p)
    BY <1>7, DiesDoes
  <2>2. misses' \in [Runs \X Docs -> Nat]
    <3>1. CASE misses' = misses
      BY <1>1, <3>1
    <3>2. CASE misses' # misses
      <4>1. PICK n \in Nat : misses' = [misses EXCEPT ![<<proc[p].run, Doc(p)>>] = @ + n]
        BY <2>1, <3>2 DEF Dead
      <4>2. proc[p].run \in Runs /\ Doc(p) \in Docs
        BY <2>1, <3>2, CommandIs, DocIs DEF Dead, Doc
      <4>. QED BY <4>1, <4>2, MissesType
    <3>. QED BY <3>1, <3>2
  <2>3. outputs' \subseteq OutputType
    <3>1. proc[p].run \in Runs
          /\ (outputs' = outputs \/ \E part \in SUBSET proc[p].made : outputs' = Written(p, part))
      BY <2>1 DEF Dead
    <3>. QED BY <1>1, <3>1, WrittenType
  <2>4. faults' \in 0 .. MaxFaults
    BY <1>1, <1>7, ExtractionAssumption DEF Dies, Fault
  <2>5. paid' \in Nat
    BY <1>1, <2>1 DEF Dead
  <2>6. UNCHANGED <<manifest, outcomes, calls, clock, begun>>
    BY <2>1 DEF Dead
  <2>. QED BY <1>1, <1>4, <2>2, <2>3, <2>4, <2>5, <2>6 DEF Typed, TypeOK, States, InHand, OutputType
<1>. QED BY <1>5, <1>6, <1>7

LEMMA InitTyped == ASSUME Init PROVE Typed
<1>1. proc \in [Procs -> States] /\ \A p \in Procs : Sound(proc[p]) /\ proc[p] = Idle
  <2>1. Idle \in States /\ Sound(Idle)
    BY IdleType, NothingType DEF Sound, InHand
  <2>. QED BY <2>1 DEF Init
<1>2. manifest \in [Docs -> {"absent", "stored", "unresolvable"}]
  BY DEF Init
<1>3. outcomes \in Seq(Rows) /\ misses \in [Runs \X Docs -> Nat] /\ calls = {}
      /\ outputs = {} /\ begun \in [Runs -> Nat] /\ paid \in Nat
  BY DEF Init
<1>4. clock \in Runs /\ faults \in 0 .. MaxFaults
  BY ExtractionAssumption DEF Init, Runs
<1>5. IsFiniteSet(calls)
  BY <1>3, FS_EmptySet
<1>. QED BY <1>1, <1>2, <1>3, <1>4, <1>5 DEF Typed, TypeOK, States, InHand

LEMMA StutterTyped == ASSUME Typed, UNCHANGED vars PROVE Typed'
BY DEF Typed, TypeOK, vars, logs

LEMMA IngestTyped == ASSUME Typed, NEW d \in Docs, Ingest(d) PROVE Typed'
<1>1. manifest' \in [Docs -> {"absent", "stored", "unresolvable"}]
  BY DEF Ingest, Typed, TypeOK
<1>2. faults' \in 0 .. MaxFaults
  BY ExtractionAssumption DEF Ingest, Fault, Typed, TypeOK
<1>3. UNCHANGED <<logs, clock, begun, paid, proc>>
  BY DEF Ingest
<1>. QED BY <1>1, <1>2, <1>3 DEF Typed, TypeOK, logs

LEMMA TypedHolds == Spec => []Typed
<1>1. Init => Typed
  BY InitTyped
<1>2. Typed /\ [Next]_vars => Typed'
  <2>. SUFFICES ASSUME Typed, [Next]_vars PROVE Typed'
    OBVIOUS
  <2>. QED BY StepTyped, RestTyped, StutterTyped, IngestTyped DEF Next
<1>. QED BY <1>1, <1>2, PTL DEF Spec

\* Every variable of the extract commands and their ledger has its type.
THEOREM ExtractionTypeOKHolds == Spec => []TypeOK
<1>1. Typed => TypeOK
  BY DEF Typed
<1>. QED BY <1>1, TypedHolds, PTL

\* Validation and the warehouse take the same run of a filing, after any runs, dry or live, in
\* any order of seconds, and whatever the rows say.
THEOREM ReadersAgreeHolds == Spec => []ReadersAgree
<1>1. Typed => ReadersAgree
  BY ReadersAgreeNow DEF Typed, TypeOK
<1>. QED BY <1>1, TypedHolds, PTL

-----------------------------------------------------------------------------
(* The rows of the calls *)

Sent == {c \in calls : c.sent}

\* A fresh id is one no row has; and of what was paid only what a kill lost has no row.
LoggedInv ==
    /\ \A c \in calls : c.id <= Cardinality(calls)
    /\ EveryCallLogged

LEMMA SentIs ==
    ASSUME Typed
    PROVE  /\ IsFiniteSet(Sent) /\ Cardinality(Sent) \in Nat /\ Cardinality(calls) \in Nat
           /\ IsFiniteSet(calls) /\ (EveryCallLogged <=> Cardinality(Sent) + faults >= paid)
           /\ faults \in Nat /\ paid \in Nat
<1>1. IsFiniteSet(calls) /\ Sent \subseteq calls
  BY DEF Typed, Sent
<1>2. faults \in Nat /\ paid \in Nat
  BY ExtractionAssumption DEF Typed, TypeOK
<1>3. EveryCallLogged <=> Cardinality(Sent) + faults >= paid
  BY DEF EveryCallLogged, Sent
<1>. QED BY <1>1, <1>2, <1>3, FS_Subset, FS_CardinalityType

\* A call appends one row for what may have been paid.
LEMMA CalledLogs ==
    ASSUME Typed, LoggedInv, NEW p \in Procs, NEW answer, Called(p, FreshCall, answer), faults' = faults
    PROVE  LoggedInv'
<1>. DEFINE call == [id |-> FreshCall, run |-> proc[p].run, doc |-> Doc(p),
                     sent |-> answer.sent, error |-> answer.error]
<1>1. calls' = calls \cup {call} /\ call.id = Cardinality(calls) + 1 /\ call.sent = answer.sent
      /\ paid' = (IF answer.sent THEN paid + 1 ELSE paid) /\ answer.sent \in BOOLEAN
  BY FreshCallIs DEF Called, Answer
<1>. HIDE DEF call
<1>2. \A c \in calls : c.id <= Cardinality(calls) /\ c.id \in Nat
  BY DEF LoggedInv, Typed, TypeOK, Call
<1>3. call \notin calls
  BY <1>1, <1>2, SentIs
<1>4. Cardinality(calls') = Cardinality(calls) + 1
  BY <1>1, <1>3, SentIs, FS_AddElement
<1>5. \A c \in calls' : c.id <= Cardinality(calls')
  BY <1>1, <1>2, <1>4, SentIs
<1>6. Cardinality(Sent') = IF answer.sent THEN Cardinality(Sent) + 1 ELSE Cardinality(Sent)
  <2>1. Sent' = IF answer.sent THEN Sent \cup {call} ELSE Sent
    BY <1>1 DEF Sent
  <2>2. call \notin Sent
    BY <1>3 DEF Sent
  <2>. QED BY <2>1, <2>2, SentIs, FS_AddElement
<1>7. EveryCallLogged'
  <2>1. Cardinality(Sent)+ faults >= paid
    BY SentIs DEF LoggedInv
  <2>2. Cardinality(Sent') + faults' >= paid'
    BY <1>1, <1>6, <2>1, SentIs
  <2>. QED BY <2>2 DEF EveryCallLogged, Sent
<1>. QED BY <1>5, <1>7 DEF LoggedInv

\* Other steps pay nothing, but for a kill.
LEMMA NotCalledLogs ==
    ASSUME Typed, LoggedInv, calls' = calls, faults' \in {faults, faults + 1},
           paid' \in {paid, paid + 1}, paid' # paid => faults' = faults + 1
    PROVE  LoggedInv'
<1>1. Cardinality(Sent) + faults >= paid
  BY SentIs DEF LoggedInv
<1>2. Cardinality(Sent') + faults' >= paid'
  <2>1. Sent' = Sent
    BY DEF Sent
  <2>. QED BY <1>1, <2>1, SentIs
<1>. QED BY <1>2 DEF LoggedInv, EveryCallLogged, Sent

LEMMA LoggedInvHolds == Spec => []LoggedInv
<1>1. Init => LoggedInv
  <2>. SUFFICES ASSUME Init PROVE LoggedInv
    OBVIOUS
  <2>1. calls = {} /\ paid = 0 /\ faults = 0 /\ {c \in calls : c.sent} = {}
    BY DEF Init
  <2>2. Cardinality({c \in calls : c.sent}) = 0
    BY <2>1, FS_EmptySet
  <2>. QED BY <2>1, <2>2 DEF LoggedInv, EveryCallLogged
<1>2. Typed /\ LoggedInv /\ [Next]_vars => LoggedInv'
  <2>. SUFFICES ASSUME Typed, LoggedInv, [Next]_vars PROVE LoggedInv'
    OBVIOUS
  <2>1. ASSUME NEW p \in Procs, Step(p) PROVE LoggedInv'
    <3>1. faults' = faults
      BY <2>1, StepMoves
    <3>2. CASE Identity(p) \/ Justify(p)
      BY <3>1, <3>2, IdentityDoes, JustifyDoes, CalledLogs
    <3>3. CASE ~(Identity(p) \/ Justify(p))
      <4>1. calls' = calls /\ paid' = paid
        BY <2>1, <3>3 DEF Step, Unresolvable, Skip, Unreadable, Open, Build, NoSections, Record,
                          RecordFailure, WriteOutputs, Ends, logs
      <4>. QED BY <3>1, <4>1, NotCalledLogs
    <3>. QED BY <3>2, <3>3
  <2>2. ASSUME NEW p \in Procs, Dies(p) PROVE LoggedInv'
    <3>1. calls' = calls /\ paid' \in {paid, paid + 1} /\ faults' = faults + 1
      BY <2>2, DiesDoes DEF Dead, Dies, Fault
    <3>. QED BY <3>1, NotCalledLogs
  <2>3. ASSUME NEW p \in Procs, Refuse(p) \/ Begin(p) PROVE LoggedInv'
    <3>1. calls' = calls /\ paid' = paid /\ faults' = faults
      BY <2>3 DEF Refuse, Begin, logs
    <3>. QED BY <3>1, NotCalledLogs
  <2>4. ASSUME NEW d \in Docs, Ingest(d) PROVE LoggedInv'
    <3>1. calls' = calls /\ paid' = paid /\ faults' = faults + 1
      BY <2>4 DEF Ingest, Fault, logs
    <3>. QED BY <3>1, NotCalledLogs
  <2>5. CASE UNCHANGED vars
    <3>1. calls' = calls /\ paid' = paid /\ faults' = faults
      BY <2>5 DEF vars, logs
    <3>. QED BY <3>1, NotCalledLogs
  <2>. QED BY <2>1, <2>2, <2>3, <2>4, <2>5 DEF Next
<1>. QED BY <1>1, <1>2, TypedHolds, PTL DEF Spec

\* Every request the API answered has its row in the cost log, but for at most one to a fault (a
\* kill, or a change of the manifest, which the same bound counts), whatever comes of the answer
\* and however many commands send requests at once.
THEOREM EveryCallLoggedHolds == Spec => []EveryCallLogged
<1>1. LoggedInv => EveryCallLogged
  BY DEF LoggedInv
<1>. QED BY <1>1, LoggedInvHolds, PTL

-----------------------------------------------------------------------------
(* What the logs hold of a run *)

LedgerOf(run) == [i \in OutcomesOf(run) |-> outcomes[i]]
MissesOf(run) == [d \in Docs |-> misses[<<run, d>>]]
CallsOf(run)  == {x \in calls : x.run = run}
FilesOf(run)  == {o \in outputs : o.run = run}

SameLogs(run) ==
    /\ LedgerOf(run)' = LedgerOf(run) /\ MissesOf(run)' = MissesOf(run)
    /\ CallsOf(run)' = CallsOf(run) /\ FilesOf(run)' = FilesOf(run)

\* What an appended row adds to the ledger of its run, and to no other.
LEMMA AppendIs ==
    ASSUME Typed, NEW row \in Rows, outcomes' = Append(outcomes, row)
    PROVE  \E n : /\ DOMAIN outcomes' = DOMAIN outcomes \cup {n} /\ n \notin DOMAIN outcomes
                  /\ outcomes'[n] = row /\ \A i \in DOMAIN outcomes : outcomes'[i] = outcomes[i]
<1>. DEFINE n == Len(outcomes) + 1
<1>1. outcomes \in Seq(Rows)
  BY DEF Typed, TypeOK
<1>2. DOMAIN outcomes' = DOMAIN outcomes \cup {n} /\ n \notin DOMAIN outcomes
  BY <1>1
<1>3. outcomes'[n] = row /\ \A i \in DOMAIN outcomes : outcomes'[i] = outcomes[i]
  BY <1>1
<1>. QED BY <1>2, <1>3

\* A row is appended to the ledger of its run, and to no other.
LEMMA LedgerGrows ==
    ASSUME Typed, NEW row \in Rows, outcomes' = Append(outcomes, row)
    PROVE  /\ \A run : run # row.run => LedgerOf(run)' = LedgerOf(run)
           /\ LET L == LedgerOf(row.run)
                  N == LedgerOf(row.run)'
              IN  \E n : /\ DOMAIN N = DOMAIN L \cup {n} /\ n \notin DOMAIN L /\ N[n] = row
                         /\ \A i \in DOMAIN L : N[i] = L[i]
<1>1. PICK n : /\ DOMAIN outcomes' = DOMAIN outcomes \cup {n} /\ n \notin DOMAIN outcomes
               /\ outcomes'[n] = row /\ \A i \in DOMAIN outcomes : outcomes'[i] = outcomes[i]
  BY AppendIs
<1>2. ASSUME NEW run, run # row.run PROVE LedgerOf(run)' = LedgerOf(run)
  <2>1. OutcomesOf(run)' = OutcomesOf(run)
    BY <1>1, <1>2 DEF OutcomesOf
  <2>2. \A i \in OutcomesOf(run) : outcomes'[i] = outcomes[i]
    BY <1>1 DEF OutcomesOf
  <2>. QED BY <2>1, <2>2 DEF LedgerOf
<1>3. OutcomesOf(row.run)' = OutcomesOf(row.run) \cup {n} /\ n \notin OutcomesOf(row.run)
  BY <1>1 DEF OutcomesOf
<1>4. \A i \in OutcomesOf(row.run) : outcomes'[i] = outcomes[i]
  BY <1>1 DEF OutcomesOf
<1>. QED BY <1>1, <1>2, <1>3, <1>4 DEF LedgerOf

\* Misses are added to one run and one document.
LEMMA MissesGrow ==
    ASSUME Typed, NEW run \in Runs, NEW d \in Docs, NEW n \in Nat,
           misses' = [misses EXCEPT ![<<run, d>>] = @ + n]
    PROVE  /\ \A other \in Runs : other # run => MissesOf(other)' = MissesOf(other)
           /\ MissesOf(run)'[d] = MissesOf(run)[d] + n
           /\ \A x \in Docs : x # d => MissesOf(run)'[x] = MissesOf(run)[x]
<1>1. misses \in [Runs \X Docs -> Nat] /\ <<run, d>> \in Runs \X Docs
  BY DEF Typed, TypeOK
<1>2. \A other \in Runs, x \in Docs :
         misses'[<<other, x>>] = IF other = run /\ x = d THEN misses[<<run, d>>] + n
                                 ELSE misses[<<other, x>>]
  BY <1>1
<1>. QED BY <1>2 DEF MissesOf

\* Files are written to one run's directory.
LEMMA FilesGrow ==
    ASSUME Typed, NEW p \in Procs, NEW part, outputs' = Written(p, part)
    PROVE  /\ \A other : other # proc[p].run => FilesOf(other)' = FilesOf(other)
           /\ \A run : run = proc[p].run /\ FilesOf(run) = {} => FilesOf(run)' = Files(run, part)
<1>. DEFINE same(o) == \E m \in part : /\ o.run = proc[p].run /\ o.kind = m.kind
                                       /\ FilingOf[o.doc] = FilingOf[m.doc]
            new == Files(proc[p].run, part)
<1>1. outputs' = {o \in outputs : ~same(o)} \cup new
  BY DEF Written, Files
<1>2. \A o \in new : o.run = proc[p].run
  BY DEF Files
<1>. HIDE DEF new
<1>3. \A other : other # proc[p].run => FilesOf(other)' = FilesOf(other)
  BY <1>1, <1>2 DEF FilesOf
<1>4. ASSUME NEW run, run = proc[p].run, FilesOf(run) = {} PROVE FilesOf(run)' = new
  BY <1>1, <1>2, <1>4 DEF FilesOf
<1>. QED BY <1>3, <1>4 DEF new

\* A command writes of its own run alone.
LEMMA WritesOwn ==
    ASSUME Typed, NEW p \in Procs, Step(p) \/ Dies(p)
    PROVE  /\ proc[p].run \in Runs /\ begun' = begun /\ proc'[p].run = proc[p].run
           /\ \A q \in Procs \ {p} : proc'[q] = proc[q]
           /\ \A run \in Runs : run # proc[p].run => SameLogs(run)
<1>1. \A q \in Procs \ {p} : proc'[q] = proc[q]
  <2>1. CASE Step(p)
    BY <2>1, StepMoves
  <2>2. CASE Dies(p)
    <3>1. \E state : Becomes(p, state)
      BY <2>2 DEF Dies
    <3>. QED BY <3>1, Became
  <2>. QED BY <2>1, <2>2
<1>2. CASE Step(p)
  <2>1. Moves(p)
    BY <1>2, StepMoves
  <2>2. proc[p].run \in Runs /\ begun' = begun /\ proc'[p].run = proc[p].run
    BY <2>1, NoSectionsDoes DEF Moves, FinishedWith, Opened, Called, Built, Closing, SameRun
  <2>. SUFFICES ASSUME NEW run \in Runs, run # proc[p].run PROVE SameLogs(run)
    BY <1>1, <2>2
  <2>3. CASE \E row : FinishedWith(p, row)
    <3>1. PICK row \in Rows : FinishedWith(p, row)
      BY <2>3 DEF FinishedWith
    <3>2. outcomes' = Append(outcomes, row) /\ row.run = proc[p].run /\ row.missed \in Nat
          /\ Doc(p) \in Docs /\ UNCHANGED <<calls, outputs>>
          /\ misses' = [misses EXCEPT ![<<proc[p].run, Doc(p)>>] = @ + row.missed]
      BY <3>1, DocIs, CommandIs DEF FinishedWith, Doc, Rows
    <3>3. LedgerOf(run)' = LedgerOf(run)
      BY <3>2, LedgerGrows
    <3>4. MissesOf(run)' = MissesOf(run)
      BY <2>2, <3>2, MissesGrow
    <3>. QED BY <3>2, <3>3, <3>4 DEF SameLogs, CallsOf, FilesOf
  <2>4. CASE \E answer : Called(p, FreshCall, answer)
    <3>1. PICK answer : Called(p, FreshCall, answer)
      BY <2>4
    <3>2. UNCHANGED <<outcomes, misses, outputs>>
      BY <3>1 DEF Called
    <3>3. CallsOf(run)' = CallsOf(run)
      BY <3>1 DEF Called, CallsOf
    <3>. QED BY <3>2, <3>3 DEF SameLogs, LedgerOf, OutcomesOf, MissesOf, FilesOf
  <2>5. CASE Closing(p)
    <3>1. UNCHANGED <<outcomes, misses, calls>>
      BY <2>5 DEF Closing
    <3>2. FilesOf(run)' = FilesOf(run)
      BY <2>5, FilesGrow DEF Closing, FilesOf
    <3>. QED BY <3>1, <3>2 DEF SameLogs, LedgerOf, OutcomesOf, MissesOf, CallsOf
  <2>6. CASE Opened(p) \/ Built(p) \/ NoSections(p)
    <3>1. UNCHANGED <<outcomes, misses, calls, outputs>>
      BY <2>6, NoSectionsDoes DEF Opened, Built
    <3>. QED BY <3>1 DEF SameLogs, LedgerOf, OutcomesOf, MissesOf, CallsOf, FilesOf
  <2>. QED BY <2>1, <2>3, <2>4, <2>5, <2>6 DEF Moves
<1>3. CASE Dies(p)
  <2>1. Dead(p)
    BY <1>3, DiesDoes
  <2>2. proc[p].run \in Runs /\ begun' = begun /\ proc'[p].run = proc[p].run
        /\ UNCHANGED <<outcomes, calls>>
    BY <2>1 DEF Dead
  <2>. SUFFICES ASSUME NEW run \in Runs, run # proc[p].run PROVE SameLogs(run)
    BY <1>1, <2>2
  <2>3. MissesOf(run)' = MissesOf(run)
    <3>1. CASE misses' = misses
      BY <3>1 DEF MissesOf
    <3>2. CASE misses' # misses
      <4>1. PICK n \in Nat : misses' = [misses EXCEPT ![<<proc[p].run, Doc(p)>>] = @ + n]
        BY <2>1, <3>2 DEF Dead
      <4>2. Doc(p) \in Docs
        BY <2>1, <3>2, CommandIs, DocIs DEF Dead, Doc
      <4>. QED BY <2>2, <4>1, <4>2, MissesGrow
    <3>. QED BY <3>1, <3>2
  <2>4. FilesOf(run)' = FilesOf(run)
    <3>1. CASE outputs' = outputs
      BY <3>1 DEF FilesOf
    <3>2. CASE outputs' # outputs
      <4>1. PICK part : outputs' = Written(p, part)
        BY <2>1, <3>2 DEF Dead
      <4>. QED BY <4>1, FilesGrow
    <3>. QED BY <3>1, <3>2
  <2>. QED BY <2>2, <2>3, <2>4 DEF SameLogs, LedgerOf, OutcomesOf, CallsOf
<1>. QED BY <1>2, <1>3

\* A run nobody began has left nothing.
Unused(run) ==
    /\ OutcomesOf(run) = {} /\ CallsOf(run) = {} /\ FilesOf(run) = {}
    /\ \A d \in Docs : misses[<<run, d>>] = 0

\* A command's run id has been counted, two commands' twice, and one never counted is unused.
CountInv ==
    /\ \A p \in Procs : proc[p].run # 0 => begun[proc[p].run] # 0
    /\ \A p, q \in Procs : p # q /\ proc[p].run = proc[q].run => ~Own(proc[p].run)
    /\ \A run \in Runs : begun[run] = 0 => Unused(run)

\* A run whose logs stay remains unused.
LEMMA SameUnused ==
    ASSUME NEW run \in Runs, SameLogs(run), Unused(run)
    PROVE  Unused(run)'
<1>1. OutcomesOf(run) = DOMAIN LedgerOf(run) /\ OutcomesOf(run)' = DOMAIN LedgerOf(run)'
  BY DEF LedgerOf
<1>2. \A d \in Docs : misses[<<run, d>>] = MissesOf(run)[d] /\ misses'[<<run, d>>] = MissesOf(run)'[d]
  BY DEF MissesOf
<1>. QED BY <1>1, <1>2 DEF SameLogs, Unused

LEMMA CountInvHolds == Spec => []CountInv
<1>1. Init => CountInv
  <2>. SUFFICES ASSUME Init PROVE CountInv
    OBVIOUS
  <2>1. \A p \in Procs : proc[p].run = 0
    BY IdleType DEF Init
  <2>2. \A run \in Runs : Unused(run)
    BY DEF Init, Unused, OutcomesOf, CallsOf, FilesOf
  <2>. QED BY <2>1, <2>2 DEF CountInv, Own
<1>2. Typed /\ CountInv /\ [Next]_vars => CountInv'
  <2>. SUFFICES ASSUME Typed, CountInv, [Next]_vars PROVE CountInv'
    OBVIOUS
  <2>1. ASSUME NEW p \in Procs, Step(p) \/ Dies(p) PROVE CountInv'
    <3>1. proc[p].run \in Runs /\ begun' = begun /\ \A q \in Procs : proc'[q].run = proc[q].run
      BY <2>1, WritesOwn
    <3>2. begun[proc[p].run] # 0 /\ proc[p].run # 0
      BY <3>1, ExtractionAssumption DEF CountInv, Runs
    <3>3. \A run \in Runs : begun[run] = 0 => Unused(run)'
      BY <2>1, <3>2, WritesOwn, SameUnused DEF CountInv
    <3>. QED BY <3>1, <3>3 DEF CountInv, Own
  <2>2. ASSUME NEW p \in Procs, Begin(p) PROVE CountInv'
    <3>1. PICK run \in Runs : Begun(p, run)
      BY <2>2, BeginDoes
    <3>2. begun \in [Runs -> Nat] /\ run # 0
          /\ \A q \in Procs : proc[q].run \in Runs \cup {0}
      BY ExtractionAssumption, CommandIs DEF Typed, TypeOK, Runs, States
    <3>3. begun'[run] = begun[run] + 1 /\ begun'[run] # 0
          /\ \A r \in Runs : r # run => begun'[r] = begun[r]
      BY <3>1, <3>2 DEF Begun
    <3>4. proc'[p].run = run /\ \A q \in Procs \ {p} : proc'[q] = proc[q]
      <4>1. \E state : Becomes(p, state)
        BY <2>2 DEF Begin
      <4>. QED BY <3>1, <4>1, Became DEF Begun
    <3>5. ASSUME NEW q \in Procs PROVE proc'[q].run # 0 => begun'[proc'[q].run] # 0
      BY <3>2, <3>3, <3>4 DEF CountInv
    <3>6. ASSUME NEW q \in Procs, NEW o \in Procs, q # o, proc'[q].run = proc'[o].run
          PROVE  ~(proc'[q].run # 0 /\ begun'[proc'[q].run] = 1)
      <4>1. CASE proc'[q].run = run
        <5>1. PICK x \in Procs \ {p} : proc[x].run = run
          BY <3>4, <3>6, <4>1
        <5>2. begun[run] # 0 /\ begun[run] \in Nat
          BY <3>2, <5>1 DEF CountInv
        <5>. QED BY <3>3, <4>1, <5>2
      <4>2. CASE proc'[q].run # run
        <5>1. proc'[q] = proc[q] /\ proc'[o] = proc[o] /\ proc[q].run # run
          BY <3>4, <3>6, <4>2
        <5>2. ~Own(proc[q].run)
          BY <3>6, <5>1 DEF CountInv
        <5>. QED BY <3>2, <3>3, <5>1, <5>2 DEF Own
      <4>. QED BY <4>1, <4>2
    <3>7. ASSUME NEW r \in Runs, begun'[r] = 0 PROVE Unused(r)'
      <4>1. Unused(r)
        BY <3>3, <3>7 DEF CountInv
      <4>2. UNCHANGED logs
        BY <3>1 DEF Begun
      <4>. QED BY <4>1, <4>2 DEF Unused, OutcomesOf, CallsOf, FilesOf, logs
    <3>. QED BY <3>5, <3>6, <3>7 DEF CountInv, Own
  <2>3. ASSUME NEW p \in Procs, Refuse(p) PROVE CountInv'
    <3>1. proc'[p].run = 0 /\ UNCHANGED <<logs, begun>>
      BY <2>3, RefuseDoes
    <3>2. \A q \in Procs \ {p} : proc'[q] = proc[q]
      BY <2>3, Became DEF Refuse
    <3>3. \A r \in Runs : begun'[r] = 0 => Unused(r)'
      BY <3>1 DEF CountInv, Unused, OutcomesOf, CallsOf, FilesOf, logs
    <3>. QED BY <3>1, <3>2, <3>3 DEF CountInv, Own
  <2>4. ASSUME UNCHANGED vars \/ \E d \in Docs : Ingest(d) PROVE CountInv'
    <3>1. UNCHANGED <<logs, begun, proc>>
      BY <2>4 DEF Ingest, vars
    <3>. QED BY <3>1 DEF CountInv, Own, Unused, OutcomesOf, CallsOf, FilesOf, logs
  <2>. QED BY <2>1, <2>2, <2>3, <2>4 DEF Next
<1>. QED BY <1>1, <1>2, TypedHolds, PTL DEF Spec

-----------------------------------------------------------------------------
(* What a command and the logs of its run account for *)

Done(L)  == {L[i].doc : i \in DOMAIN L}
Asked(c) == c.broken \cup {d \in c.known : c.scope \in {All, FilingOf[d]}}
Hand(c)  == IF c.pc \in InHand THEN {DocOf(c)} ELSE {}

\* Each document asked for is still to do, or has its one row.
Covers(c, L) ==
    /\ c.broken \subseteq c.known /\ Done(L) \cup c.todo = Asked(c) /\ Done(L) \cap c.todo = {}
    /\ \A i, j \in DOMAIN L : L[i].doc = L[j].doc => i = j
    /\ \A i \in DOMAIN L : RowAdds(L[i])

\* The misses of a document are appended with its row.
MissesTold(L, M) ==
    /\ \A i \in DOMAIN L : M[L[i].doc] = L[i].missed
    /\ \A d \in Docs \ Done(L) : M[d] = 0

AnsweredIn(C, d) == {x.id : x \in {y \in C : y.doc = d /\ ~y.error}}

\* Of the documents still to do only the one in hand has calls, and its count names them.
CallsTold(c, C) ==
    /\ {x.doc : x \in C} \cap c.todo \subseteq Hand(c)
    /\ c.pc \in InHand \ {"raised"} => c.count.calls = AnsweredIn(C, DocOf(c))

\* What is made is of a document that has its row, or is in hand, and is what the row, or the
\* counts so far, say.
RowsMade(c, L) ==
    /\ {m.doc : m \in c.made} \subseteq Done(L) \cup Hand(c)
    /\ \A i \in DOMAIN L, k \in Kinds : L[i].status # "failed" =>
          SizesOf(c.made, L[i].doc, k) = {L[i].emitted[k]} \ {0}

MadeTold(c, L) ==
    /\ RowsMade(c, L)
    /\ c.pc \in InHand \ {"raised"} =>
          \A k \in Kinds : SizesOf(c.made, DocOf(c), k) = {c.count.emitted[k]} \ {0}
    /\ c.pc \in {"identity", "build"} => c.count.emitted = Nothing.emitted
    /\ c.pc = "justify" => c.count.emitted["justification"] = 0

\* Nothing is in the directory of the run until all of it is.
FilesTold(c, F) == F = IF c.pc \in {"gate", "ended"} THEN Files(c.run, c.made) ELSE {}

Accounts(c, L, M, C, F) ==
    Covers(c, L) /\ MissesTold(L, M) /\ CallsTold(c, C) /\ MadeTold(c, L) /\ FilesTold(c, F)

\* The rows of a run name the answered calls of their documents.
Linked(L, C) ==
    \A i \in DOMAIN L : L[i].status # "failed" => L[i].calls = AnsweredIn(C, L[i].doc)

\* What a row that is appended says of its document, when the document was in hand and when not.
RowTells(c, row) ==
    row.status # "failed" =>
       \/ c.pc = "next" /\ row.emitted = Nothing.emitted /\ row.calls = {}
       \/ c.pc = "record" /\ row.emitted = c.count.emitted /\ row.calls = c.count.calls

LEMMA NothingEmitted == \A k \in Kinds : {Nothing.emitted[k]} \ {0} = {}
BY DEF Nothing

\* Of a document that is neither done nor in hand nothing is made, and nothing was asked.
LEMMA NotYet ==
    ASSUME NEW c, NEW L, NEW C, c.pc = "next", Covers(c, L), CallsTold(c, C), MadeTold(c, L),
           NEW d \in c.todo
    PROVE  /\ d \notin Done(L) /\ \A x \in C : x.doc # d
           /\ \A m \in c.made : m.doc # d
           /\ AnsweredIn(C, d) = {} /\ \A k \in Kinds : SizesOf(c.made, d, k) = {}
<1>1. Hand(c) = {}
  BY DEF Hand, InHand
<1>2. d \notin Done(L)
  BY DEF Covers
<1>3. \A x \in C : x.doc # d
  BY <1>1 DEF CallsTold
<1>4. \A m \in c.made : m.doc # d
  BY <1>1, <1>2 DEF MadeTold, RowsMade
<1>. QED BY <1>2, <1>3, <1>4 DEF AnsweredIn, SizesOf

\* A document that is finished with is accounted for by its row.
LEMMA FinishAccounts ==
    ASSUME NEW c, NEW d, NEW L, NEW N, NEW M, NEW O, NEW C, NEW F, NEW row, NEW n,
           Accounts(c, L, M, C, F), Linked(L, C), Sound(c), SameRun(c, d),
           DocOf(c) \in c.todo, DocOf(c) \in Docs, c.pc \in {"next"} \cup InHand,
           d.pc = "next", d.todo = c.todo \ {DocOf(c)}, d.made = c.made,
           row.doc = DocOf(c), RowAdds(row), RowTells(c, row), row.missed \in Nat,
           M \in [Docs -> Nat], O[DocOf(c)] = M[DocOf(c)] + row.missed,
           \A x \in Docs : x # DocOf(c) => O[x] = M[x], \A i \in DOMAIN L : L[i].doc \in Docs,
           DOMAIN N = DOMAIN L \cup {n}, n \notin DOMAIN L, N[n] = row,
           \A i \in DOMAIN L : N[i] = L[i]
    PROVE  /\ Accounts(d, N, O, C, F)
           /\ Linked(N, C)
<1>. DEFINE doc == DocOf(c)
<1>1. doc \notin Done(L) /\ Done(N) = Done(L) \cup {doc}
  <2>1. doc \notin Done(L)
    BY DEF Accounts, Covers
  <2>. QED BY <2>1 DEF Done
<1>2. Hand(c) \subseteq {doc} /\ Hand(d) = {} /\ d.pc \notin InHand
  BY DEF Hand, InHand
<1>. HIDE DEF doc
<1>3. Covers(d, N)
  <2>1. Covers(c, L) /\ Asked(d) = Asked(c) /\ doc \in c.todo /\ doc \in Asked(c)
    BY DEF Accounts, Covers, Asked, SameRun, doc
  <2>2. Done(N) \cup d.todo = Asked(d) /\ Done(N) \cap d.todo = {}
    BY <1>1, <2>1 DEF Covers, doc
  <2>3. ASSUME NEW i \in DOMAIN N, NEW j \in DOMAIN N, N[i].doc = N[j].doc PROVE i = j
    <3>1. \A k \in DOMAIN L : L[k].doc # doc /\ N[k] = L[k]
      BY <1>1 DEF Done
    <3>. QED BY <2>1, <2>3, <3>1 DEF Covers, doc
  <2>4. \A i \in DOMAIN N : RowAdds(N[i])
    BY <2>1 DEF Covers
  <2>. QED BY <2>1, <2>2, <2>3, <2>4 DEF Covers, SameRun
<1>4. MissesTold(N, O)
  <2>1. MissesTold(L, M) /\ M[doc] = 0 /\ O[doc] = row.missed /\ \A x \in Docs : x # doc => O[x] = M[x]
    BY <1>1 DEF Accounts, MissesTold, doc
  <2>2. \A i \in DOMAIN L : N[i] = L[i] /\ N[i].doc # doc
    BY <1>1 DEF Done
  <2>. QED BY <1>1, <2>1, <2>2 DEF MissesTold, doc
<1>5. CallsTold(d, C)
  BY <1>2 DEF Accounts, CallsTold, doc
<1>6. MadeTold(d, N)
  <2>1. MadeTold(c, L)
    BY DEF Accounts
  <2>2. {m.doc : m \in d.made} \subseteq Done(N) \cup Hand(d)
    BY <1>1, <1>2, <2>1 DEF MadeTold, RowsMade
  <2>3. ASSUME NEW k \in Kinds, row.status # "failed"
        PROVE  SizesOf(d.made, doc, k) = {row.emitted[k]} \ {0}
    <3>1. CASE c.pc = "record"
      BY <2>1, <2>3, <3>1 DEF MadeTold, RowsMade, RowTells, InHand, doc
    <3>2. CASE c.pc = "next"
      <4>1. SizesOf(c.made, doc, k) = {}
        BY <3>2, NotYet DEF Accounts, doc
      <4>. QED BY <2>3, <3>2, <4>1, NothingEmitted DEF RowTells
    <3>. QED BY <2>3, <3>1, <3>2 DEF RowTells
  <2>4. \A i \in DOMAIN N, k \in Kinds : N[i].status # "failed" =>
           SizesOf(d.made, N[i].doc, k) = {N[i].emitted[k]} \ {0}
    <3>1. \A i \in DOMAIN L, k \in Kinds : L[i].status # "failed" =>
             SizesOf(d.made, L[i].doc, k) = {L[i].emitted[k]} \ {0}
      BY <2>1 DEF MadeTold, RowsMade
    <3>2. \A i \in DOMAIN N : (i \in DOMAIN L /\ N[i] = L[i]) \/ (N[i] = row /\ N[i].doc = doc)
      BY DEF doc
    <3>. QED BY <2>3, <3>1, <3>2
  <2>. QED BY <1>2, <2>2, <2>4 DEF MadeTold, RowsMade, InHand
<1>7. FilesTold(d, F)
  BY DEF Accounts, FilesTold, InHand
<1>8. Linked(N, C)
  <2>1. row.status # "failed" => row.calls = AnsweredIn(C, doc)
    <3>1. CASE c.pc = "record"
      BY <3>1 DEF Accounts, CallsTold, RowTells, InHand, doc
    <3>2. CASE c.pc = "next"
      <4>1. AnsweredIn(C, doc) = {}
        BY <3>2, NotYet DEF Accounts, doc
      <4>. QED BY <3>2, <4>1 DEF RowTells
    <3>. QED BY <3>1, <3>2 DEF RowTells
  <2>. QED BY <2>1 DEF Linked, doc
<1>. QED BY <1>3, <1>4, <1>5, <1>6, <1>7, <1>8 DEF Accounts, doc

\* The document in hand depends on the documents left and on which of them resolve.
LEMMA SameDoc ==
    ASSUME NEW c, NEW d, SameRun(c, d), d.todo = c.todo
    PROVE  DocOf(d) = DocOf(c) /\ Asked(d) = Asked(c) /\ d.broken = c.broken /\ d.known = c.known
           /\ d.run = c.run
BY DEF SameRun, DocOf, Asked

\* An opened document has no calls and nothing made yet.
LEMMA OpenAccounts ==
    ASSUME NEW c, NEW d, NEW L, NEW M, NEW C, NEW F,
           Accounts(c, L, M, C, F), SameRun(c, d), DocOf(c) \in c.todo, c.pc = "next",
           d.pc \in {"identity", "build"}, d.todo = c.todo, d.made = c.made,
           d.count.emitted = Nothing.emitted, d.count.calls = {}
    PROVE  Accounts(d, L, M, C, F)
<1>1. DocOf(d) = DocOf(c) /\ Asked(d) = Asked(c) /\ d.broken = c.broken /\ d.known = c.known
  BY SameDoc
<1>2. Hand(c) = {} /\ Hand(d) = {DocOf(c)}
  BY <1>1 DEF Hand, InHand
<1>3. AnsweredIn(C, DocOf(c)) = {} /\ \A k \in Kinds : SizesOf(c.made, DocOf(c), k) = {}
  BY NotYet DEF Accounts
<1>4. Covers(d, L)
  BY <1>1 DEF Accounts, Covers
<1>5. CallsTold(d, C)
  BY <1>1, <1>2, <1>3 DEF Accounts, CallsTold
<1>6. MadeTold(d, L)
  BY <1>1, <1>2, <1>3, NothingEmitted DEF Accounts, MadeTold, RowsMade
<1>7. FilesTold(d, F)
  BY DEF Accounts, FilesTold
<1>. QED BY <1>4, <1>5, <1>6, <1>7 DEF Accounts

\* With a document in hand, all but the calls and what is made stays as it was.
LEMMA InHandAccounts ==
    ASSUME NEW c, NEW d, NEW L, NEW M, NEW C, NEW D, NEW F,
           Accounts(c, L, M, C, F), SameRun(c, d), c.pc \in InHand, d.pc \in InHand,
           d.todo = c.todo, CallsTold(d, D), MadeTold(d, L)
    PROVE  Accounts(d, L, M, D, F)
<1>1. Covers(d, L)
  BY SameDoc DEF Accounts, Covers
<1>2. FilesTold(d, F)
  BY DEF Accounts, FilesTold, InHand
<1>. QED BY <1>1, <1>2 DEF Accounts

OnlyOf(made, doc) == \A m \in made : m.doc = doc

\* What is made of the document in hand does not touch what the rows say.
LEMMA RowsStillTold ==
    ASSUME NEW c, NEW d, NEW L, NEW made, SameRun(c, d), c.pc \in InHand, d.pc \in InHand,
           d.todo = c.todo, DocOf(c) \in c.todo, Done(L) \cap c.todo = {}, MadeTold(c, L),
           d.made = c.made \cup made, OnlyOf(made, DocOf(c))
    PROVE  RowsMade(d, L)
<1>1. Hand(d) = {DocOf(c)} /\ Hand(c) = {DocOf(c)}
  BY SameDoc DEF Hand
<1>2. \A i \in DOMAIN L : L[i].doc # DocOf(c)
  BY DEF Done
<1>3. \A i \in DOMAIN L, k \in Kinds : SizesOf(d.made, L[i].doc, k) = SizesOf(c.made, L[i].doc, k)
  BY <1>2 DEF SizesOf, OnlyOf
<1>4. \A m \in d.made : m.doc \in Done(L) \cup Hand(d)
  BY <1>1 DEF MadeTold, RowsMade, OnlyOf
<1>. QED BY <1>3, <1>4 DEF MadeTold, RowsMade

\* What is made of a document is of it.
LEMMA OfDoc ==
    ASSUME NEW doc
    PROVE  /\ OnlyOf({}, doc) /\ \A kind, n : OnlyOf(Of(doc, kind, n), doc)
           /\ \A m, n : OnlyOf(m, doc) /\ OnlyOf(n, doc) => OnlyOf(m \cup n, doc)
BY DEF Of, OnlyOf

\* A call is named by the count of its document.
LEMMA CallTells ==
    ASSUME NEW c, NEW d, NEW C, NEW call, CallsTold(c, C), SameRun(c, d), d.todo = c.todo,
           c.pc \in InHand \ {"raised"}, d.pc \in InHand, call.doc = DocOf(c),
           d.pc # "raised" =>
              d.count.calls = c.count.calls \cup (IF call.error THEN {} ELSE {call.id})
    PROVE  CallsTold(d, C \cup {call})
<1>1. DocOf(d) = DocOf(c) /\ Hand(d) = {DocOf(c)} /\ Hand(c) = {DocOf(c)}
  BY SameDoc DEF Hand
<1>2. AnsweredIn(C \cup {call}, DocOf(c)) =
         AnsweredIn(C, DocOf(c)) \cup (IF call.error THEN {} ELSE {call.id})
  BY DEF AnsweredIn
<1>3. {x.doc : x \in C \cup {call}} \cap d.todo \subseteq Hand(d)
  BY <1>1 DEF CallsTold
<1>. QED BY <1>1, <1>2, <1>3 DEF CallsTold

\* A row of the log of calls, for a row of the ledger that is of another document.
LEMMA CallLinks ==
    ASSUME NEW c, NEW L, NEW C, NEW call, Linked(L, C), Covers(c, L), DocOf(c) \in c.todo,
           call.doc = DocOf(c)
    PROVE  Linked(L, C \cup {call})
<1>1. \A i \in DOMAIN L : L[i].doc # call.doc
  BY DEF Covers, Done
<1>2. \A i \in DOMAIN L : AnsweredIn(C \cup {call}, L[i].doc) = AnsweredIn(C, L[i].doc)
  BY <1>1 DEF AnsweredIn
<1>. QED BY <1>2 DEF Linked

\* Nothing more is made: the identity is read, or a packet has no sections.
LEMMA SameMade ==
    ASSUME NEW c, NEW d, NEW L, SameRun(c, d), d.todo = c.todo, DocOf(c) \in c.todo,
           Done(L) \cap c.todo = {}, MadeTold(c, L), d.made = c.made,
           d.count.emitted = c.count.emitted,
           \/ c.pc = "identity" /\ d.pc \in {"build", "raised"}
           \/ c.pc = "justify" /\ d.pc = "record"
    PROVE  MadeTold(d, L)
<1>1. DocOf(d) = DocOf(c) /\ c.pc \in InHand \ {"raised"} /\ d.pc \in InHand /\ d.made = c.made \cup {}
  BY SameDoc DEF InHand
<1>2. RowsMade(d, L)
  BY <1>1, OfDoc, RowsStillTold
<1>. QED BY <1>1, <1>2 DEF MadeTold

\* The entries are made of the document in hand, and counted.
LEMMA JustifyMade ==
    ASSUME NEW c, NEW d \in States, NEW L, NEW kept \in Nat, c \in States,
           SameRun(c, d), d.todo = c.todo, DocOf(c) \in c.todo,
           Done(L) \cap c.todo = {}, MadeTold(c, L), c.pc = "justify", d.pc \in {"record", "raised"},
           d.made = c.made \cup Of(DocOf(c), "justification", kept),
           d.pc # "raised" =>
              \/ d.count.emitted = [c.count.emitted EXCEPT !["justification"] = kept]
              \/ kept = 0 /\ d.count.emitted = c.count.emitted
    PROVE  MadeTold(d, L)
<1>1. DocOf(d) = DocOf(c) /\ c.pc \in InHand \ {"raised"} /\ d.pc \in InHand
  BY SameDoc DEF InHand
<1>2. RowsMade(d, L)
  BY <1>1, RowsStillTold, OfDoc
<1>3. c.count.emitted \in [Kinds -> Nat] /\ c.count.emitted["justification"] = 0
  BY DEF States, Counts, MadeTold
<1>4. ASSUME NEW k \in Kinds, d.pc # "raised"
      PROVE  SizesOf(d.made, DocOf(c), k) = {d.count.emitted[k]} \ {0}
  <2>1. SizesOf(c.made, DocOf(c), k) = {c.count.emitted[k]} \ {0}
    BY <1>1 DEF MadeTold
  <2>2. /\ k = "justification" =>
              SizesOf(d.made, DocOf(c), k) = SizesOf(c.made, DocOf(c), k) \cup ({kept} \ {0})
        /\ k # "justification" => SizesOf(d.made, DocOf(c), k) = SizesOf(c.made, DocOf(c), k)
    <3>1. SizesOf(d.made, DocOf(c), k) = SizesOf(c.made, DocOf(c), k)
                                            \cup SizesOf(Of(DocOf(c), "justification", kept), DocOf(c), k)
      BY SizesGrow
    <3>. QED BY <3>1, OfSizes
  <2>3. d.count.emitted[k] = IF k = "justification" THEN kept ELSE c.count.emitted[k]
    BY <1>3, <1>4
  <2>. QED BY <1>3, <2>1, <2>2, <2>3
<1>. QED BY <1>1, <1>2, <1>4 DEF MadeTold

\* So are the filing row and the plan rows.
LEMMA BuildMade ==
    ASSUME NEW c \in States, NEW d \in States, NEW L, SameRun(c, d), d.todo = c.todo,
           DocOf(c) \in c.todo, Done(L) \cap c.todo = {}, MadeTold(c, L), c.pc = "build",
           \/ /\ d.pc = "raised"
              /\ \E n \in Nat : d.made = c.made \/ d.made = c.made \cup Of(DocOf(c), "filing", n)
           \/ /\ d.pc \in {"record", "justify"}
              /\ \E filing, plan \in Nat :
                    /\ d.made = (c.made \cup Of(DocOf(c), "filing", filing))
                                   \cup Of(DocOf(c), "plan", plan)
                    /\ d.count.emitted =
                          [c.count.emitted EXCEPT !["filing"] = filing, !["plan"] = plan]
    PROVE  MadeTold(d, L)
<1>1. DocOf(d) = DocOf(c) /\ c.pc \in InHand \ {"raised"} /\ d.pc \in InHand
  BY SameDoc DEF InHand
<1>2. c.count.emitted \in [Kinds -> Nat] /\ \A k \in Kinds : c.count.emitted[k] = 0
  BY DEF States, Counts, MadeTold, Nothing
<1>3. \A k \in Kinds : SizesOf(c.made, DocOf(c), k) = {}
  BY <1>1, <1>2 DEF MadeTold
<1>4. CASE d.pc = "raised"
  <2>1. PICK made : d.made = c.made \cup made /\ OnlyOf(made, DocOf(c))
    <3>1. PICK n : d.made = c.made \/ d.made = c.made \cup Of(DocOf(c), "filing", n)
      BY <1>4
    <3>2. CASE d.made = c.made
      <4>1. d.made = c.made \cup {} /\ OnlyOf({}, DocOf(c))
        BY <3>2, OfDoc
      <4>. QED BY <4>1
    <3>3. CASE d.made = c.made \cup Of(DocOf(c), "filing", n)
      BY <3>3, OfDoc
    <3>. QED BY <3>1, <3>2, <3>3
  <2>2. RowsMade(d, L)
    BY <1>1, <2>1, RowsStillTold
  <2>. QED BY <1>4, <2>2 DEF MadeTold
<1>5. CASE d.pc # "raised"
  <2>1. PICK filing \in Nat, plan \in Nat :
           /\ d.made = (c.made \cup Of(DocOf(c), "filing", filing)) \cup Of(DocOf(c), "plan", plan)
           /\ d.count.emitted = [c.count.emitted EXCEPT !["filing"] = filing, !["plan"] = plan]
    BY <1>5
  <2>. DEFINE made == Of(DocOf(c), "filing", filing) \cup Of(DocOf(c), "plan", plan)
  <2>2. d.made = c.made \cup made /\ OnlyOf(made, DocOf(c))
    BY <2>1, OfDoc
  <2>. HIDE DEF made
  <2>3. RowsMade(d, L)
    BY <1>1, <2>2, RowsStillTold
  <2>4. ASSUME NEW k \in Kinds
        PROVE  SizesOf(d.made, DocOf(c), k) = {d.count.emitted[k]} \ {0}
    <3>. DEFINE first == c.made \cup Of(DocOf(c), "filing", filing)
    <3>1. /\ k = "filing" => SizesOf(first, DocOf(c), k) = {filing} \ {0}
          /\ k # "filing" => SizesOf(first, DocOf(c), k) = {}
      <4>1. SizesOf(first, DocOf(c), k) = SizesOf(c.made, DocOf(c), k)
                                             \cup SizesOf(Of(DocOf(c), "filing", filing), DocOf(c), k)
        BY SizesGrow
      <4>2. SizesOf(c.made, DocOf(c), k) = {}
        BY <1>3
      <4>. HIDE DEF first
      <4>. QED BY <4>1, <4>2, OfSizes
    <3>2. LET both == SizesOf(first \cup Of(DocOf(c), "plan", plan), DocOf(c), k)
          IN  /\ k = "plan" => both = SizesOf(first, DocOf(c), k) \cup ({plan} \ {0})
              /\ k # "plan" => both = SizesOf(first, DocOf(c), k)
      <4>. HIDE DEF first
      <4>1. SizesOf(first \cup Of(DocOf(c), "plan", plan), DocOf(c), k) =
               SizesOf(first, DocOf(c), k) \cup SizesOf(Of(DocOf(c), "plan", plan), DocOf(c), k)
        BY SizesGrow
      <4>. QED BY <4>1, OfSizes
    <3>3. d.count.emitted[k] = IF k = "plan" THEN plan ELSE IF k = "filing" THEN filing ELSE 0
      BY <1>2, <2>1
    <3>4. d.made = first \cup Of(DocOf(c), "plan", plan)
      BY <2>1
    <3>. HIDE DEF first
    <3>. QED BY <3>1, <3>2, <3>3, <3>4
  <2>5. d.pc = "justify" => d.count.emitted["justification"] = 0
    BY <1>2, <2>1 DEF Kinds
  <2>6. d.pc \in {"record", "justify"}
    BY <1>5
  <2>. QED BY <1>1, <2>3, <2>4, <2>5, <2>6 DEF MadeTold
<1>. QED BY <1>4, <1>5

\* The rows are written where nothing was, and then only asked about.
LEMMA CloseAccounts ==
    ASSUME NEW c, NEW d, NEW L, NEW M, NEW C, NEW F, NEW G,
           Accounts(c, L, M, C, F), SameRun(c, d), d.todo = c.todo, d.made = c.made,
           \/ c.pc = "next" /\ d.pc = "gate" /\ (F = {} => G = Files(c.run, c.made))
           \/ c.pc = "gate" /\ d.pc = "ended" /\ G = F
    PROVE  Accounts(d, L, M, C, G)
<1>1. Hand(c) = {} /\ Hand(d) = {} /\ d.pc \notin InHand
  BY DEF Hand, InHand
<1>2. Covers(d, L)
  BY SameDoc DEF Accounts, Covers
<1>3. CallsTold(d, C)
  BY <1>1 DEF Accounts, CallsTold
<1>4. MadeTold(d, L)
  BY <1>1 DEF Accounts, MadeTold, RowsMade, InHand
<1>5. FilesTold(d, G)
  BY SameDoc DEF Accounts, FilesTold
<1>. QED BY <1>2, <1>3, <1>4, <1>5 DEF Accounts

\* What accounts for each run that is one command's: the command and its logs while it is known,
\* and then the calls its rows name.
AccountsInv ==
    /\ \A p \in Procs, run \in Runs : proc[p].run = run /\ proc[p].pc # "idle" /\ Own(run) =>
          Accounts(proc[p], LedgerOf(run), MissesOf(run), CallsOf(run), FilesOf(run))
    /\ \A run \in Runs : Own(run) => Linked(LedgerOf(run), CallsOf(run))

\* The types of the ledger and the misses of a run.
LEMMA ViewsAre ==
    ASSUME Typed, NEW run \in Runs
    PROVE  /\ \A i \in DOMAIN LedgerOf(run) : LedgerOf(run)[i] \in Rows /\ LedgerOf(run)[i].doc \in Docs
           /\ MissesOf(run) \in [Docs -> Nat]
<1>1. outcomes \in Seq(Rows) /\ misses \in [Runs \X Docs -> Nat]
  BY DEF Typed, TypeOK
<1>2. \A i \in DOMAIN outcomes : outcomes[i] \in Rows /\ outcomes[i].doc \in Docs
  <2>1. \A i \in DOMAIN outcomes : outcomes[i] \in Rows
    BY <1>1
  <2>. QED BY <2>1 DEF Rows
<1>3. \A i \in DOMAIN LedgerOf(run) : LedgerOf(run)[i] = outcomes[i] /\ i \in DOMAIN outcomes
  BY DEF LedgerOf, OutcomesOf
<1>4. MissesOf(run) \in [Docs -> Nat]
  BY <1>1 DEF MissesOf
<1>. QED BY <1>2, <1>3, <1>4

\* The views of a run are functions of the logs.
LEMMA SameViews ==
    ASSUME NEW run
    PROVE  /\ outcomes' = outcomes => LedgerOf(run)' = LedgerOf(run)
           /\ misses' = misses => MissesOf(run)' = MissesOf(run)
           /\ calls' = calls => CallsOf(run)' = CallsOf(run)
           /\ outputs' = outputs => FilesOf(run)' = FilesOf(run)
BY DEF LedgerOf, OutcomesOf, MissesOf, CallsOf, FilesOf

\* The step of a command keeps its accounts.
MoverAccounts(p, run) ==
    /\ Accounts(proc[p], LedgerOf(run), MissesOf(run), CallsOf(run), FilesOf(run))'
    /\ Linked(LedgerOf(run), CallsOf(run))'

LEMMA FinishKeeps ==
    ASSUME Typed, NEW p \in Procs, NEW run \in Runs, run = proc[p].run,
           Accounts(proc[p], LedgerOf(run), MissesOf(run), CallsOf(run), FilesOf(run)),
           Linked(LedgerOf(run), CallsOf(run)), NEW row, FinishedWith(p, row)
    PROVE  MoverAccounts(p, run)
<1>. DEFINE c == proc[p]
            d == proc'[p]
            L == LedgerOf(run)
            N == LedgerOf(run)'
            doc == DocOf(c)
<1>1. /\ row \in Rows /\ RowAdds(row) /\ row.run = run /\ row.doc = doc /\ RowTells(c, row)
      /\ c.todo # {} /\ c.pc \in {"next"} \cup InHand
      /\ misses' = [misses EXCEPT ![<<run, doc>>] = @ + row.missed]
      /\ outcomes' = Append(outcomes, row) /\ UNCHANGED <<calls, outputs>>
      /\ SameRun(c, d) /\ d.pc = "next" /\ d.todo = c.todo \ {doc} /\ d.made = c.made
  BY DEF FinishedWith, Doc, RowTells
<1>2. doc \in c.todo /\ doc \in Docs /\ Sound(c) /\ row.missed \in Nat
  BY <1>1, CommandIs, DocIs DEF Rows
<1>3. PICK n : /\ DOMAIN N = DOMAIN L \cup {n} /\ n \notin DOMAIN L /\ N[n] = row
               /\ \A i \in DOMAIN L : N[i] = L[i]
  BY <1>1, LedgerGrows
<1>4. MissesOf(run)'[doc] = MissesOf(run)[doc] + row.missed
      /\ \A x \in Docs : x # doc => MissesOf(run)'[x] = MissesOf(run)[x]
  <2>1. doc \in Docs /\ row.missed \in Nat /\ misses' = [misses EXCEPT ![<<run, doc>>] = @ + row.missed]
    BY <1>1, <1>2
  <2>. HIDE DEF doc
  <2>. QED BY <2>1, MissesGrow
<1>5. CallsOf(run)' = CallsOf(run) /\ FilesOf(run)' = FilesOf(run)
  BY <1>1, SameViews
<1>6. MissesOf(run) \in [Docs -> Nat] /\ \A i \in DOMAIN L : L[i].doc \in Docs
  BY ViewsAre
<1>. DEFINE M == MissesOf(run)
            C == CallsOf(run)
            F == FilesOf(run)
            O == MissesOf(run)'
<1>7. Accounts(c, L, M, C, F) /\ Linked(L, C)
  OBVIOUS
<1>8. CallsOf(run)' = C /\ FilesOf(run)' = F /\ M \in [Docs -> Nat]
      /\ O[doc] = M[doc] + row.missed /\ \A x \in Docs : x # doc => O[x] = M[x]
  BY <1>4, <1>5, <1>6
<1>. HIDE DEF M, C, F, O
<1>9. Accounts(d, N, O, C, F) /\ Linked(N, C)
  <2>. HIDE DEF c, d, L, N
  <2>. QED BY <1>1, <1>2, <1>3, <1>6, <1>7, <1>8, FinishAccounts
<1>. QED BY <1>8, <1>9 DEF MoverAccounts, O

LEMMA CallKeeps ==
    ASSUME Typed, NEW p \in Procs, NEW run \in Runs, run = proc[p].run,
           Accounts(proc[p], LedgerOf(run), MissesOf(run), CallsOf(run), FilesOf(run)),
           Linked(LedgerOf(run), CallsOf(run)), NEW answer, Called(p, FreshCall, answer)
    PROVE  MoverAccounts(p, run)
<1>. DEFINE c == proc[p]
            d == proc'[p]
            L == LedgerOf(run)
            M == MissesOf(run)
            C == CallsOf(run)
            F == FilesOf(run)
            call == [id |-> FreshCall, run |-> run, doc |-> DocOf(c),
                     sent |-> answer.sent, error |-> answer.error]
<1>1. /\ calls' = calls \cup {call} /\ UNCHANGED <<outcomes, misses, outputs>>
      /\ c.todo # {} /\ SameRun(c, d) /\ d.todo = c.todo
      /\ d.pc # "raised" =>
            d.count.calls = c.count.calls \cup (IF answer.error THEN {} ELSE {FreshCall})
      /\ \/ /\ c.pc = "identity" /\ d.pc \in {"build", "raised"}
            /\ d.made = c.made /\ d.count.emitted = c.count.emitted
         \/ /\ c.pc = "justify" /\ d.pc \in {"record", "raised"}
            /\ \E kept \in Nat :
                  /\ d.made = c.made \cup Of(DocOf(c), "justification", kept)
                  /\ d.pc # "raised" =>
                        \/ d.count.emitted = [c.count.emitted EXCEPT !["justification"] = kept]
                        \/ kept = 0 /\ d.count.emitted = c.count.emitted
      /\ d \in States
  BY DEF Called, Doc
<1>2. DocOf(c) \in c.todo /\ c \in States
  BY <1>1, CommandIs, DocIs
<1>3. call.id = FreshCall /\ call.run = run /\ call.doc = DocOf(c) /\ call.error = answer.error
  OBVIOUS
<1>. HIDE DEF call
<1>4. LedgerOf(run)' = L /\ MissesOf(run)' = M /\ FilesOf(run)' = F
  BY <1>1, SameViews
<1>5. CallsOf(run)' = C \cup {call}
  BY <1>1, <1>3 DEF CallsOf
<1>6. Accounts(c, L, M, C, F) /\ Linked(L, C)
  OBVIOUS
<1>. HIDE DEF c, d, L, M, C, F
<1>7. Covers(c, L) /\ CallsTold(c, C) /\ MadeTold(c, L) /\ Done(L) \cap c.todo = {}
  BY <1>6 DEF Accounts, Covers
<1>8. c.pc \in InHand \ {"raised"} /\ d.pc \in InHand
  BY <1>1 DEF InHand
<1>9. CallsTold(d, C \cup {call})
  BY <1>1, <1>3, <1>7, <1>8, CallTells
<1>10. Linked(L, C \cup {call})
  BY <1>2, <1>3, <1>6, <1>7, CallLinks
<1>11. MadeTold(d, L)
  <2>1. CASE c.pc = "identity"
    BY <1>1, <1>2, <1>7, <2>1, SameMade
  <2>2. CASE c.pc # "identity"
    <3>1. PICK kept \in Nat :
             /\ d.made = c.made \cup Of(DocOf(c), "justification", kept)
             /\ d.pc # "raised" =>
                   \/ d.count.emitted = [c.count.emitted EXCEPT !["justification"] = kept]
                   \/ kept = 0 /\ d.count.emitted = c.count.emitted
      BY <1>1, <2>2
    <3>2. c.pc = "justify" /\ d.pc \in {"record", "raised"} /\ d \in States /\ SameRun(c, d)
          /\ d.todo = c.todo
      BY <1>1, <2>2
    <3>. QED BY <1>2, <1>7, <3>1, <3>2, JustifyMade
  <2>. QED BY <2>1, <2>2
<1>12. Accounts(d, L, M, C \cup {call}, F)
  BY <1>1, <1>6, <1>8, <1>9, <1>11, InHandAccounts
<1>. QED BY <1>4, <1>5, <1>10, <1>12 DEF MoverAccounts, d

\* The steps that append nothing to the ledger.
LEMMA HandKeeps ==
    ASSUME Typed, NEW p \in Procs, NEW run \in Runs, run = proc[p].run,
           Accounts(proc[p], LedgerOf(run), MissesOf(run), CallsOf(run), FilesOf(run)),
           Linked(LedgerOf(run), CallsOf(run)), Opened(p) \/ Built(p) \/ NoSections(p) \/ Closing(p)
    PROVE  MoverAccounts(p, run)
<1>. DEFINE c == proc[p]
            d == proc'[p]
            L == LedgerOf(run)
            M == MissesOf(run)
            C == CallsOf(run)
            F == FilesOf(run)
            G == FilesOf(run)'
<1>1. UNCHANGED <<outcomes, misses, calls>> /\ SameRun(c, d) /\ d.todo = c.todo /\ d \in States
  <2>1. CASE NoSections(p)
    BY <2>1, NoSectionsDoes
  <2>2. CASE Opened(p) \/ Built(p) \/ Closing(p)
    BY <2>2 DEF Opened, Built, Closing
  <2>. QED BY <2>1, <2>2
<1>2. c \in States /\ (c.todo # {} => DocOf(c) \in c.todo)
  BY CommandIs, DocIs
<1>3. LedgerOf(run)' = L /\ MissesOf(run)' = M /\ CallsOf(run)' = C
      /\ (outputs' = outputs => G = F)
  BY <1>1, SameViews
<1>4. Accounts(c, L, M, C, F) /\ Linked(L, C)
  OBVIOUS
<1>5. Covers(c, L) /\ CallsTold(c, C) /\ MadeTold(c, L) /\ Done(L) \cap c.todo = {}
  BY <1>4 DEF Accounts, Covers
<1>6. ASSUME d.pc \in InHand, c.pc \in InHand \ {"raised"}, d.count.calls = c.count.calls
      PROVE  CallsTold(d, C)
  BY <1>1, <1>5, <1>6, SameDoc DEF CallsTold, Hand
<1>7. CASE Opened(p)
  <2>1. G = F
    BY <1>3, <1>7 DEF Opened
  <2>2. /\ c.pc = "next" /\ d.pc \in {"identity", "build"} /\ d.made = c.made /\ c.todo # {}
        /\ d.count.emitted = Nothing.emitted /\ d.count.calls = {}
    BY <1>7 DEF Opened
  <2>3. Accounts(d, L, M, C, F)
    <3>. HIDE DEF c, d, L, M, C, F
    <3>. QED BY <1>1, <1>2, <1>4, <2>2, OpenAccounts
  <2>. HIDE DEF L, M, C, F
  <2>. QED BY <1>3, <1>4, <2>1, <2>3 DEF MoverAccounts
<1>8. CASE Built(p)
  <2>1. G = F
    BY <1>3, <1>8 DEF Built
  <2>2. /\ c.pc = "build" /\ c.todo # {} /\ d.count.calls = c.count.calls
        /\ \/ /\ d.pc = "raised"
              /\ \E n \in Nat : d.made = c.made \/ d.made = c.made \cup Of(DocOf(c), "filing", n)
           \/ /\ d.pc \in {"record", "justify"}
              /\ \E filing, plan \in Nat :
                    /\ d.made = (c.made \cup Of(DocOf(c), "filing", filing))
                                   \cup Of(DocOf(c), "plan", plan)
                    /\ d.count.emitted =
                          [c.count.emitted EXCEPT !["filing"] = filing, !["plan"] = plan]
    BY <1>8 DEF Built, Doc
  <2>3. d.pc \in InHand /\ c.pc \in InHand \ {"raised"}
    BY <2>2 DEF InHand
  <2>4. CallsTold(d, C)
    BY <1>6, <2>2, <2>3
  <2>. HIDE DEF c, d, L, M, C, F, G
  <2>5. MadeTold(d, L)
    BY <1>1, <1>2, <1>5, <2>2, BuildMade
  <2>6. Accounts(d, L, M, C, F)
    BY <1>1, <1>4, <2>3, <2>4, <2>5, InHandAccounts
  <2>. QED BY <1>3, <1>4, <2>1, <2>6 DEF MoverAccounts, d, G
<1>9. CASE NoSections(p)
  <2>1. /\ G = F /\ c.pc = "justify" /\ c.todo # {} /\ d.pc = "record" /\ d.made = c.made
        /\ d.count = c.count
    BY <1>3, <1>9, NoSectionsDoes
  <2>2. d.pc \in InHand /\ c.pc \in InHand \ {"raised"}
    BY <2>1 DEF InHand
  <2>3. CallsTold(d, C)
    BY <1>6, <2>1, <2>2
  <2>. HIDE DEF c, d, L, M, C, F, G
  <2>4. MadeTold(d, L)
    BY <1>1, <1>2, <1>5, <2>1, SameMade
  <2>5. Accounts(d, L, M, C, F)
    BY <1>1, <1>4, <2>2, <2>3, <2>4, InHandAccounts
  <2>. QED BY <1>3, <1>4, <2>1, <2>5 DEF MoverAccounts, d, G
<1>10. CASE Closing(p)
  <2>1. d.made = c.made
    BY <1>10 DEF Closing
  <2>2. \/ c.pc = "next" /\ d.pc = "gate" /\ (F = {} => G = Files(c.run, c.made))
        \/ c.pc = "gate" /\ d.pc = "ended" /\ G = F
    <3>1. CASE c.pc = "next"
      <4>1. outputs' = Written(p, c.made) /\ d.pc = "gate"
        BY <1>10, <3>1 DEF Closing
      <4>2. F = {} => G = Files(run, c.made)
        BY <4>1, FilesGrow
      <4>. QED BY <3>1, <4>1, <4>2
    <3>2. CASE c.pc # "next"
      BY <1>3, <1>10, <3>2 DEF Closing
    <3>. QED BY <3>1, <3>2
  <2>. HIDE DEF c, d, L, M, C, F, G
  <2>3. Accounts(d, L, M, C, G)
    BY <1>1, <1>4, <2>1, <2>2, CloseAccounts
  <2>. QED BY <1>3, <1>4, <2>3 DEF MoverAccounts, d, G
<1>. QED BY <1>7, <1>8, <1>9, <1>10

\* The accounts of a run that the step at hand does not write to.
LEMMA OthersKeep ==
    ASSUME NEW run \in Runs, SameLogs(run)
    PROVE  /\ \A c : Accounts(c, LedgerOf(run), MissesOf(run), CallsOf(run), FilesOf(run)) =>
                     Accounts(c, LedgerOf(run)', MissesOf(run)', CallsOf(run)', FilesOf(run)')
           /\ Linked(LedgerOf(run), CallsOf(run)) => Linked(LedgerOf(run)', CallsOf(run)')
BY DEF SameLogs

\* Each step of a command keeps its accounts, and touches no other run's.
LEMMA StepAccounts ==
    ASSUME Typed, CountInv, AccountsInv, NEW p \in Procs, Step(p)
    PROVE  AccountsInv'
<1>1. /\ proc[p].run \in Runs /\ begun' = begun /\ proc'[p].run = proc[p].run
      /\ \A q \in Procs \ {p} : proc'[q] = proc[q]
      /\ \A run \in Runs : run # proc[p].run => SameLogs(run)
  BY WritesOwn
<1>2. Moves(p) /\ proc[p].pc # "idle"
  BY StepMoves, NoSectionsDoes DEF Moves, FinishedWith, Opened, Called, Built, Closing, InHand
<1>3. \A run \in Runs : Own(run)' = Own(run)
  BY <1>1 DEF Own
<1>4. ASSUME NEW run \in Runs, run = proc[p].run, Own(run) PROVE MoverAccounts(p, run)
  <2>1. /\ Accounts(proc[p], LedgerOf(run), MissesOf(run), CallsOf(run), FilesOf(run))
        /\ Linked(LedgerOf(run), CallsOf(run))
    BY <1>2, <1>4 DEF AccountsInv
  <2>. QED BY <1>2, <1>4, <2>1, FinishKeeps, CallKeeps, HandKeeps DEF Moves
<1>5. ASSUME NEW q \in Procs, NEW run \in Runs, proc'[q].run = run, proc'[q].pc # "idle", Own(run)
      PROVE  Accounts(proc'[q], LedgerOf(run)', MissesOf(run)', CallsOf(run)', FilesOf(run)')
  <2>1. CASE q = p
    BY <1>1, <1>4, <1>5, <2>1 DEF MoverAccounts
  <2>2. CASE q # p
    <3>1. proc'[q] = proc[q] /\ run # proc[p].run
      BY <1>1, <1>5, <2>2 DEF CountInv
    <3>2. Accounts(proc[q], LedgerOf(run), MissesOf(run), CallsOf(run), FilesOf(run))
      BY <1>5, <3>1 DEF AccountsInv
    <3>3. SameLogs(run)
      BY <1>1, <3>1
    <3>. QED BY <3>1, <3>2, <3>3, OthersKeep
  <2>. QED BY <2>1, <2>2
<1>6. ASSUME NEW run \in Runs, Own(run) PROVE Linked(LedgerOf(run)', CallsOf(run)')
  <2>1. CASE run = proc[p].run
    BY <1>4, <1>6, <2>1 DEF MoverAccounts
  <2>2. CASE run # proc[p].run
    BY <1>1, <1>6, <2>2, OthersKeep DEF AccountsInv
  <2>. QED BY <2>1, <2>2
<1>. QED BY <1>3, <1>5, <1>6 DEF AccountsInv

\* A command that begins has nothing in the logs and all it is asked for to do.
LEMMA BeginAccounts ==
    ASSUME Typed, CountInv, AccountsInv, NEW p \in Procs, Begin(p)
    PROVE  AccountsInv'
<1>1. PICK run \in Runs : Begun(p, run)
  BY BeginDoes
<1>2. begun \in [Runs -> Nat] /\ run # 0 /\ UNCHANGED logs
  BY <1>1, ExtractionAssumption DEF Typed, TypeOK, Runs, Begun
<1>3. begun'[run] = begun[run] + 1 /\ \A r \in Runs : r # run => begun'[r] = begun[r]
  BY <1>1, <1>2 DEF Begun
<1>4. \A q \in Procs \ {p} : proc'[q] = proc[q]
  <2>1. \E state : Becomes(p, state)
    BY DEF Begin
  <2>. QED BY <2>1, Became
<1>5. \A r \in Runs : SameLogs(r)
  BY <1>2, SameViews DEF SameLogs, logs
<1>6. \A r \in Runs : Own(r)' => (r # run /\ Own(r)) \/ (r = run /\ begun[run] = 0)
  BY <1>2, <1>3 DEF Own
<1>7. begun[run] = 0 => DOMAIN LedgerOf(run) = {} /\ CallsOf(run) = {}
                        /\ FilesOf(run) = {} /\ \A d \in Docs : MissesOf(run)[d] = 0
  BY DEF CountInv, Unused, LedgerOf, MissesOf
<1>8. ASSUME begun[run] = 0
      PROVE  Accounts(proc'[p], LedgerOf(run), MissesOf(run), CallsOf(run), FilesOf(run))
  <2>. DEFINE d == proc'[p]
  <2>1. d.pc = "next" /\ d.known = Known /\ d.broken = Broken /\ d.todo = Todo(d.scope) /\ d.made = {}
    BY <1>1 DEF Begun
  <2>. HIDE DEF d
  <2>2. Hand(d) = {} /\ d.pc \notin InHand /\ Done(LedgerOf(run)) = {}
    BY <1>7, <1>8, <2>1 DEF Hand, InHand, Done
  <2>3. d.broken \subseteq d.known /\ d.todo = Asked(d)
    <3>1. Broken \subseteq Known
      BY DEF Broken, Known
    <3>2. manifest \in [Docs -> {"absent", "stored", "unresolvable"}]
      BY DEF Typed, TypeOK
    <3>3. Todo(d.scope) = Broken \cup {x \in Known : d.scope \in {All, FilingOf[x]}}
      BY <3>2 DEF Todo, Broken, Known
    <3>. QED BY <2>1, <3>1, <3>3 DEF Asked
  <2>4. Covers(d, LedgerOf(run))
    BY <1>7, <1>8, <2>2, <2>3 DEF Covers
  <2>5. MissesTold(LedgerOf(run), MissesOf(run))
    BY <1>7, <1>8 DEF MissesTold
  <2>6. CallsTold(d, CallsOf(run))
    BY <1>7, <1>8, <2>2 DEF CallsTold
  <2>7. MadeTold(d, LedgerOf(run))
    BY <1>7, <1>8, <2>1, <2>2 DEF MadeTold, RowsMade, InHand
  <2>8. FilesTold(d, FilesOf(run))
    BY <1>7, <1>8, <2>1 DEF FilesTold
  <2>. QED BY <2>4, <2>5, <2>6, <2>7, <2>8 DEF Accounts, d
<1>9. ASSUME NEW q \in Procs, NEW r \in Runs, proc'[q].run = r, proc'[q].pc # "idle", Own(r)'
      PROVE  Accounts(proc'[q], LedgerOf(r)', MissesOf(r)', CallsOf(r)', FilesOf(r)')
  <2>1. CASE r = run
    <3>1. begun[run] = 0
      BY <1>6, <1>9, <2>1
    <3>2. q = p
      BY <1>4, <1>2, <1>9, <2>1, <3>1 DEF CountInv
    <3>. QED BY <1>5, <1>8, <2>1, <3>1, <3>2, OthersKeep
  <2>2. CASE r # run
    <3>1. q # p /\ Own(r)
      BY <1>1, <1>6, <1>9, <2>2 DEF Begun
    <3>2. Accounts(proc[q], LedgerOf(r), MissesOf(r), CallsOf(r), FilesOf(r))
      BY <1>4, <1>9, <3>1 DEF AccountsInv
    <3>. QED BY <1>4, <1>5, <3>1, <3>2, OthersKeep
  <2>. QED BY <2>1, <2>2
<1>10. ASSUME NEW r \in Runs, Own(r)' PROVE Linked(LedgerOf(r)', CallsOf(r)')
  <2>1. CASE Own(r)
    BY <1>5, <2>1, OthersKeep DEF AccountsInv
  <2>2. CASE ~Own(r)
    <3>1. r = run /\ begun[run] = 0
      BY <1>6, <1>10, <2>2
    <3>2. Linked(LedgerOf(run), CallsOf(run))
      BY <1>7, <3>1 DEF Linked
    <3>. QED BY <1>5, <3>1, <3>2, OthersKeep
  <2>. QED BY <2>1, <2>2
<1>. QED BY <1>9, <1>10 DEF AccountsInv

\* A killed command has no accounts to keep; what its rows name stays true.
LEMMA DiesAccounts ==
    ASSUME Typed, CountInv, AccountsInv, NEW p \in Procs, Dies(p)
    PROVE  AccountsInv'
<1>1. /\ proc[p].run \in Runs /\ begun' = begun /\ proc'[p].run = proc[p].run
      /\ \A q \in Procs \ {p} : proc'[q] = proc[q]
      /\ \A run \in Runs : run # proc[p].run => SameLogs(run)
  BY WritesOwn
<1>2. proc'[p].pc = "idle" /\ UNCHANGED <<outcomes, calls>>
  BY DiesDoes DEF Dead
<1>3. \A run \in Runs : Own(run)' = Own(run)
  BY <1>1 DEF Own
<1>4. ASSUME NEW q \in Procs, NEW run \in Runs, proc'[q].run = run, proc'[q].pc # "idle", Own(run)
      PROVE  Accounts(proc'[q], LedgerOf(run)', MissesOf(run)', CallsOf(run)', FilesOf(run)')
  <2>1. proc'[q] = proc[q] /\ run # proc[p].run
    BY <1>1, <1>2, <1>4 DEF CountInv
  <2>2. Accounts(proc[q], LedgerOf(run), MissesOf(run), CallsOf(run), FilesOf(run))
    BY <1>4, <2>1 DEF AccountsInv
  <2>. QED BY <1>1, <2>1, <2>2, OthersKeep
<1>5. ASSUME NEW run \in Runs, Own(run) PROVE Linked(LedgerOf(run)', CallsOf(run)')
  <2>1. LedgerOf(run)' = LedgerOf(run) /\ CallsOf(run)' = CallsOf(run)
    BY <1>2, SameViews
  <2>. QED BY <1>5, <2>1 DEF AccountsInv
<1>. QED BY <1>3, <1>4, <1>5 DEF AccountsInv

\* A step that writes no log: of a command that is refused, or of ingest.
LEMMA IdleAccounts ==
    ASSUME AccountsInv, UNCHANGED <<logs, begun>>,
           \A q \in Procs : proc'[q] = proc[q] \/ proc'[q].run = 0
    PROVE  AccountsInv'
<1>1. \A run \in Runs : SameLogs(run) /\ Own(run)' = Own(run)
  BY SameViews DEF SameLogs, logs, Own
<1>2. ASSUME NEW q \in Procs, NEW run \in Runs, proc'[q].run = run, proc'[q].pc # "idle", Own(run)
      PROVE  Accounts(proc'[q], LedgerOf(run)', MissesOf(run)', CallsOf(run)', FilesOf(run)')
  <2>1. proc'[q] = proc[q]
    BY <1>2 DEF Own
  <2>2. Accounts(proc[q], LedgerOf(run), MissesOf(run), CallsOf(run), FilesOf(run))
    BY <1>2, <2>1 DEF AccountsInv
  <2>. QED BY <1>1, <2>1, <2>2, OthersKeep
<1>3. \A run \in Runs : Own(run) => Linked(LedgerOf(run)', CallsOf(run)')
  BY <1>1, OthersKeep DEF AccountsInv
<1>. QED BY <1>1, <1>2, <1>3 DEF AccountsInv

LEMMA AccountsInvHolds == Spec => []AccountsInv
<1>1. Init => AccountsInv
  <2>. SUFFICES ASSUME Init PROVE AccountsInv
    OBVIOUS
  <2>1. \A p \in Procs : proc[p].pc = "idle"
    BY IdleType DEF Init
  <2>2. \A run \in Runs : ~Own(run)
    BY DEF Init, Own
  <2>. QED BY <2>1, <2>2 DEF AccountsInv
<1>2. Typed /\ CountInv /\ AccountsInv /\ [Next]_vars => AccountsInv'
  <2>. SUFFICES ASSUME Typed, CountInv, AccountsInv, [Next]_vars PROVE AccountsInv'
    OBVIOUS
  <2>1. ASSUME NEW p \in Procs, Refuse(p) PROVE AccountsInv'
    <3>1. proc'[p].run = 0 /\ UNCHANGED <<logs, begun>>
      BY <2>1, RefuseDoes
    <3>2. \A q \in Procs \ {p} : proc'[q] = proc[q]
      BY <2>1, Became DEF Refuse
    <3>. QED BY <3>1, <3>2, IdleAccounts
  <2>2. ASSUME UNCHANGED vars \/ \E d \in Docs : Ingest(d) PROVE AccountsInv'
    <3>1. UNCHANGED <<logs, begun, proc>>
      BY <2>2 DEF Ingest, vars
    <3>. QED BY <3>1, IdleAccounts
  <2>. QED BY <2>1, <2>2, StepAccounts, BeginAccounts, DiesAccounts DEF Next
<1>. QED BY <1>1, <1>2, TypedHolds, CountInvHolds, PTL DEF Spec

\* The rows of a run, as the properties speak of them.
LEMMA RowsOf ==
    ASSUME NEW run
    PROVE  /\ DOMAIN LedgerOf(run) = OutcomesOf(run)
           /\ \A i \in OutcomesOf(run) : LedgerOf(run)[i] = outcomes[i]
           /\ Done(LedgerOf(run)) = {row.doc : row \in OutcomeRows(run)}
BY DEF LedgerOf, OutcomeRows, Done

\* A run that is at its gate, or past it, has done all that was asked of it.
LEMMA CompleteIs ==
    ASSUME Typed, AccountsInv, NEW p \in Procs, Complete(p)
    PROVE  LET c == proc[p]
               L == LedgerOf(c.run)
           IN  /\ c.run \in Runs /\ Accounts(c, L, MissesOf(c.run), CallsOf(c.run), FilesOf(c.run))
               /\ c.todo = {} /\ Hand(c) = {} /\ Done(L) = Asked(c) /\ c.broken \subseteq c.known
<1>. DEFINE c == proc[p]
            L == LedgerOf(c.run)
<1>1. c \in States /\ Sound(c) /\ c.pc \in {"gate", "ended"} /\ Own(c.run) /\ c.run \in Runs
  BY CommandIs DEF Complete, Own, States
<1>2. Accounts(c, L, MissesOf(c.run), CallsOf(c.run), FilesOf(c.run))
  BY <1>1 DEF AccountsInv
<1>3. c.todo = {} /\ Hand(c) = {}
  BY <1>1 DEF Sound, Hand, InHand
<1>. HIDE DEF c, L
<1>4. Done(L) = Asked(c) /\ c.broken \subseteq c.known
  BY <1>2, <1>3 DEF Accounts, Covers
<1>. QED BY <1>1, <1>2, <1>3, <1>4 DEF c, L

\* A run that ends under an id of its own has a row of every document of the filings it was asked
\* for, of a --filing run too, whose gate is not asserted.
THEOREM WholeFilingHolds == Spec => []WholeFiling
<1>1. Typed /\ AccountsInv => WholeFiling
  <2>. SUFFICES ASSUME Typed, AccountsInv, NEW p \in Procs, Complete(p)
                PROVE  {d \in proc[p].known : proc[p].scope \in {All, FilingOf[d]}}
                          \subseteq {row.doc : row \in OutcomeRows(proc[p].run)}
    BY DEF WholeFiling
  <2>1. Done(LedgerOf(proc[p].run)) = Asked(proc[p])
    BY CompleteIs
  <2>. QED BY <2>1, RowsOf DEF Asked
<1>. QED BY <1>1, TypedHolds, AccountsInvHolds, PTL

\* Under an id of its own, the counts of a row that is not failed are the rows in the files of its
\* run, kind by kind, and no file has rows of a document without a row.
THEOREM OutputsToldHolds == Spec => []OutputsTold
<1>1. Typed /\ AccountsInv => OutputsTold
  <2>. SUFFICES ASSUME Typed, AccountsInv, NEW p \in Procs, Complete(p)
       PROVE  LET mine == {o \in outputs : o.run = proc[p].run} IN
              /\ {o.doc : o \in mine} \subseteq {row.doc : row \in OutcomeRows(proc[p].run)}
              /\ \A row \in OutcomeRows(proc[p].run), k \in Kinds : row.status # "failed" =>
                    {o.n : o \in {x \in mine : x.doc = row.doc /\ x.kind = k}} = {row.emitted[k]} \ {0}
    BY DEF OutputsTold
  <2>. DEFINE c == proc[p]
              L == LedgerOf(c.run)
              mine == {o \in outputs : o.run = c.run}
  <2>1. c.pc \in {"gate", "ended"} /\ Hand(c) = {}
        /\ Accounts(c, L, MissesOf(c.run), CallsOf(c.run), FilesOf(c.run))
    BY CompleteIs DEF Complete
  <2>2. mine = Files(c.run, c.made)
    BY <2>1 DEF Accounts, FilesTold, FilesOf
  <2>3. RowsMade(c, L)
    BY <2>1 DEF Accounts, MadeTold
  <2>4. /\ \A o \in mine : \E m \in c.made : o.doc = m.doc /\ o.kind = m.kind /\ o.n = m.n
        /\ \A m \in c.made : \E o \in mine : o.doc = m.doc /\ o.kind = m.kind /\ o.n = m.n
    <3>. DEFINE File(m) == [run |-> c.run, doc |-> m.doc, kind |-> m.kind, n |-> m.n]
    <3>1. \A m \in c.made : File(m) \in mine
      BY <2>2 DEF Files
    <3>2. \A o \in mine : \E m \in c.made : o = File(m)
      BY <2>2 DEF Files
    <3>3. \A m : File(m).doc = m.doc /\ File(m).kind = m.kind /\ File(m).n = m.n
      OBVIOUS
    <3>. HIDE DEF mine, c, File
    <3>. QED BY <3>1, <3>2, <3>3
  <2>5. \A d, k : {o.n : o \in {x \in mine : x.doc = d /\ x.kind = k}} = SizesOf(c.made, d, k)
    <3>. HIDE DEF mine, c
    <3>. QED BY <2>4 DEF SizesOf
  <2>6. {o.doc : o \in mine} \subseteq {row.doc : row \in OutcomeRows(c.run)}
    <3>1. {m.doc : m \in c.made} \subseteq {row.doc : row \in OutcomeRows(c.run)}
      BY <2>1, <2>3, RowsOf DEF RowsMade
    <3>2. \A o \in mine : \E m \in c.made : o.doc = m.doc
      BY <2>4
    <3>. HIDE DEF mine, c
    <3>. QED BY <3>1, <3>2
  <2>7. ASSUME NEW row \in OutcomeRows(c.run), NEW k \in Kinds, row.status # "failed"
        PROVE  {o.n : o \in {x \in mine : x.doc = row.doc /\ x.kind = k}} = {row.emitted[k]} \ {0}
    <3>1. PICK i \in OutcomesOf(c.run) : row = outcomes[i]
      BY DEF OutcomeRows
    <3>2. i \in DOMAIN L /\ L[i] = row
      BY <3>1, RowsOf
    <3>3. SizesOf(c.made, row.doc, k) = {row.emitted[k]} \ {0}
      BY <2>3, <2>7, <3>2 DEF RowsMade
    <3>. HIDE DEF mine, c
    <3>. QED BY <2>5, <3>3
  <2>. QED BY <2>6, <2>7
<1>. QED BY <1>1, TypedHolds, AccountsInvHolds, PTL

\* The calls a row that is not failed names are the answered calls of its document in its run, no
\* more and no less, if the run has an id of its own.
THEOREM CallsLinkedHolds == Spec => []CallsLinked
<1>1. Typed /\ AccountsInv => CallsLinked
  <2>. SUFFICES ASSUME Typed, AccountsInv, NEW i \in DOMAIN outcomes,
                       outcomes[i].status # "failed", Own(outcomes[i].run)
                PROVE  outcomes[i].calls = {c.id : c \in {x \in calls : /\ x.run = outcomes[i].run
                                                                        /\ x.doc = outcomes[i].doc
                                                                        /\ ~x.error}}
    BY DEF CallsLinked
  <2>. DEFINE run == outcomes[i].run
  <2>1. run \in Runs
    <3>1. outcomes \in Seq(Rows)
      BY DEF Typed, TypeOK
    <3>2. outcomes[i] \in Rows
      BY <3>1
    <3>. QED BY <3>2 DEF Rows
  <2>2. Linked(LedgerOf(run), CallsOf(run))
    BY <2>1 DEF AccountsInv
  <2>3. i \in DOMAIN LedgerOf(run) /\ LedgerOf(run)[i] = outcomes[i]
    BY RowsOf DEF OutcomesOf
  <2>4. outcomes[i].calls = AnsweredIn(CallsOf(run), outcomes[i].doc)
    BY <2>2, <2>3 DEF Linked
  <2>5. {y \in CallsOf(run) : y.doc = outcomes[i].doc /\ ~y.error} =
           {x \in calls : x.run = run /\ x.doc = outcomes[i].doc /\ ~x.error}
    BY DEF CallsOf
  <2>. QED BY <2>4, <2>5 DEF AnsweredIn
<1>. QED BY <1>1, TypedHolds, AccountsInvHolds, PTL

\* The gate of a full run passes unless the manifest is another than when the run began.
LEMMA GatePassesNow ==
    ASSUME Typed, AccountsInv, NEW p \in Procs, Complete(p), proc[p].scope = All,
           Known = proc[p].known
    PROVE  GatePasses(proc[p].run)
<1>. DEFINE c == proc[p]
            L == LedgerOf(c.run)
            M == MissesOf(c.run)
<1>1. Accounts(c, L, M, CallsOf(c.run), FilesOf(c.run)) /\ Done(L) = Asked(c)
      /\ c.broken \subseteq c.known /\ c.run \in Runs
  BY CompleteIs
<1>2. Covers(c, L) /\ MissesTold(L, M)
  BY <1>1 DEF Accounts
<1>3. {row.doc : row \in OutcomeRows(c.run)} = Known
  <2>1. Asked(c) = c.known
    BY <1>1 DEF Asked
  <2>. QED BY <1>1, <2>1, RowsOf
<1>4. \A i, j \in OutcomesOf(c.run) : outcomes[i].doc = outcomes[j].doc => i = j
  BY <1>2, RowsOf DEF Covers
<1>5. ASSUME NEW row \in OutcomeRows(c.run)
      PROVE  RowAdds(row) /\ row.missed = misses[<<c.run, row.doc>>]
  <2>1. PICK i \in OutcomesOf(c.run) : row = outcomes[i]
    BY DEF OutcomeRows
  <2>2. i \in DOMAIN L /\ L[i] = row /\ row.doc \in Docs
    BY <1>1, <2>1, RowsOf, ViewsAre
  <2>3. RowAdds(row) /\ M[row.doc] = row.missed
    BY <1>2, <2>2 DEF Covers, MissesTold
  <2>. QED BY <2>2, <2>3 DEF MissesOf
<1>. QED BY <1>3, <1>4, <1>5 DEF GatePasses, RowAdds

\* A full run under an id of its own fails its gate only when the manifest has moved under it.
THEOREM GateAccountsHolds == Spec => GateAccounts
<1>. DEFINE Fails == \A p \in Procs : proc[p].pc = "gate" /\ proc'[p].exit = 3 /\ Own(proc[p].run) =>
                        Known # proc[p].known
<1>1. Typed /\ AccountsInv /\ [Next]_vars => [Fails]_vars
  <2>. SUFFICES ASSUME Typed, AccountsInv, [Next]_vars, NEW p \in Procs, proc[p].pc = "gate",
                       proc'[p].exit = 3, Own(proc[p].run), Known = proc[p].known
                PROVE  FALSE
    OBVIOUS
  <2>1. proc[p].exit = 0 /\ Complete(p)
    BY CommandIs DEF Sound, Complete
  <2>2. proc'[p] # proc[p]
    BY <2>1
  <2>3. Step(p) \/ Dies(p) \/ Refuse(p) \/ Begin(p)
    <3>1. CASE UNCHANGED vars \/ \E d \in Docs : Ingest(d)
      BY <2>2, <3>1 DEF vars, Ingest
    <3>2. ASSUME NEW q \in Procs, Refuse(q) \/ Begin(q) \/ Step(q) \/ Dies(q)
          PROVE  q = p
      <4>1. \A o \in Procs \ {q} : proc'[o] = proc[o]
        <5>1. CASE Step(q) \/ Dies(q)
          BY <5>1, WritesOwn
        <5>2. CASE Refuse(q) \/ Begin(q)
          <6>1. \E state : Becomes(q, state)
            BY <5>2 DEF Refuse, Begin
          <6>. QED BY <6>1, Became
        <5>. QED BY <3>2, <5>1, <5>2
      <4>. QED BY <2>2, <4>1
    <3>. QED BY <3>1, <3>2 DEF Next
  <2>4. ~Refuse(p) /\ ~Begin(p)
    BY DEF Refuse, Begin, Resting
  <2>5. ~Dies(p)
    <3>. SUFFICES ASSUME Dies(p) PROVE FALSE
      OBVIOUS
    <3>1. Dead(p)
      BY DiesDoes
    <3>. QED BY <3>1 DEF Dead, Crashed
  <2>6. Closing(p)
    BY <2>3, <2>4, <2>5, StepMoves, NoSectionsDoes
    DEF Moves, FinishedWith, Opened, Called, Built, InHand
  <2>7. ~GatePasses(proc[p].run) /\ proc[p].scope = All
    BY <2>6 DEF Closing, ExitCode
  <2>. QED BY <2>1, <2>7, GatePassesNow
<1>. QED BY <1>1, TypedHolds, AccountsInvHolds, PTL DEF Spec, GateAccounts
=============================================================================
