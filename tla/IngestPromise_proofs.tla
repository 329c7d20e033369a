------------------------ MODULE IngestPromise_proofs ------------------------
(***************************************************************************)
(* What a run of Ingest does with the documents it lists: it stores only   *)
(* news, a denial halts its state, the exit code tells the rows, and the   *)
(* whole implements Sightings.  All of it rests on IngestInv.              *)
(***************************************************************************)
EXTENDS Ingest_proofs, Maxima_proofs

\* Every variable keeps its type.
THEOREM IngestTypeOKHolds == DistinctRequests => (Spec => []TypeOK)
  <1>1. IngestInv => TypeOK
    BY DEF IngestInv
  <1>. QED BY IngestInvHolds, <1>1, PTL

\* A fetch of the bytes the last good row points to adds no file (RawStore.store).
THEOREM StoresOnlyNewsHolds == DistinctRequests => (Spec => StoresOnlyNews)
  <1>1. IngestInv /\ [Next]_vars =>
          [\A d \in Docs, r \in Runs :
              files[d][r] = 0 /\ files'[d][r] # 0 =>
                  ~(Verified(d) /\ files[d][Prior(d).path] = files'[d][r])]_vars
    <2>. SUFFICES ASSUME IngestInv, Next, NEW d \in Docs, NEW r \in Runs,
                         files[d][r] = 0, files'[d][r] # 0, Verified(d)
                  PROVE  files[d][Prior(d).path] # files'[d][r]
      OBVIOUS
    <2>0. TypeOK
      BY DEF IngestInv
    <2>1. PICK c \in Docs : Content(c)
      <3>1. ~\E c \in Docs : Lose(c)
        <4>1. ASSUME NEW c \in Docs, Lose(c) PROVE FALSE
          <5>1. PICK k \in Runs : files' = [files EXCEPT ![c][k] = 0]
            BY <4>1 DEF Lose
          <5>. QED BY <2>0, <5>1 DEF TypeOK
        <4>. QED BY <4>1
      <3>. QED BY <3>1 DEF Next, Step, store, Publish, Uncaught, Begin, Discovers, NothingFound,
              DiscoveryFails, StateDone, Report, NextDocument, AppendRow, Denied, Transient,
              GivesUp, NotModified, Refetch, Crash, Kill
    <2>2. /\ ~(Verified(c) /\ Prior(c).hash = source[c])
          /\ files' = [files EXCEPT ![c][run] = source[c]]
      BY <2>1 DEF Content
    <2>3. c = d /\ r = run /\ files'[d][r] = source[d]
      BY <2>0, <2>2 DEF TypeOK
    <2>4. PICK i \in DOMAIN manifest : manifest[i].doc = d /\ Prior(d) = manifest[i]
      BY PriorIsARow DEF Verified
    <2>5. files[d][Prior(d).path] = Prior(d).hash
      BY <2>4, PriorIsARow DEF IngestInv, KeepsBytes, Verified
    <2>. QED BY <2>2, <2>3, <2>5
  <1>. QED BY IngestInvHolds, <1>1, PTL DEF Spec, StoresOnlyNews

-----------------------------------------------------------------------------
(* A denial halts its state *)

\* The documents in hand are of one state, and no other of it was denied in this run.
DenialHalts ==
    /\ \A c, d \in InHand : StateOf[c] = StateOf[d]
    /\ \A i \in DOMAIN manifest, d \in InHand :
          manifest[i].run = run /\ manifest[i].status = "denied" =>
              StateOf[manifest[i].doc] # StateOf[d]

\* The row in hand, when it is time to append it.
LEMMA RowInHand ==
    ASSUME IngestInv, AppendRow
    PROVE  /\ pending[1] \in Rows /\ pending[1].run = run /\ pending[1].doc \in InHand
           /\ DOMAIN manifest' = DOMAIN manifest \cup {Len(manifest) + 1}
           /\ manifest'[Len(manifest) + 1] = pending[1]
           /\ \A i \in DOMAIN manifest : manifest'[i] = manifest[i]
           /\ InHand' = todo' /\ todo' = IF pending[1].status = "denied" THEN {} ELSE todo
  <1>1. pending \in Seq(Rows) /\ pending # <<>> /\ manifest \in Seq(Rows)
    BY DEF AppendRow, IngestInv, TypeOK, OnePlace
  <1>2. 1 \in DOMAIN pending
    BY <1>1, EmptySeq
  <1>3. pending[1] \in Rows /\ pending[1].run = run /\ pending[1].doc \in InHand
    BY <1>1, <1>2 DEF IngestInv, OnePlace, InHand
  <1>4. /\ DOMAIN manifest' = DOMAIN manifest \cup {Len(manifest) + 1}
        /\ manifest'[Len(manifest) + 1] = pending[1]
        /\ \A i \in DOMAIN manifest : manifest'[i] = manifest[i]
    BY <1>1, <1>3 DEF AppendRow
  <1>5. doc' = {} /\ pending' = <<>>
    BY DEF AppendRow, IngestInv, OnePlace
  <1>6. InHand' = todo'
    BY <1>5 DEF InHand
  <1>. QED BY <1>3, <1>4, <1>6 DEF AppendRow

\* What an answer leaves to append is a row of the document asked for.
LEMMA AnswerIsOfTheDocument ==
    ASSUME NEW d \in Docs, Denied(d) \/ GivesUp(d) \/ NotModified(d) \/ Content(d)
    PROVE  \E row : Logs(row) /\ row.doc = d
  <1>1. \A status, hash, etag, path : Row(d, status, hash, etag, path).doc = d
    BY DEF Row
  <1>2. CASE Denied(d) \/ GivesUp(d) \/ NotModified(d)
    BY <1>1, <1>2 DEF Denied, GivesUp, NotModified
  <1>3. CASE Content(d)
    <2>1. PICK etag : Logs(IF Verified(d) /\ Prior(d).hash = source[d]
                           THEN Row(d, "unchanged", source[d], etag, Prior(d).path)
                           ELSE Row(d, "stored", source[d], etag, run))
      BY <1>3 DEF Content
    <2>. QED BY <1>1, <2>1
  <1>. QED BY <1>2, <1>3

\* How a step moves the documents in hand.
LEMMA HandMoves ==
    ASSUME IngestInv, [Next]_vars
    PROVE  \/ UNCHANGED <<manifest, run>> /\ InHand' \subseteq InHand
           \/ Begin /\ manifest' = manifest /\ InHand' = {}
           \/ Discovers /\ UNCHANGED <<manifest, run>> /\ InHand = {} /\ InHand' \subseteq Found
           \/ AppendRow /\ run' = run
  <1>0. OnePlace /\ TypeOK
    BY DEF IngestInv
  <1>1. CASE UNCHANGED vars
    BY <1>1 DEF vars, store, request, InHand
  <1>2. CASE \E d \in Docs : Publish(d) \/ Lose(d) \/ Transient(d) \/ Refetch(d)
    BY <1>2 DEF Publish, Lose, Transient, Refetch, store, request, InHand
  <1>3. CASE (\E d \in Docs : Uncaught(d)) \/ Crash \/ Kill
    BY <1>3 DEF Uncaught, Crash, Kill, Dies, Idle, store, request, InHand
  <1>4. CASE Begin
    BY <1>0, <1>4 DEF Begin, store, OnePlace, InHand
  <1>5. CASE Discovers
    BY <1>0, <1>5 DEF Discovers, store, OnePlace, InHand
  <1>6. CASE NothingFound \/ DiscoveryFails \/ StateDone \/ Report
    BY <1>6 DEF NothingFound, DiscoveryFails, StateDone, Report, store, request, InHand
  <1>7. CASE NextDocument
    BY <1>7 DEF NextDocument, store, request, InHand
  <1>8. CASE AppendRow
    BY <1>8 DEF AppendRow, request
  <1>9. CASE \E d \in Docs : Denied(d) \/ GivesUp(d) \/ NotModified(d) \/ Content(d)
    <2>1. PICK d \in Docs : Denied(d) \/ GivesUp(d) \/ NotModified(d) \/ Content(d)
      BY <1>9
    <2>2. doc = {d} /\ UNCHANGED <<manifest, run, todo>>
      BY <2>1 DEF Denied, GivesUp, NotModified, Content, Asking, store, request
    <2>3. PICK row : Logs(row) /\ row.doc = d
      BY <2>1, AnswerIsOfTheDocument
    <2>4. InHand' = todo \cup {d}
      BY <2>2, <2>3 DEF Logs, InHand
    <2>. QED BY <2>2, <2>4 DEF InHand
  <1>. QED BY <1>1, <1>2, <1>3, <1>4, <1>5, <1>6, <1>7, <1>8, <1>9 DEF Next, Step

\* A denied row and the end of its state are one step.
LEMMA DenialHaltsNext ==
    ASSUME IngestInv, DenialHalts, [Next]_vars
    PROVE  DenialHalts'
  <1>1. CASE UNCHANGED <<manifest, run>> /\ InHand' \subseteq InHand
    BY <1>1 DEF DenialHalts
  <1>2. CASE InHand' = {}
    BY <1>2 DEF DenialHalts
  <1>3. CASE Discovers /\ UNCHANGED <<manifest, run>> /\ InHand' \subseteq Found
    <2>1. left # <<>> /\ TypeOK /\ NoRowYet
      BY <1>3 DEF Discovers, IngestInv
    <2>2. \A d \in Found : StateOf[d] = left[1]
      BY <2>1, TailOfLeft DEF Found
    <2>3. \A i \in DOMAIN manifest : manifest[i].run = run => StateOf[manifest[i].doc] # left[1]
      BY <2>1, TailOfLeft DEF NoRowYet
    <2>. QED BY <1>3, <2>2, <2>3 DEF DenialHalts
  <1>4. CASE AppendRow /\ run' = run
    <2>. SUFFICES ASSUME pending[1].status # "denied" PROVE DenialHalts'
      BY <1>2, <1>4, RowInHand
    <2>1. InHand' \subseteq InHand
      BY <1>4, RowInHand DEF InHand
    <2>. QED BY <1>4, <2>1, RowInHand DEF DenialHalts
  <1>. QED BY <1>1, <1>2, <1>3, <1>4, HandMoves

LEMMA DenialHaltsHolds == DistinctRequests => (Spec => []DenialHalts)
  <1>1. Init => DenialHalts
    BY DEF Init, DenialHalts, InHand
  <1>. QED BY IngestInvHolds, <1>1, DenialHaltsNext, PTL DEF Spec

\* After a denial nothing of that state is requested in that run (AccessDeniedError ends
\* _retrieve_documents).
THEOREM DeniedIsNotAskedHolds == DistinctRequests => (Spec => []DeniedIsNotAsked)
  <1>1. DenialHalts => DeniedIsNotAsked
    BY DEF DenialHalts, DeniedIsNotAsked, Asking, InHand, RowsOfRun
  <1>. QED BY DenialHaltsHolds, <1>1, PTL

-----------------------------------------------------------------------------
(* The exit code *)

HasRow(d) == \E i \in DOMAIN manifest : manifest[i].run = run /\ manifest[i].doc = d

InDeniedState(d) ==
    \E i \in DOMAIN manifest : /\ manifest[i].run = run /\ manifest[i].status = "denied"
                               /\ StateOf[manifest[i].doc] = StateOf[d]

HasStatus(o) == \E i \in DOMAIN manifest : manifest[i].run = run /\ manifest[i].status = o

\* A run that has not died.
Reporting == pc # "idle" /\ (pc = "ended" => exit # Traceback)

\* What it has counted at documents are the rows it has written, no more and no less, and a
\* listed document is still in hand, has its row, or was dropped with its denied state.
Accounted ==
    /\ Reporting =>
          /\ \A o \in {"failed", "denied"} : <<"document", o>> \in outcomes <=> HasStatus(o)
          /\ mode # "dry" => \A d \in listed : d \in InHand \/ HasRow(d) \/ InDeniedState(d)
    /\ pc = "ended" /\ exit # Traceback => exit = ExitCode

RowsSame ==
    /\ \A d : HasRow(d)' = HasRow(d) /\ InDeniedState(d)' = InDeniedState(d)
    /\ \A o : HasStatus(o)' = HasStatus(o)

\* Rows stay, and so do the documents that have them.
LEMMA RowsStay ==
    ASSUME run' = run, DOMAIN manifest \subseteq DOMAIN manifest',
           \A i \in DOMAIN manifest : manifest'[i] = manifest[i], NEW d
    PROVE  (HasRow(d) => HasRow(d)') /\ (InDeniedState(d) => InDeniedState(d)')
  BY DEF HasRow, InDeniedState

\* A row that is appended is counted, and its document has its row.
LEMMA AccountedAppend ==
    ASSUME IngestInv, DenialHalts, Accounted, AppendRow
    PROVE  Accounted'
  <1>. DEFINE row == pending[1]
              new == Len(manifest) + 1
  <1>0. /\ row \in Rows /\ row.run = run /\ row.doc \in InHand
        /\ DOMAIN manifest' = DOMAIN manifest \cup {new}
        /\ manifest'[new] = row /\ \A i \in DOMAIN manifest : manifest'[i] = manifest[i]
        /\ InHand' = todo' /\ todo' = IF row.status = "denied" THEN {} ELSE todo
    BY RowInHand
  <1>1. /\ pc = "append" /\ pc' = "documents" /\ doc = {} /\ Reporting
        /\ UNCHANGED <<run, mode, listed>>
        /\ outcomes' = outcomes \cup ({<<"document", row.status>>} \cap Troubles)
    BY DEF AppendRow, request, IngestInv, OnePlace, Reporting
  <1>2. ASSUME NEW o \in {"failed", "denied"}
        PROVE  <<"document", o>> \in outcomes' <=> HasStatus(o)'
    <2>1. <<"document", o>> \in outcomes' <=> <<"document", o>> \in outcomes \/ row.status = o
      BY <1>1 DEF Troubles
    <2>2. HasStatus(o)' <=> HasStatus(o) \/ row.status = o
      <3>1. HasStatus(o)' => HasStatus(o) \/ row.status = o
        BY <1>0, <1>1 DEF HasStatus
      <3>2. HasStatus(o) => HasStatus(o)'
        BY <1>0, <1>1 DEF HasStatus
      <3>3. row.status = o => HasStatus(o)'
        BY <1>0, <1>1 DEF HasStatus
      <3>. QED BY <3>1, <3>2, <3>3
    <2>. QED BY <1>1, <2>1, <2>2 DEF Accounted
  <1>3. ASSUME mode # "dry", NEW d \in listed
        PROVE  d \in InHand' \/ HasRow(d)' \/ InDeniedState(d)'
    <2>1. d \in InHand \/ HasRow(d) \/ InDeniedState(d)
      BY <1>1, <1>3 DEF Accounted
    <2>2. CASE HasRow(d) \/ InDeniedState(d)
      BY <1>0, <1>1, <2>2, RowsStay
    <2>3. CASE d = row.doc
      BY <1>0, <1>1, <2>3 DEF HasRow
    <2>4. CASE d \in todo /\ row.status # "denied"
      BY <1>0, <2>4
    <2>5. CASE d \in InHand /\ row.status = "denied"
      <3>1. StateOf[d] = StateOf[row.doc]
        BY <1>0, <2>5 DEF DenialHalts
      <3>. QED BY <1>0, <1>1, <2>5, <3>1 DEF InDeniedState
    <2>6. d \in InHand => d \in todo \/ d = row.doc
      <3>1. Len(pending) = 1 /\ DOMAIN pending = {1}
        BY OneRow DEF IngestInv, TypeOK, AppendRow
      <3>. QED BY <1>1, <3>1 DEF InHand
    <2>. QED BY <2>1, <2>2, <2>3, <2>4, <2>5, <2>6
  <1>. QED BY <1>1, <1>2, <1>3 DEF Accounted

LEMMA AccountedNext ==
    ASSUME IngestInv, DenialHalts, Accounted, [Next]_vars
    PROVE  Accounted'
  <1>0. TypeOK /\ OnePlace
    BY DEF IngestInv
  <1>1. CASE UNCHANGED <<manifest, run, mode, listed, outcomes, exit>> /\ InHand' = InHand
             /\ (pc' = "ended") = (pc = "ended") /\ (pc' = "idle") = (pc = "idle")
    <2>1. /\ Reporting' = Reporting /\ ExitCode' = ExitCode
          /\ RowsSame
      BY <1>1 DEF Reporting, ExitCode, Told, RowsSame, HasRow, InDeniedState, HasStatus
    <2>. QED BY <1>1, <2>1 DEF Accounted, RowsSame
  <1>2. CASE \/ UNCHANGED vars
             \/ \E d \in Docs : Publish(d) \/ Lose(d) \/ Transient(d) \/ Refetch(d)
    <2>1. UNCHANGED <<manifest, run, mode, listed, outcomes, exit, todo, doc, pending>>
      BY <1>2 DEF vars, Publish, Lose, Transient, Refetch, store, request
    <2>2. pc' = pc \/ (pc = "fetch" /\ pc' = "refetch")
      BY <1>2 DEF vars, Publish, Lose, Transient, Refetch
    <2>. QED BY <1>1, <2>1, <2>2 DEF InHand
  <1>3. CASE (\E d \in Docs : Uncaught(d)) \/ Crash \/ Kill
    <2>1. pc' = "idle" \/ (pc' = "ended" /\ exit' = Traceback)
      BY <1>3 DEF Uncaught, Crash, Kill, Dies
    <2>. QED BY <2>1 DEF Accounted, Reporting
  <1>4. CASE Begin
    <2>1. /\ pc' = "discover" /\ listed' = {} /\ outcomes' = {} /\ manifest' = manifest
          /\ \A i \in DOMAIN manifest : manifest[i].run # run'
      BY <1>4 DEF Begin, NextRunId, Used, store
    <2>. QED BY <2>1 DEF Accounted, HasStatus
  <1>5. CASE Discovers
    <2>1. /\ pc = "discover" /\ pc' \in {"discover", "documents"}
          /\ UNCHANGED <<manifest, run, mode, outcomes, doc, pending>>
          /\ listed' = listed \cup Found
          /\ mode # "dry" => todo' = Found
      BY <1>5 DEF Discovers, store, world
    <2>2. InHand = {} /\ (mode # "dry" => InHand' = Found)
      BY <1>0, <2>1 DEF OnePlace, InHand
    <2>3. RowsSame
      BY <2>1 DEF RowsSame, HasRow, InDeniedState, HasStatus
    <2>. QED BY <2>1, <2>2, <2>3 DEF Accounted, Reporting, RowsSame
  <1>6. CASE NothingFound \/ DiscoveryFails \/ StateDone \/ Report
    <2>1. /\ UNCHANGED <<manifest, run, mode, listed>> /\ InHand' = InHand
          /\ \A o : <<"document", o>> \in outcomes' <=> <<"document", o>> \in outcomes
          /\ Reporting
      BY <1>6 DEF NothingFound, DiscoveryFails, StateDone, Report, store, request, InHand, Reporting
    <2>2. RowsSame
      BY <2>1 DEF RowsSame, HasRow, InDeniedState, HasStatus
    <2>3. pc' = "ended" => exit' = ExitCode'
      BY <1>6 DEF NothingFound, DiscoveryFails, StateDone, Report, ExitCode, Told
    <2>. QED BY <2>1, <2>2, <2>3 DEF Accounted, RowsSame
  <1>7. CASE NextDocument
    <2>1. /\ UNCHANGED <<manifest, run, mode, listed, outcomes, exit, pending>>
          /\ pc = "documents" /\ pc' = "fetch" /\ doc = {} /\ todo' \cup doc' = todo
      BY <1>0, <1>7 DEF NextDocument, OnePlace, store, request
    <2>. QED BY <1>1, <2>1 DEF InHand
  <1>8. CASE AppendRow
    BY <1>8, AccountedAppend
  <1>9. CASE \E d \in Docs : Denied(d) \/ GivesUp(d) \/ NotModified(d) \/ Content(d)
    <2>1. PICK d \in Docs : Denied(d) \/ GivesUp(d) \/ NotModified(d) \/ Content(d)
      BY <1>9
    <2>2. /\ doc = {d} /\ pc \in {"fetch", "refetch"}
          /\ UNCHANGED <<manifest, run, mode, listed, todo, outcomes, exit>>
      BY <2>1 DEF Denied, GivesUp, NotModified, Content, Asking, store, request
    <2>3. PICK row : Logs(row) /\ row.doc = d
      BY <2>1, AnswerIsOfTheDocument
    <2>4. pending = <<>> /\ pc' = "append"
      BY <1>0, <2>2, <2>3 DEF OnePlace, Logs
    <2>5. InHand' = InHand
      BY <2>2, <2>3, <2>4 DEF Logs, InHand
    <2>. QED BY <1>1, <2>2, <2>4, <2>5
  <1>. QED BY <1>2, <1>3, <1>4, <1>5, <1>6, <1>7, <1>8, <1>9 DEF Next, Step

\* The exit code says what the run met, both ways: 2 exactly when a document or an index was
\* denied, 1 exactly when something failed and nothing was denied, 0 only if every listed document
\* has a good row; and only a denied state leaves listed documents without one (run_ingest,
\* RunResult.exit_code).
THEOREM ExitTellsTheRowsHolds == DistinctRequests => (Spec => []ExitTellsTheRows)
  <1>. SUFFICES ASSUME DistinctRequests PROVE Spec => []ExitTellsTheRows
    OBVIOUS
  <1>1. Init => Accounted
    BY DEF Init, Accounted, Reporting
  <1>2. IngestInv /\ Accounted => ExitTellsTheRows
    <2>. SUFFICES ASSUME IngestInv, Accounted, pc = "ended", exit # Traceback
                  PROVE  /\ exit = 2 <=> Met("denied")
                         /\ exit = 1 <=> Met("failed") /\ ~Met("denied")
                         /\ mode # "dry" =>
                               /\ exit = 0 => \A d \in listed : \E row \in RowsOfRun :
                                                 row.doc = d /\ row.status \in Good
                               /\ Unchecked = {}
      BY DEF ExitTellsTheRows
    <2>1. InHand = {} /\ Reporting /\ exit = ExitCode
      BY DEF IngestInv, OnePlace, InHand, Accounted, Reporting
    <2>2. \A o \in {"failed", "denied"} : Told(o) <=> Met(o)
      <3>1. \A o : HasStatus(o) <=> \E row \in RowsOfRun : row.status = o
        BY DEF HasStatus, RowsOfRun
      <3>. QED BY <2>1, <3>1 DEF Accounted, Told, Met
    <2>3. exit = (IF Met("denied") THEN 2 ELSE IF Met("failed") THEN 1 ELSE 0)
      BY <2>1, <2>2 DEF ExitCode
    <2>4. ASSUME mode # "dry" PROVE Unchecked = {}
      <3>1. \A d \in listed : HasRow(d) \/ InDeniedState(d)
        BY <2>1, <2>4 DEF Accounted
      <3>. QED BY <3>1 DEF Unchecked, RowsOfRun, HasRow, InDeniedState
    <2>5. ASSUME mode # "dry", exit = 0, NEW d \in listed
          PROVE  \E row \in RowsOfRun : row.doc = d /\ row.status \in Good
      <3>1. \A row \in RowsOfRun : row.status \notin {"failed", "denied"}
        BY <2>3, <2>5 DEF Met
      <3>2. PICK row \in RowsOfRun : row.doc = d
        BY <2>4, <2>5, <3>1 DEF Unchecked
      <3>3. row \in Rows
        BY DEF RowsOfRun, IngestInv, TypeOK
      <3>. QED BY <3>1, <3>2, <3>3 DEF Rows
    <2>. QED BY <2>3, <2>4, <2>5
  <1>. QED BY IngestInvHolds, DenialHaltsHolds, <1>1, <1>2, AccountedNext, PTL DEF Spec

-----------------------------------------------------------------------------
(* The promise of Sightings.tla *)

\* A good row's validator is of its content or an older one, and its content was published.
OfTheSite(row) == row.hash # 0 => row.etag <= row.hash /\ row.hash <= source[row.doc]

\* So are all rows, and the file of the row in hand is there: what makes a 304 trustworthy
\* where no site restores a content it has withdrawn.
Served ==
    /\ \A i \in DOMAIN manifest : OfTheSite(manifest[i])
    /\ \A i \in DOMAIN pending :
          /\ OfTheSite(pending[i])
          /\ pending[i].hash # 0 => files[pending[i].doc][pending[i].path] # 0

\* The last good row's content was published, and its validator is no newer.
LEMMA PriorOfTheSite ==
    ASSUME IngestInv, Served, NEW d \in Docs
    PROVE  /\ Prior(d).hash \in Nat /\ Prior(d).etag \in Nat /\ source[d] \in Nat
           /\ Prior(d).etag <= Prior(d).hash /\ Prior(d).hash <= source[d]
  <1>0. source[d] \in Nat
    BY DEF IngestInv, TypeOK, Versions
  <1>1. CASE GoodAt(d) = {}
    BY <1>0, <1>1 DEF Prior, NoRow
  <1>2. CASE GoodAt(d) # {}
    BY <1>0, <1>2, LastGoodIsARow DEF Served, OfTheSite, Rows, Versions
  <1>. QED BY <1>1, <1>2

\* A 304 is about the content the log has: that is what the site serves now.
LEMMA NotModifiedIsServed ==
    ASSUME IngestInv, Served, NEW d \in Docs, NotModified(d)
    PROVE  /\ Prior(d).hash = source[d] /\ source[d] # 0 /\ files[d][Prior(d).path] # 0
           /\ pending' = <<Row(d, "unchanged", source[d], source[d], Prior(d).path)>>
  <1>1. Prior(d).etag = source[d] /\ source[d] # 0
    BY DEF NotModified, Validator
  <1>2. Prior(d).hash = source[d]
    BY <1>1, PriorOfTheSite
  <1>. QED BY <1>1, <1>2 DEF NotModified, Verified, Logs

\* A 200 leaves a row of what the site serves now, whose file is there.
LEMMA ContentIsServed ==
    ASSUME IngestInv, Served, NEW d \in Docs, Content(d)
    PROVE  \E row : /\ pending' = <<row>> /\ row.doc = d /\ row.hash = source[d]
                    /\ row.etag \in Nat /\ row.etag <= source[d] /\ files'[d][row.path] # 0
  <1>0. TypeOK /\ source[d] # 0
    BY DEF IngestInv, Content
  <1>1. \A e \in {source[d], Prior(d).etag} : e \in Nat /\ e <= source[d]
    BY PriorOfTheSite
  <1>2. PICK etag \in {source[d], Prior(d).etag} :
           Logs(IF Verified(d) /\ Prior(d).hash = source[d]
                THEN Row(d, "unchanged", source[d], etag, Prior(d).path)
                ELSE Row(d, "stored", source[d], etag, run))
    BY DEF Content
  <1>3. CASE Verified(d) /\ Prior(d).hash = source[d]
    <2>1. files' = files /\ files[d][Prior(d).path] # 0
      BY <1>3 DEF Content, Verified
    <2>. QED BY <1>1, <1>2, <1>3, <2>1 DEF Logs, Row
  <1>4. CASE ~(Verified(d) /\ Prior(d).hash = source[d])
    <2>1. files' = [files EXCEPT ![d][run] = source[d]]
      BY <1>4 DEF Content
    <2>2. files'[d][run] # 0
      BY <1>0, <2>1 DEF TypeOK
    <2>. QED BY <1>1, <1>2, <1>4, <2>2 DEF Logs, Row
  <1>. QED BY <1>3, <1>4

\* Sites publish newer contents only, so a 304 answers for the bytes that are there.
LEMMA ServedNext ==
    ASSUME IngestInv, Served, ~Restores, [Next]_vars
    PROVE  Served'
  <1>0. TypeOK /\ OnePlace
    BY DEF IngestInv
  <1>1. CASE UNCHANGED <<source, manifest, files>> /\ (pending' = pending \/ pending' = <<>>)
    BY <1>1 DEF Served, OfTheSite
  <1>2. CASE \E d \in Docs : Publish(d)
    <2>1. PICK d \in Docs, v \in Versions : v > source[d] /\ source' = [source EXCEPT ![d] = v]
      BY <1>2 DEF Publish
    <2>2. \A c \in Docs : source[c] \in Nat /\ source'[c] \in Nat /\ source[c] <= source'[c]
      BY <1>0, <2>1 DEF TypeOK, Versions
    <2>3. UNCHANGED <<manifest, pending, files>>
      BY <1>2 DEF Publish, store
    <2>4. ASSUME NEW row \in Rows, OfTheSite(row) PROVE OfTheSite(row)'
      BY <2>2, <2>4 DEF OfTheSite, Rows, Versions
    <2>. QED BY <1>0, <2>3, <2>4 DEF Served, TypeOK, OfTheSite
  <1>3. CASE \E d \in Docs : Lose(d)
    <2>1. pending = <<>> /\ UNCHANGED <<source, manifest, pending>>
      BY <1>0, <1>3 DEF Lose, OnePlace
    <2>. QED BY <2>1 DEF Served, OfTheSite
  <1>4. CASE AppendRow
    <2>1. 1 \in DOMAIN pending
      BY <1>0, <1>4, OneRow DEF TypeOK, AppendRow
    <2>2. OfTheSite(pending[1]) /\ UNCHANGED source /\ pending' = <<>>
      BY <1>4, <2>1 DEF Served, AppendRow, world
    <2>. QED BY <1>4, <2>2, RowInHand DEF Served, OfTheSite
  <1>5. CASE \E d \in Docs : Denied(d) \/ GivesUp(d)
    <2>1. PICK row : row.hash = 0 /\ pending' = <<row>>
      BY <1>5 DEF Denied, GivesUp, Logs, Row
    <2>2. UNCHANGED <<source, manifest>>
      BY <1>5 DEF Denied, GivesUp, store, world
    <2>. QED BY <2>1, <2>2 DEF Served, OfTheSite
  <1>6. CASE \E d \in Docs : NotModified(d)
    <2>1. PICK d \in Docs : NotModified(d)
      BY <1>6
    <2>2. UNCHANGED <<source, manifest, files>>
      BY <2>1 DEF NotModified, store, world
    <2>3. source[d] \in Nat
      BY <1>0 DEF TypeOK, Versions
    <2>. QED BY <2>1, <2>2, <2>3, NotModifiedIsServed DEF Served, OfTheSite, Row
  <1>7. CASE \E d \in Docs : Content(d)
    <2>1. PICK d \in Docs : Content(d)
      BY <1>7
    <2>2. PICK row : /\ pending' = <<row>> /\ row.doc = d /\ row.hash = source[d]
                     /\ row.etag \in Nat /\ row.etag <= source[d] /\ files'[d][row.path] # 0
      BY <2>1, ContentIsServed
    <2>3. UNCHANGED <<source, manifest>> /\ source[d] \in Nat
      BY <1>0, <2>1 DEF Content, world, TypeOK, Versions
    <2>. QED BY <2>2, <2>3 DEF Served, OfTheSite
  <1>8. CASE UNCHANGED vars
    BY <1>1, <1>8 DEF vars, store, world
  <1>9. CASE \E d \in Docs : Transient(d) \/ Refetch(d) \/ Uncaught(d)
    BY <1>1, <1>9 DEF Transient, Refetch, Uncaught, Dies, Idle, store, world
  <1>10. CASE Begin \/ Discovers \/ NothingFound \/ DiscoveryFails \/ StateDone \/ Report
              \/ NextDocument \/ Crash \/ Kill
    BY <1>1, <1>10 DEF Begin, Discovers, NothingFound, DiscoveryFails, StateDone, Report,
       NextDocument, Crash, Kill, Dies, Idle, store, world
  <1>. QED BY <1>2, <1>3, <1>4, <1>5, <1>6, <1>7, <1>8, <1>9, <1>10 DEF Next, Step

LEMMA ServedHolds == ASSUME DistinctRequests, ~Restores PROVE Spec => []Served
  <1>1. Init => Served
    BY DEF Init, Served
  <1>2. IngestInv /\ Served /\ [Next]_vars => Served'
    BY ServedNext
  <1>. QED BY IngestInvHolds, <1>1, <1>2, PTL DEF Spec

\* The refinement mapping of Promise, part by part.
Answer(d) == IF pending # <<>> /\ pending[1].doc = d THEN pending[1].hash ELSE 0

RowsAt(d) == {i \in DOMAIN manifest : manifest[i].doc = d}

Sighting(d) ==
    IF RowsAt(d) = {} THEN "none"
    ELSE IF manifest[Max(RowsAt(d))].status \in Good THEN "ok" ELSE "failed"

Gone(d) == Prior(d).path # 0 /\ files[d][Prior(d).path] = 0

AnswerSame   == \A d \in Docs : Answer(d)' = Answer(d)
SightingSame == \A d \in Docs : Sighting(d)' = Sighting(d)
BytesSame    == \A d \in Docs : Prior(d)'.hash = Prior(d).hash
GoneSame     == \A d \in Docs : Gone(d)' = Gone(d)

\* A step of Sightings is what it does to the one document, and to no other.
LEMMA PromiseStutter ==
    ASSUME source' = source, AnswerSame, SightingSame, BytesSame, GoneSame
    PROVE  UNCHANGED Promise!vars
  BY DEF Promise!vars, AnswerSame, SightingSame, BytesSame, GoneSame, Answer, Sighting, RowsAt, Gone

\* The site posts or changes a document.
LEMMA PromisePost ==
    ASSUME NEW d \in Docs, NEW v \in Versions, source' = [source EXCEPT ![d] = v],
           AnswerSame, SightingSame, BytesSame, GoneSame
    PROVE  Promise!Next
  <1>1. Promise!Post(d)
    BY DEF Promise!Post, AnswerSame, SightingSame, BytesSame, GoneSame, Answer, Sighting, RowsAt, Gone
  <1>. QED BY <1>1 DEF Promise!Next

\* The site's answer to a document is in hand.
LEMMA PromiseServe ==
    ASSUME NEW d \in Docs, source' = source, SightingSame, BytesSame, GoneSame,
           Answer(d) = 0, source[d] # 0, Answer(d)' = source[d],
           \A c \in Docs \ {d} : Answer(c)' = Answer(c)
    PROVE  Promise!Next
  <1>1. Promise!Serve(d)
    BY DEF Promise!Serve, SightingSame, BytesSame, GoneSame, Answer, Sighting, RowsAt, Gone
  <1>. QED BY <1>1 DEF Promise!Next

\* A good row is appended.
LEMMA PromiseSee ==
    ASSUME NEW d \in Docs, source' = source, Answer(d) # 0, Answer(d)' = 0,
           Prior(d)'.hash = Answer(d), Sighting(d)' = "ok", ~Gone(d)',
           \A c \in Docs \ {d} :
              /\ Answer(c)' = Answer(c) /\ Sighting(c)' = Sighting(c)
              /\ Prior(c)'.hash = Prior(c).hash /\ Gone(c)' = Gone(c)
    PROVE  Promise!Next
  <1>1. /\ [c \in Docs |-> Answer(c)'] = [[c \in Docs |-> Answer(c)] EXCEPT ![d] = 0]
        /\ [c \in Docs |-> Sighting(c)'] = [[c \in Docs |-> Sighting(c)] EXCEPT ![d] = "ok"]
        /\ [c \in Docs |-> Prior(c)'.hash] = [[c \in Docs |-> Prior(c).hash] EXCEPT ![d] = Answer(d)]
        /\ {c \in Docs : Gone(c)'} = {c \in Docs : Gone(c)} \ {d}
    OBVIOUS
  <1>2. Promise!See(d)
    BY <1>1 DEF Promise!See, Answer, Sighting, RowsAt, Gone
  <1>. QED BY <1>2 DEF Promise!Next

\* A failed or denied row is appended.
LEMMA PromiseFail ==
    ASSUME NEW d \in Docs, source' = source, AnswerSame, BytesSame, GoneSame,
           Answer(d) = 0, Sighting(d)' = "failed",
           \A c \in Docs \ {d} : Sighting(c)' = Sighting(c)
    PROVE  Promise!Next
  <1>1. Promise!Fail(d)
    BY DEF Promise!Fail, AnswerSame, BytesSame, GoneSame, Answer, Sighting, RowsAt, Gone
  <1>. QED BY <1>1 DEF Promise!Next

\* A row in hand is lost to a kill.
LEMMA PromiseForget ==
    ASSUME NEW d \in Docs, source' = source, SightingSame, BytesSame, GoneSame,
           Answer(d)' = 0, \A c \in Docs \ {d} : Answer(c)' = Answer(c)
    PROVE  Promise!Next
  <1>1. Promise!Forget(d)
    BY DEF Promise!Forget, SightingSame, BytesSame, GoneSame, Answer, Sighting, RowsAt, Gone
  <1>. QED BY <1>1 DEF Promise!Next

\* A stored file disappears.
LEMMA PromiseLose ==
    ASSUME NEW d \in Docs, source' = source, AnswerSame, SightingSame, BytesSame,
           Prior(d).hash # 0, Gone(d)', \A c \in Docs \ {d} : Gone(c)' = Gone(c)
    PROVE  Promise!Next
  <1>1. Promise!Lose(d)
    BY DEF Promise!Lose, AnswerSame, SightingSame, BytesSame, Answer, Sighting, RowsAt, Gone
  <1>. QED BY <1>1 DEF Promise!Next

\* What the log and the store say while they stay as they are.
LEMMA StoreSaysTheSame ==
    ASSUME UNCHANGED store
    PROVE  SightingSame /\ BytesSame /\ GoneSame
  BY DEF store, SightingSame, BytesSame, GoneSame, Sighting, RowsAt, Gone, Prior, GoodAt

\* The file of the last good row is not in the directory of a run in progress.
LEMMA PriorIsElsewhere ==
    ASSUME IngestInv, NEW d \in Docs, Asking(d), Prior(d).path # 0
    PROVE  Prior(d).path # run
  <1>1. PICK i \in DOMAIN manifest : manifest[i].doc = d /\ Prior(d) = manifest[i]
    BY PriorIsARow
  <1>2. KeepsBytes(manifest[i]) /\ Prior(d).hash # 0
    BY PriorIsARow DEF IngestInv
  <1>3. \A k \in DOMAIN manifest : ~(manifest[k].doc = d /\ manifest[k].run = run)
    BY DEF Asking, InHand, IngestInv, NoRowYet
  <1>. QED BY <1>1, <1>2, <1>3 DEF KeepsBytes

\* An answer changes what is in hand of its document only.
LEMMA PromiseOfServing ==
    ASSUME IngestInv, Served, NEW d \in Docs, NotModified(d) \/ Content(d)
    PROVE  Promise!Next
  <1>0. TypeOK /\ OnePlace /\ Asking(d)
    BY DEF IngestInv, NotModified, Content, Asking
  <1>1. pending = <<>> /\ source[d] # 0 /\ UNCHANGED <<source, manifest>>
    BY <1>0 DEF NotModified, Content, Validator, Asking, OnePlace, store, world
  <1>2. PICK row : pending' = <<row>> /\ row.doc = d /\ row.hash = source[d]
    BY NotModifiedIsServed, ContentIsServed DEF Row
  <1>3. /\ Answer(d) = 0 /\ Answer(d)' = source[d]
        /\ \A c \in Docs \ {d} : Answer(c)' = Answer(c)
    BY <1>1, <1>2 DEF Answer
  <1>4. SightingSame /\ BytesSame
    BY <1>1 DEF SightingSame, BytesSame, Sighting, RowsAt, Prior, GoodAt
  <1>5. \A c \in Docs : Prior(c)' = Prior(c)
    BY <1>1 DEF Prior, GoodAt
  <1>6. \A c \in Docs : Prior(c).path # 0 => files'[c][Prior(c).path] = files[c][Prior(c).path]
    <2>1. files' = files \/ files' = [files EXCEPT ![d][run] = source[d]]
      BY DEF NotModified, Content, store
    <2>2. Prior(d).path # 0 => Prior(d).path # run
      BY <1>0, PriorIsElsewhere
    <2>3. CASE files' = files
      BY <2>3
    <2>4. CASE files' = [files EXCEPT ![d][run] = source[d]]
      <3>. SUFFICES ASSUME NEW c \in Docs, Prior(c).path # 0
                    PROVE  files'[c][Prior(c).path] = files[c][Prior(c).path]
        OBVIOUS
      <3>1. c # d => files'[c] = files[c]
        BY <1>0, <2>4 DEF TypeOK
      <3>2. \A k \in Runs \ {run} : files'[d][k] = files[d][k]
        BY <1>0, <2>4 DEF TypeOK
      <3>3. Prior(c).path \in Runs
        BY PriorIsARow DEF Rows
      <3>. QED BY <2>2, <3>1, <3>2, <3>3
    <2>. QED BY <2>1, <2>3, <2>4
  <1>7. GoneSame
    BY <1>5, <1>6 DEF GoneSame, Gone
  <1>. QED BY <1>1, <1>3, <1>4, <1>7, PromiseServe

\* An appended row changes the sighting and the bytes of its document only.
LEMMA PromiseOfAppending ==
    ASSUME IngestInv, Served, AppendRow
    PROVE  Promise!Next
  <1>0. TypeOK /\ OnePlace
    BY DEF IngestInv
  <1>. PICK row : row = pending[1]
    OBVIOUS
  <1>. PICK new \in Nat : new = Len(manifest) + 1
    BY <1>0 DEF TypeOK
  <1>1. /\ row \in Rows /\ 1 \in DOMAIN pending /\ pending # <<>> /\ pending' = <<>>
        /\ UNCHANGED <<source, files>>
    BY <1>0, OneRow, RowInHand DEF AppendRow, world, TypeOK
  <1>2. /\ DOMAIN manifest' = DOMAIN manifest \cup {new} /\ manifest'[new] = row
        /\ \A i \in DOMAIN manifest : manifest'[i] = manifest[i] /\ i \in Nat /\ i < new
    BY <1>0, RowInHand DEF TypeOK
  <1>. PICK d \in Docs : d = row.doc
    BY <1>1 DEF Rows
  <1>3. /\ Answer(d) = row.hash /\ Answer(d)' = 0
        /\ \A c \in Docs \ {d} : Answer(c)' = Answer(c)
    BY <1>1 DEF Answer
  <1>4. Sighting(d)' = IF row.status \in Good THEN "ok" ELSE "failed"
    <2>1. RowsAt(d)' = RowsAt(d) \cup {new}
      BY <1>2 DEF RowsAt
    <2>2. Max(RowsAt(d)') = new
      BY <1>2, <2>1, MaxIs DEF RowsAt
    <2>. QED BY <1>2, <2>1, <2>2 DEF Sighting
  <1>5. ASSUME NEW c \in Docs \ {d}
        PROVE  Sighting(c)' = Sighting(c) /\ Prior(c)' = Prior(c) /\ Gone(c)' = Gone(c)
    <2>1. RowsAt(c)' = RowsAt(c) /\ GoodAt(c)' = GoodAt(c)
      BY <1>2 DEF RowsAt, GoodAt
    <2>2. ASSUME NEW S, S \subseteq DOMAIN manifest, S # {}
          PROVE  manifest'[Max(S)] = manifest[Max(S)]
      <3>1. Max(S) \in S
        BY <1>2, <2>2, BoundedMax
      <3>. QED BY <1>2, <2>2, <3>1
    <2>3. RowsAt(c) \subseteq DOMAIN manifest /\ GoodAt(c) \subseteq DOMAIN manifest
      BY DEF RowsAt, GoodAt
    <2>4. Sighting(c)' = Sighting(c) /\ Prior(c)' = Prior(c)
      BY <2>1, <2>2, <2>3 DEF Sighting, Prior
    <2>. QED BY <1>1, <2>4 DEF Gone
  <1>6. CASE row.hash # 0
    <2>1. row.status \in Good /\ files[d][row.path] # 0
      BY <1>1, <1>6 DEF IngestInv, KeepsBytes, Served
    <2>2. GoodAt(d)' = GoodAt(d) \cup {new}
      BY <1>2, <1>6 DEF GoodAt
    <2>3. Max(GoodAt(d)') = new
      BY <1>2, <2>2, MaxIs DEF GoodAt
    <2>4. Prior(d)' = row
      BY <1>2, <2>2, <2>3 DEF Prior
    <2>5. ~Gone(d)'
      BY <1>1, <2>1, <2>4 DEF Gone
    <2>. QED BY <1>1, <1>3, <1>4, <1>5, <1>6, <2>1, <2>4, <2>5, PromiseSee
  <1>7. CASE row.hash = 0
    <2>1. row.status \notin Good
      BY <1>1, <1>7 DEF IngestInv, KeepsBytes
    <2>2. GoodAt(d)' = GoodAt(d)
      BY <1>2, <1>7 DEF GoodAt
    <2>3. Prior(d)' = Prior(d)
      <3>1. CASE GoodAt(d) = {}
        BY <2>2, <3>1 DEF Prior
      <3>2. CASE GoodAt(d) # {}
        <4>1. GoodAt(d) \subseteq DOMAIN manifest
          BY DEF GoodAt
        <4>2. Max(GoodAt(d)) \in DOMAIN manifest
          BY <1>2, <3>2, <4>1, BoundedMax
        <4>. QED BY <1>2, <2>2, <3>2, <4>2 DEF Prior
      <3>. QED BY <3>1, <3>2
    <2>4. AnswerSame /\ BytesSame /\ GoneSame
      BY <1>1, <1>3, <1>5, <1>7, <2>3 DEF AnswerSame, BytesSame, GoneSame, Gone
    <2>. QED BY <1>1, <1>3, <1>4, <1>5, <1>7, <2>1, <2>4, PromiseFail
  <1>. QED BY <1>6, <1>7

\* A lost file is missed by the last good rows that point to it.
LEMMA PromiseOfLosing ==
    ASSUME IngestInv, NEW d \in Docs, Lose(d)
    PROVE  [Promise!Next]_(Promise!vars)
  <1>0. TypeOK
    BY DEF IngestInv
  <1>1. PICK r \in Runs : files' = [files EXCEPT ![d][r] = 0]
    BY DEF Lose
  <1>2. UNCHANGED <<source, manifest, pending>>
    BY DEF Lose
  <1>3. /\ AnswerSame /\ SightingSame /\ BytesSame
        /\ \A c \in Docs : Prior(c)' = Prior(c)
    BY <1>2 DEF AnswerSame, SightingSame, BytesSame, Answer, Sighting, RowsAt, Prior, GoodAt
  <1>4. \A c \in Docs : Prior(c).path # 0 => Prior(c).path \in Runs /\ Prior(c).hash # 0
    BY PriorIsARow DEF Rows, IngestInv, KeepsBytes
  <1>5. \A c \in Docs \ {d} : files'[c] = files[c]
    BY <1>0, <1>1 DEF TypeOK
  <1>6. \A c \in Docs \ {d} : Gone(c)' = Gone(c)
    BY <1>3, <1>5 DEF Gone
  <1>7. CASE Prior(d).path = r
    <2>1. r # 0 /\ Prior(d).hash # 0
      BY <1>4, <1>7, IngestAssumption DEF Runs
    <2>2. Gone(d)'
      BY <1>0, <1>1, <1>3, <1>7, <2>1 DEF Gone, TypeOK
    <2>. QED BY <1>2, <1>3, <1>6, <2>1, <2>2, PromiseLose
  <1>8. CASE Prior(d).path # r
    <2>1. \A k \in Runs \ {r} : files'[d][k] = files[d][k]
      BY <1>0, <1>1 DEF TypeOK
    <2>2. Gone(d)' = Gone(d)
      BY <1>3, <1>4, <1>8, <2>1 DEF Gone
    <2>3. GoneSame
      BY <1>6, <2>2 DEF GoneSame
    <2>. QED BY <1>2, <1>3, <2>3, PromiseStutter
  <1>. QED BY <1>7, <1>8

\* The run dies, with a row in hand or without.
LEMMA PromiseOfDying ==
    ASSUME IngestInv, UNCHANGED <<source, manifest, files>>, pending' = <<>>
    PROVE  [Promise!Next]_(Promise!vars)
  <1>1. SightingSame /\ BytesSame /\ GoneSame
    BY StoreSaysTheSame DEF store
  <1>2. CASE pending = <<>>
    <2>1. AnswerSame
      BY <1>2 DEF AnswerSame, Answer
    <2>. QED BY <1>1, <2>1, PromiseStutter
  <1>3. CASE pending # <<>>
    <2>1. 1 \in DOMAIN pending /\ pending \in Seq(Rows)
      BY <1>3, OneRow DEF IngestInv, TypeOK, OnePlace
    <2>2. pending[1] \in Rows
      BY <2>1
    <2>. PICK d \in Docs : d = pending[1].doc
      BY <2>2 DEF Rows
    <2>3. Answer(d)' = 0 /\ \A c \in Docs \ {d} : Answer(c)' = Answer(c)
      BY <1>3 DEF Answer
    <2>. QED BY <1>1, <2>3, PromiseForget
  <1>. QED BY <1>2, <1>3

\* Every step of Ingest is one of Sightings, or a stutter.
LEMMA PromiseStep ==
    ASSUME IngestInv, Served, [Next]_vars
    PROVE  [Promise!Next]_(Promise!vars)
  <1>0. TypeOK /\ OnePlace
    BY DEF IngestInv
  <1>1. CASE UNCHANGED <<source, manifest, files>> /\ pending' = pending
    <2>1. AnswerSame
      BY <1>1 DEF AnswerSame, Answer
    <2>. QED BY <1>1, <2>1, StoreSaysTheSame, PromiseStutter DEF store
  <1>2. CASE \E d \in Docs : Publish(d)
    <2>1. PICK d \in Docs, v \in Versions : source' = [source EXCEPT ![d] = v]
      BY <1>2 DEF Publish
    <2>2. UNCHANGED <<manifest, files, pending>>
      BY <1>2 DEF Publish, store
    <2>3. AnswerSame
      BY <2>2 DEF AnswerSame, Answer
    <2>. QED BY <2>1, <2>2, <2>3, StoreSaysTheSame, PromisePost DEF store
  <1>3. CASE \E d \in Docs : Lose(d)
    BY <1>3, PromiseOfLosing
  <1>4. CASE (\E d \in Docs : Uncaught(d)) \/ Crash \/ Kill
    <2>1. UNCHANGED <<source, manifest, files>> /\ pending' = <<>>
      BY <1>4 DEF Uncaught, Crash, Kill, Dies, Idle, store
    <2>. QED BY <2>1, PromiseOfDying
  <1>5. CASE AppendRow
    BY <1>5, PromiseOfAppending
  <1>6. CASE \E d \in Docs : NotModified(d) \/ Content(d)
    BY <1>6, PromiseOfServing
  <1>7. CASE \E d \in Docs : Denied(d) \/ GivesUp(d)
    <2>1. PICK row : row.hash = 0 /\ pending' = <<row>>
      BY <1>7 DEF Denied, GivesUp, Logs, Row
    <2>2. pending = <<>> /\ UNCHANGED <<source, manifest, files>>
      BY <1>0, <1>7 DEF Denied, GivesUp, Asking, OnePlace, store, world
    <2>3. AnswerSame
      BY <2>1, <2>2 DEF AnswerSame, Answer
    <2>. QED BY <2>2, <2>3, StoreSaysTheSame, PromiseStutter DEF store
  <1>8. CASE UNCHANGED vars
    BY <1>1, <1>8 DEF vars, store, world
  <1>9. CASE \E d \in Docs : Transient(d) \/ Refetch(d)
    BY <1>1, <1>9 DEF Transient, Refetch, store, world
  <1>10. CASE Begin \/ Discovers \/ NothingFound \/ DiscoveryFails \/ StateDone \/ Report
              \/ NextDocument
    BY <1>1, <1>10 DEF Begin, Discovers, NothingFound, DiscoveryFails, StateDone, Report,
       NextDocument, store, world
  <1>. QED BY <1>2, <1>3, <1>4, <1>5, <1>6, <1>7, <1>8, <1>9, <1>10 DEF Next, Step

LEMMA PromiseInit == Init => Promise!Init
  <1>. SUFFICES ASSUME Init PROVE Promise!Init
    OBVIOUS
  <1>1. manifest = <<>> /\ pending = <<>> /\ source \in [Docs -> Versions]
    BY IngestAssumption DEF Init, Versions
  <1>2. \A d \in Docs : GoodAt(d) = {} /\ RowsAt(d) = {}
    BY <1>1 DEF GoodAt, RowsAt
  <1>3. \A d \in Docs : Answer(d) = 0 /\ Sighting(d) = "none" /\ Prior(d).hash = 0 /\ ~Gone(d)
    BY <1>1, <1>2 DEF Answer, Sighting, Prior, Gone, NoRow
  <1>. QED BY <1>1, <1>3 DEF Promise!Init, Answer, Sighting, RowsAt, Gone

\* Where no site restores a content it has withdrawn, Ingest implements Sightings: what a run
\* logs as good is what the site served when asked, with the bytes on disk (run_ingest).
THEOREM KeepsThePromiseHolds ==
    ASSUME DistinctRequests, ~Restores PROVE Spec => KeepsThePromise
  <1>1. IngestInv /\ Served /\ [Next]_vars => [Promise!Next]_(Promise!vars)
    BY PromiseStep
  <1>. QED BY IngestInvHolds, ServedHolds, PromiseInit, <1>1, PTL
           DEF Spec, KeepsThePromise, Promise!Spec
=============================================================================
