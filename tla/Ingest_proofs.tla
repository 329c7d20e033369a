--------------------------- MODULE Ingest_proofs ----------------------------
(***************************************************************************)
(* Proofs about Ingest: under IngestInv the stored bytes of a row are      *)
(* never overwritten and a run appends one row per document, for every     *)
(* number of documents, states, runs and faults, if no command line names  *)
(* a state twice.                                                          *)
(***************************************************************************)
EXTENDS Ingest, SequenceTheorems, TLAPS

\* The last good row is one of the rows, if there is one.
LEMMA LastGoodIsARow ==
    ASSUME IngestInv, NEW d \in Docs, GoodAt(d) # {}
    PROVE  /\ Prior(d) \in Rows /\ Prior(d).hash # 0
           /\ \E i \in DOMAIN manifest : manifest[i].doc = d /\ Prior(d) = manifest[i]
<1>2. PICK i \in GoodAt(d) : \A j \in GoodAt(d) : j <= i
  BY DEF IngestInv, LastGoodExists
<1>3. Max(GoodAt(d)) \in GoodAt(d)
  <2>1. GoodAt(d) \subseteq Nat
    BY DEF GoodAt, IngestInv, TypeOK
  <2>2. \A j \in GoodAt(d) : i >= j
    BY <1>2, <2>1
  <2>. QED BY <1>2, <2>2 DEF Max
<1>4. Prior(d) = manifest[Max(GoodAt(d))]
  BY DEF Prior
<1>5. Max(GoodAt(d)) \in DOMAIN manifest
  BY <1>3 DEF GoodAt
<1>6. manifest[Max(GoodAt(d))].doc = d /\ manifest[Max(GoodAt(d))].hash # 0
  BY <1>3 DEF GoodAt
<1>7. manifest[Max(GoodAt(d))] \in Rows
  BY <1>5 DEF IngestInv, TypeOK
<1>. QED
  BY <1>4, <1>5, <1>6, <1>7

\* So it is where its path is believed.
LEMMA PriorIsARow ==
    ASSUME IngestInv, NEW d \in Docs, Prior(d).path # 0
    PROVE  /\ Prior(d) \in Rows /\ Prior(d).hash # 0
           /\ \E i \in DOMAIN manifest : manifest[i].doc = d /\ Prior(d) = manifest[i]
  <1>1. GoodAt(d) # {}
    BY DEF Prior, NoRow
  <1>. QED BY <1>1, LastGoodIsARow

\* Nothing but the two stores and the pending row is in the last three parts of the invariant.
LEMMA StoreSame ==
    ASSUME IngestInv, UNCHANGED store, pending' = pending \/ pending' = <<>>
    PROVE  /\ LastGoodExists'
           /\ \A i \in DOMAIN manifest' : KeepsBytes(manifest[i])'
           /\ \A i \in DOMAIN pending' : KeepsBytes(pending[i])'
  <1>1. LastGoodExists'
    BY DEF IngestInv, LastGoodExists, GoodAt, store
  <1>2. \A row : KeepsBytes(row) <=> KeepsBytes(row)'
    BY DEF KeepsBytes, store
  <1>. QED BY <1>1, <1>2 DEF IngestInv, store

\* The first state satisfies the invariant.
LEMMA InitInv == Init => IngestInv
  <1>. SUFFICES ASSUME Init PROVE IngestInv OBVIOUS
  <1>. USE IngestAssumption DEF Init
  <1>1. TypeOK
    BY DEF TypeOK, Versions, Runs, Rows, Good, Traceback
  <1>2. OnePlace /\ NoRowYet /\ LastGoodExists
    BY DEF OnePlace, NoRowYet, InHand, LastGoodExists, GoodAt
  <1>. QED BY <1>1, <1>2 DEF IngestInv

\* The states left after the one at hand.
LEMMA TailOfLeft ==
    ASSUME TypeOK, left # <<>>
    PROVE  /\ Tail(left) \in Seq(States) /\ 1 \in DOMAIN left /\ Head(left) = left[1]
           /\ \A k \in DOMAIN Tail(left) :
                 k + 1 \in DOMAIN left /\ Tail(left)[k] = left[k + 1] /\ k \in Nat /\ k # 0
  BY DEF TypeOK

\* The sites, the operator, and the steps that leave log and store alone.
LEMMA QuietSteps ==
    ASSUME IngestInv, DistinctRequests,
           \/ \E d \in Docs : Publish(d) \/ Transient(d) \/ Refetch(d) \/ Uncaught(d)
           \/ Begin \/ Discovers \/ NothingFound \/ DiscoveryFails \/ StateDone \/ Report
           \/ NextDocument \/ Crash \/ Kill
    PROVE  IngestInv'
  <1>. USE IngestAssumption
  <1>0. TypeOK /\ OnePlace /\ NoRowYet
    BY DEF IngestInv
  <1>1. UNCHANGED store /\ (pending' = pending \/ pending' = <<>>)
    BY DEF Publish, Transient, Refetch, Uncaught, Begin, Discovers, NothingFound,
           DiscoveryFails, StateDone, Report, NextDocument, Crash, Kill, Dies, Idle
  <1>2. TypeOK'
    <2>. USE <1>0 DEF TypeOK
    <2>1. CASE \E d \in Docs : Publish(d)
      BY <2>1 DEF Publish, store, request, Versions
    <2>2. CASE \E d \in Docs : Transient(d)
      BY <2>2 DEF Transient, store, world, request
    <2>3. CASE \E d \in Docs : Refetch(d)
      BY <2>3 DEF Refetch, store, world, request
    <2>4. CASE (\E d \in Docs : Uncaught(d)) \/ Crash \/ Kill
      <3>1. faults' \in 0 .. MaxFaults
        BY <2>4 DEF Uncaught, Crash, Kill, Fault
      <3>2. exit' \in {0, 1, 2, Traceback}
        BY <2>4 DEF Uncaught, Crash, Kill, Dies
      <3>3. UNCHANGED <<source, manifest, files, clock, mode, run, left, listed>>
        BY <2>4 DEF Uncaught, Crash, Kill, store, request
      <3>4. pc' \in {"idle", "ended"} /\ Idle
        BY <2>4 DEF Uncaught, Crash, Kill, Dies
      <3>. QED BY <3>1, <3>2, <3>3, <3>4 DEF Idle
    <2>5. CASE Begin
      BY <2>5 DEF Begin, store, Runs
    <2>6. CASE Discovers \/ NothingFound \/ DiscoveryFails
      <3>1. left' \in Seq(States)
        BY <2>6, TailOfLeft DEF Discovers, NothingFound, DiscoveryFails
      <3>2. faults' \in 0 .. MaxFaults
        BY <2>6 DEF Discovers, NothingFound, DiscoveryFails, Fault, world
      <3>3. UNCHANGED <<source, manifest, files, clock, mode, run, doc, tries, pending, exit>>
        BY <2>6 DEF Discovers, NothingFound, DiscoveryFails, store, world
      <3>4. /\ listed' \subseteq Docs /\ todo' \subseteq Docs /\ pc' \in {"discover", "documents"}
            /\ outcomes' \subseteq Troubles
        BY <2>6 DEF Discovers, NothingFound, DiscoveryFails, Found, Troubles
      <3>. QED BY <3>1, <3>2, <3>3, <3>4
    <2>7. CASE StateDone \/ Report
      BY <2>7 DEF StateDone, Report, ExitCode, store, world, request
    <2>8. CASE NextDocument
      BY <2>8 DEF NextDocument, store, world, request
    <2>. QED BY <2>1, <2>2, <2>3, <2>4, <2>5, <2>6, <2>7, <2>8
  <1>3. OnePlace'
    <2>. USE <1>0 DEF TypeOK, OnePlace
    <2>1. CASE \E d \in Docs : Publish(d)
      BY <2>1 DEF Publish, request
    <2>2. CASE \E d \in Docs : Transient(d) \/ Refetch(d)
      BY <2>2 DEF Transient, Refetch, Asking, request
    <2>3. CASE (\E d \in Docs : Uncaught(d)) \/ Crash \/ Kill
      BY <2>3 DEF Uncaught, Crash, Kill, Dies, Idle
    <2>4. CASE Begin
      BY <2>4 DEF Begin
    <2>5. CASE Discovers \/ NothingFound \/ DiscoveryFails
      BY <2>5 DEF Discovers, NothingFound, DiscoveryFails
    <2>6. CASE StateDone \/ Report
      BY <2>6 DEF StateDone, Report, request
    <2>7. CASE NextDocument
      BY <2>7 DEF NextDocument, request
    <2>. QED BY <2>1, <2>2, <2>3, <2>4, <2>5, <2>6, <2>7
  <1>4. NoRowYet'
    <2>. USE <1>0 DEF TypeOK, NoRowYet, InHand
    <2>1. CASE \E d \in Docs : Publish(d) \/ Transient(d) \/ Refetch(d)
      BY <2>1 DEF Publish, Transient, Refetch, store, request
    <2>2. CASE (\E d \in Docs : Uncaught(d)) \/ Crash \/ Kill
      BY <2>2 DEF Uncaught, Crash, Kill, Dies, Idle, store, request
    <2>3. CASE Begin
      BY <2>3 DEF Begin, OnePlace, NextRunId, Used, DistinctRequests, store
    <2>4. CASE Discovers
      <3>1. /\ UNCHANGED <<manifest, run, doc, pending>> /\ left # <<>> /\ left' = Tail(left)
            /\ todo' \subseteq Found
        BY <2>4, <1>0 DEF Discovers, OnePlace, store
      <3>2. doc = {} /\ pending = <<>> /\ InHand' \subseteq Found
        BY <2>4, <3>1, <1>0 DEF Discovers, OnePlace
      <3>3. \A d \in Found : StateOf[d] = left[1]
        BY <3>1, TailOfLeft DEF Found
      <3>4. \A i \in DOMAIN manifest : manifest[i].run = run =>
               StateOf[manifest[i].doc] # left[1] /\ manifest[i].doc \notin InHand'
        BY <3>1, <3>2, <3>3, TailOfLeft
      <3>5. \A k \in DOMAIN left' : k + 1 \in DOMAIN left /\ left'[k] = left[k + 1] /\ k # 0
        BY <3>1, TailOfLeft
      <3>6. \A k \in DOMAIN left' : left'[k] # left[1]
        BY <3>1, <3>5, TailOfLeft
      <3>7. \A d \in InHand', k \in DOMAIN left' : StateOf[d] # left'[k]
        BY <3>2, <3>3, <3>6
      <3>8. \A k, l \in DOMAIN left' : left'[k] = left'[l] => k = l
        BY <3>1, <3>5, TailOfLeft
      <3>. HIDE DEF InHand
      <3>. QED BY <3>1, <3>4, <3>5, <3>7, <3>8
    <2>5. CASE NothingFound \/ DiscoveryFails
      <3>1. /\ UNCHANGED <<manifest, run, todo, doc, pending>>
            /\ left # <<>> /\ left' = Tail(left)
        BY <2>5 DEF NothingFound, DiscoveryFails, store
      <3>2. InHand' = InHand
        BY <3>1
      <3>3. \A k \in DOMAIN left' : k + 1 \in DOMAIN left /\ left'[k] = left[k + 1]
        BY <3>1, TailOfLeft
      <3>4. \A k, l \in DOMAIN left' : left'[k] = left'[l] => k = l
        BY <3>1, <3>3, TailOfLeft
      <3>. HIDE DEF InHand
      <3>. QED BY <3>1, <3>2, <3>3, <3>4
    <2>6. CASE StateDone \/ Report
      <3>1. UNCHANGED <<manifest, run, left, todo, doc, pending>>
        BY <2>6 DEF StateDone, Report, store, request
      <3>. QED BY <3>1
    <2>7. CASE NextDocument
      BY <2>7 DEF NextDocument, store, request
    <2>. QED BY <2>1, <2>2, <2>3, <2>4, <2>5, <2>6, <2>7
  <1>. QED BY <1>1, <1>2, <1>3, <1>4, StoreSame DEF IngestInv

\* What an answer leaves to append: the document goes from hand to pending row.
LEMMA AnswerKeepsPlaces ==
    ASSUME IngestInv, NEW d \in Docs, Asking(d), NEW row \in Rows, row.doc = d, row.run = run,
           Logs(row), UNCHANGED <<manifest, source, clock, request, todo, outcomes, exit>>,
           faults' \in 0 .. MaxFaults, files' \in [Docs -> [Runs -> Versions]]
    PROVE  TypeOK' /\ OnePlace' /\ NoRowYet'
  <1>. USE IngestAssumption
  <1>0. TypeOK /\ OnePlace /\ NoRowYet
    BY DEF IngestInv
  <1>1. /\ pending' = <<row>> /\ pc' = "append" /\ doc' = {} /\ tries' = 0 /\ doc = {d}
        /\ pending = <<>> /\ d \notin todo
    BY <1>0 DEF Logs, Asking, OnePlace
  <1>2. TypeOK'
    BY <1>0, <1>1 DEF TypeOK, request
  <1>3. OnePlace'
    BY <1>0, <1>1 DEF OnePlace, request
  <1>4. InHand' = InHand
    BY <1>1 DEF InHand
  <1>5. NoRowYet'
    BY <1>0, <1>4 DEF NoRowYet, request
  <1>. QED BY <1>2, <1>3, <1>5

\* A denial or a failure: a row without a hash.
LEMMA FailureSteps ==
    ASSUME IngestInv, NEW d \in Docs, Denied(d) \/ GivesUp(d)
    PROVE  IngestInv'
  <1>0. TypeOK /\ IngestAssumption
    BY IngestAssumption DEF IngestInv
  <1>1. PICK status \in {"failed", "denied"} : Logs(Row(d, status, 0, 0, 0))
    BY DEF Denied, GivesUp
  <1>2. Row(d, status, 0, 0, 0) \in Rows
    BY <1>0 DEF TypeOK, Row, Rows, Versions
  <1>3. /\ Asking(d) /\ faults' \in 0 .. MaxFaults
        /\ UNCHANGED <<manifest, files, source, clock, request, todo, outcomes, exit>>
    BY <1>0 DEF TypeOK, Denied, GivesUp, Fault, store, world
  <1>4. TypeOK' /\ OnePlace' /\ NoRowYet'
    BY <1>0, <1>1, <1>2, <1>3, AnswerKeepsPlaces DEF Row, TypeOK
  <1>5. LastGoodExists' /\ \A i \in DOMAIN manifest' : KeepsBytes(manifest[i])'
    BY <1>3 DEF IngestInv, LastGoodExists, GoodAt, KeepsBytes
  <1>6. pending' = <<Row(d, status, 0, 0, 0)>>
    BY <1>1 DEF Logs
  <1>7. \A i \in DOMAIN pending' : KeepsBytes(pending[i])'
    BY <1>6 DEF KeepsBytes, Row, Good
  <1>. QED BY <1>4, <1>5, <1>7 DEF IngestInv

\* A row that points to the file of the last good row keeps that row's bytes.
LEMMA SamePath ==
    ASSUME IngestInv, NEW d \in Docs, Verified(d), NEW etag \in Versions,
           UNCHANGED <<manifest, files>>,
           Logs(Row(d, "unchanged", Prior(d).hash, etag, Prior(d).path))
    PROVE  /\ Row(d, "unchanged", Prior(d).hash, etag, Prior(d).path) \in Rows
           /\ \A i \in DOMAIN pending' : KeepsBytes(pending[i])'
  <1>. PICK row : row = Row(d, "unchanged", Prior(d).hash, etag, Prior(d).path)
    OBVIOUS
  <1>1. PICK i \in DOMAIN manifest : manifest[i].doc = d /\ Prior(d) = manifest[i]
    BY PriorIsARow DEF Verified
  <1>2. Prior(d) \in Rows /\ Prior(d).hash # 0
    BY PriorIsARow DEF Verified
  <1>3. row \in Rows
    BY <1>2 DEF Row, Rows, Good, IngestInv, TypeOK
  <1>4. KeepsBytes(manifest[i])
    BY DEF IngestInv
  <1>5. KeepsBytes(row)'
    <2>1. row.status \in Good /\ row.hash = manifest[i].hash /\ row.path = manifest[i].path
      BY <1>1 DEF Row, Good
    <2>2. row.doc = manifest[i].doc /\ row.hash # 0
      BY <1>1, <1>2 DEF Row
    <2>3. /\ row.path # 0 /\ files[row.doc][row.path] \in {0, row.hash}
          /\ \E k \in DOMAIN manifest : manifest[k].doc = row.doc /\ manifest[k].run = row.path
      BY <1>1, <1>4, <2>1, <2>2 DEF KeepsBytes
    <2>. QED BY <2>1, <2>2, <2>3 DEF KeepsBytes
  <1>6. pending' = <<row>>
    BY DEF Logs
  <1>7. ASSUME NEW k \in DOMAIN pending' PROVE KeepsBytes(pending[k])'
    <2>1. pending'[k] = row
      BY <1>6
    <2>. QED BY <2>1, <1>5 DEF KeepsBytes
  <1>. QED BY <1>3, <1>7

\* A 304: the row of the last good sighting once more, under the new run.
LEMMA UnchangedSteps ==
    ASSUME IngestInv, NEW d \in Docs, NotModified(d)
    PROVE  IngestInv'
  <1>0. TypeOK /\ Asking(d)
    BY DEF IngestInv, NotModified, Asking
  <1>1. PICK etag \in Versions :
           Logs(Row(d, "unchanged", Prior(d).hash, etag, Prior(d).path))
    BY <1>0 DEF NotModified, TypeOK
  <1>2. /\ Verified(d) /\ faults' \in 0 .. MaxFaults
        /\ UNCHANGED <<manifest, files, source, clock, request, todo, outcomes, exit>>
    BY <1>0 DEF TypeOK, NotModified, store, world
  <1>3. /\ Row(d, "unchanged", Prior(d).hash, etag, Prior(d).path) \in Rows
        /\ \A i \in DOMAIN pending' : KeepsBytes(pending[i])'
    BY <1>1, <1>2, SamePath
  <1>4. TypeOK' /\ OnePlace' /\ NoRowYet'
    BY <1>0, <1>1, <1>2, <1>3, AnswerKeepsPlaces DEF Row, TypeOK
  <1>5. LastGoodExists' /\ \A i \in DOMAIN manifest' : KeepsBytes(manifest[i])'
    BY <1>2 DEF IngestInv, LastGoodExists, GoodAt, KeepsBytes
  <1>. QED BY <1>3, <1>4, <1>5 DEF IngestInv

\* New bytes go to a directory no row of the document points to.
LEMMA ContentSteps ==
    ASSUME IngestInv, NEW d \in Docs, Content(d)
    PROVE  IngestInv'
  <1>0. TypeOK /\ Asking(d) /\ source[d] \in Versions /\ source[d] # 0
    BY DEF IngestInv, Content, TypeOK
  <1>1. /\ faults' \in 0 .. MaxFaults
        /\ UNCHANGED <<manifest, source, clock, request, todo, outcomes, exit>>
    BY <1>0 DEF TypeOK, Content, world
  <1>2. \A e \in {source[d], Prior(d).etag} : e \in Versions
    <2>1. CASE GoodAt(d) = {}
      BY <1>0, <2>1, IngestAssumption DEF Prior, NoRow, Versions
    <2>2. CASE GoodAt(d) # {}
      BY <1>0, <2>2, LastGoodIsARow DEF Rows
    <2>. QED BY <2>1, <2>2
  <1>3. PICK etag \in Versions :
           Logs(IF Verified(d) /\ Prior(d).hash = source[d]
                THEN Row(d, "unchanged", source[d], etag, Prior(d).path)
                ELSE Row(d, "stored", source[d], etag, run))
    BY <1>2 DEF Content
  <1>4. CASE Verified(d) /\ Prior(d).hash = source[d]
    <2>1. files' = files
      BY <1>4 DEF Content
    <2>2. Logs(Row(d, "unchanged", Prior(d).hash, etag, Prior(d).path))
      BY <1>3, <1>4
    <2>3. /\ Row(d, "unchanged", Prior(d).hash, etag, Prior(d).path) \in Rows
          /\ \A i \in DOMAIN pending' : KeepsBytes(pending[i])'
      BY <1>1, <1>4, <2>1, <2>2, SamePath
    <2>4. TypeOK' /\ OnePlace' /\ NoRowYet'
      BY <1>0, <1>1, <2>1, <2>2, <2>3, AnswerKeepsPlaces DEF Row, TypeOK
    <2>5. LastGoodExists' /\ \A i \in DOMAIN manifest' : KeepsBytes(manifest[i])'
      BY <1>1, <2>1 DEF IngestInv, LastGoodExists, GoodAt, KeepsBytes
    <2>. QED BY <2>3, <2>4, <2>5 DEF IngestInv
  <1>5. CASE ~(Verified(d) /\ Prior(d).hash = source[d])
    <2>. PICK row : row = Row(d, "stored", source[d], etag, run)
      OBVIOUS
    <2>1. files' = [files EXCEPT ![d][run] = source[d]] /\ Logs(row)
      BY <1>3, <1>5 DEF Content
    <2>2. row \in Rows /\ row.doc = d /\ row.run = run /\ run # 0
      BY <1>0 DEF Row, Rows, Good, TypeOK, Runs
    <2>3. TypeOK' /\ OnePlace' /\ NoRowYet'
      <3>1. files' \in [Docs -> [Runs -> Versions]]
        BY <1>0, <2>1 DEF TypeOK
      <3>. QED BY <1>0, <1>1, <2>1, <2>2, <3>1, AnswerKeepsPlaces
    <2>4. LastGoodExists'
      BY <1>1 DEF IngestInv, LastGoodExists, GoodAt
    <2>5. ASSUME NEW i \in DOMAIN manifest PROVE KeepsBytes(manifest[i])'
      <3>1. KeepsBytes(manifest[i]) /\ manifest[i] \in Rows
        BY <1>0 DEF IngestInv, TypeOK
      <3>2. d \in InHand
        BY <1>0 DEF Asking, InHand
      <3>3. \A k \in DOMAIN manifest : ~(manifest[k].doc = d /\ manifest[k].run = run)
        BY <3>2 DEF IngestInv, NoRowYet
      <3>4. manifest[i].hash # 0 => ~(manifest[i].doc = d /\ manifest[i].path = run)
        BY <3>1, <3>3 DEF KeepsBytes
      <3>5. manifest[i].hash # 0 => files'[manifest[i].doc][manifest[i].path]
                                        = files[manifest[i].doc][manifest[i].path]
        BY <1>0, <2>1, <3>1, <3>4 DEF TypeOK, Rows
      <3>. QED BY <1>1, <3>1, <3>5 DEF KeepsBytes
    <2>6. KeepsBytes(row)'
      BY <1>0, <2>1, <2>2 DEF KeepsBytes, Row, Good, TypeOK
    <2>7. ASSUME NEW k \in DOMAIN pending' PROVE KeepsBytes(pending[k])'
      BY <2>1, <2>6 DEF Logs, KeepsBytes
    <2>. QED BY <1>1, <2>3, <2>4, <2>5, <2>7 DEF IngestInv
  <1>. QED BY <1>4, <1>5

\* There is exactly one row in hand when it is time to append it.
LEMMA OneRow ==
    ASSUME TypeOK, OnePlace, pc = "append"
    PROVE  Len(pending) = 1
  <1>1. pending # <<>> /\ pending \in Seq(Rows)
    BY DEF OnePlace, TypeOK
  <1>2. Len(pending) \in Nat \ {0}
    BY <1>1, EmptySeq
  <1>3. Len(pending) <= 1
    BY DEF TypeOK
  <1>4. \A n \in Nat \ {0} : n <= 1 => n = 1
    OBVIOUS
  <1>. QED BY <1>2, <1>3, <1>4

\* The row in hand becomes the log's last.
LEMMA AppendSteps ==
    ASSUME IngestInv, AppendRow
    PROVE  IngestInv'
  <1>0. TypeOK /\ OnePlace /\ NoRowYet
    BY DEF IngestInv
  <1>. PICK row : row = pending[1]
    OBVIOUS
  <1>1. /\ pending = <<row>> /\ row \in Rows /\ row.run = run /\ row.doc \notin todo
        /\ row.doc \in InHand /\ KeepsBytes(row)
    <2>1. Len(pending) = 1
      BY <1>0, OneRow DEF AppendRow
    <2>2. 1 \in DOMAIN pending /\ pending = <<row>>
      BY <1>0, <2>1 DEF TypeOK
    <2>. QED BY <1>0, <2>2 DEF TypeOK, OnePlace, InHand, IngestInv
  <1>2. /\ manifest' = Append(manifest, row) /\ todo' \subseteq todo /\ pending' = <<>>
        /\ pc = "append" /\ pc' = "documents" /\ doc' = doc /\ doc = {}
        /\ UNCHANGED <<files, world, request, tries, exit>>
        /\ outcomes' \subseteq outcomes \cup Troubles
    BY <1>0 DEF AppendRow, OnePlace
  <1>3. /\ DOMAIN manifest' = DOMAIN manifest \cup {Len(manifest) + 1}
        /\ manifest'[Len(manifest) + 1] = row
        /\ \A i \in DOMAIN manifest : manifest'[i] = manifest[i] /\ i < Len(manifest) + 1
        /\ Len(manifest) + 1 \in Nat
        /\ DOMAIN manifest \subseteq Nat
    BY <1>0, <1>1, <1>2 DEF TypeOK
  <1>4. TypeOK'
    BY <1>0, <1>1, <1>2 DEF TypeOK, world, request
  <1>5. OnePlace'
    BY <1>0, <1>2 DEF OnePlace
  <1>6. NoRowYet'
    <2>1. InHand' \subseteq InHand /\ row.doc \notin InHand'
      BY <1>0, <1>1, <1>2 DEF InHand
    <2>2. run' = run /\ left' = left
      BY <1>2 DEF request
    <2>3. ASSUME NEW i \in DOMAIN manifest', manifest'[i].run = run
          PROVE  /\ manifest'[i].doc \notin InHand'
                 /\ \A k \in DOMAIN left : StateOf[manifest'[i].doc] # left[k]
      <3>1. CASE i \in DOMAIN manifest
        BY <1>0, <1>3, <2>1, <2>3, <3>1 DEF NoRowYet
      <3>2. CASE i = Len(manifest) + 1
        BY <1>0, <1>1, <1>3, <2>1, <3>2 DEF NoRowYet
      <3>. QED BY <1>3, <3>1, <3>2
    <2>. QED BY <1>0, <2>1, <2>2, <2>3 DEF NoRowYet
  <1>7. LastGoodExists'
    <2>. SUFFICES ASSUME NEW d \in Docs, GoodAt(d)' # {}
                  PROVE  \E i \in GoodAt(d)' : \A j \in GoodAt(d)' : j <= i
      BY DEF LastGoodExists
    <2>1. CASE row.doc = d /\ row.hash # 0
      <3>1. Len(manifest) + 1 \in GoodAt(d)'
        BY <1>3, <2>1 DEF GoodAt
      <3>2. \A j \in GoodAt(d)' : j <= Len(manifest) + 1
        BY <1>3 DEF GoodAt
      <3>. QED BY <3>1, <3>2
    <2>2. CASE ~(row.doc = d /\ row.hash # 0)
      <3>1. GoodAt(d)' = GoodAt(d)
        BY <1>3, <2>2 DEF GoodAt
      <3>. QED BY <3>1 DEF IngestInv, LastGoodExists
    <2>. QED BY <2>1, <2>2
  <1>8. ASSUME NEW r, KeepsBytes(r) PROVE KeepsBytes(r)'
    <2>1. \A k \in DOMAIN manifest : k \in DOMAIN manifest' /\ manifest'[k] = manifest[k]
      BY <1>3
    <2>. QED BY <1>2, <1>8, <2>1 DEF KeepsBytes
  <1>9. ASSUME NEW i \in DOMAIN manifest' PROVE KeepsBytes(manifest[i])'
    <2>. PICK r : r = manifest'[i]
      OBVIOUS
    <2>1. KeepsBytes(r)
      BY <1>1, <1>3 DEF IngestInv
    <2>2. KeepsBytes(r)'
      BY <2>1, <1>8
    <2>. QED BY <2>2 DEF KeepsBytes
  <1>. QED BY <1>2, <1>4, <1>5, <1>6, <1>7, <1>9 DEF IngestInv

\* A lost file: its rows keep nothing, which is allowed.
LEMMA LoseSteps ==
    ASSUME IngestInv, NEW d \in Docs, Lose(d)
    PROVE  IngestInv'
  <1>0. TypeOK /\ OnePlace /\ NoRowYet
    BY DEF IngestInv
  <1>1. PICK r \in Runs : files' = [files EXCEPT ![d][r] = 0]
    BY DEF Lose
  <1>2. /\ UNCHANGED <<source, clock, manifest, request, pc, todo, doc, tries, pending,
                        outcomes, exit>>
        /\ pending = <<>> /\ faults' \in 0 .. MaxFaults
    BY <1>0, IngestAssumption DEF Lose, Fault, OnePlace, TypeOK
  <1>3. \A c \in Docs, k \in Runs : files'[c][k] \in {0, files[c][k]}
    BY <1>0, <1>1 DEF TypeOK
  <1>4. TypeOK'
    BY <1>0, <1>1, <1>2, IngestAssumption DEF TypeOK, request, Versions
  <1>5. OnePlace' /\ NoRowYet' /\ LastGoodExists'
    BY <1>0, <1>2 DEF IngestInv, OnePlace, NoRowYet, InHand, LastGoodExists, GoodAt, request
  <1>6. ASSUME NEW i \in DOMAIN manifest PROVE KeepsBytes(manifest[i])'
    <2>1. manifest[i] \in Rows /\ KeepsBytes(manifest[i])
      BY <1>0 DEF IngestInv, TypeOK
    <2>. QED BY <1>2, <1>3, <2>1 DEF KeepsBytes, Rows
  <1>. QED BY <1>2, <1>4, <1>5, <1>6 DEF IngestInv

\* Every step of a run keeps the invariant.
LEMMA StepInv ==
    ASSUME IngestInv, DistinctRequests, [Next]_vars
    PROVE  IngestInv'
  <1>1. CASE UNCHANGED vars
    <2>1. TypeOK' /\ OnePlace'
      BY <1>1 DEF vars, store, world, request, IngestInv, TypeOK, OnePlace
    <2>2. NoRowYet'
      BY <1>1 DEF vars, store, request, IngestInv, NoRowYet, InHand
    <2>. QED BY <1>1, <2>1, <2>2, StoreSame DEF vars, IngestInv
  <1>2. CASE Next
    BY <1>2, QuietSteps, FailureSteps, UnchangedSteps, ContentSteps, AppendSteps, LoseSteps
       DEF Next, Step
  <1>. QED BY <1>1, <1>2

\* The invariant of the whole run: what is in hand has no row of this run, and every good row
\* points to a file that holds its bytes or is gone.
THEOREM IngestInvHolds == DistinctRequests => (Spec => []IngestInv)
  <1>. SUFFICES ASSUME DistinctRequests PROVE Spec => []IngestInv
    OBVIOUS
  <1>1. IngestInv /\ [Next]_vars => IngestInv'
    BY StepInv
  <1>. QED BY InitInv, <1>1, PTL DEF Spec

\* No file a row points to is ever overwritten (next_run_id, RawStore.store).
THEOREM RowsKeepTheirBytesHolds == DistinctRequests => (Spec => []RowsKeepTheirBytes)
  <1>1. IngestInv => RowsKeepTheirBytes
    BY DEF IngestInv, RowsKeepTheirBytes, KeepsBytes
  <1>. QED BY IngestInvHolds, <1>1, PTL

\* A run has at most one row of a document: the manifest's natural key.
THEOREM NaturalKeyHolds == DistinctRequests => (Spec => []NaturalKey)
  <1>. SUFFICES ASSUME DistinctRequests PROVE Spec => []NaturalKey
    OBVIOUS
  <1>1. Init => NaturalKey
    BY DEF Init, NaturalKey
  <1>2. ASSUME IngestInv, NaturalKey, [Next]_vars PROVE NaturalKey'
    <2>1. CASE manifest' = manifest
      BY <1>2, <2>1 DEF NaturalKey
    <2>2. CASE AppendRow
      <3>. PICK row : row = pending[1]
        OBVIOUS
      <3>1. pending \in Seq(Rows) /\ pending # <<>> /\ manifest \in Seq(Rows)
        BY <1>2, <2>2 DEF AppendRow, IngestInv, TypeOK, OnePlace
      <3>2. 1 \in DOMAIN pending
        BY <3>1, EmptySeq
      <3>3. row \in Rows /\ row.run = run /\ row.doc \in InHand
        BY <1>2, <3>1, <3>2 DEF IngestInv, OnePlace, InHand
      <3>4. \A i \in DOMAIN manifest : ~(manifest[i].run = row.run /\ manifest[i].doc = row.doc)
        BY <1>2, <3>3 DEF IngestInv, NoRowYet
      <3>5. /\ DOMAIN manifest' = DOMAIN manifest \cup {Len(manifest) + 1}
            /\ manifest'[Len(manifest) + 1] = row
            /\ \A i \in DOMAIN manifest : manifest'[i] = manifest[i]
        BY <2>2, <3>1, <3>3 DEF AppendRow
      <3>. QED BY <1>2, <3>4, <3>5 DEF NaturalKey
    <2>3. CASE manifest' # manifest /\ ~AppendRow
      BY <1>2, <2>3 DEF Next, Step, vars, store, Publish, Lose, Uncaught, Begin, Discovers,
         NothingFound, DiscoveryFails, StateDone, Report, NextDocument, Denied, Transient,
         GivesUp, NotModified, Refetch, Content, Crash, Kill
    <2>. QED BY <2>1, <2>2, <2>3
  <1>. QED BY IngestInvHolds, <1>1, <1>2, PTL DEF Spec
=============================================================================
