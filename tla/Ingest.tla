------------------------------- MODULE Ingest -------------------------------
(***************************************************************************)
(* python -m pipeline.ingest: discover, fetch, store, log, state after     *)
(* state and document after document, with the conditional requests and    *)
(* bounded retries of PoliteClient, the deduplicated RawStore and the      *)
(* append-only Manifest.  DagRun.tla takes a whole run as one action.      *)
(*                                                                         *)
(* A content is a version number and its validator (ETag, Last-Modified)   *)
(* the same number.  Between two steps of a run the site may publish and   *)
(* the process may die.                                                    *)
(***************************************************************************)
EXTENDS Naturals, Sequences, FiniteSetsExt

CONSTANTS
    Docs,           \* documents: (filing_id, document_role) pairs
    States,         \* the configured sources
    StateOf,        \* the state of each document
    Requests,       \* command lines: sequences of states, one ingest_state call each
    MaxAttempts,    \* NetworkPolicy.max_attempts
    Restores,       \* whether a site may publish a content it has withdrawn
    MaxVersion,     \* bound: contents of a document
    MaxRun,         \* bound: run stamps
    MaxFaults       \* bound: denials, failed discoveries, crashes, kills, lost files

ASSUME IngestAssumption ==
    /\ StateOf \in [Docs -> States]
    /\ Requests \subseteq Seq(States)
    /\ MaxAttempts \in Nat \ {0} /\ MaxVersion \in Nat \ {0} /\ MaxRun \in Nat \ {0}
    /\ MaxFaults \in Nat /\ Restores \in BOOLEAN

VARIABLES
    source,     \* the content each site publishes; 0: not posted
    manifest,   \* the log
    files,      \* the raw store: content of each document's file in each run directory
    clock,      \* the second of the last start
    faults,     \* what has gone wrong so far
    pc,         \* where the run is
    mode,       \* "plain", "force" (--force-fetch) or "dry" (--dry-run)
    run,        \* its stamp
    left,       \* states not begun
    listed,     \* documents its discoveries resolved
    todo,       \* documents of this state still to retrieve
    doc,        \* at most one: the document being retrieved
    tries,      \* attempts made at the present request
    pending,    \* at most one: the row about to be appended
    outcomes,   \* what its StateResults say went wrong, and whether in discovery or at a document
    exit        \* exit code, once it has ended

store   == <<manifest, files>>
world   == <<source, clock, faults>>
request == <<mode, run, left, listed>>
vars    == <<store, world, request, pc, todo, doc, tries, pending, outcomes, exit>>

Versions == 0 .. MaxVersion
Runs     == 1 .. MaxRun + 1     \* a dry run takes a stamp and no row bears it
Good     == {"stored", "unchanged"}

Row(d, status, hash, etag, path) ==
    [run |-> run, doc |-> d, status |-> status, hash |-> hash, etag |-> etag, path |-> path]

Rows == [run : Runs, doc : Docs, status : Good \cup {"failed", "denied"},
         hash : Versions, etag : Versions, path : Runs \cup {0}]

NoRow == [hash |-> 0, etag |-> 0, path |-> 0]

GoodAt(d) == {i \in DOMAIN manifest : manifest[i].doc = d /\ manifest[i].hash # 0}

\* latest_index: the last successful row; a failed re-check does not displace it.
Prior(d) == IF GoodAt(d) = {} THEN NoRow ELSE manifest[Max(GoodAt(d))]

\* Mutant: the log is believed without a look at the disk.
VerifiedBlindly(d) == Prior(d).path # 0

\* The log is trusted as far as the file it points to still exists.
Verified(d) == Prior(d).path # 0 /\ files[d][Prior(d).path] # 0

\* --force-fetch sends no validator.
Validator(d) == IF mode = "force" THEN 0 ELSE Prior(d).etag

Used == {manifest[i].run : i \in DOMAIN manifest}

\* Mutant: utc_stamp() is the run id.
NextRunIdUnchecked(now, stamp) == stamp = now

\* The second of the start, advanced until no row bears it.
NextRunId(now, stamp) ==
    now <= stamp /\ stamp \notin Used /\ now .. stamp - 1 \subseteq Used

\* StateResult: discovery_error, failed and access_denied.
Troubles == {"discovery", "document"} \X {"failed", "denied"}

\* Some StateResult says so.
Told(o) == \E at \in {"discovery", "document"} : <<at, o>> \in outcomes

\* Mutant: a failure hides a denial.
ExitCodeFailedFirst == IF Told("failed") THEN 1 ELSE IF Told("denied") THEN 2 ELSE 0

\* Mutant: every discovery_error is taken for a denial.
ExitCodeHaltsOnDiscovery ==
    IF Told("denied") \/ <<"discovery", "failed">> \in outcomes THEN 2
    ELSE IF Told("failed") THEN 1 ELSE 0

ExitCode == IF Told("denied") THEN 2 ELSE IF Told("failed") THEN 1 ELSE 0

DistinctRequests == \A q \in Requests : \A k, l \in DOMAIN q : q[k] = q[l] => k = l

Traceback == 9      \* an exception nobody catches: Python exits 1 without a summary

Fault == faults < MaxFaults /\ faults' = faults + 1

-----------------------------------------------------------------------------
(* The sites and the operator *)

Init ==
    /\ source \in [Docs -> {0, 1}]
    /\ manifest = <<>>
    /\ files = [d \in Docs |-> [r \in Runs |-> 0]]
    /\ clock = 1 /\ faults = 0
    /\ pc = "idle" /\ mode = "plain" /\ run = 1 /\ left = <<>> /\ listed = {}
    /\ todo = {} /\ doc = {} /\ tries = 0 /\ pending = <<>> /\ outcomes = {} /\ exit = 0

Publish(d) ==
    /\ \E v \in Versions \ {0, source[d]} :
          /\ v > source[d] \/ Restores
          /\ source' = [source EXCEPT ![d] = v]
    /\ UNCHANGED <<store, clock, faults, request, pc, todo, doc, tries, pending, outcomes, exit>>

\* Somebody cleans data/raw, or a clone has the manifest and not the documents.
Lose(d) ==
    /\ pc \in {"idle", "ended"}
    /\ \E r \in Runs : files[d][r] # 0 /\ files' = [files EXCEPT ![d][r] = 0]
    /\ Fault
    /\ UNCHANGED <<source, clock, manifest, request, pc, todo, doc, tries, pending, outcomes, exit>>

\* run_ingest, in the second of the last start or later.
Begin ==
    /\ pc \in {"idle", "ended"}
    /\ \E states \in Requests, now \in {clock, clock + 1}, stamp \in Runs :
          /\ now <= MaxRun /\ NextRunId(now, stamp)
          /\ mode' \in IF stamp <= MaxRun THEN {"plain", "force", "dry"} ELSE {"dry"}
          /\ run' = stamp /\ clock' = now /\ left' = states
    /\ pc' = "discover" /\ listed' = {} /\ outcomes' = {} /\ exit' = 0
    /\ UNCHANGED <<store, source, faults, todo, doc, tries, pending>>

-----------------------------------------------------------------------------
(* One run *)

\* What the adapter of the state at hand finds.
Found == {d \in Docs : StateOf[d] = Head(left) /\ source[d] # 0}

\* Every document the state lists now.
Discovers ==
    /\ pc = "discover" /\ left # <<>> /\ Found # {}
    /\ listed' = listed \cup Found
    /\ IF mode = "dry" THEN UNCHANGED <<pc, todo>>
                       ELSE pc' = "documents" /\ todo' = Found
    /\ left' = Tail(left)
    /\ UNCHANGED <<store, world, mode, run, doc, tries, pending, outcomes, exit>>

\* SourceCountMismatch: a state with nothing to list is left out.
NothingFound ==
    /\ pc = "discover" /\ left # <<>> /\ Found = {}
    /\ outcomes' = outcomes \cup {<<"discovery", "failed">>}
    /\ left' = Tail(left)
    /\ UNCHANGED <<store, world, mode, run, listed, pc, todo, doc, tries, pending, exit>>

\* Another count than the configured one, FetchError, AccessDeniedError: the same.
DiscoveryFails ==
    /\ pc = "discover" /\ left # <<>>
    /\ Fault
    /\ \E o \in {"failed", "denied"} : outcomes' = outcomes \cup {<<"discovery", o>>}
    /\ left' = Tail(left)
    /\ UNCHANGED <<store, source, clock, mode, run, listed, pc, todo, doc, tries, pending, exit>>

StateDone ==
    /\ pc = "documents" /\ todo = {}
    /\ pc' = "discover"
    /\ UNCHANGED <<store, world, request, todo, doc, tries, pending, outcomes, exit>>

Report ==
    /\ pc = "discover" /\ left = <<>>
    /\ pc' = "ended" /\ exit' = ExitCode
    /\ UNCHANGED <<store, world, request, todo, doc, tries, pending, outcomes>>

NextDocument ==
    /\ pc = "documents"
    /\ \E d \in todo : doc' = {d} /\ todo' = todo \ {d}
    /\ pc' = "fetch" /\ tries' = 0
    /\ UNCHANGED <<store, world, request, pending, outcomes, exit>>

Logs(row) == pending' = <<row>> /\ pc' = "append" /\ doc' = {} /\ tries' = 0

\* Mutant: a denial does not halt the state.
AppendRowAndGoOn ==
    /\ pc = "append"
    /\ manifest' = Append(manifest, pending[1])
    /\ outcomes' = outcomes \cup ({<<"document", pending[1].status>>} \cap Troubles)
    /\ pending' = <<>> /\ pc' = "documents"
    /\ UNCHANGED <<files, world, request, todo, doc, tries, exit>>

\* The log line of a document is one write; a denial then halts the state.
AppendRow ==
    /\ pc = "append"
    /\ LET row == pending[1] IN
          /\ manifest' = Append(manifest, row)
          /\ outcomes' = outcomes \cup ({<<"document", row.status>>} \cap Troubles)
          /\ todo' = IF row.status = "denied" THEN {} ELSE todo
    /\ pending' = <<>> /\ pc' = "documents"
    /\ UNCHANGED <<files, world, request, doc, tries, exit>>

-----------------------------------------------------------------------------
(* One document: the request, the answers to it, the refetch *)

Asking(d) == pc \in {"fetch", "refetch"} /\ doc = {d}

\* 403 at any attempt, or robots.txt: never asked again.
Denied(d) ==
    /\ Asking(d)
    /\ Fault
    /\ Logs(Row(d, "denied", 0, 0, 0))
    /\ UNCHANGED <<store, source, clock, request, todo, outcomes, exit>>

\* Mutant: one attempt too many.
TransientOnceMore(d) ==
    /\ Asking(d) /\ tries + 1 <= MaxAttempts
    /\ tries' = tries + 1
    /\ UNCHANGED <<store, world, request, pc, todo, doc, pending, outcomes, exit>>

\* Mutant: the attempts are counted and the loop has no end.
TransientForever(d) ==
    /\ Asking(d)
    /\ tries' = (tries + 1) % MaxAttempts
    /\ UNCHANGED <<store, world, request, pc, todo, doc, pending, outcomes, exit>>

\* A timeout, a dropped connection, 429, 5xx.
Transient(d) ==
    /\ Asking(d) /\ tries + 1 < MaxAttempts
    /\ tries' = tries + 1
    /\ UNCHANGED <<store, world, request, pc, todo, doc, pending, outcomes, exit>>

\* The last attempt went the same way, or the site answered 404 or the like.
GivesUp(d) ==
    /\ Asking(d)
    /\ Logs(Row(d, "failed", 0, 0, 0))
    /\ UNCHANGED <<store, world, request, todo, outcomes, exit>>

\* 304, and the file is there: nothing is transferred or hashed.
NotModified(d) ==
    /\ pc = "fetch" /\ doc = {d}
    /\ Validator(d) # 0 /\ Validator(d) = source[d]
    /\ Verified(d)
    /\ Logs(Row(d, "unchanged", Prior(d).hash, source[d], Prior(d).path))
    /\ UNCHANGED <<store, world, request, todo, outcomes, exit>>

\* 304, and the file is gone: ask again without validators.
Refetch(d) ==
    /\ pc = "fetch" /\ doc = {d}
    /\ Validator(d) # 0 /\ Validator(d) = source[d]
    /\ ~Verified(d)
    /\ pc' = "refetch" /\ tries' = 0
    /\ UNCHANGED <<store, world, request, todo, doc, pending, outcomes, exit>>

\* Mutant: each run stores what it fetches.
ContentAlwaysStored(d) ==
    /\ Asking(d) /\ source[d] # 0
    /\ \E etag \in {source[d], Prior(d).etag} : Logs(Row(d, "stored", source[d], etag, run))
    /\ files' = [files EXCEPT ![d][run] = source[d]]
    /\ UNCHANGED <<manifest, world, request, todo, outcomes, exit>>

\* 200: store the bytes unless they are those of the last good row.  The row was begun with
\* the headers of the first response; where these name no validator it keeps the old one.
Content(d) ==
    /\ Asking(d) /\ source[d] # 0
    /\ LET same == Verified(d) /\ Prior(d).hash = source[d] IN
          \E etag \in IF pc = "fetch" THEN {source[d], Prior(d).etag} ELSE {Prior(d).etag} :
             Logs(IF same THEN Row(d, "unchanged", source[d], etag, Prior(d).path)
                          ELSE Row(d, "stored", source[d], etag, run))
          /\ files' = IF same THEN files ELSE [files EXCEPT ![d][run] = source[d]]
    /\ UNCHANGED <<manifest, world, request, todo, outcomes, exit>>

Idle ==
    /\ todo' = {} /\ doc' = {} /\ tries' = 0 /\ pending' = <<>> /\ outcomes' = {}

Dies == pc' = "ended" /\ exit' = Traceback /\ Idle

\* A redirect loop or an undecodable body: TooManyRedirects and DecodingError are no
\* TransportError, and nothing catches them.
Uncaught(d) ==
    /\ Asking(d)
    /\ Fault
    /\ Dies
    /\ UNCHANGED <<store, source, clock, request>>

\* So with a full disk and an adapter's ValueError.
Crash ==
    /\ pc = "append" \/ (pc = "discover" /\ left # <<>>)
    /\ Fault
    /\ Dies
    /\ UNCHANGED <<store, source, clock, request>>

Kill ==
    /\ pc \notin {"idle", "ended"}
    /\ Fault
    /\ pc' = "idle"
    /\ Idle
    /\ UNCHANGED <<store, source, clock, request, exit>>

Step ==
    \/ Discovers \/ NothingFound \/ DiscoveryFails \/ StateDone \/ Report \/ NextDocument \/ AppendRow
    \/ \E d \in Docs : \/ Denied(d) \/ Transient(d) \/ GivesUp(d)
                       \/ NotModified(d) \/ Refetch(d) \/ Content(d)

Next ==
    \/ \E d \in Docs : Publish(d) \/ Lose(d) \/ Uncaught(d)
    \/ Begin \/ Step \/ Crash \/ Kill

Spec == Init /\ [][Next]_vars

\* A request is answered or times out, and the run goes on.
FairSpec == Spec /\ WF_vars(Step)

-----------------------------------------------------------------------------
(* Properties *)

\* Every variable has its type.
TypeOK ==
    /\ source \in [Docs -> Versions]
    /\ manifest \in Seq(Rows) /\ pending \in Seq(Rows) /\ Len(pending) <= 1
    /\ files \in [Docs -> [Runs -> Versions]]
    /\ clock \in 1 .. MaxRun /\ run \in Runs /\ faults \in 0 .. MaxFaults
    /\ pc \in {"idle", "discover", "documents", "fetch", "refetch", "append", "ended"}
    /\ mode \in {"plain", "force", "dry"}
    /\ left \in Seq(States) /\ listed \subseteq Docs /\ todo \subseteq Docs
    /\ doc \in {{}} \cup {{d} : d \in Docs} /\ tries \in 0 .. MaxAttempts - 1
    /\ outcomes \subseteq Troubles /\ exit \in {0, 1, 2, Traceback}

\* The run keeps the promise of Sightings.tla: 304s, refetches, deduplication and the skipping
\* of failed rows amount to seeing what the site serves, with the bytes on disk.
Promise == INSTANCE Sightings WITH
    answer   <- [d \in Docs |-> IF pending # <<>> /\ pending[1].doc = d
                                THEN pending[1].hash ELSE 0],
    sighting <- [d \in Docs |->
                    LET at == {i \in DOMAIN manifest : manifest[i].doc = d}
                    IN  IF at = {} THEN "none"
                        ELSE IF manifest[Max(at)].status \in Good THEN "ok" ELSE "failed"],
    bytes    <- [d \in Docs |-> Prior(d).hash],
    missing  <- {d \in Docs : Prior(d).path # 0 /\ files[d][Prior(d).path] = 0}

KeepsThePromise == Promise!Spec

\* No row's bytes are ever overwritten: its file holds what it hashed, or is gone.
RowsKeepTheirBytes ==
    \A i \in DOMAIN manifest :
        LET row == manifest[i]
        IN  row.status \in Good => files[row.doc][row.path] \in {0, row.hash}

\* manifest.py: "natural key: (run_id, filing_id, document_role). One row per document per run".
NaturalKey ==
    \A i, j \in DOMAIN manifest :
        manifest[i].run = manifest[j].run /\ manifest[i].doc = manifest[j].doc => i = j

\* What makes both inductive.  The documents of this run that have no row yet ...
InHand == todo \cup doc \cup {pending[i].doc : i \in DOMAIN pending}

\* ... are where the program counter says, each in one place,
OnePlace ==
    /\ (doc # {}) <=> pc \in {"fetch", "refetch"}
    /\ (pending # <<>>) <=> pc = "append"
    /\ pc \in {"idle", "discover", "ended"} => todo = {}
    /\ todo \cap doc = {}
    /\ \A i \in DOMAIN pending : pending[i].run = run /\ pending[i].doc \notin todo

\* ... and have none, and neither have those of the states not begun;
NoRowYet ==
    /\ \A i \in DOMAIN manifest : manifest[i].run = run =>
          manifest[i].doc \notin InHand /\ \A k \in DOMAIN left : StateOf[manifest[i].doc] # left[k]
    /\ \A d \in InHand, k \in DOMAIN left : StateOf[d] # left[k]
    /\ \A k, l \in DOMAIN left : left[k] = left[l] => k = l

\* a good row points to a directory of a run that has a row of the document, its own included;
KeepsBytes(row) ==
    /\ row.hash # 0 <=> row.status \in Good
    /\ row.hash # 0 =>
          /\ row.path # 0 /\ files[row.doc][row.path] \in {0, row.hash}
          /\ \/ row.path = row.run
             \/ \E i \in DOMAIN manifest : manifest[i].doc = row.doc /\ manifest[i].run = row.path

\* and the last good row is among the rows.
LastGoodExists ==
    \A d \in Docs : GoodAt(d) # {} => \E i \in GoodAt(d) : \A j \in GoodAt(d) : j <= i

\* The inductive invariant, if no command line names a state twice.
IngestInv ==
    /\ TypeOK /\ OnePlace /\ NoRowYet /\ LastGoodExists
    /\ \A i \in DOMAIN manifest : KeepsBytes(manifest[i])
    /\ \A i \in DOMAIN pending : KeepsBytes(pending[i])

\* "The manifest is the append-only log; the directory tree is the deduplicated store": a
\* fetch of the bytes the last good row points to adds no file.
StoresOnlyNews ==
    [][\A d \in Docs, r \in Runs :
          files[d][r] = 0 /\ files'[d][r] # 0 =>
              ~(Verified(d) /\ files[d][Prior(d).path] = files'[d][r])]_vars

RowsOfRun == {manifest[i] : i \in {j \in DOMAIN manifest : manifest[j].run = run}}

Met(o) == <<"discovery", o>> \in outcomes \/ \E row \in RowsOfRun : row.status = o

\* Listed documents without a row of this run, but for those of a state it was denied.
Unchecked ==
    {d \in listed :
        ~\E row \in RowsOfRun :
            row.doc = d \/ (row.status = "denied" /\ StateOf[row.doc] = StateOf[d])}

\* The exit code is what the run met: 2 exactly when it was denied, at a document or at an
\* index (the driver halts on 2); 1 exactly when something else failed; 0 only if every listed
\* document has a good row.  And only a denied state leaves listed documents without a row.
ExitTellsTheRows ==
    pc = "ended" /\ exit # Traceback =>
        /\ exit = 2 <=> Met("denied")
        /\ exit = 1 <=> Met("failed") /\ ~Met("denied")
        /\ mode # "dry" =>
              /\ exit = 0 => \A d \in listed : \E row \in RowsOfRun :
                                row.doc = d /\ row.status \in Good
              /\ Unchecked = {}

\* "Halt this state": once a document was denied no other of its state is asked for.
DeniedIsNotAsked ==
    \A d \in Docs : Asking(d) =>
        ~\E row \in RowsOfRun : row.status = "denied" /\ StateOf[row.doc] = StateOf[d]

\* Retries are bounded: every run comes to its end, however often the site does not answer or
\* answers with an error, and whatever it publishes meanwhile.
RunEnds == pc = "discover" ~> pc \in {"idle", "ended"}

-----------------------------------------------------------------------------
(* What the docs say and the code does not do *)

\* cli.py: "Document 9 of 15 failing must not cost documents 10 through 15": whatever happens
\* at a document, no other listed one is left unchecked.
OneFailureCostsOne == pc = "ended" /\ mode # "dry" => \A c, d \in Unchecked : c = d
=============================================================================
