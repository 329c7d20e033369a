------------------------------ MODULE RunLock -------------------------------
(***************************************************************************)
(* The lock file of pipeline.orchestrate.record: one active run per data   *)
(* root.  DagRun.tla models one run at a time; here several processes of   *)
(* `rfp-run` and `rfp-warehouse` contend for the file.                     *)
(*                                                                         *)
(* acquire() creates the file with O_EXCL and then writes the pid into it: *)
(* two steps.  A process that finds the file is refused.  A process that   *)
(* is killed leaves the file, and its child, an orphan, works on until it  *)
(* ends.  A human who is told the pid checks that it is dead and then      *)
(* removes the file: two steps again, and the file may be another by then. *)
(***************************************************************************)
EXTENDS Naturals

CONSTANTS Procs,    \* the runs that are started; each is a process of its own
          Humans,   \* who reads the LockHeld message and acts on it
          Nobody    \* the empty content of a lock file whose pid is not written yet

ASSUME NobodyAssumption == Nobody \notin Procs

VARIABLES
    state,  \* of each process
    file,   \* the lock file: who created it and the pid in it; or Absent
    child,  \* the processes whose child is running
    errand  \* the dead pid whose lock each human is about to remove

vars == <<state, file, child, errand>>

Absent  == [by |-> Nobody, pid |-> Nobody]
States  == {"new", "created", "running", "refused", "ended", "dead"}

Init ==
    /\ state = [p \in Procs |-> "new"]
    /\ file = Absent
    /\ child = {}
    /\ errand = [h \in Humans |-> Nobody]

Becomes(p, s) == state' = [state EXCEPT ![p] = s]

\* Mutant: no O_EXCL.
CreateOver(p) ==
    /\ state[p] = "new"
    /\ file' = [by |-> p, pid |-> Nobody]
    /\ Becomes(p, "created")
    /\ UNCHANGED <<child, errand>>

\* os.open with O_CREAT | O_EXCL
Create(p) ==
    /\ state[p] = "new" /\ file = Absent
    /\ file' = [by |-> p, pid |-> Nobody]
    /\ Becomes(p, "created")
    /\ UNCHANGED <<child, errand>>

\* FileExistsError: LockHeld, exit 1
Refuse(p) ==
    /\ state[p] = "new" /\ file # Absent
    /\ Becomes(p, "refused")
    /\ UNCHANGED <<file, child, errand>>

\* The pid goes to the file this process created, wherever its name points by now.
WritePid(p) ==
    /\ state[p] = "created"
    /\ file' = IF file.by = p THEN [file EXCEPT !.pid = p] ELSE file
    /\ Becomes(p, "running")
    /\ UNCHANGED <<child, errand>>

\* run_command: the driver waits for one child at a time.
Spawn(p) ==
    /\ state[p] = "running" /\ p \notin child
    /\ child' = child \cup {p}
    /\ UNCHANGED <<state, file, errand>>

ChildEnds(p) ==
    /\ p \in child
    /\ child' = child \ {p}
    /\ UNCHANGED <<state, file, errand>>

\* Mutant: the file is left behind.
ReleaseNothing(p) ==
    /\ state[p] = "running" /\ p \notin child
    /\ Becomes(p, "ended")
    /\ UNCHANGED <<file, child, errand>>

\* The `finally` clause: whatever file has the name is unlinked, or none.
Release(p) ==
    /\ state[p] = "running" /\ p \notin child
    /\ file' = Absent
    /\ Becomes(p, "ended")
    /\ UNCHANGED <<child, errand>>

\* Ctrl-C reaches the driver and its child alike.
Interrupt(p) ==
    /\ state[p] = "running"
    /\ file' = Absent
    /\ child' = child \ {p}
    /\ Becomes(p, "ended")
    /\ UNCHANGED errand

\* SIGKILL, or an exception between acquire() and the `try` that releases.
Kill(p) ==
    /\ state[p] \in {"created", "running"}
    /\ Becomes(p, "dead")
    /\ UNCHANGED <<file, child, errand>>

\* Mutant: nobody looks whether the process lives.
FindAny(h) ==
    /\ errand[h] = Nobody
    /\ file.pid \in Procs
    /\ errand' = [errand EXCEPT ![h] = file.pid]
    /\ UNCHANGED <<state, file, child>>

\* "If that pid is dead, ..."
FindDead(h) ==
    /\ errand[h] = Nobody
    /\ file.pid \in Procs /\ state[file.pid] = "dead"
    /\ errand' = [errand EXCEPT ![h] = file.pid]
    /\ UNCHANGED <<state, file, child>>

\* "... remove the file by hand."
RemoveByHand(h) ==
    /\ errand[h] # Nobody
    /\ file' = Absent
    /\ errand' = [errand EXCEPT ![h] = Nobody]
    /\ UNCHANGED <<state, child>>

Next ==
    \/ \E p \in Procs : \/ Create(p) \/ Refuse(p) \/ WritePid(p) \/ Spawn(p)
                        \/ ChildEnds(p) \/ Release(p) \/ Interrupt(p) \/ Kill(p)
    \/ \E h \in Humans : FindDead(h) \/ RemoveByHand(h)

Spec == Init /\ [][Next]_vars

\* A driver goes on until it has released; children end; somebody reads the message.
Fairness ==
    /\ \A p \in Procs : WF_vars(WritePid(p)) /\ WF_vars(ChildEnds(p)) /\ SF_vars(Release(p))
    /\ \A h \in Humans : WF_vars(FindDead(h)) /\ WF_vars(RemoveByHand(h))

FairSpec == Spec /\ Fairness

-----------------------------------------------------------------------------
(* Properties *)

\* Every variable has its type.
TypeOK ==
    /\ state \in [Procs -> States]
    /\ file \in [by : Procs \cup {Nobody}, pid : Procs \cup {Nobody}]
    /\ child \subseteq Procs
    /\ errand \in [Humans -> Procs \cup {Nobody}]

Active(p) == state[p] \in {"created", "running"}

\* "One active run per data root": two drivers never run at once, as long as one human
\* at a time follows the message.
MutualExclusion == \A p, q \in Procs : Active(p) /\ Active(q) => p = q

\* A driver that ends takes away no lock but its own.
ReleasesItsOwn ==
    [][\A p \in Procs : state[p] = "running" /\ state'[p] = "ended" => file.by = p]_vars

\* A lock that names its process is removed in the end, by it or by hand.
LockComesFree == \A p \in Procs : file.pid = p ~> file.pid # p

\* What makes exclusion inductive: the lock file is the active driver's.
LockIsHeld ==
    /\ \A p \in Procs : Active(p) => file.by = p
    /\ file.pid # Nobody => file.pid = file.by

\* ... and the file a human is about to remove is still the dead process's.
ErrandIsSafe ==
    \A h \in Humans : errand[h] # Nobody =>
        file.pid = errand[h] /\ file.by = errand[h] /\ state[errand[h]] = "dead"

LockInv == TypeOK /\ LockIsHeld /\ ErrandIsSafe

=============================================================================
