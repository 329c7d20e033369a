--------------------------- MODULE RunLock_proofs ---------------------------
(* Proofs about RunLock.tla, for any set of processes. *)
EXTENDS RunLock, TLAPS

\* At most one human follows the message.
OneHuman == \A g, h \in Humans : g = h

LEMMA LockInvInit == Init => LockInv
BY NobodyAssumption
   DEF Init, LockInv, TypeOK, LockIsHeld, ErrandIsSafe, Active, Absent, States

\* No step loses the invariant: a file can be created only when there is none, and removed
\* only by its driver, or by the human once its process is dead.
LEMMA LockInvNext ==
    ASSUME OneHuman, LockInv, [Next]_vars
    PROVE  LockInv'
<1> USE NobodyAssumption DEF TypeOK, States, Active, Absent, Becomes
<1> SUFFICES ASSUME Next PROVE LockInv'
  <2>1. CASE UNCHANGED vars
    BY <2>1 DEF vars, LockInv, LockIsHeld, ErrandIsSafe
  <2> QED BY <2>1
<1>1. ASSUME NEW p \in Procs, Create(p) PROVE LockInv'
  BY <1>1 DEF Create, LockInv, LockIsHeld, ErrandIsSafe
<1>2. ASSUME NEW p \in Procs, Refuse(p) PROVE LockInv'
  BY <1>2 DEF Refuse, LockInv, LockIsHeld, ErrandIsSafe
<1>3. ASSUME NEW p \in Procs, WritePid(p) PROVE LockInv'
  BY <1>3 DEF WritePid, LockInv, LockIsHeld, ErrandIsSafe
<1>4. ASSUME NEW p \in Procs, Spawn(p) PROVE LockInv'
  BY <1>4 DEF Spawn, LockInv, LockIsHeld, ErrandIsSafe
<1>5. ASSUME NEW p \in Procs, ChildEnds(p) PROVE LockInv'
  BY <1>5 DEF ChildEnds, LockInv, LockIsHeld, ErrandIsSafe
<1>6. ASSUME NEW p \in Procs, Release(p) \/ Interrupt(p) PROVE LockInv'
  BY <1>6 DEF Release, Interrupt, LockInv, LockIsHeld, ErrandIsSafe
<1>7. ASSUME NEW p \in Procs, Kill(p) PROVE LockInv'
  BY <1>7 DEF Kill, LockInv, LockIsHeld, ErrandIsSafe
<1>8. ASSUME NEW h \in Humans, FindDead(h) PROVE LockInv'
  BY <1>8 DEF FindDead, LockInv, LockIsHeld, ErrandIsSafe
<1>9. ASSUME NEW h \in Humans, RemoveByHand(h) PROVE LockInv'
  BY <1>9 DEF RemoveByHand, OneHuman, LockInv, LockIsHeld, ErrandIsSafe
<1> QED BY <1>1, <1>2, <1>3, <1>4, <1>5, <1>6, <1>7, <1>8, <1>9 DEF Next

\* The lock file is that of the one active driver, and a human removes only a dead one's
\* (RunLock.acquire, release).
THEOREM LockInvHolds ==
    ASSUME OneHuman PROVE Spec => []LockInv
<1>1. LockInv /\ [Next]_vars => LockInv'
  BY LockInvNext
<1> QED BY LockInvInit, <1>1, PTL DEF Spec

\* Two drivers are never past acquire() at once (RunLock.acquire, release).
THEOREM MutualExclusionHolds ==
    ASSUME OneHuman PROVE Spec => []MutualExclusion
<1>1. LockInv => MutualExclusion
  BY DEF LockInv, LockIsHeld, MutualExclusion
<1> QED BY LockInvHolds, <1>1, PTL

\* A driver that ends unlinks its own lock file, although release() unlinks whatever has
\* the name.
THEOREM ReleasesItsOwnHolds ==
    ASSUME OneHuman PROVE Spec => ReleasesItsOwn
<1>1. LockInv /\ [Next]_vars =>
        [\A p \in Procs : state[p] = "running" /\ state'[p] = "ended" => file.by = p]_vars
  BY DEF LockInv, LockIsHeld, Active
<1> QED BY LockInvHolds, <1>1, PTL DEF Spec, ReleasesItsOwn
=============================================================================
