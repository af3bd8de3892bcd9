------------------------ MODULE SingleInstanceProofs ------------------------
(***************************************************************************)
(* Theorems about SingleInstance, for any number of processes and faults.  *)
(***************************************************************************)
EXTENDS SingleInstance, FiniteSetTheorems, TLAPS

\* Whoever writes and has a session is whom the server gave the lock to, and
\* that process is past asking for it.
LockInv ==
  /\ TypeOK
  /\ \A p \in Processes : Writes(p) /\ p \in session => owner = {p}
  /\ \A p \in owner : stage[p] \in {"loop", "handler", "ending"}

LEMMA LockInit == Init => LockInv
  BY ConstantsAssumption DEF Init, LockInv, TypeOK, Writes

LEMMA LockStep == LockInv /\ [Next]_vars => LockInv'
  <1> SUFFICES ASSUME LockInv, [Next]_vars PROVE LockInv'
    OBVIOUS
  <1> USE ConstantsAssumption DEF LockInv, TypeOK, Writes
  <1>1. CASE UNCHANGED vars
    BY <1>1 DEF vars
  <1>2. ASSUME NEW p \in Processes, Start(p) \/ Acquire(p) \/ LockHeld(p) PROVE LockInv'
    BY <1>2 DEF Start, Acquire, LockHeld, At
  <1>3. ASSUME NEW p \in Processes, Loop(p) PROVE LockInv'
    BY <1>3 DEF Loop, Handle, Finishes, Verified, LockLost, Interrupted, At
  <1>4. ASSUME NEW p \in Processes, Release(p) PROVE LockInv'
    BY <1>4 DEF Release, At
  <1>5. ASSUME NEW p \in Processes, SessionEnds(p) \/ Killed(p) PROVE LockInv'
    BY <1>5 DEF SessionEnds, Killed, Fault
  <1>6. QED BY <1>1, <1>2, <1>3, <1>4, <1>5 DEF Next

\* The named lock lets one process write at a time, as long as its session
\* lasts (store.Lock: Acquire, Release), whichever processes are started,
\* killed or cut off.
THEOREM LockAlways == Spec => []LockOK
  <1>1. LockInv => LockOK
    <2> SUFFICES ASSUME LockInv PROVE OneWriterPerLock
      BY DEF LockInv, LockOK
    <2> DEFINE W == {p \in Processes : Writes(p) /\ p \in session}
    <2>1. CASE W = {}
      <3>1. Cardinality(W) = 0
        BY <2>1, FS_EmptySet
      <3>2. QED BY <3>1 DEF OneWriterPerLock
    <2>2. ASSUME NEW p \in W PROVE OneWriterPerLock
      <3>1. W = {p}
        BY DEF LockInv
      <3>2. Cardinality(W) = 1
        BY <3>1, FS_Singleton
      <3>3. QED BY <3>2 DEF OneWriterPerLock
    <2>3. QED BY <2>1, <2>2
  <1>2. QED BY LockInit, LockStep, <1>1, PTL DEF Spec
=============================================================================
