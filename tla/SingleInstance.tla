--------------------------- MODULE SingleInstance ---------------------------
(***************************************************************************)
(* One bot per account: the named MySQL lock of store.Lock, taken before   *)
(* anything else (cmd/cotrader/main.go), looked at by every lock tick of   *)
(* App.Run, and dropped when the process ends.                             *)
(*                                                                         *)
(* MySQL ties the lock to the session that took it.  A session can end     *)
(* without the process noticing: the connection breaks, or the server      *)
(* ends it.                                                                *)
(***************************************************************************)
EXTENDS Naturals, FiniteSets

CONSTANTS
  Processes,  \* bots that may be started
  MaxFaults   \* bound: sessions that end, and processes that are killed

ASSUME ConstantsAssumption == MaxFaults \in Nat

VARIABLES
  stage,    \* "off", "started" (lock asked for), "loop", "handler", "ending"
  session,  \* processes whose lock connection is alive at the server
  owner,    \* the sessions the server gave the lock to
  faults    \* failures so far

vars == <<stage, session, owner, faults>>

Fault == faults < MaxFaults /\ faults' = faults + 1
At(p, from, to) == stage[p] = from /\ stage' = [stage EXCEPT ![p] = to]

\* Where orders are placed and rows are written.
Writes(p) == stage[p] \in {"loop", "handler"}

-----------------------------------------------------------------------------
Start(p) ==
  /\ At(p, "off", "started")
  /\ session' = session \cup {p}
  /\ UNCHANGED <<owner, faults>>

\* Acquire: GET_LOCK does not wait.  (The schema and the connections are looked
\* at next; what fails there ends the process as LockHeld does.)
Acquire(p) ==
  /\ p \in session /\ owner = {}
  /\ At(p, "started", "loop")
  /\ owner' = {p}
  /\ UNCHANGED <<session, faults>>

\* Another session holds the lock, or the question failed.
LockHeld(p) ==
  /\ owner # {} \/ p \notin session
  /\ At(p, "started", "off")
  /\ session' = session \ {p}
  /\ UNCHANGED <<owner, faults>>

\* The loop takes up an update or a tick, and works until it is through.
Handle(p)   == At(p, "loop", "handler") /\ UNCHANGED <<session, owner, faults>>
Finishes(p) == At(p, "handler", "loop") /\ UNCHANGED <<session, owner, faults>>

\* Mutant: the lock is taken to be held while anybody holds it.
Owns_Anybody(p) == owner # {}

\* Verify: IS_USED_LOCK names this very session, and the question is answered.
Owns(p) == p \in session /\ owner = {p}

\* The lock tick.  Held: carry on.  Lost or not to be told: stop.
Verified(p) == Owns(p) /\ At(p, "loop", "loop") /\ UNCHANGED <<session, owner, faults>>
LockLost(p) == ~Owns(p) /\ At(p, "loop", "ending") /\ UNCHANGED <<session, owner, faults>>

\* SIGTERM: the loop sees the cancelled context between two handlers.
Interrupted(p) == At(p, "loop", "ending") /\ UNCHANGED <<session, owner, faults>>

\* Mutant: the lock is dropped whoever holds it.
Release_Any(p) ==
  /\ At(p, "ending", "off")
  /\ session' = session \ {p} /\ owner' = {}
  /\ UNCHANGED faults

\* Release: RELEASE_LOCK drops only what this session holds.
Release(p) ==
  /\ At(p, "ending", "off")
  /\ session' = session \ {p} /\ owner' = owner \ {p}
  /\ UNCHANGED faults

\* The server ends a session, and frees its lock, while the process runs on.
SessionEnds(p) ==
  /\ p \in session /\ Fault
  /\ session' = session \ {p} /\ owner' = owner \ {p}
  /\ UNCHANGED stage

\* The process is killed; its session ends with it.
Killed(p) ==
  /\ stage[p] # "off" /\ Fault
  /\ stage' = [stage EXCEPT ![p] = "off"]
  /\ session' = session \ {p} /\ owner' = owner \ {p}

-----------------------------------------------------------------------------
Init ==
  /\ stage = [p \in Processes |-> "off"]
  /\ session = {} /\ owner = {} /\ faults = 0

Loop(p) == Handle(p) \/ Finishes(p) \/ Verified(p) \/ LockLost(p) \/ Interrupted(p)

Next ==
  \E p \in Processes :
    \/ Start(p) \/ Acquire(p) \/ LockHeld(p) \/ Loop(p) \/ Release(p)
    \/ SessionEnds(p) \/ Killed(p)

Spec == Init /\ [][Next]_vars

TypeOK ==
  /\ stage \in [Processes -> {"off", "started", "loop", "handler", "ending"}]
  /\ session \subseteq Processes /\ owner \subseteq session
  /\ \A p \in session : stage[p] # "off"
  /\ faults \in 0..MaxFaults

-----------------------------------------------------------------------------
(* Correctness.                                                            *)

\* Two bots never place orders side by side while their sessions last: of the
\* processes that write, at most one has not lost its session (Acquire, Release).
OneWriterPerLock == Cardinality({p \in Processes : Writes(p) /\ p \in session}) <= 1

\* The types (the lock belongs to a live session), and one writer for the lock.
LockOK == TypeOK /\ OneWriterPerLock

\* Fairness: a handler ends, and the select takes the lock tick again and again.
Fairness ==
  \A p \in Processes : WF_vars(Finishes(p)) /\ SF_vars(LockLost(p))

FairSpec == Spec /\ Fairness

\* A process whose lock another may hold stops writing (the lock tick).
LoserStops == \A p \in Processes : Writes(p) /\ p \notin session ~> ~Writes(p)

\* The lock proves this process is the only writer.  Not between the end of its
\* session and the next lock tick, nor until the handler it is in has finished.
OnlyWriter == Cardinality({p \in Processes : Writes(p)}) <= 1
=============================================================================
