---------------------------- MODULE UpbitClient -----------------------------
(***************************************************************************)
(* The Upbit clients (upbit/client.go), one per key pair: the limiter they *)
(* share, and how answers are sorted.                                      *)
(*                                                                         *)
(* The spacing of 200 ms is shorter than a tick and left out; what the     *)
(* limiter is asked to hold back after a 429 or 418 is not.                *)
(***************************************************************************)
EXTENDS Calls

CONSTANT Cooldown  \* ticks of silence after Upbit rejects a call for its rate

ASSUME UpbitAssumption == Cooldown \in Nat

VARIABLES
  pause,  \* each client's limiter: ticks until the next call may leave
  banned  \* for checking: ticks of silence Upbit has asked this process for

upbit == <<pause, banned>>

Upbit == call.client \in Roles

\* Mutant: every client has a limiter of its own.
SharedWith_None(role) == {role}

\* Upbit counts requests per account, so all clients share one limiter.
SharedWith(role) == Roles

\* Wait: how long a call is held back is read once, when it gets there.
Held(client) == IF client \in Roles THEN pause[client] ELSE 0

UpbitSends ==
  /\ Upbit /\ At("limiter") /\ call.left = 0
  /\ Allowed
  /\ Leaves
  /\ UNCHANGED upbit

UpbitOK ==
  /\ Upbit /\ At("sending") /\ "2xx" \in Answers
  /\ Succeeds
  /\ UNCHANGED upbit

Unread(answer) == Placing /\ answer \in {"none", "garbled", "5xx", "429"}

Limited ==
  /\ Upbit /\ At("sending") /\ "429" \in Answers
  /\ Fails(Unread("429"))
  /\ pause' = [role \in Roles |->
                 IF role \in SharedWith(call.client) /\ pause[role] < Cooldown
                 THEN Cooldown ELSE pause[role]]
  /\ banned' = Cooldown

\* Toss alone answers that it is still deciding.
UpbitFails ==
  /\ Upbit /\ At("sending")
  /\ \E answer \in Answers \ {"2xx", "429", "in-progress"} : Fails(Unread(answer))
  /\ UNCHANGED upbit

UpbitBlocked == Upbit /\ Blocked /\ UNCHANGED upbit

UpbitStep == UpbitSends \/ UpbitOK \/ Limited \/ UpbitFails \/ UpbitBlocked

UpbitInit == pause = [role \in Roles |-> 0] /\ banned = 0

UpbitTypeOK == pause \in [Roles -> 0..Cooldown] /\ banned \in 0..Cooldown

-----------------------------------------------------------------------------
(* Correctness.                                                            *)

\* While Upbit wants silence no client of the account says anything
\* (Limiter.Backoff).  A call that had read the limiter before would: it is
\* the one goroutine that leaves none.
CooldownHolds == Upbit /\ At("sending") => banned = 0
=============================================================================
