-------------------------------- MODULE Outbox -------------------------------
(***************************************************************************)
(* How notices get from the handlers to the operator: store.Notify queues  *)
(* them in the events table, and App.deliver sends the oldest unsent ones  *)
(* in a batch and marks each after it has gone out (app/app.go).           *)
(*                                                                         *)
(* Notices are numbered in the order of created_at.  deliver and the       *)
(* handlers that queue notices run in one goroutine, so that nothing is    *)
(* queued while a batch is under way.                                      *)
(***************************************************************************)
EXTENDS Naturals, Sequences, FiniteSets

CONSTANTS
  MaxEvents,  \* bound: notices ever queued
  Batch,      \* notifyBatch, 10 in the code
  MaxFaults   \* bound: failures

\* What the constants are taken to be; Telegram assumes it.
ConstantsOK ==
  MaxEvents \in Nat /\ MaxFaults \in Nat /\ Batch \in Nat \ {0}

VARIABLES
  queued,    \* the last notice queued
  sent,      \* events.sent
  batch,     \* deliver: what it read and has not dealt with
  going,     \* deliver: the oldest of the batch has gone out and is not marked
  chat,      \* the messages the operator sees, in order
  faults     \* failures so far

vars == <<queued, sent, batch, going, chat, faults>>

Events  == 1..MaxEvents
Fault   == faults < MaxFaults /\ faults' = faults + 1
NoFault == UNCHANGED faults

-----------------------------------------------------------------------------
(* The table.                                                              *)

\* What the operator has seen.
Delivered == {chat[i] : i \in DOMAIN chat}

\* PendingEvents: the oldest unsent notices, as many as a batch takes.
Unsent    == {e \in 1..queued : e \notin sent}
Before(e) == {f \in Unsent : f < e}
Pending   == {e \in Unsent : Cardinality(Before(e)) < Batch}

Notify ==
  /\ batch = {} /\ queued < MaxEvents
  /\ queued' = queued + 1
  /\ UNCHANGED <<sent, batch, going, chat, faults>>

-----------------------------------------------------------------------------
(* deliver.                                                                *)

Deliver ==
  /\ batch = {} /\ Pending # {}
  /\ batch' = Pending
  /\ UNCHANGED <<queued, sent, going, chat, faults>>

\* The notice the loop over the batch is at.
Oldest(e) == e \in batch /\ \A f \in batch : e <= f

\* The message goes out; when its answer is lost, deliver gives up the batch.
Send ==
  /\ ~going
  /\ \E e \in Events : Oldest(e) /\ chat' = Append(chat, e)
  /\ \/ going' = TRUE /\ UNCHANGED batch /\ NoFault
     \/ batch' = {} /\ UNCHANGED going /\ Fault
  /\ UNCHANGED <<queued, sent>>

\* The message does not go out: deliver returns, the rest of the batch waits.
SendFails ==
  /\ batch # {} /\ ~going /\ Fault
  /\ batch' = {}
  /\ UNCHANGED <<queued, sent, going, chat>>

\* Mutant: the marks are written when the batch has gone out.
MarkSent_Late ==
  /\ going /\ going' = FALSE
  /\ \E e \in Events :
       /\ Oldest(e) /\ batch' = batch \ {e}
       /\ sent' = IF batch' = {} THEN Delivered ELSE sent
  /\ UNCHANGED <<queued, chat, faults>>

\* The mark is written after the send; if it cannot be, deliver returns.
MarkSent ==
  /\ going /\ going' = FALSE
  /\ \/ /\ NoFault
        /\ \E e \in Events : Oldest(e) /\ sent' = sent \cup {e} /\ batch' = batch \ {e}
     \/ Fault /\ batch' = {} /\ UNCHANGED sent
  /\ UNCHANGED <<queued, chat>>

\* The process stops between two steps and starts again.
Stop ==
  /\ Fault
  /\ batch' = {} /\ going' = FALSE
  /\ UNCHANGED <<queued, sent, chat>>

-----------------------------------------------------------------------------
Init == queued = 0 /\ sent = {} /\ batch = {} /\ going = FALSE /\ chat = <<>> /\ faults = 0

Next == Notify \/ Deliver \/ Send \/ SendFails \/ MarkSent \/ Stop

Spec == Init /\ [][Next]_vars

TypeOK ==
  /\ queued \in 0..MaxEvents /\ sent \subseteq 1..queued
  /\ batch \subseteq 1..queued
  /\ going \in BOOLEAN /\ (going => batch # {})
  /\ chat \in Seq(1..queued) /\ faults \in 0..MaxFaults

-----------------------------------------------------------------------------
(* Correctness.                                                            *)

\* Delivery is at least once: what is marked sent has gone out, whatever stops
\* between the two (deliver, MarkSent).
MarkedWasDelivered == sent \subseteq Delivered

\* The types, and delivery at least once.
OutboxOK == TypeOK /\ MarkedWasDelivered

\* What the operator reads for the first time is in the order it happened: no
\* notice arrives before an older one, and a failure holds the later ones up.
InOrder ==
  \A i \in DOMAIN chat : \A e \in 1..chat[i] : \E j \in 1..i : chat[j] = e

\* Nothing is repeated without a failure, and no failure repeats more than the
\* one notice that was in hand: those delivered and marked before it stay so.
EachFaultRepeatsOne == Len(chat) <= Cardinality(Delivered) + faults

\* Every notice reaches the operator and is marked.
AllDelivered == \A e \in Events : queued >= e ~> e \in sent
=============================================================================
