------------------------------ MODULE Telegram ------------------------------
(***************************************************************************)
(* Both directions of the conversation in one process (app/app.go): poll   *)
(* feeds the channel beside the loop; the loop either works on an update   *)
(* or sends a batch of notices, never both, and the notices are those its  *)
(* handlers queue.  A stop ends all of it at once.                         *)
(***************************************************************************)
EXTENDS Naturals, Sequences, FiniteSets

CONSTANTS MaxUpdates, Foreign, Capacity,  \* see Inbox
          MaxEvents, Batch,               \* see Outbox
          MaxFaults                       \* bound: failures of either direction

VARIABLES
  made, confirmed, up, offset, fetched, channel, stage, cur, stored,
  acted, life, lost, unread,
  queued, sent, batch, going, chat,
  faults

In  == INSTANCE Inbox WITH batch <- fetched
Out == INSTANCE Outbox

ASSUME TelegramAssumption == In!ConstantsOK /\ Out!ConstantsOK

inbox  == <<made, confirmed, up, offset, fetched, channel, stage, cur, stored,
            acted, life, lost, unread>>
outbox == <<queued, sent, batch, going, chat>>
vars   == <<inbox, outbox, faults>>

Init == In!Init /\ Out!Init

\* Beside the loop.
Poll ==
  /\ In!Make \/ In!Poll \/ In!PollFails \/ In!Queue
  /\ UNCHANGED outbox

\* The loop takes an update only between two batches.
Take == batch = {} /\ In!Take /\ UNCHANGED outbox

\* A handler may queue a notice (Submit announces what it sent, app.go).
Act == In!Act /\ (Out!Notify \/ UNCHANGED outbox)

StoreOffset == In!StoreOffset /\ UNCHANGED outbox

\* The work of a tick begins only between two updates.
Free == up /\ stage = "idle"

\* Reconciliation queues what it finds out.
Reconcile == Free /\ Out!Notify /\ UNCHANGED inbox

Deliver == Free /\ Out!Deliver /\ UNCHANGED inbox

Delivering == (Out!Send \/ Out!SendFails \/ Out!MarkSent) /\ UNCHANGED inbox

Stop  == In!Stop /\ Out!Stop
Start == In!Start /\ UNCHANGED outbox

Next == \/ Poll \/ Take \/ Act \/ StoreOffset \/ Reconcile \/ Deliver \/ Delivering
        \/ Stop \/ Start

Spec == Init /\ [][Next]_vars

\* The loop's select picks at random among what is ready, so neither updates
\* nor notices starve; what runs on its own goes on.
Fairness ==
  /\ WF_vars(In!Poll /\ UNCHANGED outbox) /\ WF_vars(In!Queue /\ UNCHANGED outbox)
  /\ SF_vars(Take) /\ WF_vars(Act) /\ WF_vars(StoreOffset)
  /\ SF_vars(Deliver) /\ WF_vars(Out!Send /\ UNCHANGED inbox)
  /\ WF_vars(Out!MarkSent /\ UNCHANGED inbox) /\ WF_vars(Start)

FairSpec == Spec /\ Fairness

-----------------------------------------------------------------------------
(* Correctness: what each direction promises still holds of the two.       *)

\* The types; the stored offset passes over no update that was not acted on
\* (dispatch); what is marked sent has gone out (deliver).
TelegramOK == In!InboxOK /\ Out!OutboxOK

\* A process acts on the owner's updates in order and on none twice, whatever
\* poll had to fetch again.
InOrderOnce == In!InOrderOnce

\* An update is acted on again only if no later offset was stored, or the
\* stored one could not be read (poll).
RepeatsAreUnstored == In!RepeatsAreUnstored

\* The operator reads notices for the first time in the order they happened,
\* and no failure repeats more than the one in hand (deliver).
NoticesInOrder == Out!InOrder /\ Out!EachFaultRepeatsOne

\* Every update is acted on, unless a stop lost it, and every notice reaches
\* the operator, though both wait for the same goroutine (Run's select).
AnsweredInTheEnd == In!ActedOnInTheEnd /\ Out!AllDelivered

\* An update is never marked read before it has been acted on.  To Telegram it
\* is, as soon as poll asks for the next ones.
ReadWasActedOn == In!ReadWasActedOn
=============================================================================
