----------------------------- MODULE Transfers ------------------------------
(***************************************************************************)
(* Moving assets between the operator's own pockets: transfers.Service     *)
(* (Send and Settle), the button of app/transfer.go that starts a Send,    *)
(* and what Upbit does with a transfer request.                            *)
(*                                                                         *)
(* A Send is one handler of the single loop goroutine, pc its stage and    *)
(* cur its record.  The process can stop between any two of its writes; a  *)
(* press whose offset was not stored is then delivered again, or lost when *)
(* Telegram already counts it as read.                                     *)
(*                                                                         *)
(* Pockets, currencies and amounts are one draft, chosen or not.  The      *)
(* messages that report an outcome are left out.                           *)
(***************************************************************************)
EXTENDS Naturals, FiniteSets

CONSTANTS
  Transfers,    \* transfer ids, each the identifier of one request
  MaxPresses,   \* bound: how often the operator presses the send button
  MaxChoices,   \* bound: how often the operator fills in a transfer
  MaxFaults     \* bound: how many times something fails

ASSUME ConstantsAssumption == MaxPresses \in Nat /\ MaxChoices \in Nat /\ MaxFaults \in Nat

VARIABLES
  row,       \* transfers.status
  draft,     \* runtime_state "transfer_draft": a direction, currency and amount are chosen
  inbox,     \* presses the loop has still to handle
  unstored,  \* the last press was handled but its offset was not stored
  pc, cur,   \* the stage of the running Send, and its record
  wire,      \* requests that left and have neither arrived nor been lost
  sends,     \* how many requests ever left for the record
  ex,        \* Upbit's own record of the transfer
  listed,    \* transfers Upbit's history shows
  old,       \* transfers older than the seven days the history goes back
  pressed, choices,  \* how often the operator pressed and chose
  kept,      \* for checking: how often the draft outlived a request made for it
  faults     \* failures so far

process  == <<inbox, unstored, pc, cur>>
exchange == <<wire, sends, ex, listed, old>>
counts   == <<pressed, choices, kept>>
vars     == <<row, draft, process, exchange, counts, faults>>

Fault   == faults < MaxFaults /\ faults' = faults + 1
NoFault == UNCHANGED faults

-----------------------------------------------------------------------------
(* Statuses.                                                               *)

Statuses == {"ABSENT", "PREPARED", "SENDING", "UNKNOWN", "DONE", "FAILED"}

\* UnresolvedTransfers: the outcome is not yet known.
Unresolved(t) == row[t] \in {"SENDING", "UNKNOWN"}

\* Transfer.Done and Transfer.Settled, on the state Upbit reports.
Done(s)    == s = "done"
Settled(s) == s \in {"done", "failed"}

\* Mutant: nobody asks what became of the last transfer.
NoneOutstanding_Ignored == TRUE

NoneOutstanding == \A t \in Transfers : ~Unresolved(t)

\* Transfers: a lookup by identifier finds what the history lists, as far back
\* as it goes.
Found(t) == t \in listed /\ t \notin old

-----------------------------------------------------------------------------
(* The operator.                                                           *)

\* transferScreen and the buttons that fill in direction, currency and amount.
Choose ==
  /\ pc = "idle" /\ choices < MaxChoices
  /\ draft' = TRUE
  /\ choices' = choices + 1
  /\ UNCHANGED <<row, process, exchange, pressed, kept, faults>>

\* Opening the transfer screen anew drops what was filled in.
Reopen ==
  /\ pc = "idle"
  /\ draft' = FALSE
  /\ UNCHANGED <<row, process, exchange, counts, faults>>

\* A press on "send this amount" or "send all", perhaps the second on one screen.
Press ==
  /\ pressed < MaxPresses
  /\ pressed' = pressed + 1
  /\ inbox' = inbox + 1
  /\ UNCHANGED <<row, draft, unstored, pc, cur, exchange, choices, kept, faults>>

-----------------------------------------------------------------------------
(* Send.                                                                   *)

\* transferButton: nothing is sent for a draft that is not filled in, and it is
\* left as it is when what is available cannot be read or is nothing (runTransfer).
\* (Bound: a press is handled only while an unused id is left.)
Handle ==
  /\ pc = "idle" /\ inbox > 0
  /\ \E t \in Transfers : row[t] = "ABSENT"
  /\ inbox' = inbox - 1
  /\ pc' \in IF draft THEN {"send", "offset"} ELSE {"offset"}
  /\ UNCHANGED <<row, draft, unstored, cur, exchange, counts, faults>>

\* The pockets cannot be proved, or an earlier transfer is unresolved.
SendRefused ==
  /\ pc = "send"
  /\ IF NoneOutstanding THEN Fault ELSE NoFault
  /\ pc' = "clear"
  /\ UNCHANGED <<row, draft, inbox, unstored, cur, exchange, counts>>

\* Mutant: an id that is taken already is written over.
SendInsert_Over(t) ==
  /\ pc = "send"
  /\ NoneOutstanding
  /\ row' = [row EXCEPT ![t] = "PREPARED"]
  /\ cur' = {t} /\ pc' = "prepared"
  /\ UNCHANGED <<draft, inbox, unstored, exchange, counts, faults>>

\* A new record; a clash of identifiers would be an error, never an update.
SendInsert(t) ==
  /\ pc = "send" /\ row[t] = "ABSENT"
  /\ NoneOutstanding
  /\ row' = [row EXCEPT ![t] = "PREPARED"]
  /\ cur' = {t} /\ pc' = "prepared"
  /\ UNCHANGED <<draft, inbox, unstored, exchange, counts, faults>>

\* SENDING is committed before the request leaves.
SendSending(t) ==
  /\ pc = "prepared" /\ t \in cur
  /\ row' = [row EXCEPT ![t] = "SENDING"]
  /\ pc' = "request"
  /\ UNCHANGED <<draft, inbox, unstored, cur, exchange, counts, faults>>

SendRequest(t) ==
  /\ pc = "request" /\ t \in cur
  /\ wire' = wire \cup {t}
  /\ sends' = [sends EXCEPT ![t] = @ + 1]
  /\ pc' = "await"
  /\ UNCHANGED <<row, draft, inbox, unstored, cur, ex, listed, old, counts, faults>>

\* The outcome is written back; the record keeps SENDING when that fails.
Record(t, st) ==
  /\ pc = "await" /\ t \in cur
  /\ \/ row' = [row EXCEPT ![t] = st] /\ NoFault
     \/ UNCHANGED row /\ Fault
  /\ pc' = "clear"
  /\ UNCHANGED <<draft, inbox, unstored, cur, sends, ex, listed, old, counts>>

\* Upbit answered with the state of the transfer, perhaps one it has left since.
SendAnswered(t) ==
  /\ ex[t] # "none"
  /\ \/ Done(ex[t]) /\ Record(t, "DONE")
     \/ Record(t, "UNKNOWN")
  /\ UNCHANGED wire

\* A definite refusal: Upbit answered and moves nothing.
SendFailed(t) ==
  /\ t \in wire /\ wire' = wire \ {t}
  /\ Record(t, "FAILED")

\* The answer could not be read: the transfer may have happened, or yet happen.
SendAmbiguous(t) == Record(t, "UNKNOWN") /\ UNCHANGED wire

\* PREPARED or SENDING could not be written, and nothing left.
SendUnwritten ==
  /\ pc \in {"send", "prepared"}
  /\ Fault
  /\ pc' = "clear"
  /\ UNCHANGED <<row, draft, inbox, unstored, cur, exchange, counts>>

\* Mutant: the draft outlives the transfer it was sent as.
ClearDraft_Kept ==
  /\ pc = "clear"
  /\ UNCHANGED draft
  /\ pc' = "offset" /\ cur' = {}
  /\ UNCHANGED <<row, inbox, unstored, exchange, counts, faults>>

\* The request of the Send in hand has left.
Asked == \E t \in cur : sends[t] > 0
Kept  == kept' = IF draft /\ Asked THEN kept + 1 ELSE kept

\* runTransfer: the draft is used up, whatever became of the transfer.
ClearDraft ==
  /\ pc = "clear"
  /\ \/ draft' = FALSE /\ NoFault /\ UNCHANGED kept
     \/ UNCHANGED draft /\ Fault /\ Kept
  /\ pc' = "offset" /\ cur' = {}
  /\ UNCHANGED <<row, inbox, unstored, exchange, pressed, choices>>

\* dispatch: the offset past the press is stored last; failing is only logged.
StoreOffset ==
  /\ pc = "offset"
  /\ \/ unstored' = FALSE /\ NoFault
     \/ unstored' = TRUE /\ Fault
  /\ pc' = "idle"
  /\ UNCHANGED <<row, draft, inbox, cur, exchange, counts>>

\* The process stops and starts again.  Each press whose offset is not stored
\* is delivered again or lost.
Stop ==
  /\ Fault
  /\ \E again \in 0..(inbox + (IF pc # "idle" THEN 1 ELSE 0) + (IF unstored THEN 1 ELSE 0)) :
       inbox' = again
  /\ pc' = "idle" /\ cur' = {} /\ unstored' = FALSE
  /\ Kept
  /\ UNCHANGED <<row, draft, exchange, pressed, choices>>

-----------------------------------------------------------------------------
(* Settle.                                                                 *)

\* Mutant: a transfer the history does not show is taken for failed.
Settle_Absent(t) ==
  /\ pc = "idle" /\ Unresolved(t)
  /\ Found(t) => Settled(ex[t])
  /\ row' = [row EXCEPT ![t] = IF Found(t) /\ Done(ex[t]) THEN "DONE" ELSE "FAILED"]
  /\ UNCHANGED <<draft, process, exchange, counts, faults>>

\* Mutant: only a transfer whose answer was not read is looked up.
Settle_Unread(t) ==
  /\ pc = "idle" /\ row[t] = "UNKNOWN" /\ Found(t) /\ Settled(ex[t])
  /\ row' = [row EXCEPT ![t] = IF Done(ex[t]) THEN "DONE" ELSE "FAILED"]
  /\ UNCHANGED <<draft, process, exchange, counts, faults>>

\* The identifier is looked up.  Absent, or still moving, proves nothing.
Settle(t) ==
  /\ pc = "idle" /\ Unresolved(t)
  /\ Found(t) /\ Settled(ex[t])
  /\ row' = [row EXCEPT ![t] = IF Done(ex[t]) THEN "DONE" ELSE "FAILED"]
  /\ UNCHANGED <<draft, process, exchange, counts, faults>>

-----------------------------------------------------------------------------
(* Upbit.                                                                  *)

Arrives(t) ==
  /\ t \in wire /\ wire' = wire \ {t}
  /\ ex' = [ex EXCEPT ![t] = "processing"]
  /\ UNCHANGED <<row, draft, process, sends, listed, old, counts, faults>>

Lost(t) ==
  /\ t \in wire /\ wire' = wire \ {t}
  /\ UNCHANGED <<row, draft, process, sends, ex, listed, old, counts, faults>>

Completes(t) ==
  /\ ex[t] = "processing"
  /\ \E s \in {"done", "failed"} : ex' = [ex EXCEPT ![t] = s]
  /\ UNCHANGED <<row, draft, process, wire, sends, listed, old, counts, faults>>

Listed(t) ==
  /\ ex[t] # "none" /\ t \notin listed
  /\ listed' = listed \cup {t}
  /\ UNCHANGED <<row, draft, process, wire, sends, ex, old, counts, faults>>

Ages(t) ==
  /\ row[t] # "ABSENT" /\ t \notin old \cup cur
  /\ old' = old \cup {t}
  /\ UNCHANGED <<row, draft, process, wire, sends, ex, listed, counts, faults>>

-----------------------------------------------------------------------------
Init ==
  /\ row = [t \in Transfers |-> "ABSENT"]
  /\ draft = FALSE /\ inbox = 0 /\ unstored = FALSE
  /\ pc = "idle" /\ cur = {}
  /\ wire = {} /\ sends = [t \in Transfers |-> 0]
  /\ ex = [t \in Transfers |-> "none"]
  /\ listed = {} /\ old = {}
  /\ pressed = 0 /\ choices = 0 /\ kept = 0 /\ faults = 0

Operator == Choose \/ Reopen \/ Press

Send ==
  \/ SendRefused \/ SendUnwritten \/ ClearDraft \/ StoreOffset
  \/ \E t \in Transfers :
       \/ SendInsert(t) \/ SendSending(t) \/ SendRequest(t)
       \/ SendAnswered(t) \/ SendFailed(t) \/ SendAmbiguous(t)

Upbit == \E t \in Transfers : Arrives(t) \/ Lost(t) \/ Completes(t) \/ Listed(t) \/ Ages(t)

Next ==
  \/ Operator \/ Handle \/ Send \/ Stop
  \/ \E t \in Transfers : Settle(t)
  \/ Upbit

Spec == Init /\ [][Next]_vars

TypeOK ==
  /\ row \in [Transfers -> Statuses]
  /\ draft \in BOOLEAN /\ unstored \in BOOLEAN
  /\ inbox \in Nat /\ pressed \in Nat /\ choices \in Nat /\ kept \in Nat
  /\ pc \in {"idle", "send", "prepared", "request", "await", "clear", "offset"}
  /\ cur \subseteq Transfers /\ wire \subseteq Transfers
  /\ listed \subseteq Transfers /\ old \subseteq Transfers
  /\ sends \in [Transfers -> Nat]
  /\ ex \in [Transfers -> {"none", "processing", "done", "failed"}]
  /\ faults \in 0..MaxFaults

-----------------------------------------------------------------------------
(* Correctness.                                                            *)

\* A transfer is never requested twice: an unread answer is settled by lookup,
\* never by sending again (Send, Settle).
SentOnce == \A t \in Transfers : sends[t] <= 1

\* The types, and no transfer requested twice, however Send is cut off.
TransfersOK == TypeOK /\ SentOnce

\* Nothing is moved before we know what the last request did: when a request
\* leaves, no other is travelling or under way at Upbit (noneOutstanding).
MovesOneAtATime ==
  [][\A t, u \in Transfers :
       sends'[t] > sends[t] /\ u # t => u \notin wire /\ ex[u] # "processing"]_vars

\* A record that names an outcome names the true one, and one that was sent
\* and names none is in doubt, so nothing that moved is lost sight of.
RecordIsTrue ==
  \A t \in Transfers :
    /\ row[t] = "DONE" => ex[t] = "done"
    /\ row[t] = "FAILED" => t \notin wire /\ ex[t] \in {"none", "failed"}
    /\ row[t] \in {"ABSENT", "PREPARED"} => sends[t] = 0

\* One filled-in transfer moves assets once, however often its button is pressed
\* and its presses are delivered again (runTransfer clears the draft, and a press
\* without one sends nothing): once more only when the process stopped, or the
\* write failed, after a request had left and before its draft was cleared.
SentAsChosen == Cardinality({t \in Transfers : sends[t] > 0}) <= choices + kept

Fairness ==
  /\ WF_vars(Send)
  /\ \A t \in Transfers : SF_vars(Settle(t)) /\ WF_vars(Arrives(t) \/ Lost(t))
                          /\ WF_vars(Completes(t)) /\ WF_vars(Listed(t))

FairSpec == Spec /\ Fairness

\* A transfer that reached Upbit does not stay in doubt, as long as the history
\* goes back far enough (Settle).
DoubtEnds ==
  \A t \in Transfers : Unresolved(t) /\ ex[t] # "none" ~> ~Unresolved(t) \/ t \in old

\* docs/pocket-migration.md: a record the history does not show stays in doubt
\* until a person has looked.  Nothing lets that person settle it.
PersonSettles == \A t \in Transfers : Unresolved(t) ~> ~Unresolved(t)
=============================================================================
