------------------------------- MODULE Orders -------------------------------
(***************************************************************************)
(* The order executor: internal/orders with the ladder and order rows it   *)
(* keeps in MySQL, and the part of an exchange it depends on.              *)
(*                                                                         *)
(* One goroutine runs every handler (app.Run), so at most one handler is   *)
(* in progress: pc names its stage, the remaining locals its unfinished    *)
(* work.  The exchange moves between any two of its steps, and the handler *)
(* can be cut off between any two durable effects, by a crash or by a      *)
(* failed write: what it had not yet written is then lost, and everything  *)
(* it does next starts again from the rows.                                *)
(*                                                                         *)
(* A run of writes by one handler that no other actor can tell apart is    *)
(* one action with the possible cut-off points as its outcomes: reach says *)
(* how far the run got.                                                    *)
(*                                                                         *)
(* The exchange names the order made for rung o with o itself: a broker id *)
(* is unique to the order it was issued for.                               *)
(***************************************************************************)
EXTENDS Naturals, FiniteSets

CONSTANTS
  Ladders,        \* ladder ids
  Orders,         \* order ids, one per rung; also the exchange's names for them
  Venues,         \* toss, upbit_krw, upbit_usdt
  LookupVenues,   \* venues that find an order by our own id (Upbit, not Toss)
  LadderOf,       \* the ladder each order is a rung of
  VenueOf,        \* the venue each ladder trades at
  Rung,           \* an order's place in its ladder, the smallest sent first
  Terms,          \* an order's symbol, side, quantity and price together
  Quantity,       \* the quantity of one order, in units a fill can come in
  NoOrder,        \* an empty broker_id
  CarefulOperator, \* whether a person keeps to an exchange id already on record
  MaxFaults       \* bound: how many times something fails

ASSUME ConstantsAssumption ==
  /\ LadderOf \in [Orders -> Ladders]
  /\ VenueOf \in [Ladders -> Venues]
  /\ LookupVenues \subseteq Venues
  /\ Rung \in [Orders -> Nat]
  /\ \A o, p \in Orders : LadderOf[o] = LadderOf[p] /\ Rung[o] = Rung[p] => o = p
  /\ \A o, p \in Orders : Terms[o] = Terms[p] => VenueOf[LadderOf[o]] = VenueOf[LadderOf[p]]
  /\ Quantity \in Nat \ {0}
  /\ NoOrder \notin Orders
  /\ CarefulOperator \in BOOLEAN
  /\ MaxFaults \in Nat

VARIABLES
  ladder,    \* ladders.status, "GONE" once pruned
  row,       \* ladder_orders: status, broker id, filled and notified quantity
  told,      \* the largest filled quantity an event reports for the order
  reported,  \* ladders whose closing report is an event
  pc,        \* the stage of the running handler
  batches,   \* ladders the handler still has to save or settle
  todo,      \* orders the handler still has to work through
  venues,    \* venues a reconciliation still has to list
  left,      \* ladders /cancel has still to get to
  kept,      \* rungs whose cancel the exchange answered with an error, so far
  wire,      \* place requests that left and have not been answered or lost
  sends,     \* how many place requests ever left for the order
  ex,        \* the exchange's own record of the order
  asked,     \* orders whose cancellation the exchange has accepted
  faults     \* failures so far

command  == <<left, kept>>
store    == <<ladder, row, told, reported>>
process  == <<pc, batches, todo, venues, command>>
exchange == <<wire, sends, ex, asked>>
vars     == <<store, process, exchange, faults>>

-----------------------------------------------------------------------------
(* Statuses and the questions the code asks of them.                       *)

LadderStates == {"DRAFT", "PLACING", "OPEN", "DONE", "CANCELED", "FAILED", "GONE"}

Unresolved(st) == st \in {"SENDING", "UNKNOWN"}
Resting(st)    == st \in {"PENDING", "PARTIAL_FILLED"}
Active(st)     == Unresolved(st) \/ Resting(st) \/ st \in {"PREPARED", "PENDING_CANCEL"}
Terminal(st)   == st \in {"FILLED", "CANCELED", "REJECTED"}
Statuses       == {"ABSENT", "PREPARED", "SENDING", "UNKNOWN", "PENDING", "PARTIAL_FILLED",
                   "PENDING_CANCEL", "FILLED", "CANCELED", "REJECTED"}

Live(l)     == ladder[l] \in {"PLACING", "OPEN", "FAILED"}
RungsOf(l)  == {o \in Orders : LadderOf[o] = l}
Venue(o)    == VenueOf[LadderOf[o]]
ActiveOrders == {o \in Orders : Active(row[o].st)}

\* Mutants: the market is never asked; only orders without an id count.
VenueIsSettled_Ignored(v) == TRUE
VenueIsSettled_ById(v) ==
  \A o \in ActiveOrders : Venue(o) = v => ~(Unresolved(row[o].st) /\ row[o].bid = NoOrder)

\* venueIsSettled: nothing at the venue is in doubt.
VenueIsSettled(v) == \A o \in ActiveOrders : Venue(o) = v => ~Unresolved(row[o].st)

\* Mutant: rungs in no particular order.
IsFirst_Any(o) == o \in todo

\* Rows are read ORDER BY rung, so the smallest rung left comes next.
IsFirst(o) == o \in todo /\ \A p \in todo : Rung[o] <= Rung[p]

Pending(l) == {o \in RungsOf(l) : row[o].st = "PREPARED"}

\* The rungs CancelLadder acts on; the others it skips or counts as blocked.
Withdrawable(o) ==
  \/ row[o].st = "PREPARED"
  \/ Resting(row[o].st) /\ row[o].bid # NoOrder

-----------------------------------------------------------------------------
(* What the exchange can answer.                                           *)

Exists(b)     == ex[b].st # "NONE"
OpenStatus(f) == IF f = 0 THEN "PENDING" ELSE "PARTIAL_FILLED"

\* An order as it stands.  Toss alone reports a cancellation in progress.
Reports(b) ==
  LET resting   == {OpenStatus(ex[b].filled)}
      canceling == IF b \in asked /\ Venue(b) \notin LookupVenues THEN {"PENDING_CANCEL"} ELSE {}
  IN IF ex[b].st # "OPEN" THEN {ex[b]}
     ELSE [st : resting \cup canceling, filled : {ex[b].filled}]

\* An order as it stood earlier, while it still rested.
StaleReports(b) ==
  {[st |-> OpenStatus(f), filled |-> f] : f \in {g \in 0..ex[b].filled : g < Quantity}}

-----------------------------------------------------------------------------
(* Handlers begin idle and end idle; Fault is a step something failed in.  *)

Fault   == faults < MaxFaults /\ faults' = faults + 1
NoFault == UNCHANGED faults

\* A row given another status, and another broker id with it.
Identified(r, st, b) == [st |-> st, bid |-> b, filled |-> r.filled, notified |-> r.notified]
Marked(r, st)        == Identified(r, st, r.bid)

Idle ==
  /\ pc' = "idle" /\ batches' = {} /\ todo' = {} /\ venues' = {}
  /\ left' = {} /\ kept' = {}

\* How far a run of writes got: all of it, or cut off after the row alone or
\* after the row and the event, at the price of a fault.
Reached(reach) == IF reach = "all" THEN NoFault ELSE Fault

\* Mutant: a resting reading ends the wait for an accepted cancel.
StatusAfter_Loose(before, r) == IF r.filled = Quantity THEN "FILLED" ELSE r.st

\* apply: the status an exchange's account r leads to.
StatusAfter(before, r) ==
  LET next == IF r.filled = Quantity THEN "FILLED" ELSE r.st
  IN IF before.st = "PENDING_CANCEL" /\ Resting(next) THEN "PENDING_CANCEL"
     ELSE IF Terminal(before.st) /\ ~Terminal(next) THEN before.st
     ELSE next

\* apply: the exchange reports the executed quantity so far, not the latest part.
Executed(before, r) == r.filled

\* Mutant: every reading is taken over.
OutOfOrder_Ignored(before, r) == FALSE

\* apply: a reading older than what the row already holds.
OutOfOrder(before, r) == r.filled < before.filled

\* Mutant: the fill is marked as notified before the event is written.
Marks_First(reach) == TRUE

\* reportFill: the mark is the last of its writes.
Marks(reach) == reach = "all"

\* apply and reportFill: our record takes the exchange's account r of order b.
Apply(o, b, r, reach) ==
  LET before == row[o]
      news   == r.filled > before.notified
  IN IF OutOfOrder(before, r)
     THEN UNCHANGED <<row, told>>
     ELSE /\ row' = [row EXCEPT ![o] =
               [st |-> StatusAfter(before, r), bid |-> b, filled |-> Executed(before, r),
                notified |-> IF news /\ Marks(reach) THEN r.filled ELSE before.notified]]
          /\ told' = [told EXCEPT ![o] = IF news /\ reach # "row" THEN r.filled ELSE @]

-----------------------------------------------------------------------------
(* Submitting a ladder.                                                    *)

\* submitDraft on a draft: every rung is inserted PREPARED in one transaction.
\* A draft that already has rows fails on the unique rung and changes nothing.
SubmitDraft(l) ==
  /\ pc = "idle"
  /\ ladder[l] = "DRAFT"
  /\ \A o \in RungsOf(l) : row[o].st = "ABSENT"
  /\ row' = [o \in Orders |-> IF LadderOf[o] = l THEN Marked(row[o], "PREPARED")
                              ELSE row[o]]
  /\ pc' = "submit" /\ batches' = {l}
  /\ UNCHANGED <<ladder, told, reported, todo, venues, command, exchange, faults>>

\* submitDraft on a stopped ladder: its rungs already exist.
Resume(l) ==
  /\ pc = "idle"
  /\ ladder[l] = "FAILED"
  /\ pc' = "submit" /\ batches' = {l}
  /\ UNCHANGED <<store, todo, venues, command, exchange, faults>>

SubmitRefused(l) ==
  /\ pc = "submit" /\ l \in batches
  /\ ~VenueIsSettled(VenueOf[l]) \/ Pending(l) = {}
  /\ Idle
  /\ UNCHANGED <<store, exchange, faults>>

SubmitPlacing(l) ==
  /\ pc = "submit" /\ l \in batches
  /\ VenueIsSettled(VenueOf[l])
  /\ Pending(l) # {}
  /\ ladder' = [ladder EXCEPT ![l] = "PLACING"]
  /\ todo' = Pending(l) /\ pc' = "sending"
  /\ UNCHANGED <<row, told, reported, batches, venues, command, exchange, faults>>

\* The attempt is committed before the request leaves.
SubmitSending(o) ==
  /\ pc = "sending" /\ IsFirst(o)
  /\ row' = [row EXCEPT ![o] = Marked(@, "SENDING")]
  /\ pc' = "request"
  /\ UNCHANGED <<ladder, told, reported, batches, todo, venues, command, exchange, faults>>

SubmitRequest(o) ==
  /\ pc = "request" /\ IsFirst(o)
  /\ wire' = wire \cup {o}
  /\ sends' = [sends EXCEPT ![o] = @ + 1]
  /\ pc' = "await"
  /\ UNCHANGED <<store, batches, todo, venues, command, ex, asked, faults>>

SubmitAccepted(o) ==
  /\ pc = "await" /\ IsFirst(o)
  /\ Exists(o)
  /\ row' = [row EXCEPT ![o] = Identified(@, "PENDING", o)]
  /\ todo' = todo \ {o}
  /\ pc' = IF todo = {o} THEN "placed" ELSE "sending"
  /\ UNCHANGED <<ladder, told, reported, batches, venues, command, exchange, faults>>

\* A failed attempt ends the run with the order recorded as st.
StopAt(o, st) ==
  /\ pc = "await" /\ IsFirst(o)
  /\ row' = [row EXCEPT ![o] = Marked(@, st)]
  /\ pc' = "stopped"
  /\ UNCHANGED <<ladder, told, reported, batches, todo, venues, command, sends, ex, asked, faults>>

\* A definite refusal: the exchange answered and made no order.
SubmitRejected(o) == o \in wire /\ wire' = wire \ {o} /\ StopAt(o, "REJECTED")

\* Mutants: an unread answer is taken for an unsent request, or for a refusal.
SubmitAmbiguous_Unsent(o)  == StopAt(o, "PREPARED") /\ UNCHANGED wire
SubmitAmbiguous_Refused(o) == StopAt(o, "REJECTED") /\ UNCHANGED wire

\* A timeout, a broken connection or a 5xx: the order may exist, or appear yet.
SubmitAmbiguous(o) == StopAt(o, "UNKNOWN") /\ UNCHANGED wire

\* Mutant: a stopped run leaves the ladder looking complete.
SubmitClose_Open(l) ==
  /\ pc \in {"placed", "stopped"} /\ l \in batches
  /\ ladder' = [ladder EXCEPT ![l] = "OPEN"]
  /\ Idle
  /\ UNCHANGED <<row, told, reported, exchange, faults>>

SubmitClose(l) ==
  /\ pc \in {"placed", "stopped"} /\ l \in batches
  /\ ladder' = [ladder EXCEPT ![l] = IF pc = "placed" THEN "OPEN" ELSE "FAILED"]
  /\ Idle
  /\ UNCHANGED <<row, told, reported, exchange, faults>>

-----------------------------------------------------------------------------
(* Withdrawing orders.                                                     *)

\* What a cancellation of ladder l has in hand.
Withdraws(l) == batches' = {l} /\ todo' = {o \in RungsOf(l) : Withdrawable(o)}

CancelLadder(l) ==
  /\ pc = "idle"
  /\ ladder[l] # "GONE"
  /\ pc' = "cancel"
  /\ Withdraws(l)
  /\ UNCHANGED <<store, venues, command, exchange, faults>>

\* Mutant: only ladders that were sent to the end count as working.
CancelEverything_Open ==
  /\ pc = "idle"
  /\ pc' = "sweep"
  /\ left' = {l \in Ladders : ladder[l] = "OPEN"}
  /\ UNCHANGED <<store, batches, todo, venues, kept, exchange, faults>>

\* cancelEverything (app/actions.go): every live ladder, one after the other.
CancelEverything ==
  /\ pc = "idle"
  /\ pc' = "sweep"
  /\ left' = {l \in Ladders : Live(l)}
  /\ UNCHANGED <<store, batches, todo, venues, kept, exchange, faults>>

\* The next ladder's turn, newest first: the order makes no difference here.
CancelNext(l) ==
  /\ pc = "sweep" /\ todo = {} /\ batches = {}
  /\ l \in left /\ left' = left \ {l}
  /\ Withdraws(l)
  /\ UNCHANGED <<store, pc, venues, kept, exchange, faults>>

Withdrawing == pc \in {"cancel", "sweep"}

\* A rung that was never sent is simply dropped.
CancelDrop(o) ==
  /\ Withdrawing /\ IsFirst(o)
  /\ row[o].st = "PREPARED"
  /\ row' = [row EXCEPT ![o] = Marked(@, "CANCELED")]
  /\ todo' = todo \ {o}
  /\ UNCHANGED <<ladder, told, reported, pc, batches, venues, command, exchange, faults>>

\* The exchange accepts the cancel and the order is recorded as st.
AcceptCancel(o, st) ==
  /\ Withdrawing /\ IsFirst(o)
  /\ Resting(row[o].st) /\ row[o].bid # NoOrder
  /\ ex[row[o].bid].st = "OPEN"
  /\ asked' = asked \cup {row[o].bid}
  /\ row' = [row EXCEPT ![o] = Marked(@, st)]
  /\ todo' = todo \ {o}
  /\ UNCHANGED <<ladder, told, reported, pc, batches, venues, command, wire, sends, ex, faults>>

\* Mutant: acceptance is taken for completion.
CancelAccepted_Done(o) == AcceptCancel(o, "CANCELED")

\* An accepted cancel is not a completed one.
CancelAccepted(o) == AcceptCancel(o, "PENDING_CANCEL")

\* Any error keeps the status; an unread answer may hide an accepted cancel.
\* Being cut off between the answer and the write looks the same to the rows.
CancelErrored(o) ==
  /\ Withdrawing /\ IsFirst(o)
  /\ Resting(row[o].st) /\ row[o].bid # NoOrder
  /\ asked' \in {asked, asked \cup {b \in {row[o].bid} : ex[b].st = "OPEN"}}
  /\ todo' = todo \ {o}
  /\ kept' = kept \cup {o}
  /\ UNCHANGED <<store, pc, batches, venues, left, wire, sends, ex, faults>>

\* CancelOrder: one rung, and no settling.
CancelOrder(o) ==
  /\ pc = "idle"
  /\ \/ /\ row[o].st = "PREPARED"
        /\ row' = [row EXCEPT ![o] = Marked(@, "CANCELED")]
        /\ UNCHANGED asked
     \/ /\ Resting(row[o].st) /\ row[o].bid # NoOrder
        /\ ex[row[o].bid].st = "OPEN"
        /\ asked' = asked \cup {row[o].bid}
        /\ \/ row' = [row EXCEPT ![o] = Marked(@, "PENDING_CANCEL")]
           \/ UNCHANGED row
  /\ UNCHANGED <<ladder, told, reported, process, wire, sends, ex, faults>>

-----------------------------------------------------------------------------
(* Reconciling with the exchanges.                                         *)

\* Mutant: only ladders with an active order are settled.
Reconcile_Touched ==
  /\ pc = "idle"
  /\ pc' = "refresh"
  /\ venues' = {Venue(o) : o \in ActiveOrders}
  /\ batches' = {l \in Ladders : Live(l) /\ \E o \in ActiveOrders : LadderOf[o] = l}
  /\ UNCHANGED <<store, todo, command, exchange, faults>>

Reconcile ==
  /\ pc = "idle"
  /\ pc' = "refresh"
  /\ venues' = {Venue(o) : o \in ActiveOrders}
  /\ batches' = {l \in Ladders : Live(l)}
  /\ UNCHANGED <<store, todo, command, exchange, faults>>

\* Mutants: an order without an id is left alone; so is one that left the
\* book with the fills we already recorded.
Unchanged_NoId(o) ==
  row[o].bid = NoOrder \/ (ex[row[o].bid].st = "OPEN" /\ ex[row[o].bid].filled = row[o].filled)
Unchanged_Gone(o) == row[o].bid # NoOrder /\ ex[row[o].bid].filled = row[o].filled

\* The listing shows the order resting, with the fills we already recorded.
Unchanged(o) ==
  /\ row[o].bid # NoOrder
  /\ ex[row[o].bid].st = "OPEN"
  /\ ex[row[o].bid].filled = row[o].filled
  /\ row[o].st # "PENDING_CANCEL"

\* One listing per venue decides which of its orders are worth a lookup.  It is
\* read in pages, or cut after the first one: an order may be missing from it.
ListOpenOrders(v) ==
  /\ pc = "refresh" /\ todo = {} /\ v \in venues
  /\ venues' = venues \ {v}
  /\ LET known == {o \in ActiveOrders : Venue(o) = v /\ row[o].st # "PREPARED"}
     IN \E missed \in SUBSET known : todo' = {o \in known : Unchanged(o) => o \in missed}
  /\ UNCHANGED <<store, pc, batches, command, exchange, faults>>

\* Without a reliable listing the venue waits for the next cycle.
ListingFailed(v) ==
  /\ pc = "refresh" /\ todo = {} /\ v \in venues
  /\ Fault
  /\ venues' = venues \ {v}
  /\ UNCHANGED <<store, pc, batches, todo, command, exchange>>

Refreshing(o) == pc = "refresh" /\ o \in todo /\ todo' = todo \ {o}

RefreshOrder(o) ==
  /\ Refreshing(o)
  /\ row[o].bid # NoOrder /\ Exists(row[o].bid)
  /\ \/ \E r \in Reports(row[o].bid), reach \in {"row", "event", "all"} :
           Apply(o, row[o].bid, r, reach) /\ Reached(reach)
     \/ \E r \in StaleReports(row[o].bid) : Apply(o, row[o].bid, r, "all") /\ Fault
  /\ UNCHANGED <<ladder, reported, pc, batches, venues, command, exchange>>

FoundById(o) == Venue(o) \in LookupVenues /\ Exists(o)

\* broker_id is unique: a write that gives o the id of another row fails.
Unclaimed(o, b) == \A p \in Orders : row[p].bid = b => p = o

\* recover: a submission nobody read the answer of is looked up by our own id.
RecoverFound(o) ==
  /\ Refreshing(o)
  /\ row[o].bid = NoOrder
  /\ FoundById(o) /\ Unclaimed(o, o)
  /\ \E r \in Reports(o), reach \in {"row", "event", "all"} :
       Apply(o, o, r, reach) /\ Reached(reach)
  /\ UNCHANGED <<ladder, reported, pc, batches, venues, command, exchange>>

\* recover and park: a lookup that is unsupported, finds nothing or fails.
RecoverParked(o) ==
  /\ Refreshing(o)
  /\ row[o].bid = NoOrder
  /\ IF FoundById(o) THEN Fault ELSE NoFault
  /\ row' = [row EXCEPT ![o] = Marked(@, "UNKNOWN")]
  /\ UNCHANGED <<ladder, told, reported, pc, batches, venues, command, exchange>>

\* The order is found, but its id already stands in another row.
RecoverClaimed(o) ==
  /\ Refreshing(o)
  /\ row[o].bid = NoOrder
  /\ FoundById(o) /\ ~Unclaimed(o, o)
  /\ UNCHANGED <<store, pc, batches, venues, command, exchange, faults>>

\* apply and park: the answer names another symbol or side, or overfills.
RefreshParked(o) ==
  /\ Refreshing(o)
  /\ Fault
  /\ row[o].bid # NoOrder \/ (FoundById(o) /\ Unclaimed(o, o))
  /\ row' = [row EXCEPT ![o] =
       Identified(@, "UNKNOWN", IF row[o].bid = NoOrder THEN o ELSE row[o].bid)]
  /\ UNCHANGED <<ladder, told, reported, pc, batches, venues, command, exchange>>

\* The lookup or the write failed: the loop goes on to the next order.
RefreshFailed(o) ==
  /\ Refreshing(o)
  /\ Fault
  /\ UNCHANGED <<store, pc, batches, venues, command, exchange>>

\* settle: a ladder none of whose rungs can change any more is closed.
Settling(l) ==
  /\ Withdrawing \/ pc = "refresh"
  /\ todo = {} /\ venues = {}
  /\ l \in batches
  /\ batches' = batches \ {l}

Closeable(l) == Live(l) /\ \A o \in RungsOf(l) : ~Active(row[o].st)

SettleOpen(l) ==
  /\ Settling(l)
  /\ ~Closeable(l)
  /\ UNCHANGED <<store, pc, todo, venues, command, exchange, faults>>

\* Mutant: only a rung filled to the end counts.
SettleClosed_Filled(l) ==
  /\ Settling(l)
  /\ Closeable(l)
  /\ ladder' = [ladder EXCEPT ![l] =
       IF \E o \in RungsOf(l) : row[o].st = "FILLED" THEN "DONE" ELSE "CANCELED"]
  /\ reported' = reported \cup {l}
  /\ UNCHANGED <<row, told, pc, todo, venues, command, exchange, faults>>

\* An error on the way ends a cancellation; a reconciliation goes on.
SettleClosed(l) ==
  /\ Settling(l)
  /\ Closeable(l)
  /\ ladder' = [ladder EXCEPT ![l] =
       IF \E o \in RungsOf(l) : row[o].filled > 0 THEN "DONE" ELSE "CANCELED"]
  /\ \E reach \in {"row", "all"} :
       /\ Reached(reach)
       /\ reported' = IF reach = "all" THEN reported \cup {l} ELSE reported
       /\ IF reach = "row" /\ Withdrawing THEN pc' = "idle" /\ left' = {} /\ kept' = {}
          ELSE UNCHANGED <<pc, command>>
  /\ UNCHANGED <<row, told, todo, venues, exchange>>

SettleFailed(l) ==
  /\ Settling(l)
  /\ pc = "refresh"
  /\ Fault
  /\ UNCHANGED <<store, pc, todo, venues, command, exchange>>

Finish ==
  /\ Withdrawing \/ pc = "refresh"
  /\ todo = {} /\ venues = {} /\ batches = {} /\ left = {}
  /\ Idle
  /\ UNCHANGED <<store, exchange, faults>>

-----------------------------------------------------------------------------
(* The operator's word on an order nobody could account for.               *)

\* ResolveFound: the operator names broker order b, rightly or not.  Its account
\* is taken over, or parked when it overfills, and the ladder is settled.
ResolveFound(o, b) ==
  /\ pc = "idle"
  /\ Unresolved(row[o].st)
  /\ Exists(b) /\ Terms[b] = Terms[o]
  /\ Unclaimed(o, b)
  /\ CarefulOperator /\ row[o].bid # NoOrder => b = row[o].bid
  /\ \/ /\ \E r \in Reports(b), reach \in {"row", "event"} : Apply(o, b, r, reach)
        /\ Fault
        /\ UNCHANGED <<pc, batches>>
     \/ /\ \/ NoFault /\ \E r \in Reports(b) : Apply(o, b, r, "all")
           \/ /\ Fault
              /\ row' = [row EXCEPT ![o] = Identified(@, "UNKNOWN", b)]
              /\ UNCHANGED told
        /\ pc' = "refresh" /\ batches' = {LadderOf[o]}
  /\ UNCHANGED <<ladder, reported, todo, venues, command, exchange>>

\* The operator asserts that no such order exists only when none does, or can
\* still come to: the one duty the code leaves to a person.
TrulyMissing(o) == ~Exists(o) /\ o \notin wire

\* Mutant: an order found missing is prepared to be sent again.
ResolveMissing_Again(o) ==
  /\ pc = "idle"
  /\ Unresolved(row[o].st) /\ row[o].bid = NoOrder
  /\ TrulyMissing(o)
  /\ row' = [row EXCEPT ![o] = Marked(@, "PREPARED")]
  /\ pc' = "refresh" /\ batches' = {LadderOf[o]}
  /\ UNCHANGED <<ladder, told, reported, todo, venues, command, exchange, faults>>

ResolveMissing(o) ==
  /\ pc = "idle"
  /\ Unresolved(row[o].st) /\ row[o].bid = NoOrder
  /\ TrulyMissing(o)
  /\ row' = [row EXCEPT ![o] = Marked(@, "CANCELED")]
  /\ pc' = "refresh" /\ batches' = {LadderOf[o]}
  /\ UNCHANGED <<ladder, told, reported, todo, venues, command, exchange, faults>>

\* PruneDrafts deletes an abandoned draft, and its rows with it.
PruneDraft(l) ==
  /\ pc = "idle"
  /\ ladder[l] = "DRAFT"
  /\ ladder' = [ladder EXCEPT ![l] = "GONE"]
  /\ row' = [o \in Orders |-> IF LadderOf[o] = l THEN Marked(row[o], "ABSENT")
                              ELSE row[o]]
  /\ UNCHANGED <<told, reported, process, exchange, faults>>

\* A crash and restart, or a handler returning early on an error.
Stop ==
  /\ pc # "idle"
  /\ Fault
  /\ Idle
  /\ UNCHANGED <<store, exchange>>

-----------------------------------------------------------------------------
(* The exchange.                                                           *)

PlaceArrives(o) ==
  /\ o \in wire /\ ~Exists(o)
  /\ wire' = wire \ {o}
  /\ ex' = [ex EXCEPT ![o] = [st |-> "OPEN", filled |-> 0]]
  /\ UNCHANGED <<store, process, sends, asked, faults>>

PlaceLost(o) ==
  /\ o \in wire
  /\ wire' = wire \ {o}
  /\ UNCHANGED <<store, process, sends, ex, asked, faults>>

Fill(b) ==
  /\ ex[b].st = "OPEN"
  /\ \E f \in (ex[b].filled + 1)..Quantity :
       ex' = [ex EXCEPT ![b] = [st |-> IF f = Quantity THEN "FILLED" ELSE "OPEN", filled |-> f]]
  /\ UNCHANGED <<store, process, wire, sends, asked, faults>>

\* The end of a cancellation we asked for.
CancelCompletes(b) ==
  /\ ex[b].st = "OPEN" /\ b \in asked
  /\ ex' = [ex EXCEPT ![b] = [st |-> "CANCELED", filled |-> ex[b].filled]]
  /\ UNCHANGED <<store, process, wire, sends, asked, faults>>

\* One nobody asked for: a Toss DAY order expires, or is turned down late.
Withdrawn(b) ==
  /\ ex[b].st = "OPEN" /\ b \notin asked
  /\ \E st \in {"CANCELED"} \cup (IF Venue(b) \in LookupVenues THEN {} ELSE {"REJECTED"}) :
       ex' = [ex EXCEPT ![b] = [st |-> st, filled |-> ex[b].filled]]
  /\ UNCHANGED <<store, process, wire, sends, asked, faults>>

-----------------------------------------------------------------------------
Init ==
  /\ ladder = [l \in Ladders |-> "DRAFT"]
  /\ row = [o \in Orders |-> [st |-> "ABSENT", bid |-> NoOrder, filled |-> 0, notified |-> 0]]
  /\ told = [o \in Orders |-> 0]
  /\ reported = {}
  /\ pc = "idle" /\ batches = {} /\ todo = {} /\ venues = {} /\ left = {} /\ kept = {}
  /\ wire = {} /\ asked = {}
  /\ sends = [o \in Orders |-> 0]
  /\ ex = [o \in Orders |-> [st |-> "NONE", filled |-> 0]]
  /\ faults = 0

Submitting ==
  \/ \E l \in Ladders : SubmitRefused(l) \/ SubmitPlacing(l) \/ SubmitClose(l)
  \/ \E o \in Orders : \/ SubmitSending(o) \/ SubmitRequest(o)
                       \/ SubmitAccepted(o) \/ SubmitRejected(o) \/ SubmitAmbiguous(o)

Canceling ==
  \/ \E l \in Ladders : CancelNext(l)
  \/ \E o \in Orders : CancelDrop(o) \/ CancelAccepted(o) \/ CancelErrored(o)

Refresh ==
  \/ \E v \in Venues : ListOpenOrders(v) \/ ListingFailed(v)
  \/ \E o \in Orders : \/ RefreshOrder(o) \/ RecoverFound(o) \/ RecoverParked(o)
                       \/ RecoverClaimed(o) \/ RefreshParked(o) \/ RefreshFailed(o)

Settle ==
  \/ \E l \in Ladders : SettleOpen(l) \/ SettleClosed(l) \/ SettleFailed(l)
  \/ Finish

Operator ==
  \/ \E l \in Ladders : SubmitDraft(l) \/ Resume(l) \/ CancelLadder(l) \/ PruneDraft(l)
  \/ CancelEverything
  \/ \E o \in Orders : CancelOrder(o) \/ ResolveMissing(o)
  \/ \E o, b \in Orders : ResolveFound(o, b)

Exchange ==
  \E o \in Orders : \/ PlaceArrives(o) \/ PlaceLost(o)
                    \/ Fill(o) \/ CancelCompletes(o) \/ Withdrawn(o)

Handler == Submitting \/ Canceling \/ Refresh \/ Settle

Next == Operator \/ Reconcile \/ Handler \/ Stop \/ Exchange

Spec == Init /\ [][Next]_vars

-----------------------------------------------------------------------------
TypeOK ==
  /\ ladder \in [Ladders -> LadderStates]
  /\ row \in [Orders -> [st : Statuses, bid : Orders \cup {NoOrder},
                         filled : 0..Quantity, notified : 0..Quantity]]
  /\ told \in [Orders -> 0..Quantity]
  /\ reported \subseteq Ladders
  /\ pc \in {"idle", "submit", "sending", "request", "await", "placed", "stopped",
             "cancel", "sweep", "refresh"}
  /\ batches \subseteq Ladders /\ todo \subseteq Orders /\ venues \subseteq Venues
  /\ left \subseteq Ladders /\ kept \subseteq Orders
  /\ wire \subseteq Orders /\ asked \subseteq Orders
  /\ sends \in [Orders -> Nat]
  /\ ex \in [Orders -> [st : {"NONE", "OPEN", "FILLED", "CANCELED", "REJECTED"},
                        filled : 0..Quantity]]
  /\ faults \in 0..MaxFaults
=============================================================================
