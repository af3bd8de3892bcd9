-------------------------- MODULE OrdersProperties --------------------------
(***************************************************************************)
(* What internal/orders keeps true, stated over Orders, and what its       *)
(* comments and documents say that it does not.                            *)
(***************************************************************************)
EXTENDS Orders

-----------------------------------------------------------------------------
(* Safety.                                                                 *)

\* No order is ever requested twice, however often the process stops, a write
\* fails or an answer goes unread: Submit, recover and ResolveFound never send
\* what was sent before.
PlacedOnce == \A o \in Orders : sends[o] <= 1

\* A request that left is visible in the row (SENDING is committed first), and
\* one still travelling belongs to a row that is in doubt, so nothing
\* concludes on its fate before it can be known.
SentIsRecorded ==
  /\ \A o \in Orders : sends[o] > 0 => row[o].st \notin {"ABSENT", "PREPARED"}
  /\ \A o \in wire : Unresolved(row[o].st) /\ row[o].bid = NoOrder

\* Every order working at an exchange is one reconciliation still follows, and
\* its ladder is one the operator can still see and cancel.
NoOrphan ==
  \A o \in Orders : ex[o].st = "OPEN" \/ o \in wire =>
    Active(row[o].st) /\ ladder[LadderOf[o]] \in {"PLACING", "OPEN", "FAILED"}

\* The row never claims an execution the exchange did not make, and what it
\* says in the end is what the exchange says (apply, CancelLadder).
RowFollowsExchange ==
  \A o \in Orders : row[o].bid # NoOrder =>
    /\ row[o].filled <= ex[row[o].bid].filled
    /\ Terminal(row[o].st) =>
         row[o].st = ex[row[o].bid].st /\ row[o].filled = ex[row[o].bid].filled

\* At most one order of a venue is sent and not identified, which is what makes
\* matching it by hand safe.
InDoubt(o) == Unresolved(row[o].st) /\ row[o].bid = NoOrder
OneInDoubt ==
  \A o, p \in Orders : InDoubt(o) /\ InDoubt(p) /\ Venue(o) = Venue(p) => o = p

\* An order is never attached to the exchange order of another rung, not even
\* when the operator names one with the same symbol, side, quantity and price.
OwnBrokerId == \A o \in Orders : row[o].bid \in {NoOrder, o}

\* The ladder's state is true of its rungs: a draft sent nothing, an open
\* ladder has nothing left to send, a closed or deleted one nothing working.
LadderStateHolds ==
  \A o \in Orders :
    /\ ladder[LadderOf[o]] = "DRAFT" => sends[o] = 0
    /\ ladder[LadderOf[o]] = "OPEN" => row[o].st # "PREPARED"
    /\ ladder[LadderOf[o]] \in {"DONE", "CANCELED", "GONE"} => ~Active(row[o].st)

\* Rungs go out nearest the reference price first, across stops and resumed
\* submissions too: none is still waiting behind one that was sent.
NearestFirst ==
  \A o, p \in Orders :
    LadderOf[o] = LadderOf[p] /\ Rung[o] < Rung[p] /\ sends[p] > 0 => row[o].st # "PREPARED"

\* A ladder is closed as done exactly when the exchange executed some of it,
\* whatever refusals, cancels in part and lost answers its other rungs ended in
\* (settle): what the closing state says is what happened at the exchange.
ClosedAsFilled ==
  \A l \in Ladders : ladder[l] \in {"DONE", "CANCELED"} =>
    (ladder[l] = "DONE" <=> \E o \in RungsOf(l) : ex[o].filled > 0)

\* A fill is marked as notified only once an event reports it, and no event
\* reports a fill the row does not hold (apply, then Notify, then the mark).
NotifiedIsTold ==
  \A o \in Orders : row[o].notified <= told[o] /\ told[o] <= row[o].filled

-----------------------------------------------------------------------------
(* What a step may never do.                                               *)

\* Nothing recorded is taken back: no reading, however late, lowers a fill, an
\* order the code has finished with is never written again, and no exchange id
\* is lost: only the operator's word on an order in question replaces one.
NothingTakenBack ==
  [][\A o \in Orders :
       /\ row'[o].filled >= row[o].filled
       /\ row[o].bid # NoOrder =>
            /\ row'[o].bid # NoOrder
            /\ row'[o].bid = row[o].bid \/ Unresolved(row[o].st)
       /\ Terminal(row[o].st) /\ ladder[LadderOf[o]] # "DRAFT" =>
            row'[o].st = row[o].st /\ row'[o].filled = row[o].filled]_vars

\* A row waits only for a cancel its exchange accepted, and goes on waiting until
\* it takes over the end the exchange gave the order.  The one other way out is
\* park: an account that contradicts the order puts it in question, and what is
\* read after that starts anew (apply, park; see CancelIsSticky below).
CancelIsWaitedFor ==
  [][\A o \in Orders : row[o].st = "PENDING_CANCEL" =>
       /\ row[o].bid \in asked
       /\ \/ row'[o].st \in {"PENDING_CANCEL", "UNKNOWN"}
          \/ Terminal(row'[o].st) /\ row'[o].st = ex[row[o].bid].st]_vars

\* While any order in a market is unresolved, no other order is sent to it.
NothingSentInDoubt ==
  [][\A o \in Orders : sends'[o] > sends[o] =>
       \A p \in Orders : Venue(p) = Venue(o) /\ Unresolved(row[p].st) => p = o]_vars

\* /cancel passes no ladder over (cancelEverything): when it comes to its end,
\* whatever stops, failures and half-sent ladders came before it, no rung of a
\* live ladder waits to be sent, and one that works at its exchange is being
\* cancelled there, unless the exchange answered with an error or nobody knows
\* what became of the order.
CancelReachesAll ==
  [][pc = "sweep" /\ pc' = "idle" /\ faults' = faults =>
       \A o \in Orders : Live(LadderOf[o]) =>
         /\ row[o].st # "PREPARED"
         /\ ex[o].st = "OPEN" => o \in asked \cup kept \/ Unresolved(row[o].st)]_vars

\* The promise of OrderLife, order by order.
Life(o) ==
  CASE Terminal(row[o].st) \/ ladder[LadderOf[o]] = "GONE" -> "settled"
    [] InDoubt(o)              -> "in doubt"
    [] row[o].bid # NoOrder /\ Active(row[o].st) -> "known"
    [] OTHER                   -> "unsent"
Promise == INSTANCE OrderLife WITH
  VenueOfOrder <- [o \in Orders |-> Venue(o)],
  life <- [o \in Orders |-> Life(o)],
  filled <- [o \in Orders |-> row[o].filled]
ImplementsOrderLife == Promise!Spec

-----------------------------------------------------------------------------
(* The inductive invariant behind the safety properties.                   *)

\* What a handler has in hand, stage by stage.  A submission works on one
\* ladder; its first rung is the one being sent, the others still wait.
Sending    == pc \in {"sending", "request", "await"}
Submission == pc \in {"submit", "sending", "request", "await", "placed", "stopped"}

HandInOrder ==
  /\ pc \in {"idle", "submit", "placed"} => todo = {}
  /\ pc = "refresh" => \A o \in todo : Active(row[o].st) /\ row[o].st # "PREPARED"
  /\ Submission => \A l, k \in batches : l = k
  /\ pc = "submit" => \A l \in batches : ladder[l] \in {"DRAFT", "FAILED"}
  /\ Submission /\ pc # "submit" => \A l \in batches : ladder[l] = "PLACING"
  /\ Sending => \A o \in todo : LadderOf[o] \in batches
  /\ Sending \/ pc = "placed" =>
       \A o \in Orders : LadderOf[o] \in batches /\ row[o].st = "PREPARED" => o \in todo
  /\ Sending => \A o \in todo :
       row[o].st = IF pc # "sending" /\ IsFirst(o) THEN "SENDING" ELSE "PREPARED"
  /\ pc \in {"request", "await"} => \A o \in todo : IsFirst(o) => row[o].bid = NoOrder
  /\ pc = "request" => \A o \in todo : IsFirst(o) => sends[o] = 0

\* While a ladder is being sent, the only order of its venue in question is the
\* one in hand.
VenueHeld ==
  Sending => \A o \in Orders, l \in batches :
    Venue(o) = VenueOf[l] /\ Unresolved(row[o].st) => pc # "sending" /\ IsFirst(o)

\* An order is sent once, and what was not sent shows nothing of having been.
NotSent ==
  \A o \in Orders :
    /\ sends[o] <= 1
    /\ row[o].st \in {"ABSENT", "PREPARED"} => sends[o] = 0 /\ row[o].bid = NoOrder
    /\ ladder[LadderOf[o]] = "DRAFT" =>
         /\ sends[o] = 0 /\ row[o].bid = NoOrder
         /\ row[o].st \in {"ABSENT", "PREPARED", "CANCELED"}

HandlerInv == TypeOK /\ HandInOrder /\ VenueHeld /\ NotSent /\ LadderStateHolds /\ NearestFirst

\* What the exchange holds and what our rows say of it.
Accounted ==
  \A o \in Orders :
    /\ o \in wire => InDoubt(o) /\ ex[o].st = "NONE" /\ sends[o] > 0
    /\ Exists(o) => sends[o] > 0
    /\ Exists(o) /\ row[o].bid = NoOrder => Unresolved(row[o].st)
    /\ ex[o].st = "OPEN" => Active(row[o].st) /\ ex[o].filled < Quantity
    /\ row[o].bid = NoOrder =>
         row[o].st \in {"ABSENT", "PREPARED", "SENDING", "UNKNOWN", "CANCELED", "REJECTED"}
    /\ row[o].bid # NoOrder => Exists(row[o].bid)

Inductive == HandlerInv /\ Accounted /\ OneInDoubt /\ OwnBrokerId

-----------------------------------------------------------------------------
(* Liveness.  The select loop of app.Run runs a handler to its end and     *)
(* picks the three-second tick sooner or later, whatever else is ready;    *)
(* an exchange completes the cancellations it accepted.                    *)

Fairness ==
  /\ WF_vars(Handler)
  /\ SF_vars(Reconcile)
  /\ \A b \in Orders : WF_vars(CancelCompletes(b))

FairSpec == Spec /\ Fairness

\* A ladder with no active rung is closed, even if the process died between
\* the last fill and closing it.
LaddersClose == \A l \in Ladders : Closeable(l) ~> ~Live(l)

\* Where the exchange finds orders by our id, an unread answer is made good.
DoubtIsResolved ==
  \A o \in Orders : InDoubt(o) /\ Exists(o) /\ Venue(o) \in LookupVenues ~> row[o].bid = o

\* The end of an order at the exchange reaches its row, and an accepted cancel
\* that was recorded comes to its end.
EndIsRecorded ==
  \A o \in Orders :
    /\ row[o].bid = o /\ Terminal(ex[o].st) ~> Terminal(row[o].st)
    /\ row[o].st = "PENDING_CANCEL" ~> Terminal(row[o].st)

-----------------------------------------------------------------------------
(* What comments and documents say of this code, and it does not do.       *)

\* docs/live-trading.md: an order in doubt that does not exist is cleared with
\* /cancel.  CancelLadder counts it as blocked.
CancelClearsMissing ==
  [][\A o \in Orders :
       Withdrawing /\ LadderOf[o] \in batches \ batches' /\ faults' = faults /\ InDoubt(o)
         => ~TrulyMissing(o)]_vars

\* ladder.StateDraft and PruneDrafts: a draft holds no orders.  submitDraft
\* inserts them before Submit has looked at the market.
DraftHoldsNoOrders ==
  \A o \in Orders : pc = "idle" /\ ladder[LadderOf[o]] = "DRAFT" => row[o].st = "ABSENT"

\* apply, on a resting order found canceled: we never asked for this one.  An
\* accepted cancel whose answer was lost left the row resting.
NeverAskedFor ==
  [][\A o \in Orders : Resting(row[o].st) /\ row'[o].st = "CANCELED" => row[o].bid \notin asked]_vars

\* apply, on an accepted cancel: "keep waiting for proof".  park forgets it, and
\* the next reading makes the order look like one that simply rests.
CancelIsSticky ==
  \A o \in Orders : [](row[o].st = "PENDING_CANCEL" => []~Resting(row[o].st))

\* reportFill tells the operator about the quantity filled.  Cut off between
\* the row and the event, a final fill is never told.
FillsAreTold == \A o \in Orders : row[o].filled = Quantity ~> told[o] = Quantity

\* reportFill records what has been reported so nothing repeats.  Cut off
\* before the record, the same fill is told again.
NothingRepeats ==
  [][\A o \in Orders : row'[o].notified # row[o].notified => told[o] < row'[o].notified]_vars

\* settle reports what the ladder achieved.  Cut off between closing it and the
\* event, it never does.
ClosingIsReported == \A l \in Ladders : ladder[l] = "DONE" ~> l \in reported
=============================================================================
