---------------------------- MODULE OrdersProofs ----------------------------
(***************************************************************************)
(* Theorems about Orders, for every set of ladders, orders and venues.     *)
(***************************************************************************)
EXTENDS OrdersProperties, TLAPS

-----------------------------------------------------------------------------
(* Types of the records, and what the operators on them return.            *)

Rows == [st : Statuses, bid : Orders \cup {NoOrder},
         filled : 0..Quantity, notified : 0..Quantity]

Answers == [st : {"PENDING", "PARTIAL_FILLED", "PENDING_CANCEL", "FILLED", "CANCELED",
                  "REJECTED"}, filled : 0..Quantity]

\* An exchange answers with a quantity in range and a status of its own.
LEMMA ReportsType ==
  ASSUME TypeOK, NEW b \in Orders, Exists(b)
  PROVE  /\ Reports(b) \subseteq Answers
         /\ StaleReports(b) \subseteq Answers
  BY ConstantsAssumption DEF TypeOK, Exists, Reports, StaleReports, OpenStatus, Answers

\* apply and reportFill keep the row and the largest quantity told in range.
LEMMA ApplyType ==
  ASSUME TypeOK, NEW o \in Orders, NEW b \in Orders,
         NEW r \in Answers,
         NEW reach \in {"row", "event", "all"}, Apply(o, b, r, reach)
  PROVE  /\ row' \in [Orders -> Rows]
         /\ told' \in [Orders -> 0..Quantity]
  <1>1. StatusAfter(row[o], r) \in Statuses /\ r.filled \in 0..Quantity
    BY DEF StatusAfter, TypeOK, Statuses, Terminal, Resting, Answers
  <1>2. CASE OutOfOrder(row[o], r)
    BY <1>2 DEF Apply, TypeOK, Rows
  <1>3. CASE ~OutOfOrder(row[o], r)
    <2> DEFINE new == [st |-> StatusAfter(row[o], r), bid |-> b, filled |-> r.filled,
                       notified |-> IF r.filled > row[o].notified /\ Marks(reach)
                                    THEN r.filled ELSE row[o].notified]
    <2>1. new \in Rows
      BY <1>1 DEF TypeOK, Rows
    <2>2. row' = [row EXCEPT ![o] = new]
      BY <1>3 DEF Apply, Executed
    <2>3. told' \in [Orders -> 0..Quantity]
      BY <1>1, <1>3 DEF Apply, TypeOK
    <2>4. QED BY <2>1, <2>2, <2>3 DEF TypeOK, Rows
  <1>4. QED BY <1>2, <1>3

\* apply writes the row it is given and no other: it is left as it was, or takes
\* the answer's quantity and a status that is the answer's, or says more.
LEMMA ApplyWrites ==
  ASSUME TypeOK, NEW o \in Orders, NEW b \in Orders, NEW r \in Answers,
         NEW reach \in {"row", "event", "all"}, Apply(o, b, r, reach),
         Active(row[o].st)
  PROVE  /\ \A p \in Orders : p # o => row'[p] = row[p]
         /\ \/ row'[o] = row[o]
            \/ /\ row'[o].st = StatusAfter(row[o], r)
               /\ row'[o].st \in {"PENDING", "PARTIAL_FILLED", "PENDING_CANCEL", "FILLED",
                                  "CANCELED", "REJECTED"}
               /\ row'[o].bid = b /\ row'[o].filled = r.filled
  <1>1. StatusAfter(row[o], r) \in {"PENDING", "PARTIAL_FILLED", "PENDING_CANCEL", "FILLED",
                                    "CANCELED", "REJECTED"}
    BY DEF StatusAfter, Terminal, Resting, Active, Unresolved, Answers
  <1>2. QED BY <1>1 DEF Apply, TypeOK, Executed

-----------------------------------------------------------------------------
(* Type correctness.                                                       *)

LEMMA TypeInit == Init => TypeOK
  BY ConstantsAssumption DEF Init, TypeOK, LadderStates, Statuses

\* One step per action.  Those that leave a variable alone keep its type.
LEMMA TypeStep == TypeOK /\ [Next]_vars => TypeOK'
  <1> SUFFICES ASSUME TypeOK, [Next]_vars PROVE TypeOK'
    OBVIOUS
  <1> USE ConstantsAssumption
      DEF store, process, command, exchange, vars, Idle, Fault, NoFault, Reached, Marked,
          Identified
  <1>1. CASE UNCHANGED vars
    BY <1>1 DEF TypeOK
  <1>2. CASE Operator
    <2>1. ASSUME NEW l \in Ladders,
                 SubmitDraft(l) \/ Resume(l) \/ CancelLadder(l) \/ PruneDraft(l)
          PROVE  TypeOK'
      <3>1. CASE SubmitDraft(l)
        BY <3>1 DEF SubmitDraft, TypeOK, Statuses
      <3>2. CASE Resume(l)
        BY <3>2 DEF Resume, TypeOK
      <3>3. CASE CancelLadder(l)
        BY <3>3 DEF CancelLadder, Withdraws, TypeOK, RungsOf
      <3>4. CASE PruneDraft(l)
        BY <3>4 DEF PruneDraft, TypeOK, Statuses, LadderStates
      <3>5. QED BY <2>1, <3>1, <3>2, <3>3, <3>4
    <2>2. ASSUME NEW o \in Orders, CancelOrder(o) \/ ResolveMissing(o) PROVE TypeOK'
      <3>1. CASE CancelOrder(o)
        <4>1. row' \in [Orders -> Rows]
          BY <3>1 DEF CancelOrder, TypeOK, Statuses, Rows
        <4>2. asked' \subseteq Orders
          BY <3>1 DEF CancelOrder, TypeOK
        <4>3. QED BY <3>1, <4>1, <4>2 DEF CancelOrder, TypeOK, Rows
      <3>2. CASE ResolveMissing(o)
        BY <3>2 DEF ResolveMissing, TypeOK, Statuses
      <3>3. QED BY <2>2, <3>1, <3>2
    <2>3. ASSUME NEW o \in Orders, NEW b \in Orders, ResolveFound(o, b) PROVE TypeOK'
      <3>1. row' \in [Orders -> Rows] /\ told' \in [Orders -> 0..Quantity]
        <4>1. ASSUME NEW r \in Reports(b), NEW reach \in {"row", "event", "all"},
                     Apply(o, b, r, reach)
              PROVE  row' \in [Orders -> Rows] /\ told' \in [Orders -> 0..Quantity]
          BY <2>3, <4>1, ReportsType, ApplyType DEF ResolveFound
        <4>2. CASE row' = [row EXCEPT ![o] = Identified(@, "UNKNOWN", b)] /\ told' = told
          BY <4>2 DEF TypeOK, Rows, Statuses
        <4>3. QED BY <2>3, <4>1, <4>2 DEF ResolveFound
      <3>2. QED BY <2>3, <3>1 DEF ResolveFound, TypeOK, Rows
    <2>4. CASE CancelEverything
      BY <2>4 DEF CancelEverything, TypeOK
    <2>5. QED BY <1>2, <2>1, <2>2, <2>3, <2>4 DEF Operator
  <1>3. CASE Reconcile
    BY <1>3 DEF Reconcile, TypeOK, ActiveOrders, Venue
  <1>4. CASE Submitting
    <2>1. ASSUME NEW l \in Ladders, SubmitRefused(l) \/ SubmitPlacing(l) \/ SubmitClose(l)
          PROVE  TypeOK'
      BY <2>1 DEF SubmitRefused, SubmitPlacing, SubmitClose, Pending, RungsOf, TypeOK,
                  LadderStates
    <2>2. ASSUME NEW o \in Orders, SubmitSending(o) \/ SubmitRequest(o) PROVE TypeOK'
      <3>1. CASE SubmitSending(o)
        BY <3>1 DEF SubmitSending, TypeOK, Statuses
      <3>2. CASE SubmitRequest(o)
        BY <3>2 DEF SubmitRequest, TypeOK
      <3>3. QED BY <2>2, <3>1, <3>2
    <2>3. ASSUME NEW o \in Orders, SubmitAccepted(o) PROVE TypeOK'
      BY <2>3 DEF SubmitAccepted, TypeOK, Statuses
    <2>4. ASSUME NEW o \in Orders, SubmitRejected(o) \/ SubmitAmbiguous(o) PROVE TypeOK'
      <3>1. PICK st \in {"REJECTED", "UNKNOWN"} : StopAt(o, st) /\ wire' \subseteq wire
        BY <2>4 DEF SubmitRejected, SubmitAmbiguous
      <3>2. row' \in [Orders -> Rows]
        BY <3>1 DEF StopAt, TypeOK, Statuses, Rows
      <3>3. QED BY <3>1, <3>2 DEF StopAt, TypeOK, Rows
    <2>5. QED BY <1>4, <2>1, <2>2, <2>3, <2>4 DEF Submitting
  <1>5. CASE Canceling
    <2>1. ASSUME NEW o \in Orders, CancelDrop(o) \/ CancelAccepted(o) PROVE TypeOK'
      <3>1. CASE CancelDrop(o)
        BY <3>1 DEF CancelDrop, TypeOK, Statuses
      <3>2. CASE CancelAccepted(o)
        BY <3>2 DEF CancelAccepted, AcceptCancel, TypeOK, Statuses
      <3>3. QED BY <2>1, <3>1, <3>2
    <2>2. ASSUME NEW o \in Orders, CancelErrored(o) PROVE TypeOK'
      BY <2>2 DEF CancelErrored, TypeOK
    <2>3. ASSUME NEW l \in Ladders, CancelNext(l) PROVE TypeOK'
      BY <2>3 DEF CancelNext, Withdraws, TypeOK, RungsOf
    <2>4. QED BY <1>5, <2>1, <2>2, <2>3 DEF Canceling
  <1>6. CASE Refresh
    <2>1. ASSUME NEW v \in Venues, ListOpenOrders(v) \/ ListingFailed(v) PROVE TypeOK'
      BY <2>1 DEF ListOpenOrders, ListingFailed, ActiveOrders, TypeOK
    <2>2. ASSUME NEW o \in Orders, RefreshOrder(o) PROVE TypeOK'
      <3>1. row[o].bid \in Orders /\ Exists(row[o].bid)
        BY <2>2 DEF RefreshOrder, TypeOK
      <3>2. row' \in [Orders -> Rows] /\ told' \in [Orders -> 0..Quantity]
        <4>1. PICK r \in Reports(row[o].bid) \cup StaleReports(row[o].bid),
                   reach \in {"row", "event", "all"} : Apply(o, row[o].bid, r, reach)
          BY <2>2 DEF RefreshOrder
        <4>2. r \in Answers
          BY <3>1, ReportsType
        <4>3. QED BY <3>1, <4>1, <4>2, ApplyType
      <3>3. QED BY <2>2, <3>2 DEF RefreshOrder, Refreshing, TypeOK, Rows
    <2>3. ASSUME NEW o \in Orders, RecoverFound(o) PROVE TypeOK'
      <3>1. row' \in [Orders -> Rows] /\ told' \in [Orders -> 0..Quantity]
        BY <2>3, ReportsType, ApplyType DEF RecoverFound, FoundById
      <3>2. QED BY <2>3, <3>1 DEF RecoverFound, Refreshing, TypeOK, Rows
    <2>4. ASSUME NEW o \in Orders,
                 RecoverParked(o) \/ RecoverClaimed(o) \/ RefreshParked(o) \/ RefreshFailed(o)
          PROVE  TypeOK'
      BY <2>4 DEF RecoverParked, RecoverClaimed, RefreshParked, RefreshFailed, Refreshing,
                  TypeOK, Statuses
    <2>5. QED BY <1>6, <2>1, <2>2, <2>3, <2>4 DEF Refresh
  <1>7. CASE Settle
    BY <1>7 DEF Settle, SettleOpen, SettleClosed, SettleFailed, Finish, Settling, TypeOK,
                LadderStates
  <1>8. CASE Stop
    BY <1>8 DEF Stop, TypeOK
  <1>9. CASE Exchange
    <2>1. ASSUME NEW o \in Orders,
                 PlaceArrives(o) \/ PlaceLost(o) \/ CancelCompletes(o) \/ Withdrawn(o)
          PROVE  TypeOK'
      <3>1. CASE PlaceArrives(o) \/ PlaceLost(o)
        <4>1. wire' \subseteq Orders
          BY <3>1 DEF PlaceArrives, PlaceLost, TypeOK
        <4>2. ex' \in [Orders -> [st : {"NONE", "OPEN", "FILLED", "CANCELED", "REJECTED"},
                                 filled : 0..Quantity]]
          BY <3>1 DEF PlaceArrives, PlaceLost, TypeOK
        <4>3. UNCHANGED <<store, process, sends, asked, faults>>
          BY <3>1 DEF PlaceArrives, PlaceLost
        <4>4. QED BY <4>1, <4>2, <4>3 DEF TypeOK
      <3>2. CASE CancelCompletes(o) \/ Withdrawn(o)
        <4>1. PICK st \in {"CANCELED", "REJECTED"} :
                ex' = [ex EXCEPT ![o] = [st |-> st, filled |-> ex[o].filled]]
          BY <3>2 DEF CancelCompletes, Withdrawn
        <4>2. ex' \in [Orders -> [st : {"NONE", "OPEN", "FILLED", "CANCELED", "REJECTED"},
                                 filled : 0..Quantity]]
          BY <4>1 DEF TypeOK
        <4>3. UNCHANGED <<store, process, wire, sends, asked, faults>>
          BY <3>2 DEF CancelCompletes, Withdrawn
        <4>4. QED BY <4>2, <4>3 DEF TypeOK
      <3>3. QED BY <2>1, <3>1, <3>2
    <2>2. ASSUME NEW o \in Orders, Fill(o) PROVE TypeOK'
      <3>1. PICK f \in (ex[o].filled + 1)..Quantity, st \in {"FILLED", "OPEN"} :
              ex' = [ex EXCEPT ![o] = [st |-> st, filled |-> f]]
        BY <2>2 DEF Fill
      <3>2. f \in 0..Quantity
        BY DEF TypeOK
      <3>3. ex' \in [Orders -> [st : {"NONE", "OPEN", "FILLED", "CANCELED", "REJECTED"},
                               filled : 0..Quantity]]
        BY <3>1, <3>2 DEF TypeOK
      <3>4. QED BY <2>2, <3>3 DEF Fill, TypeOK
    <2>3. QED BY <1>9, <2>1, <2>2 DEF Exchange
  <1>10. QED
    BY <1>1, <1>2, <1>3, <1>4, <1>5, <1>6, <1>7, <1>8, <1>9 DEF Next, Handler

\* Every variable keeps its type, whatever stops, fails or is lost.
THEOREM TypeCorrect == Spec => []TypeOK
  <1>1. QED BY TypeInit, TypeStep, PTL DEF Spec

-----------------------------------------------------------------------------
(* What handlers have in hand, and what their steps leave true.            *)

\* A rung is first in one way only: rungs of a ladder are numbered apart.
LEMMA FirstIsUnique ==
  ASSUME TypeOK, HandInOrder, Sending, NEW o \in todo, NEW p \in todo, IsFirst(o), IsFirst(p)
  PROVE  o = p
  <1>1. o \in Orders /\ p \in Orders
    BY DEF TypeOK
  <1>2. LadderOf[o] = LadderOf[p]
    BY DEF HandInOrder, Sending, Submission
  <1>3. Rung[o] <= Rung[p] /\ Rung[p] <= Rung[o] /\ Rung[o] \in Nat /\ Rung[p] \in Nat
    BY <1>1, ConstantsAssumption DEF IsFirst
  <1>4. Rung[o] = Rung[p]
    BY <1>3
  <1>5. QED BY <1>1, <1>2, <1>4, ConstantsAssumption

\* A step that writes no ladder and no row and leaves no submission in hand.
LEMMA NoWriteStep ==
  ASSUME HandlerInv, TypeOK', UNCHANGED <<ladder, row, sends>>,
         pc' \in {"idle", "cancel", "sweep", "refresh"},
         pc' = "idle" => todo' = {},
         pc' = "refresh" => \A o \in todo' : Active(row[o].st) /\ row[o].st # "PREPARED"
  PROVE  HandlerInv'
  <1>1. HandInOrder' /\ VenueHeld'
    BY DEF HandInOrder, VenueHeld, Sending, Submission, Active, Unresolved, Resting
  <1>2. NotSent' /\ LadderStateHolds' /\ NearestFirst'
    BY DEF HandlerInv, NotSent, LadderStateHolds, NearestFirst, Active, Unresolved, Resting
  <1>3. QED BY <1>1, <1>2 DEF HandlerInv

\* A step that writes one active row, outside of a submission: a row that was
\* sent stays one that was, a row that was not is only ever dropped.
LEMMA OneRowStep ==
  ASSUME HandlerInv, TypeOK', UNCHANGED <<ladder, sends>>,
         NEW o \in Orders, Active(row[o].st),
         \A p \in Orders : p # o => row'[p] = row[p],
         row'[o].st \notin {"ABSENT", "PREPARED"},
         row[o].st = "PREPARED" => row'[o].st = "CANCELED" /\ row'[o].bid = row[o].bid,
         pc' \in {"idle", "cancel", "sweep", "refresh"},
         pc' = "idle" => todo' = {},
         pc' = "refresh" => \A p \in todo' : p # o /\ Active(row[p].st) /\ row[p].st # "PREPARED"
  PROVE  HandlerInv'
  <1> USE DEF Active, Unresolved, Resting
  <1>1. HandInOrder' /\ VenueHeld'
    BY DEF HandInOrder, VenueHeld, Sending, Submission, TypeOK
  <1>2. NotSent'
    BY DEF HandlerInv, NotSent
  <1>3. LadderStateHolds'
    BY DEF HandlerInv, LadderStateHolds, NotSent
  <1>4. NearestFirst'
    BY DEF HandlerInv, NearestFirst
  <1>5. QED BY <1>1, <1>2, <1>3, <1>4 DEF HandlerInv

LEMMA HandlerInit == Init => HandlerInv
  <1> SUFFICES ASSUME Init PROVE HandlerInv
    OBVIOUS
  <1>1. TypeOK
    BY TypeInit
  <1>2. HandInOrder /\ VenueHeld
    BY DEF Init, HandInOrder, VenueHeld, Sending, Submission
  <1>3. NotSent /\ LadderStateHolds /\ NearestFirst
    BY ConstantsAssumption DEF Init, NotSent, LadderStateHolds, NearestFirst
  <1>4. QED BY <1>1, <1>2, <1>3 DEF HandlerInv

\* Submitting a ladder: the stages of Submit, one step each.
LEMMA SubmittingStep ==
  ASSUME HandlerInv, TypeOK', Submitting
  PROVE  HandlerInv'
  <1> USE ConstantsAssumption
      DEF store, process, command, exchange, Idle, Fault, NoFault, Marked, Identified
  <1>1. ASSUME NEW l \in Ladders, SubmitRefused(l) PROVE HandlerInv'
    BY <1>1, NoWriteStep DEF SubmitRefused
  <1>2. ASSUME NEW l \in Ladders, SubmitPlacing(l) PROVE HandlerInv'
    <2> USE <1>2 DEF SubmitPlacing
    <2>1. ladder[l] \in {"DRAFT", "FAILED"} /\ \A k \in batches : k = l
      BY DEF HandlerInv, HandInOrder, Submission
    <2>2. \A k \in Ladders : ladder'[k] = IF k = l THEN "PLACING" ELSE ladder[k]
      BY DEF HandlerInv, TypeOK
    <2>3. HandInOrder'
      BY <2>1, <2>2 DEF HandlerInv, TypeOK, HandInOrder, Sending, Submission, Pending, RungsOf
    <2>4. VenueHeld'
      BY <2>1 DEF VenueHeld, Sending, VenueIsSettled, ActiveOrders, Active, Unresolved, Venue
    <2>5. NotSent'
      BY <2>2 DEF HandlerInv, NotSent
    <2>6. LadderStateHolds'
      BY <2>2 DEF HandlerInv, LadderStateHolds, Active, Unresolved, Resting
    <2>7. NearestFirst'
      BY DEF HandlerInv, NearestFirst
    <2>8. QED BY <2>3, <2>4, <2>5, <2>6, <2>7 DEF HandlerInv
  <1>3. ASSUME NEW l \in Ladders, SubmitClose(l) PROVE HandlerInv'
    <2> USE <1>3 DEF SubmitClose
    <2>1. \A k \in Ladders : ladder'[k] # ladder[k] => k = l /\ ladder'[k] \in {"OPEN", "FAILED"}
      BY DEF HandlerInv, TypeOK
    <2>2. \A o \in Orders : LadderOf[o] = l /\ pc = "placed" => row[o].st # "PREPARED"
      BY DEF HandlerInv, HandInOrder, Sending
    <2>3. HandInOrder' /\ VenueHeld'
      BY DEF HandInOrder, VenueHeld, Sending, Submission
    <2>4. NotSent'
      BY <2>1 DEF HandlerInv, NotSent
    <2>5. LadderStateHolds'
      <3>1. \A o \in Orders : ladder'[LadderOf[o]] = "OPEN" => row[o].st # "PREPARED"
        BY <2>2 DEF HandlerInv, LadderStateHolds, TypeOK
      <3>2. QED BY <2>1, <3>1 DEF HandlerInv, LadderStateHolds, Active, Unresolved, Resting
    <2>6. NearestFirst'
      BY DEF HandlerInv, NearestFirst
    <2>7. QED BY <2>3, <2>4, <2>5, <2>6 DEF HandlerInv
  <1>4. ASSUME NEW o \in Orders, SubmitSending(o) PROVE HandlerInv'
    <2> USE <1>4 DEF SubmitSending
    <2>1. /\ o \in todo /\ IsFirst(o) /\ LadderOf[o] \in batches /\ row[o].st = "PREPARED"
          /\ sends[o] = 0 /\ row[o].bid = NoOrder /\ ladder[LadderOf[o]] = "PLACING"
      BY DEF IsFirst, HandlerInv, HandInOrder, Sending, Submission, NotSent
    <2>2. \A p \in todo : IsFirst(p) => p = o
      BY <2>1, FirstIsUnique DEF HandlerInv, Sending
    <2>3. /\ \A p \in Orders : p # o => row'[p] = row[p]
          /\ row'[o].st = "SENDING" /\ row'[o].bid = NoOrder
      BY <2>1 DEF HandlerInv, TypeOK
    <2>4. \A p \in Orders : IsFirst(p)' <=> IsFirst(p)
      BY DEF IsFirst
    <2>5. HandInOrder'
      BY <2>1, <2>2, <2>3, <2>4
      DEF HandlerInv, TypeOK, HandInOrder, Sending, Submission
    <2>6. VenueHeld'
      BY <2>1, <2>3, <2>4 DEF HandlerInv, VenueHeld, Sending, Unresolved, Venue
    <2>7. NotSent'
      BY <2>1, <2>3 DEF HandlerInv, NotSent
    <2>8. LadderStateHolds'
      BY <2>1, <2>3 DEF HandlerInv, LadderStateHolds, Active, Unresolved, Resting
    <2>9. NearestFirst'
      BY <2>3 DEF HandlerInv, NearestFirst
    <2>10. QED BY <2>5, <2>6, <2>7, <2>8, <2>9 DEF HandlerInv
  <1>5. ASSUME NEW o \in Orders, SubmitRequest(o) PROVE HandlerInv'
    <2> USE <1>5 DEF SubmitRequest
    <2>1. /\ o \in todo /\ IsFirst(o) /\ LadderOf[o] \in batches /\ row[o].st = "SENDING"
          /\ sends[o] = 0 /\ ladder[LadderOf[o]] = "PLACING"
      BY DEF IsFirst, HandlerInv, HandInOrder, Sending, Submission
    <2>2. \A p \in Orders : sends'[p] = IF p = o THEN 1 ELSE sends[p]
      BY <2>1 DEF HandlerInv, TypeOK
    <2>3. \A p \in Orders : IsFirst(p)' <=> IsFirst(p)
      BY DEF IsFirst
    <2>4. HandInOrder'
      BY <2>3 DEF HandlerInv, HandInOrder, Sending, Submission, TypeOK
    <2>5. VenueHeld'
      BY <2>3 DEF HandlerInv, VenueHeld, Sending
    <2>6. NotSent'
      BY <2>1, <2>2 DEF HandlerInv, NotSent
    <2>7. LadderStateHolds'
      BY <2>1, <2>2 DEF HandlerInv, LadderStateHolds
    <2>8. NearestFirst'
      <3> SUFFICES ASSUME NEW p \in Orders, NEW q \in Orders, LadderOf[p] = LadderOf[q],
                          Rung[p] < Rung[q], sends'[q] > 0
                   PROVE  row[p].st # "PREPARED"
        BY DEF NearestFirst
      <3>1. CASE q # o
        BY <3>1, <2>2 DEF HandlerInv, NearestFirst
      <3>2. CASE q = o
        <4>1. row[p].st = "PREPARED" => p \in todo
          BY <3>2, <2>1 DEF HandlerInv, HandInOrder, Sending
        <4>2. p \in todo => Rung[o] <= Rung[p]
          BY <2>1 DEF IsFirst
        <4>3. QED BY <3>2, <4>1, <4>2
      <3>3. QED BY <3>1, <3>2
    <2>9. QED BY <2>4, <2>5, <2>6, <2>7, <2>8 DEF HandlerInv
  <1>6. ASSUME NEW o \in Orders,
               SubmitAccepted(o) \/ SubmitRejected(o) \/ SubmitAmbiguous(o)
        PROVE  HandlerInv'
    <2> USE DEF SubmitAccepted, SubmitRejected, SubmitAmbiguous, StopAt
    <2>1. /\ o \in todo /\ IsFirst(o) /\ LadderOf[o] \in batches /\ row[o].st = "SENDING"
          /\ ladder[LadderOf[o]] = "PLACING" /\ pc = "await" /\ row[o].bid = NoOrder
      BY <1>6 DEF IsFirst, HandlerInv, HandInOrder, Sending, Submission
    <2>2. \A p \in todo : IsFirst(p) => p = o
      BY <2>1, FirstIsUnique DEF HandlerInv, Sending
    <2>3. /\ \A p \in Orders : p # o => row'[p] = row[p]
          /\ row'[o].st \in {"PENDING", "REJECTED", "UNKNOWN"}
          /\ UNCHANGED <<ladder, sends, batches>>
      BY <1>6 DEF HandlerInv, TypeOK
    <2>4. HandInOrder'
      <3>1. CASE SubmitAccepted(o)
        <4>1. \A p \in todo' : p # o /\ p \in todo /\ row'[p].st = "PREPARED"
          BY <3>1, <2>2, <2>3 DEF HandlerInv, HandInOrder, Sending, TypeOK
        <4>2. pc' \in {"placed", "sending"} /\ (pc' = "placed" => todo' = {})
          BY <3>1
        <4>3. QED
          BY <3>1, <4>1, <4>2, <2>3 DEF HandlerInv, HandInOrder, Sending, Submission, TypeOK
      <3>2. CASE SubmitRejected(o) \/ SubmitAmbiguous(o)
        BY <3>2, <2>3 DEF HandlerInv, HandInOrder, Sending, Submission
      <3>3. QED BY <1>6, <3>1, <3>2
    <2>5. VenueHeld'
      <3>1. CASE SubmitAccepted(o)
        <4>1. \A p \in Orders, l \in batches :
                Venue(p) = VenueOf[l] /\ Unresolved(row[p].st) => p = o
          BY <2>1, <2>2 DEF HandlerInv, VenueHeld, Sending, IsFirst
        <4>2. ~Unresolved(row'[o].st)
          BY <3>1 DEF Unresolved, HandlerInv, TypeOK
        <4>3. QED BY <4>1, <4>2, <2>3 DEF VenueHeld, Venue
      <3>2. CASE SubmitRejected(o) \/ SubmitAmbiguous(o)
        BY <3>2 DEF VenueHeld, Sending
      <3>3. QED BY <1>6, <3>1, <3>2
    <2>6. NotSent'
      BY <2>1, <2>3 DEF HandlerInv, NotSent
    <2>7. LadderStateHolds'
      BY <2>1, <2>3 DEF HandlerInv, LadderStateHolds
    <2>8. NearestFirst'
      BY <2>3 DEF HandlerInv, NearestFirst
    <2>9. QED BY <2>4, <2>5, <2>6, <2>7, <2>8 DEF HandlerInv
  <1>7. QED BY <1>1, <1>2, <1>3, <1>4, <1>5, <1>6 DEF Submitting

\* Withdrawing orders: CancelLadder, rung by rung.
LEMMA CancelingStep ==
  ASSUME HandlerInv, TypeOK', Canceling
  PROVE  HandlerInv'
  <1>1. ASSUME NEW o \in Orders, CancelDrop(o) \/ CancelAccepted(o) PROVE HandlerInv'
    <2> USE <1>1 DEF CancelDrop, CancelAccepted, AcceptCancel, exchange, Marked, Identified
    <2>1. Active(row[o].st)
      BY DEF Active, Resting
    <2>2. /\ \A p \in Orders : p # o => row'[p] = row[p]
          /\ row'[o].st \in {"CANCELED", "PENDING_CANCEL"}
          /\ row[o].st = "PREPARED" => row'[o].st = "CANCELED"
          /\ row'[o].bid = row[o].bid
      BY DEF HandlerInv, TypeOK, Resting
    <2>3. UNCHANGED <<ladder, sends>> /\ pc' \in {"cancel", "sweep"}
      BY DEF Withdrawing
    <2>4. QED BY <2>1, <2>2, <2>3, OneRowStep
  <1>2. ASSUME NEW o \in Orders, CancelErrored(o) PROVE HandlerInv'
    BY <1>2, NoWriteStep DEF CancelErrored, Withdrawing, store
  <1>3. ASSUME NEW l \in Ladders, CancelNext(l) PROVE HandlerInv'
    BY <1>3, NoWriteStep DEF CancelNext, store, exchange
  <1>4. QED BY <1>1, <1>2, <1>3 DEF Canceling

\* Reconciling: a lookup's outcome is written to one row it was due for.
LEMMA RefreshStep ==
  ASSUME HandlerInv, TypeOK', Refresh
  PROVE  HandlerInv'
  <1> USE DEF store, exchange
  <1>1. pc = "refresh" /\ pc' = "refresh" /\ UNCHANGED <<ladder, sends>>
    BY DEF Refresh, ListOpenOrders, ListingFailed, RefreshOrder, RecoverFound, RecoverParked,
           RecoverClaimed, RefreshParked, RefreshFailed, Refreshing
  <1>2. \A p \in todo : Active(row[p].st) /\ row[p].st # "PREPARED"
    BY <1>1 DEF HandlerInv, HandInOrder
  <1>3. ASSUME NEW v \in Venues, ListOpenOrders(v) \/ ListingFailed(v) PROVE HandlerInv'
    BY <1>1, <1>2, <1>3, NoWriteStep DEF ListOpenOrders, ListingFailed, ActiveOrders
  <1>4. ASSUME NEW o \in Orders, RecoverClaimed(o) \/ RefreshFailed(o) PROVE HandlerInv'
    BY <1>1, <1>2, <1>4, NoWriteStep DEF RecoverClaimed, RefreshFailed, Refreshing
  <1>5. ASSUME NEW o \in Orders, Refreshing(o),
               \A p \in Orders : p # o => row'[p] = row[p],
               row'[o].st \notin {"ABSENT", "PREPARED"}
        PROVE  HandlerInv'
    BY <1>1, <1>2, <1>5, OneRowStep DEF Refreshing
  <1>6. ASSUME NEW o \in Orders, Refreshing(o), NEW b \in Orders, NEW r \in Answers,
               NEW reach \in {"row", "event", "all"}, Apply(o, b, r, reach)
        PROVE  HandlerInv'
    <2>1. Active(row[o].st) /\ row[o].st \notin {"ABSENT", "PREPARED"} /\ TypeOK
      BY <1>2, <1>6 DEF Refreshing, HandlerInv, Active, Unresolved, Resting
    <2>2. /\ \A p \in Orders : p # o => row'[p] = row[p]
          /\ row'[o].st \notin {"ABSENT", "PREPARED"}
      BY <2>1, <1>6, ApplyWrites
    <2>3. QED BY <2>2, <1>5, <1>6
  <1>7. ASSUME NEW o \in Orders, RefreshOrder(o) PROVE HandlerInv'
    <2>1. row[o].bid \in Orders /\ Exists(row[o].bid) /\ Refreshing(o)
      BY <1>7 DEF RefreshOrder, HandlerInv, TypeOK
    <2>2. PICK r \in Reports(row[o].bid) \cup StaleReports(row[o].bid),
               reach \in {"row", "event", "all"} : Apply(o, row[o].bid, r, reach)
      BY <1>7 DEF RefreshOrder
    <2>3. r \in Answers
      BY <2>1, ReportsType DEF HandlerInv
    <2>4. QED BY <2>1, <2>2, <2>3, <1>6
  <1>8. ASSUME NEW o \in Orders, RecoverFound(o) PROVE HandlerInv'
    BY <1>8, <1>6, ReportsType DEF RecoverFound, FoundById, HandlerInv
  <1>9. ASSUME NEW o \in Orders, RecoverParked(o) \/ RefreshParked(o) PROVE HandlerInv'
    <2>1. /\ \A p \in Orders : p # o => row'[p] = row[p]
          /\ row'[o].st = "UNKNOWN"
      BY <1>9 DEF RecoverParked, RefreshParked, Marked, Identified, HandlerInv, TypeOK
    <2>2. QED BY <2>1, <1>5, <1>9 DEF RecoverParked, RefreshParked
  <1>10. QED BY <1>3, <1>4, <1>7, <1>8, <1>9 DEF Refresh

\* Settling: a ladder is closed only when none of its rungs can change.
LEMMA SettleStep ==
  ASSUME HandlerInv, TypeOK', Settle
  PROVE  HandlerInv'
  <1> USE DEF store, exchange, command, Idle, Settling, Withdrawing
  <1>1. ASSUME NEW l \in Ladders, SettleOpen(l) \/ SettleFailed(l) PROVE HandlerInv'
    BY <1>1, NoWriteStep DEF SettleOpen, SettleFailed
  <1>2. CASE Finish
    BY <1>2, NoWriteStep DEF Finish
  <1>3. ASSUME NEW l \in Ladders, SettleClosed(l) PROVE HandlerInv'
    <2> USE <1>3 DEF SettleClosed
    <2>1. \A k \in Ladders : k # l => ladder'[k] = ladder[k]
      BY DEF HandlerInv, TypeOK
    <2>2. ladder'[l] \in {"DONE", "CANCELED"} /\ \A o \in Orders : LadderOf[o] = l => ~Active(row[o].st)
      BY DEF HandlerInv, TypeOK, Closeable, RungsOf
    <2>3. HandInOrder' /\ VenueHeld'
      BY DEF HandInOrder, VenueHeld, Sending, Submission
    <2>4. NotSent'
      BY <2>1, <2>2 DEF HandlerInv, NotSent
    <2>5. LadderStateHolds'
      BY <2>1, <2>2, ConstantsAssumption DEF HandlerInv, LadderStateHolds
    <2>6. NearestFirst'
      BY DEF HandlerInv, NearestFirst
    <2>7. QED BY <2>3, <2>4, <2>5, <2>6 DEF HandlerInv
  <1>4. QED BY <1>1, <1>2, <1>3 DEF Settle

\* What the operator starts: commands, and words on an order in doubt.
LEMMA OperatorStep ==
  ASSUME HandlerInv, TypeOK', Operator
  PROVE  HandlerInv'
  <1> USE DEF store, process, exchange
  <1>1. pc = "idle" /\ todo = {}
    BY DEF Operator, SubmitDraft, Resume, CancelLadder, CancelEverything, PruneDraft, CancelOrder,
           ResolveMissing, ResolveFound, HandlerInv, HandInOrder
  <1>2. ASSUME NEW l \in Ladders, SubmitDraft(l) PROVE HandlerInv'
    <2> USE <1>2 DEF SubmitDraft
    <2>1. \A o \in Orders :
            row'[o] = IF LadderOf[o] = l THEN Marked(row[o], "PREPARED") ELSE row[o]
      OBVIOUS
    <2>2. \A o \in Orders : LadderOf[o] = l =>
            /\ row[o].st = "ABSENT" /\ sends[o] = 0 /\ row[o].bid = NoOrder
            /\ row'[o].st = "PREPARED" /\ row'[o].bid = NoOrder
      BY <2>1 DEF HandlerInv, NotSent, RungsOf, Marked, Identified
    <2>3. HandInOrder' /\ VenueHeld'
      BY <1>1 DEF HandInOrder, VenueHeld, Sending, Submission
    <2>4. NotSent'
      BY <2>1, <2>2 DEF HandlerInv, NotSent
    <2>5. LadderStateHolds'
      BY <2>1, <2>2 DEF HandlerInv, LadderStateHolds
    <2>6. NearestFirst'
      <3> SUFFICES ASSUME NEW p \in Orders, NEW q \in Orders, LadderOf[p] = LadderOf[q],
                          Rung[p] < Rung[q], sends[q] > 0
                   PROVE  row'[p].st # "PREPARED"
        BY DEF NearestFirst
      <3>1. sends[q] # 0
        BY DEF HandlerInv, TypeOK
      <3>2. LadderOf[p] # l
        BY <3>1, <2>2
      <3>3. QED BY <3>2, <2>1 DEF HandlerInv, NearestFirst
    <2>7. QED BY <2>3, <2>4, <2>5, <2>6 DEF HandlerInv
  <1>3. ASSUME NEW l \in Ladders, Resume(l) PROVE HandlerInv'
    <2> USE <1>3 DEF Resume
    <2>1. HandInOrder' /\ VenueHeld'
      BY <1>1 DEF HandInOrder, VenueHeld, Sending, Submission
    <2>2. QED
      BY <2>1 DEF HandlerInv, NotSent, LadderStateHolds, NearestFirst
  <1>4. ASSUME NEW l \in Ladders, CancelLadder(l) PROVE HandlerInv'
    BY <1>4, NoWriteStep DEF CancelLadder
  <1>5. ASSUME NEW l \in Ladders, PruneDraft(l) PROVE HandlerInv'
    <2> USE <1>5 DEF PruneDraft
    <2>1. /\ \A k \in Ladders : ladder'[k] = IF k = l THEN "GONE" ELSE ladder[k]
          /\ \A o \in Orders :
               row'[o] = IF LadderOf[o] = l THEN Marked(row[o], "ABSENT") ELSE row[o]
      BY DEF HandlerInv, TypeOK
    <2>2. \A o \in Orders : LadderOf[o] = l =>
            /\ sends[o] = 0 /\ row'[o].st = "ABSENT" /\ row'[o].bid = NoOrder
      BY <2>1 DEF HandlerInv, NotSent, Marked, Identified
    <2>3. HandInOrder' /\ VenueHeld'
      BY <1>1 DEF HandInOrder, VenueHeld, Sending, Submission
    <2>4. NotSent'
      BY <2>1, <2>2 DEF HandlerInv, NotSent
    <2>5. LadderStateHolds'
      BY <2>1, <2>2, ConstantsAssumption
      DEF HandlerInv, LadderStateHolds, Active, Unresolved, Resting
    <2>6. NearestFirst'
      BY <2>1, <2>2 DEF HandlerInv, NearestFirst
    <2>7. QED BY <2>3, <2>4, <2>5, <2>6 DEF HandlerInv
  <1>6. ASSUME NEW o \in Orders, CancelOrder(o) PROVE HandlerInv'
    <2>1. CASE row' = row
      BY <1>1, <1>6, <2>1, NoWriteStep DEF CancelOrder
    <2>2. CASE row' # row
      <3>1. /\ Active(row[o].st)
            /\ \A p \in Orders : p # o => row'[p] = row[p]
            /\ row'[o].st \in {"CANCELED", "PENDING_CANCEL"}
            /\ row[o].st = "PREPARED" => row'[o].st = "CANCELED" /\ row'[o].bid = row[o].bid
        BY <1>6, <2>2
        DEF CancelOrder, Active, Resting, Marked, Identified, HandlerInv, TypeOK
      <3>2. QED BY <1>1, <1>6, <3>1, OneRowStep DEF CancelOrder
    <2>3. QED BY <2>1, <2>2
  <1>7. ASSUME NEW o \in Orders, ResolveMissing(o) PROVE HandlerInv'
    <2>1. /\ Active(row[o].st) /\ row[o].st # "PREPARED"
          /\ \A p \in Orders : p # o => row'[p] = row[p]
          /\ row'[o].st = "CANCELED"
      BY <1>7
      DEF ResolveMissing, Active, Unresolved, Marked, Identified, HandlerInv, TypeOK
    <2>2. QED BY <1>1, <1>7, <2>1, OneRowStep DEF ResolveMissing
  <1>8. ASSUME NEW o \in Orders, NEW b \in Orders, ResolveFound(o, b) PROVE HandlerInv'
    <2>1. Active(row[o].st) /\ row[o].st \notin {"ABSENT", "PREPARED"} /\ Exists(b) /\ TypeOK
      BY <1>8 DEF ResolveFound, Active, Unresolved, HandlerInv
    <2>2. /\ \A p \in Orders : p # o => row'[p] = row[p]
          /\ row'[o].st \notin {"ABSENT", "PREPARED"}
      <3>1. ASSUME NEW r \in Reports(b), NEW reach \in {"row", "event", "all"},
                   Apply(o, b, r, reach)
            PROVE  /\ \A p \in Orders : p # o => row'[p] = row[p]
                   /\ row'[o].st \notin {"ABSENT", "PREPARED"}
        <4>1. r \in Answers
          BY <2>1, ReportsType
        <4>2. QED BY <2>1, <3>1, <4>1, ApplyWrites
      <3>2. CASE row' = [row EXCEPT ![o] = Identified(@, "UNKNOWN", b)]
        BY <2>1, <3>2 DEF Identified, TypeOK
      <3>3. QED BY <1>8, <3>1, <3>2 DEF ResolveFound
    <2>3. pc' \in {"idle", "refresh"} /\ todo' = {} /\ UNCHANGED <<ladder, sends>>
      BY <1>1, <1>8 DEF ResolveFound
    <2>4. QED BY <2>1, <2>2, <2>3, OneRowStep
  <1>9. CASE CancelEverything
    BY <1>1, <1>9, NoWriteStep DEF CancelEverything
  <1>10. QED BY <1>2, <1>3, <1>4, <1>5, <1>6, <1>7, <1>8, <1>9 DEF Operator

LEMMA HandlerStep == HandlerInv /\ [Next]_vars => HandlerInv'
  <1> SUFFICES ASSUME HandlerInv, [Next]_vars PROVE HandlerInv'
    OBVIOUS
  <1>1. TypeOK'
    BY TypeStep DEF HandlerInv
  <1>2. CASE UNCHANGED <<ladder, row, sends, process>>
    BY <1>1, <1>2
    DEF HandlerInv, HandInOrder, VenueHeld, NotSent, LadderStateHolds, NearestFirst, process,
        IsFirst, Sending, Submission
  <1>3. CASE UNCHANGED vars \/ Exchange
    BY <1>2, <1>3 DEF vars, store, process, exchange, Exchange, PlaceArrives, PlaceLost, Fill,
                      CancelCompletes, Withdrawn
  <1>4. CASE Reconcile
    BY <1>1, <1>4, NoWriteStep DEF Reconcile, store, exchange, HandlerInv, HandInOrder
  <1>5. CASE Stop
    BY <1>1, <1>5, NoWriteStep DEF Stop, Idle, store, exchange
  <1>6. QED
    BY <1>1, <1>3, <1>4, <1>5, SubmittingStep, CancelingStep, RefreshStep, SettleStep,
       OperatorStep
    DEF Next, Handler

\* No order is requested twice, whatever stops, fails, is lost or is answered,
\* and whatever the operator does.
THEOREM PlacedOnceAlways == Spec => []PlacedOnce
  <1>1. HandlerInv => PlacedOnce
    BY DEF HandlerInv, NotSent, PlacedOnce
  <1>2. QED BY HandlerInit, HandlerStep, <1>1, PTL DEF Spec

\* A ladder's state is true of its rungs (Executor.Submit, settle).
THEOREM LadderAlways == Spec => []LadderStateHolds
  <1>1. HandlerInv => LadderStateHolds
    BY DEF HandlerInv
  <1>2. QED BY HandlerInit, HandlerStep, <1>1, PTL DEF Spec

\* Rungs go out nearest first (Executor.Submit).
THEOREM NearestFirstAlways == Spec => []NearestFirst
  <1>1. HandlerInv => NearestFirst
    BY DEF HandlerInv
  <1>2. QED BY HandlerInit, HandlerStep, <1>1, PTL DEF Spec

\* No step but SubmitRequest sends anything.
LEMMA OnlyRequestsSend ==
  ASSUME Next, sends' # sends
  PROVE  \E o \in Orders : SubmitRequest(o)
  <1> USE DEF exchange
  <1>1. ~Operator /\ ~Reconcile /\ ~Stop
    BY DEF Operator, SubmitDraft, Resume, CancelLadder, CancelEverything, PruneDraft, CancelOrder,
           ResolveMissing, ResolveFound, Reconcile, Stop
  <1>2. ~Canceling /\ ~Refresh /\ ~Settle
    BY DEF Canceling, CancelNext, CancelDrop, CancelAccepted, AcceptCancel, CancelErrored,
           Refresh, ListOpenOrders, ListingFailed, RefreshOrder, RecoverFound, RecoverParked,
           RecoverClaimed, RefreshParked, RefreshFailed,
           Settle, SettleOpen, SettleClosed, SettleFailed, Finish
  <1>3. ~Exchange
    BY DEF Exchange, PlaceArrives, PlaceLost, Fill, CancelCompletes, Withdrawn
  <1>4. Submitting
    BY <1>1, <1>2, <1>3 DEF Next, Handler
  <1>5. QED
    BY <1>4 DEF Submitting, SubmitRefused, SubmitPlacing, SubmitClose, SubmitSending,
                SubmitAccepted, SubmitRejected, SubmitAmbiguous, StopAt

\* A request leaves only while no other order of its market is in question.
THEOREM NothingSentInDoubtAlways == Spec => NothingSentInDoubt
  <1> DEFINE Quiet == \A o \in Orders : sends'[o] > sends[o] =>
                        \A p \in Orders : Venue(p) = Venue(o) /\ Unresolved(row[p].st) => p = o
  <1>1. HandlerInv /\ [Next]_vars => [Quiet]_vars
    <2> SUFFICES ASSUME HandlerInv, Next, NEW o \in Orders, sends'[o] > sends[o],
                        NEW p \in Orders, Venue(p) = Venue(o), Unresolved(row[p].st)
                 PROVE  p = o
      OBVIOUS
    <2> USE DEF HandlerInv
    <2>1. sends' # sends
      BY DEF TypeOK
    <2>2. PICK q \in Orders : SubmitRequest(q)
      BY <2>1, OnlyRequestsSend
    <2>3. q = o
      BY <2>2 DEF SubmitRequest, TypeOK
    <2>4. o \in todo /\ IsFirst(o) /\ pc = "request" /\ LadderOf[o] \in batches
      BY <2>2, <2>3 DEF SubmitRequest, IsFirst, HandInOrder, Sending
    <2>5. IsFirst(p)
      BY <2>4, ConstantsAssumption DEF VenueHeld, Sending, Venue, TypeOK
    <2>6. QED BY <2>4, <2>5, FirstIsUnique DEF IsFirst, Sending
  <1>2. QED BY HandlerInit, HandlerStep, <1>1, PTL DEF Spec, NothingSentInDoubt

-----------------------------------------------------------------------------
(* The exchange's side, for an operator who keeps to an id on record.      *)

ExchangeInv == Accounted /\ OneInDoubt /\ OwnBrokerId

\* A step after which the exchange holds what it held, and rows have the ids
\* and statuses they had.
LEMMA SameRows ==
  ASSUME ExchangeInv, UNCHANGED <<ladder, row, wire, sends, ex>>
  PROVE  ExchangeInv'
  BY DEF ExchangeInv, Accounted, OneInDoubt, OwnBrokerId, InDoubt, Exists, Venue

\* A step that writes one row of an order the exchange has and we know of, or
\* that drops one which was never sent.
LEMMA KnownRowStep ==
  ASSUME HandlerInv, ExchangeInv, UNCHANGED <<wire, sends, ex>>, NEW o \in Orders,
         \A p \in Orders : p # o => row'[p] = row[p],
         row'[o].bid \in {NoOrder, o},
         row'[o].bid = NoOrder =>
           row'[o].st \in {"CANCELED", "REJECTED"} /\ o \notin wire /\ ~Exists(o),
         row'[o].bid = o => Exists(o) /\ o \notin wire,
         ex[o].st = "OPEN" => Active(row'[o].st)
  PROVE  ExchangeInv'
  <1> USE ConstantsAssumption DEF ExchangeInv
  <1>1. Accounted'
    BY DEF Accounted, InDoubt, Exists, OwnBrokerId, Unresolved
  <1>2. OneInDoubt'
    <2>1. ~InDoubt(o)'
      BY DEF InDoubt, Unresolved
    <2>2. \A p \in Orders : InDoubt(p)' => InDoubt(p)
      BY <2>1 DEF InDoubt
    <2>3. QED BY <2>2 DEF OneInDoubt, Venue
  <1>3. OwnBrokerId'
    BY DEF OwnBrokerId
  <1>4. QED BY <1>1, <1>2, <1>3

\* An answer about an order that is open never ends its row.
LEMMA OpenStaysActive ==
  ASSUME TypeOK, Accounted, NEW o \in Orders, ex[o].st = "OPEN", Active(row[o].st),
         NEW r \in Reports(o) \cup StaleReports(o)
  PROVE  Active(StatusAfter(row[o], r))
  <1>1. r.filled # Quantity /\ r.st \in {"PENDING", "PARTIAL_FILLED", "PENDING_CANCEL"}
    BY ConstantsAssumption DEF Reports, StaleReports, OpenStatus, Accounted, TypeOK
  <1>2. QED BY <1>1 DEF StatusAfter, Active, Terminal, Resting, Unresolved

\* A step that leaves an order in doubt in doubt, and writes no other row.
LEMMA DoubtStep ==
  ASSUME HandlerInv, ExchangeInv, UNCHANGED <<wire, sends, ex>>, NEW o \in Orders,
         \A p \in Orders : p # o => row'[p] = row[p],
         InDoubt(o), InDoubt(o)'
  PROVE  ExchangeInv'
  <1> USE DEF ExchangeInv
  <1>1. Accounted'
    BY DEF Accounted, InDoubt, Exists, Active, Unresolved
  <1>2. OneInDoubt'
    <2>1. \A p \in Orders : InDoubt(p)' => InDoubt(p)
      BY DEF InDoubt
    <2>2. QED BY <2>1 DEF OneInDoubt, Venue
  <1>3. OwnBrokerId'
    BY DEF OwnBrokerId, InDoubt
  <1>4. QED BY <1>1, <1>2, <1>3

LEMMA ExchangeInit == Init => ExchangeInv
  BY ConstantsAssumption
  DEF Init, ExchangeInv, Accounted, OneInDoubt, OwnBrokerId, InDoubt, Exists, Unresolved

\* The stages of a submission.
LEMMA SubmittingExchange ==
  ASSUME HandlerInv, ExchangeInv, Submitting
  PROVE  ExchangeInv'
  <1> USE DEF store, process, exchange, Marked, Identified
  <1>1. ASSUME NEW l \in Ladders, SubmitRefused(l) \/ SubmitPlacing(l) \/ SubmitClose(l)
        PROVE  ExchangeInv'
    <2>1. UNCHANGED <<row, wire, sends, ex>>
      BY <1>1 DEF SubmitRefused, SubmitPlacing, SubmitClose
    <2>2. QED
      BY <2>1 DEF ExchangeInv, Accounted, OneInDoubt, OwnBrokerId, InDoubt, Exists, Venue
  <1>2. ASSUME NEW o \in Orders, SubmitSending(o) PROVE ExchangeInv'
    <2> USE <1>2 DEF SubmitSending
    <2>1. /\ o \in todo /\ LadderOf[o] \in batches /\ row[o].st = "PREPARED"
          /\ sends[o] = 0 /\ row[o].bid = NoOrder
      BY DEF IsFirst, HandlerInv, HandInOrder, Sending, NotSent
    <2>2. /\ \A p \in Orders : p # o => row'[p] = row[p]
          /\ row'[o].st = "SENDING" /\ row'[o].bid = NoOrder
      BY <2>1 DEF HandlerInv, TypeOK
    <2>3. Accounted'
      BY <2>1, <2>2 DEF ExchangeInv, Accounted, InDoubt, Exists, Unresolved, Active
    <2>4. OneInDoubt'
      <3>1. \A p \in Orders : Venue(p) = Venue(o) => ~Unresolved(row[p].st)
        BY <2>1 DEF HandlerInv, VenueHeld, Sending, Venue
      <3>2. \A p \in Orders : p # o /\ InDoubt(p)' => InDoubt(p) /\ Venue(p) # Venue(o)
        BY <2>2, <3>1 DEF InDoubt
      <3>3. QED BY <3>2 DEF ExchangeInv, OneInDoubt, Venue
    <2>5. OwnBrokerId'
      BY <2>2 DEF ExchangeInv, OwnBrokerId
    <2>6. QED BY <2>3, <2>4, <2>5 DEF ExchangeInv
  <1>3. ASSUME NEW o \in Orders, SubmitRequest(o) PROVE ExchangeInv'
    <2> USE <1>3 DEF SubmitRequest
    <2>1. o \in todo /\ row[o].st = "SENDING" /\ row[o].bid = NoOrder /\ sends[o] = 0
      BY DEF IsFirst, HandlerInv, HandInOrder, Sending
    <2>2. /\ \A p \in Orders : p # o => sends'[p] = sends[p]
          /\ sends'[o] = 1
      BY <2>1 DEF HandlerInv, TypeOK
    <2>3. Accounted'
      BY <2>1, <2>2 DEF ExchangeInv, Accounted, InDoubt, Exists, Unresolved
    <2>4. QED
      BY <2>3 DEF ExchangeInv, OneInDoubt, OwnBrokerId, InDoubt, Venue
  <1>4. ASSUME NEW o \in Orders,
               SubmitAccepted(o) \/ SubmitRejected(o) \/ SubmitAmbiguous(o)
        PROVE  ExchangeInv'
    <2>1. o \in todo /\ row[o].st = "SENDING" /\ row[o].bid = NoOrder
      BY <1>4 DEF SubmitAccepted, SubmitRejected, SubmitAmbiguous, StopAt, IsFirst, HandlerInv,
                  HandInOrder, Sending
    <2>2. CASE SubmitAccepted(o)
      <3>1. /\ \A p \in Orders : p # o => row'[p] = row[p]
            /\ row'[o].st = "PENDING" /\ row'[o].bid = o
            /\ Exists(o) /\ o \notin wire
        BY <2>2 DEF SubmitAccepted, HandlerInv, TypeOK, ExchangeInv, Accounted, Exists
      <3>2. QED
        BY <2>2, <3>1, ConstantsAssumption, KnownRowStep DEF SubmitAccepted, Active, Resting
    <2>3. CASE SubmitAmbiguous(o)
      <3>1. \A p \in Orders : p # o => row'[p] = row[p]
        BY <2>3 DEF SubmitAmbiguous, StopAt, HandlerInv, TypeOK
      <3>2. InDoubt(o) /\ InDoubt(o)'
        BY <2>1, <2>3 DEF SubmitAmbiguous, StopAt, HandlerInv, TypeOK, InDoubt, Unresolved
      <3>3. QED BY <2>3, <3>1, <3>2, DoubtStep DEF SubmitAmbiguous, StopAt
    <2>4. CASE SubmitRejected(o)
      <3> USE <2>4 DEF SubmitRejected, StopAt
      <3>1. /\ \A p \in Orders : p # o => row'[p] = row[p]
            /\ row'[o].st = "REJECTED" /\ row'[o].bid = NoOrder
        BY <2>1 DEF HandlerInv, TypeOK
      <3>2. o \in wire /\ ex[o].st = "NONE" /\ wire' = wire \ {o}
        BY DEF ExchangeInv, Accounted
      <3>3. Accounted'
        BY <3>1, <3>2 DEF ExchangeInv, Accounted, InDoubt, Exists
      <3>4. \A p \in Orders : InDoubt(p)' => InDoubt(p)
        BY <3>1 DEF InDoubt, Unresolved
      <3>5. OneInDoubt' /\ OwnBrokerId'
        BY <3>1, <3>4 DEF ExchangeInv, OneInDoubt, OwnBrokerId, Venue
      <3>6. QED BY <3>3, <3>5 DEF ExchangeInv
    <2>5. QED BY <1>4, <2>2, <2>3, <2>4
  <1>5. QED BY <1>1, <1>2, <1>3, <1>4 DEF Submitting

\* A known order whose row takes a status in step with the exchange.
LEMMA CancelingExchange ==
  ASSUME HandlerInv, ExchangeInv, Canceling
  PROVE  ExchangeInv'
  <1> USE DEF exchange, Marked, Identified
  <1>1. ASSUME NEW o \in Orders, CancelDrop(o) PROVE ExchangeInv'
    <2> USE <1>1 DEF CancelDrop
    <2>1. row[o].bid = NoOrder /\ o \notin wire /\ ~Exists(o) /\ ex[o].st # "OPEN"
      BY DEF HandlerInv, NotSent, ExchangeInv, Accounted, InDoubt, Unresolved, Exists
    <2>2. /\ \A p \in Orders : p # o => row'[p] = row[p]
          /\ row'[o].st = "CANCELED" /\ row'[o].bid = NoOrder
      BY <2>1 DEF HandlerInv, TypeOK
    <2>3. QED BY <2>1, <2>2, ConstantsAssumption, KnownRowStep
  <1>2. ASSUME NEW o \in Orders, CancelAccepted(o) PROVE ExchangeInv'
    <2> USE <1>2 DEF CancelAccepted, AcceptCancel
    <2>1. row[o].bid = o /\ Exists(o) /\ o \notin wire
      BY DEF ExchangeInv, OwnBrokerId, Accounted, InDoubt
    <2>2. /\ \A p \in Orders : p # o => row'[p] = row[p]
          /\ row'[o].st = "PENDING_CANCEL" /\ row'[o].bid = o
      BY <2>1 DEF HandlerInv, TypeOK
    <2>3. QED BY <2>1, <2>2, ConstantsAssumption, KnownRowStep DEF Active
  <1>3. ASSUME NEW o \in Orders, CancelErrored(o) PROVE ExchangeInv'
    BY <1>3, SameRows DEF CancelErrored, store
  <1>4. ASSUME NEW l \in Ladders, CancelNext(l) PROVE ExchangeInv'
    BY <1>4, SameRows DEF CancelNext, store
  <1>5. QED BY <1>1, <1>2, <1>3, <1>4 DEF Canceling

\* apply, for an order the exchange has and the row it is matched with.
LEMMA ApplyExchange ==
  ASSUME HandlerInv, ExchangeInv, UNCHANGED <<wire, sends, ex>>, NEW o \in Orders,
         Active(row[o].st), row[o].st # "PREPARED", Exists(o), o \notin wire,
         NEW r \in Reports(o) \cup StaleReports(o), NEW reach \in {"row", "event", "all"},
         Apply(o, o, r, reach)
  PROVE  ExchangeInv'
  <1>1. r \in Answers /\ TypeOK
    BY ReportsType DEF HandlerInv
  <1>2. CASE row'[o] = row[o]
    <2>1. row' = row
      BY <1>1, <1>2, ApplyType, ApplyWrites DEF TypeOK, Rows
    <2>2. QED
      BY <2>1 DEF ExchangeInv, Accounted, OneInDoubt, OwnBrokerId, InDoubt, Exists, Venue
  <1>3. CASE row'[o] # row[o]
    <2>1. /\ \A p \in Orders : p # o => row'[p] = row[p]
          /\ row'[o].st = StatusAfter(row[o], r) /\ row'[o].bid = o
      BY <1>1, <1>3, ApplyWrites
    <2>2. ex[o].st = "OPEN" => Active(row'[o].st)
      BY <1>1, <2>1, OpenStaysActive DEF ExchangeInv
    <2>3. QED BY <2>1, <2>2, ConstantsAssumption, KnownRowStep
  <1>4. QED BY <1>2, <1>3

LEMMA RefreshExchange ==
  ASSUME HandlerInv, ExchangeInv, Refresh
  PROVE  ExchangeInv'
  <1> USE DEF store, exchange
  <1>1. pc = "refresh" /\ UNCHANGED <<ladder, wire, sends, ex>>
    BY DEF Refresh, ListOpenOrders, ListingFailed, RefreshOrder, RecoverFound, RecoverParked,
           RecoverClaimed, RefreshParked, RefreshFailed, Refreshing
  <1>2. \A o \in Orders : Refreshing(o) => Active(row[o].st) /\ row[o].st # "PREPARED"
    BY <1>1 DEF HandlerInv, HandInOrder, Refreshing
  <1>3. ASSUME NEW v \in Venues, ListOpenOrders(v) \/ ListingFailed(v) PROVE ExchangeInv'
    BY <1>1, <1>3, SameRows DEF ListOpenOrders, ListingFailed
  <1>4. ASSUME NEW o \in Orders, RecoverClaimed(o) \/ RefreshFailed(o) PROVE ExchangeInv'
    BY <1>1, <1>4, SameRows DEF RecoverClaimed, RefreshFailed
  <1>5. \A o \in Orders : Exists(o) => o \notin wire
    BY DEF ExchangeInv, Accounted, Exists
  <1>6. ASSUME NEW o \in Orders, RefreshOrder(o) PROVE ExchangeInv'
    <2>1. row[o].bid = o /\ Exists(o) /\ Refreshing(o)
      BY <1>6 DEF RefreshOrder, ExchangeInv, OwnBrokerId
    <2>2. PICK r \in Reports(o) \cup StaleReports(o),
               reach \in {"row", "event", "all"} : Apply(o, o, r, reach)
      BY <1>6, <2>1 DEF RefreshOrder
    <2>3. QED BY <1>1, <1>2, <1>5, <2>1, <2>2, ApplyExchange
  <1>7. ASSUME NEW o \in Orders, RecoverFound(o) PROVE ExchangeInv'
    <2>1. Exists(o) /\ Refreshing(o)
      BY <1>7 DEF RecoverFound, FoundById
    <2>2. PICK r \in Reports(o) \cup StaleReports(o),
               reach \in {"row", "event", "all"} : Apply(o, o, r, reach)
      BY <1>7 DEF RecoverFound
    <2>3. QED BY <1>1, <1>2, <1>5, <2>1, <2>2, ApplyExchange
  <1>8. ASSUME NEW o \in Orders, RecoverParked(o) PROVE ExchangeInv'
    <2>1. /\ \A p \in Orders : p # o => row'[p] = row[p]
          /\ row'[o].st = "UNKNOWN" /\ row'[o].bid = NoOrder
      BY <1>8 DEF RecoverParked, Marked, Identified, HandlerInv, TypeOK
    <2>2. InDoubt(o)
      BY <1>2, <1>8 DEF RecoverParked, InDoubt, ExchangeInv, Accounted, Active, Resting, Unresolved
    <2>3. InDoubt(o)'
      BY <2>1 DEF InDoubt, Unresolved
    <2>4. QED BY <1>1, <2>1, <2>2, <2>3, DoubtStep
  <1>9. ASSUME NEW o \in Orders, RefreshParked(o) PROVE ExchangeInv'
    <2>1. /\ \A p \in Orders : p # o => row'[p] = row[p]
          /\ row'[o].st = "UNKNOWN" /\ row'[o].bid = o
      BY <1>9 DEF RefreshParked, Identified, HandlerInv, TypeOK, ExchangeInv, OwnBrokerId
    <2>2. Exists(o)
      BY <1>9 DEF RefreshParked, FoundById, ExchangeInv, OwnBrokerId, Accounted
    <2>3. QED
      BY <1>1, <1>5, <2>1, <2>2, ConstantsAssumption, KnownRowStep DEF Active, Unresolved
  <1>10. QED BY <1>3, <1>4, <1>6, <1>7, <1>8, <1>9 DEF Refresh

\* What the operator starts.  An exchange order no row of ours holds yet belongs
\* to the one order of its venue that is in doubt.
LEMMA OperatorExchange ==
  ASSUME HandlerInv, ExchangeInv, CarefulOperator, Operator
  PROVE  ExchangeInv'
  <1> USE DEF store, process, exchange
  <1>1. ASSUME NEW l \in Ladders, SubmitDraft(l) \/ PruneDraft(l) PROVE ExchangeInv'
    <2>1. /\ UNCHANGED <<wire, sends, ex>>
          /\ \A o \in Orders : LadderOf[o] # l => row'[o] = row[o]
          /\ \A o \in Orders : LadderOf[o] = l =>
               /\ row'[o].st \in {"ABSENT", "PREPARED"} /\ row'[o].bid = NoOrder
               /\ sends[o] = 0
      BY <1>1 DEF SubmitDraft, PruneDraft, RungsOf, Marked, Identified, HandlerInv, NotSent
    <2>2. \A o \in Orders : LadderOf[o] = l => o \notin wire /\ ~Exists(o)
      BY <2>1 DEF ExchangeInv, Accounted
    <2>3. Accounted'
      BY <2>1, <2>2 DEF ExchangeInv, Accounted, InDoubt, Exists
    <2>4. \A o \in Orders : InDoubt(o)' => InDoubt(o)
      BY <2>1 DEF InDoubt, Unresolved
    <2>5. OneInDoubt' /\ OwnBrokerId'
      BY <2>1, <2>4 DEF ExchangeInv, OneInDoubt, OwnBrokerId, Venue
    <2>6. QED BY <2>3, <2>5 DEF ExchangeInv
  <1>2. ASSUME NEW l \in Ladders, Resume(l) \/ CancelLadder(l) PROVE ExchangeInv'
    BY <1>2, SameRows DEF Resume, CancelLadder
  <1>3. ASSUME NEW o \in Orders, CancelOrder(o) PROVE ExchangeInv'
    <2> USE <1>3 DEF CancelOrder, Marked, Identified
    <2>1. CASE row[o].st = "PREPARED"
      <3>1. row[o].bid = NoOrder /\ o \notin wire /\ ~Exists(o) /\ ex[o].st # "OPEN"
        BY <2>1 DEF HandlerInv, NotSent, ExchangeInv, Accounted, InDoubt, Unresolved, Exists
      <3>2. /\ \A p \in Orders : p # o => row'[p] = row[p]
            /\ row'[o].st = "CANCELED" /\ row'[o].bid = NoOrder
        BY <2>1, <3>1 DEF HandlerInv, TypeOK, Resting
      <3>3. QED BY <3>1, <3>2, ConstantsAssumption, KnownRowStep
    <2>2. CASE row[o].st # "PREPARED" /\ row' # row
      <3>1. row[o].bid = o /\ Exists(o) /\ o \notin wire
        BY <2>2 DEF ExchangeInv, OwnBrokerId, Accounted, InDoubt
      <3>2. /\ \A p \in Orders : p # o => row'[p] = row[p]
            /\ row'[o].st = "PENDING_CANCEL" /\ row'[o].bid = o
        BY <2>2, <3>1 DEF HandlerInv, TypeOK
      <3>3. QED BY <3>1, <3>2, ConstantsAssumption, KnownRowStep DEF Active
    <2>3. CASE row' = row
      BY <2>3, SameRows
    <2>4. QED BY <2>1, <2>2, <2>3
  <1>4. ASSUME NEW o \in Orders, ResolveMissing(o) PROVE ExchangeInv'
    <2>1. /\ \A p \in Orders : p # o => row'[p] = row[p]
          /\ row'[o].st = "CANCELED" /\ row'[o].bid = NoOrder
          /\ o \notin wire /\ ~Exists(o) /\ ex[o].st # "OPEN"
      BY <1>4 DEF ResolveMissing, TrulyMissing, Marked, Identified, HandlerInv, TypeOK, Exists
    <2>2. QED BY <1>4, <2>1, ConstantsAssumption, KnownRowStep DEF ResolveMissing
  <1>5. ASSUME NEW o \in Orders, NEW b \in Orders, ResolveFound(o, b) PROVE ExchangeInv'
    <2> USE <1>5 DEF ResolveFound
    <2>1. b = o
      <3>1. CASE row[o].bid # NoOrder
        BY <3>1 DEF ExchangeInv, OwnBrokerId
      <3>2. CASE row[o].bid = NoOrder
        <4>1. SUFFICES ASSUME b # o PROVE FALSE
          OBVIOUS
        <4>2. row[b].bid = NoOrder
          BY <4>1 DEF Unclaimed, ExchangeInv, OwnBrokerId
        <4>3. InDoubt(b) /\ InDoubt(o)
          BY <3>2, <4>2 DEF InDoubt, ExchangeInv, Accounted
        <4>4. Venue(b) = Venue(o)
          BY ConstantsAssumption DEF Venue
        <4>5. QED BY <4>1, <4>3, <4>4 DEF ExchangeInv, OneInDoubt
      <3>3. QED BY <3>1, <3>2
    <2>2. /\ Exists(o) /\ o \notin wire /\ Active(row[o].st) /\ row[o].st # "PREPARED"
          /\ UNCHANGED <<wire, sends, ex>>
      BY <2>1 DEF ExchangeInv, Accounted, Exists, Active, Unresolved
    <2>3. ASSUME NEW r \in Reports(b), NEW reach \in {"row", "event", "all"},
                 Apply(o, b, r, reach)
          PROVE  ExchangeInv'
      BY <2>1, <2>2, <2>3, ApplyExchange
    <2>4. CASE row' = [row EXCEPT ![o] = Identified(@, "UNKNOWN", b)]
      <3>1. /\ \A p \in Orders : p # o => row'[p] = row[p]
            /\ row'[o].st = "UNKNOWN" /\ row'[o].bid = o
        BY <2>1, <2>4 DEF Identified, HandlerInv, TypeOK
      <3>2. QED
        BY <2>2, <3>1, ConstantsAssumption, KnownRowStep DEF Active, Unresolved
    <2>5. QED BY <2>3, <2>4
  <1>6. CASE CancelEverything
    BY <1>6, SameRows DEF CancelEverything
  <1>7. QED BY <1>1, <1>2, <1>3, <1>4, <1>5, <1>6 DEF Operator

\* The exchange's own moves write no row.
LEMMA ExchangeMoves ==
  ASSUME HandlerInv, ExchangeInv, Exchange
  PROVE  ExchangeInv'
  <1> USE DEF store
  <1>1. UNCHANGED <<row, sends>> /\ TypeOK
    BY DEF Exchange, PlaceArrives, PlaceLost, Fill, CancelCompletes, Withdrawn, HandlerInv
  <1>2. ASSUME NEW o \in Orders, PlaceArrives(o) \/ PlaceLost(o) PROVE Accounted'
    <2>1. /\ wire' = wire \ {o} /\ InDoubt(o) /\ sends[o] > 0
          /\ \A p \in Orders : p # o => ex'[p] = ex[p]
          /\ ex'[o] = ex[o] \/ ex'[o] = [st |-> "OPEN", filled |-> 0]
      BY <1>1, <1>2 DEF PlaceArrives, PlaceLost, ExchangeInv, Accounted, TypeOK
    <2>2. \A p \in Orders : Exists(p) => Exists(p)'
      BY <2>1 DEF Exists, ExchangeInv, Accounted
    <2>3. \A p \in Orders : row[p].bid # NoOrder => Exists(row[p].bid)'
      BY <1>1, <2>2 DEF ExchangeInv, Accounted, OwnBrokerId
    <2>4. SUFFICES ASSUME NEW p \in Orders
                   PROVE  /\ p \in wire' => InDoubt(p) /\ ex'[p].st = "NONE" /\ sends[p] > 0
                          /\ Exists(p)' => sends[p] > 0
                          /\ Exists(p)' /\ row[p].bid = NoOrder => Unresolved(row[p].st)
                          /\ ex'[p].st = "OPEN" => Active(row[p].st) /\ ex'[p].filled < Quantity
      BY <1>1, <2>3 DEF ExchangeInv, Accounted, InDoubt
    <2>5. CASE p = o
      BY <2>1, <2>5, ConstantsAssumption
      DEF ExchangeInv, Accounted, InDoubt, Exists, Active, Unresolved
    <2>6. CASE p # o
      BY <2>1, <2>6 DEF ExchangeInv, Accounted, Exists
    <2>7. QED BY <2>5, <2>6
  <1>3. ASSUME NEW o \in Orders, Fill(o) \/ CancelCompletes(o) \/ Withdrawn(o) PROVE Accounted'
    <2>1. /\ wire' = wire /\ Exists(o) /\ ex[o].st = "OPEN"
          /\ \A p \in Orders : p # o => ex'[p] = ex[p]
          /\ ex'[o].st # "NONE"
      BY <1>1, <1>3 DEF Fill, CancelCompletes, Withdrawn, TypeOK, Exists
    <2>2. ex'[o].st = "OPEN" => ex'[o].filled < Quantity
      BY <1>1, <1>3, ConstantsAssumption DEF Fill, CancelCompletes, Withdrawn, TypeOK
    <2>3. \A p \in Orders : Exists(p)' <=> Exists(p)
      BY <2>1 DEF Exists
    <2>4. \A p \in Orders : row[p].bid # NoOrder => Exists(row[p].bid)'
      BY <1>1, <2>3 DEF ExchangeInv, Accounted, OwnBrokerId
    <2>5. \A p \in wire : p # o /\ ex'[p].st = "NONE"
      BY <1>1, <2>1 DEF ExchangeInv, Accounted, TypeOK
    <2>6. \A p \in Orders : ex'[p].st = "OPEN" => Active(row[p].st) /\ ex'[p].filled < Quantity
      BY <2>1, <2>2 DEF ExchangeInv, Accounted
    <2>7. QED
      BY <1>1, <2>1, <2>3, <2>4, <2>5, <2>6 DEF ExchangeInv, Accounted, InDoubt
  <1>4. Accounted'
    BY <1>2, <1>3 DEF Exchange
  <1>5. QED
    BY <1>1, <1>4 DEF ExchangeInv, OneInDoubt, OwnBrokerId, InDoubt, Venue

LEMMA ExchangeStep == CarefulOperator /\ HandlerInv /\ ExchangeInv /\ [Next]_vars => ExchangeInv'
  <1> SUFFICES ASSUME CarefulOperator, HandlerInv, ExchangeInv, [Next]_vars PROVE ExchangeInv'
    OBVIOUS
  <1>1. CASE UNCHANGED vars \/ Reconcile \/ Stop
    BY <1>1, SameRows DEF vars, store, exchange, Reconcile, Stop
  <1>2. CASE Settle
    <2>1. UNCHANGED <<row, wire, sends, ex>>
      BY <1>2 DEF Settle, SettleOpen, SettleClosed, SettleFailed, Finish, store, exchange
    <2>2. QED
      BY <2>1 DEF ExchangeInv, Accounted, OneInDoubt, OwnBrokerId, InDoubt, Exists, Venue
  <1>3. QED
    BY <1>1, <1>2, SubmittingExchange, CancelingExchange, RefreshExchange, OperatorExchange,
       ExchangeMoves
    DEF Next, Handler

\* The invariant as a whole, which the runs check as Inductive.
LEMMA InductiveAlways == CarefulOperator => (Spec => []Inductive)
  <1> SUFFICES ASSUME CarefulOperator PROVE Spec => []Inductive
    OBVIOUS
  <1>1. Init => HandlerInv /\ ExchangeInv
    BY HandlerInit, ExchangeInit
  <1>2. HandlerInv /\ ExchangeInv /\ [Next]_vars => (HandlerInv /\ ExchangeInv)'
    BY HandlerStep, ExchangeStep
  <1>3. HandlerInv /\ ExchangeInv => Inductive
    BY DEF ExchangeInv, Inductive
  <1>4. QED BY <1>1, <1>2, <1>3, PTL DEF Spec

\* An operator who names no second exchange order for an order that has one
\* never attaches an order to the exchange order of another rung, and at most
\* one order of a venue is ever in doubt.
THEOREM OwnBrokerIdAlways == CarefulOperator => (Spec => [](OwnBrokerId /\ OneInDoubt))
  <1> SUFFICES ASSUME CarefulOperator PROVE Spec => [](OwnBrokerId /\ OneInDoubt)
    OBVIOUS
  <1>1. Inductive => OwnBrokerId /\ OneInDoubt
    BY DEF Inductive
  <1>2. QED BY InductiveAlways, <1>1, PTL

\* Nothing that left, and nothing that works at an exchange, is out of sight.
THEOREM NoOrphanAlways == CarefulOperator => (Spec => [](NoOrphan /\ SentIsRecorded))
  <1> SUFFICES ASSUME CarefulOperator PROVE Spec => [](NoOrphan /\ SentIsRecorded)
    OBVIOUS
  <1>1. Inductive => NoOrphan
    <2> SUFFICES ASSUME Inductive, NEW o \in Orders, ex[o].st = "OPEN" \/ o \in wire
                 PROVE  /\ Active(row[o].st)
                        /\ ladder[LadderOf[o]] \in {"PLACING", "OPEN", "FAILED"}
      BY DEF NoOrphan
    <2>1. Active(row[o].st) /\ sends[o] > 0
      BY DEF Inductive, Accounted, InDoubt, Active, Exists
    <2>2. ladder[LadderOf[o]] \in LadderStates
      BY ConstantsAssumption DEF Inductive, HandlerInv, TypeOK
    <2>3. QED
      BY <2>1, <2>2 DEF Inductive, HandlerInv, LadderStateHolds, LadderStates
  <1>2. Inductive => SentIsRecorded
    BY DEF Inductive, HandlerInv, NotSent, Accounted, SentIsRecorded, InDoubt, TypeOK
  <1>3. QED BY InductiveAlways, <1>1, <1>2, PTL
=============================================================================
