-------------------------- MODULE OrdersRowProofs --------------------------
(***************************************************************************)
(* Theorems about single rows: what one step can do to one row (RowStep),  *)
(* and what follows for fills, events, cancellations and the exchange; and *)
(* about one order's life.                                                 *)
(***************************************************************************)
EXTENDS OrdersProofs

-----------------------------------------------------------------------------
(* The four things a step can do to a row.                                 *)

\* What apply alone writes.
SameFills(o) ==
  /\ row'[o].filled = row[o].filled
  /\ row'[o].notified = row[o].notified
  /\ told'[o] = told[o]

Untouched(o) == row'[o] = row[o] /\ told'[o] = told[o]

\* submitDraft inserts the rows of a draft, PruneDrafts deletes them.
Drafted(o) ==
  /\ \E l \in Ladders : SubmitDraft(l) \/ PruneDraft(l)
  /\ ladder[LadderOf[o]] = "DRAFT"
  /\ row'[o].st \in {"ABSENT", "PREPARED"}
  /\ row'[o].bid = row[o].bid
  /\ SameFills(o)

\* Nothing else of the venue is in doubt when an order is attempted.
Attempted(o) ==
  /\ row[o].st = "PREPARED"
  /\ \A p \in Orders : Venue(p) = Venue(o) => ~Unresolved(row[p].st)

\* A status written without a reading, by a submission, a cancellation, park
\* or the operator.
Noted(o) ==
  /\ Active(row[o].st)
  /\ SameFills(o)
  /\ \/ /\ row[o].bid = NoOrder /\ row'[o].bid = NoOrder
        /\ \/ row'[o].st \in {"CANCELED", "REJECTED"}
           \/ row'[o].st = "UNKNOWN" /\ row[o].st # "PREPARED"
           \/ row'[o].st = "SENDING" /\ Attempted(o)
     \/ /\ Resting(row[o].st) /\ row'[o].st = "PENDING_CANCEL"
        /\ row'[o].bid = row[o].bid /\ row[o].bid \in asked'
     \/ /\ row'[o].st = "UNKNOWN" /\ row[o].st # "PREPARED"
        /\ row'[o].bid \in Orders
        /\ CarefulOperator \/ ~Unresolved(row[o].st) => row[o].bid \in {NoOrder, row'[o].bid}
     \/ /\ row[o].st = "SENDING" /\ row'[o].st = "PENDING"
        /\ row[o].bid = NoOrder /\ row'[o].bid = o

\* A reading was applied.
Learned(o) ==
  /\ Active(row[o].st) /\ row[o].st # "PREPARED"
  /\ \E b \in Orders, reach \in {"row", "event", "all"} :
       \E r \in Reports(b) \cup StaleReports(b) :
         /\ Exists(b)
         /\ Apply(o, b, r, reach)
         /\ CarefulOperator \/ ~Unresolved(row[o].st) => row[o].bid \in {NoOrder, b}

Step(o) == Untouched(o) \/ Drafted(o) \/ Noted(o) \/ Learned(o)

-----------------------------------------------------------------------------

LEMMA SubmittingRow ==
  ASSUME HandlerInv, Submitting, NEW o \in Orders
  PROVE  Step(o)
  <1> USE DEF store, exchange, process
  <1>1. ASSUME NEW l \in Ladders, SubmitRefused(l) \/ SubmitPlacing(l) \/ SubmitClose(l)
        PROVE  Untouched(o)
    BY <1>1 DEF SubmitRefused, SubmitPlacing, SubmitClose, Untouched
  <1>2. ASSUME NEW p \in Orders, SubmitRequest(p) PROVE Untouched(o)
    BY <1>2 DEF SubmitRequest, Untouched
  <1>3. ASSUME NEW p \in Orders, SubmitSending(p) PROVE Untouched(o) \/ Noted(o)
    <2>1. row[p].st = "PREPARED" /\ row[p].bid = NoOrder
      BY <1>3 DEF SubmitSending, HandlerInv, HandInOrder, Sending, IsFirst, NotSent
    <2>2. Attempted(p)
      BY <1>3, <2>1 DEF SubmitSending, HandlerInv, HandInOrder, VenueHeld, Sending, IsFirst, Venue,
                        Attempted
    <2>3. QED
      BY <1>3, <2>1, <2>2 DEF SubmitSending, Marked, Identified, HandlerInv, TypeOK, Untouched,
                              Noted, SameFills, Active
  <1>4. ASSUME NEW p \in Orders, SubmitAccepted(p) \/ SubmitRejected(p) \/ SubmitAmbiguous(p)
        PROVE  Untouched(o) \/ Noted(o)
    <2>1. row[p].st = "SENDING" /\ row[p].bid = NoOrder
      BY <1>4 DEF SubmitAccepted, SubmitRejected, SubmitAmbiguous, StopAt, HandlerInv, HandInOrder,
                  Sending, IsFirst
    <2>2. \/ row' = [row EXCEPT ![p] = Identified(@, "PENDING", p)]
          \/ \E st \in {"REJECTED", "UNKNOWN"} : row' = [row EXCEPT ![p] = Marked(@, st)]
      BY <1>4 DEF SubmitAccepted, SubmitRejected, SubmitAmbiguous, StopAt
    <2>3. told' = told
      BY <1>4 DEF SubmitAccepted, SubmitRejected, SubmitAmbiguous, StopAt
    <2>4. QED
      BY <2>1, <2>2, <2>3 DEF Marked, Identified, HandlerInv, TypeOK, Untouched, Noted, SameFills,
                              Active, Unresolved
  <1>5. QED BY <1>1, <1>2, <1>3, <1>4 DEF Submitting, Step

LEMMA CancelingRow ==
  ASSUME HandlerInv, Canceling, NEW o \in Orders
  PROVE  Step(o)
  <1> USE DEF store, exchange
  <1>1. ASSUME NEW l \in Ladders, CancelNext(l) PROVE Untouched(o)
    BY <1>1 DEF CancelNext, Untouched
  <1>2. ASSUME NEW p \in Orders, CancelErrored(p) PROVE Untouched(o)
    BY <1>2 DEF CancelErrored, Untouched
  <1>3. ASSUME NEW p \in Orders, CancelDrop(p) PROVE Untouched(o) \/ Noted(o)
    <2>1. row[p].bid = NoOrder
      BY <1>3 DEF CancelDrop, HandlerInv, NotSent
    <2>2. QED
      BY <1>3, <2>1 DEF CancelDrop, Marked, Identified, HandlerInv, TypeOK, Untouched, Noted,
                        SameFills, Active
  <1>4. ASSUME NEW p \in Orders, CancelAccepted(p) PROVE Untouched(o) \/ Noted(o)
    BY <1>4 DEF CancelAccepted, AcceptCancel, Marked, Identified, HandlerInv, TypeOK, Untouched,
                Noted, SameFills, Active, Resting
  <1>5. QED BY <1>1, <1>2, <1>3, <1>4 DEF Canceling, Step

\* A reading of one order leaves the others alone.
LEMMA ApplyRow ==
  ASSUME HandlerInv, NEW p \in Orders, NEW b \in Orders, NEW r \in Reports(b) \cup StaleReports(b),
         NEW reach \in {"row", "event", "all"}, Exists(b), Apply(p, b, r, reach),
         Active(row[p].st), row[p].st # "PREPARED",
         CarefulOperator \/ ~Unresolved(row[p].st) => row[p].bid \in {NoOrder, b},
         NEW o \in Orders
  PROVE  Untouched(o) \/ Learned(o)
  <1>1. CASE o = p
    BY <1>1 DEF Learned
  <1>2. CASE o # p
    BY <1>2 DEF Apply, Untouched, HandlerInv, TypeOK
  <1>3. QED BY <1>1, <1>2

LEMMA RefreshRow ==
  ASSUME HandlerInv, Refresh, NEW o \in Orders
  PROVE  Step(o)
  <1> USE DEF store, exchange
  <1>1. \A p \in Orders : Refreshing(p) => Active(row[p].st) /\ row[p].st # "PREPARED"
    BY DEF HandlerInv, HandInOrder, Refreshing
  <1>2. ASSUME NEW v \in Venues, ListOpenOrders(v) \/ ListingFailed(v) PROVE Untouched(o)
    BY <1>2 DEF ListOpenOrders, ListingFailed, Untouched
  <1>3. ASSUME NEW p \in Orders, RecoverClaimed(p) \/ RefreshFailed(p) PROVE Untouched(o)
    BY <1>3 DEF RecoverClaimed, RefreshFailed, Untouched
  <1>4. ASSUME NEW p \in Orders, RefreshOrder(p) PROVE Untouched(o) \/ Learned(o)
    <2>1. Active(row[p].st) /\ row[p].st # "PREPARED" /\ row[p].bid \in Orders /\ Exists(row[p].bid)
      BY <1>1, <1>4 DEF RefreshOrder, HandlerInv, TypeOK
    <2>2. PICK r \in Reports(row[p].bid) \cup StaleReports(row[p].bid),
               reach \in {"row", "event", "all"} : Apply(p, row[p].bid, r, reach)
      BY <1>4 DEF RefreshOrder
    <2>3. QED BY <2>1, <2>2, ApplyRow
  <1>5. ASSUME NEW p \in Orders, RecoverFound(p) PROVE Untouched(o) \/ Learned(o)
    <2>1. Active(row[p].st) /\ row[p].st # "PREPARED" /\ row[p].bid = NoOrder /\ Exists(p)
      BY <1>1, <1>5 DEF RecoverFound, FoundById
    <2>2. PICK r \in Reports(p), reach \in {"row", "event", "all"} : Apply(p, p, r, reach)
      BY <1>5 DEF RecoverFound
    <2>3. QED BY <2>1, <2>2, ApplyRow
  <1>6. ASSUME NEW p \in Orders, RecoverParked(p) \/ RefreshParked(p)
        PROVE  Untouched(o) \/ Noted(o)
    <2>1. Active(row[p].st) /\ row[p].st # "PREPARED"
      BY <1>1, <1>6 DEF RecoverParked, RefreshParked
    <2>2. told' = told /\ \E b \in Orders \cup {NoOrder} :
            /\ row' = [row EXCEPT ![p] = Identified(@, "UNKNOWN", b)]
            /\ b = row[p].bid \/ (row[p].bid = NoOrder /\ b = p)
      BY <1>6 DEF RecoverParked, RefreshParked, Marked, HandlerInv, TypeOK
    <2>3. QED
      BY <2>1, <2>2 DEF Identified, HandlerInv, TypeOK, Untouched, Noted, SameFills
  <1>7. QED BY <1>2, <1>3, <1>4, <1>5, <1>6 DEF Refresh, Step

LEMMA OperatorRow ==
  ASSUME HandlerInv, Operator, NEW o \in Orders
  PROVE  Step(o)
  <1> USE DEF store, exchange, process
  <1>1. ASSUME NEW l \in Ladders, SubmitDraft(l) \/ PruneDraft(l) PROVE Untouched(o) \/ Drafted(o)
    <2>1. told' = told /\ ladder[l] = "DRAFT"
      BY <1>1 DEF SubmitDraft, PruneDraft
    <2>2. \E st \in {"ABSENT", "PREPARED"} :
            row'[o] = IF LadderOf[o] = l THEN Marked(row[o], st) ELSE row[o]
      BY <1>1 DEF SubmitDraft, PruneDraft
    <2>3. QED
      BY <1>1, <2>1, <2>2 DEF Marked, Identified, Untouched, Drafted, SameFills
  <1>2. ASSUME NEW l \in Ladders, Resume(l) \/ CancelLadder(l) PROVE Untouched(o)
    BY <1>2 DEF Resume, CancelLadder, Untouched
  <1>3. CASE CancelEverything
    BY <1>3 DEF CancelEverything, Untouched, Step
  <1>4. ASSUME NEW p \in Orders, CancelOrder(p) PROVE Untouched(o) \/ Noted(o)
    <2>1. told' = told
      BY <1>4 DEF CancelOrder
    <2>2. CASE row[p].st = "PREPARED" /\ row' = [row EXCEPT ![p] = Marked(@, "CANCELED")]
      <3>1. row[p].bid = NoOrder
        BY <2>2 DEF HandlerInv, NotSent
      <3>2. QED
        BY <2>1, <2>2, <3>1 DEF Marked, Identified, HandlerInv, TypeOK, Untouched, Noted, SameFills,
                                Active
    <2>3. CASE /\ Resting(row[p].st) /\ row[p].bid \in asked'
               /\ row' = [row EXCEPT ![p] = Marked(@, "PENDING_CANCEL")]
      BY <2>1, <2>3 DEF Marked, Identified, HandlerInv, TypeOK, Untouched, Noted, SameFills, Active
    <2>4. CASE row' = row
      BY <2>1, <2>4 DEF Untouched
    <2>5. QED BY <1>4, <2>2, <2>3, <2>4 DEF CancelOrder
  <1>5. ASSUME NEW p \in Orders, ResolveMissing(p) PROVE Untouched(o) \/ Noted(o)
    BY <1>5 DEF ResolveMissing, Marked, Identified, HandlerInv, TypeOK, Untouched, Noted, SameFills,
                Active
  <1>6. ASSUME NEW p \in Orders, NEW b \in Orders, ResolveFound(p, b) PROVE Step(o)
    <2>1. /\ Active(row[p].st) /\ row[p].st # "PREPARED" /\ Exists(b)
          /\ CarefulOperator \/ ~Unresolved(row[p].st) => row[p].bid \in {NoOrder, b}
      BY <1>6 DEF ResolveFound, Active, Unresolved
    <2>2. CASE \E r \in Reports(b), reach \in {"row", "event", "all"} : Apply(p, b, r, reach)
      BY <2>1, <2>2, ApplyRow DEF Step
    <2>3. CASE row' = [row EXCEPT ![p] = Identified(@, "UNKNOWN", b)] /\ told' = told
      BY <2>1, <2>3 DEF Identified, HandlerInv, TypeOK, Untouched, Noted, SameFills, Step
    <2>4. QED BY <1>6, <2>2, <2>3 DEF ResolveFound
  <1>7. QED BY <1>1, <1>2, <1>3, <1>4, <1>5, <1>6 DEF Operator, Step

\* Every step leaves a row alone or does one of these things to it.
LEMMA RowStep ==
  ASSUME HandlerInv, [Next]_vars, NEW o \in Orders
  PROVE  Step(o)
  <1> USE DEF store, exchange
  <1>1. CASE UNCHANGED vars \/ Reconcile \/ Stop
    BY <1>1 DEF vars, Reconcile, Stop, Untouched, Step
  <1>2. CASE Settle
    BY <1>2 DEF Settle, SettleOpen, SettleClosed, SettleFailed, Finish, Untouched, Step
  <1>3. CASE Exchange
    BY <1>3 DEF Exchange, PlaceArrives, PlaceLost, Fill, CancelCompletes, Withdrawn, Untouched, Step
  <1>4. QED
    BY <1>1, <1>2, <1>3, SubmittingRow, CancelingRow, RefreshRow, OperatorRow DEF Next, Handler

-----------------------------------------------------------------------------
(* What a row says, and what it never takes back.                          *)

LEMMA AnswersOfExchange ==
  ASSUME HandlerInv, NEW b \in Orders, Exists(b), NEW r \in Reports(b) \cup StaleReports(b)
  PROVE  r \in Answers
  BY ReportsType DEF HandlerInv

\* An event that reports a fill is written after the row and before the mark.
LEMMA NotifiedStep ==
  ASSUME HandlerInv, NotifiedIsTold, [Next]_vars
  PROVE  NotifiedIsTold'
  <1> SUFFICES ASSUME NEW o \in Orders
               PROVE  row'[o].notified <= told'[o] /\ told'[o] <= row'[o].filled
    BY DEF NotifiedIsTold
  <1>1. row[o].notified <= told[o] /\ told[o] <= row[o].filled
    BY DEF NotifiedIsTold
  <1>2. CASE Untouched(o) \/ Drafted(o) \/ Noted(o)
    BY <1>1, <1>2 DEF Untouched, Drafted, Noted, SameFills
  <1>3. CASE Learned(o)
    <2>1. PICK b \in Orders, reach \in {"row", "event", "all"} :
            \E r \in Reports(b) \cup StaleReports(b) : Exists(b) /\ Apply(o, b, r, reach)
      BY <1>3 DEF Learned
    <2>2. PICK r \in Answers : Apply(o, b, r, reach)
      BY <2>1, AnswersOfExchange
    <2>3. /\ r.filled \in Nat /\ row[o].filled \in Nat
          /\ row[o].notified \in Nat /\ told[o] \in Nat
      BY DEF Answers, HandlerInv, TypeOK
    <2>4. CASE OutOfOrder(row[o], r)
      BY <1>1, <2>2, <2>4 DEF Apply
    <2>5. CASE ~OutOfOrder(row[o], r)
      <3>1. row[o].filled <= r.filled
        BY <2>3, <2>5 DEF OutOfOrder
      <3>2. /\ row'[o].filled = r.filled
            /\ row'[o].notified = IF r.filled > row[o].notified /\ reach = "all"
                                  THEN r.filled ELSE row[o].notified
            /\ told'[o] = IF r.filled > row[o].notified /\ reach # "row"
                          THEN r.filled ELSE told[o]
        BY <2>2, <2>5 DEF Apply, Executed, Marks, HandlerInv, TypeOK
      <3>3. QED BY <1>1, <2>3, <3>1, <3>2
    <2>6. QED BY <2>4, <2>5
  <1>4. QED BY <1>2, <1>3, RowStep DEF Step

\* A fill is marked as notified only once an event reports it, and no event
\* reports a fill the row does not hold (apply, Notify, the mark), whatever
\* the operator answers about orders in doubt.
THEOREM NotifiedIsToldAlways == Spec => []NotifiedIsTold
  <1>1. Init => NotifiedIsTold
    BY DEF Init, NotifiedIsTold
  <1>2. QED BY HandlerInit, HandlerStep, <1>1, NotifiedStep, PTL DEF Spec

\* No reading lowers a fill, an order the code has finished with keeps its
\* status and its fills (apply), and no exchange id is lost: only the operator's
\* word on an order in question replaces one (ResolveFound).
THEOREM NothingTakenBackAlways == Spec => NothingTakenBack
  <1> DEFINE IdKept(o) == row[o].bid # NoOrder =>
               /\ row'[o].bid # NoOrder
               /\ row'[o].bid = row[o].bid \/ Unresolved(row[o].st)
  <1> DEFINE Kept == \A o \in Orders :
        /\ row'[o].filled >= row[o].filled
        /\ IdKept(o)
        /\ Terminal(row[o].st) /\ ladder[LadderOf[o]] # "DRAFT" =>
             row'[o].st = row[o].st /\ row'[o].filled = row[o].filled
  <1>1. HandlerInv /\ [Next]_vars => [Kept]_vars
    <2> SUFFICES ASSUME HandlerInv, [Next]_vars, NEW o \in Orders
                 PROVE  /\ row'[o].filled >= row[o].filled
                        /\ IdKept(o)
                        /\ Terminal(row[o].st) /\ ladder[LadderOf[o]] # "DRAFT" =>
                             row'[o].st = row[o].st /\ row'[o].filled = row[o].filled
      OBVIOUS
    <2>1. row[o].filled \in Nat
      BY DEF HandlerInv, TypeOK
    <2>2. CASE Untouched(o) \/ Drafted(o)
      BY <2>1, <2>2 DEF Untouched, Drafted, SameFills
    <2>3. CASE Noted(o)
      <3>1. IdKept(o)
        BY <2>3, ConstantsAssumption DEF Noted
      <3>2. QED
        BY <2>1, <2>3, <3>1 DEF Noted, SameFills, Active, Unresolved, Resting, Terminal
    <2>4. CASE Learned(o)
      <3>1. PICK b \in Orders, reach \in {"row", "event", "all"} :
              /\ \E r \in Reports(b) \cup StaleReports(b) : Exists(b) /\ Apply(o, b, r, reach)
              /\ ~Unresolved(row[o].st) => row[o].bid \in {NoOrder, b}
        BY <2>4 DEF Learned
      <3>2. PICK r \in Answers : Apply(o, b, r, reach)
        BY <3>1, AnswersOfExchange
      <3>3. CASE OutOfOrder(row[o], r)
        BY <2>1, <3>2, <3>3 DEF Apply
      <3>4. CASE ~OutOfOrder(row[o], r)
        <4>1. row'[o].filled = r.filled
          BY <3>2, <3>4 DEF Apply, Executed, HandlerInv, TypeOK
        <4>2. r.filled >= row[o].filled
          BY <2>1, <3>4 DEF OutOfOrder, Answers
        <4>3. ~Terminal(row[o].st)
          BY <2>4 DEF Learned, Active, Unresolved, Resting, Terminal
        <4>4. row'[o].bid = b /\ b # NoOrder
          BY <3>2, <3>4, ConstantsAssumption DEF Apply, HandlerInv, TypeOK
        <4>5. QED BY <3>1, <4>1, <4>2, <4>3, <4>4
      <3>5. QED BY <3>3, <3>4
    <2>5. QED BY <2>2, <2>3, <2>4, RowStep DEF Step
  <1>2. QED BY HandlerInit, HandlerStep, <1>1, PTL DEF Spec, NothingTakenBack

-----------------------------------------------------------------------------
(* The row and the exchange.                                               *)

\* What makes RowFollowsExchange inductive: a row without an exchange order has
\* no fills, and an exchange calls filled what it executed in full.
NothingWithout == \A o \in Orders : row[o].bid = NoOrder => row[o].filled = 0
FilledInFull   == \A b \in Orders : ex[b].st = "FILLED" <=> ex[b].filled = Quantity

Follows == RowFollowsExchange /\ NothingWithout /\ FilledInFull

LEMMA FollowsInit == Init => Follows
  BY ConstantsAssumption DEF Init, Follows, RowFollowsExchange, NothingWithout, FilledInFull

\* What an exchange's answer about order b makes of a row that is active.
LEMMA Reading ==
  ASSUME HandlerInv, FilledInFull, NEW o \in Orders, Active(row[o].st), NEW b \in Orders,
         Exists(b), NEW r \in Reports(b) \cup StaleReports(b)
  PROVE  /\ r \in Answers
         /\ r.filled <= ex[b].filled
         /\ Terminal(StatusAfter(row[o], r)) =>
              StatusAfter(row[o], r) = ex[b].st /\ r.filled = ex[b].filled
         /\ StatusAfter(row[o], r) = "PENDING_CANCEL" =>
              row[o].st = "PENDING_CANCEL" \/ b \in asked
  <1> USE ConstantsAssumption
  <1>1. r \in Answers /\ ex[b].filled \in 0..Quantity
    BY AnswersOfExchange DEF HandlerInv, TypeOK
  <1>2. CASE r \in StaleReports(b)
    <2>1. Resting(r.st) /\ r.filled < Quantity /\ r.filled <= ex[b].filled
      BY <1>1, <1>2 DEF StaleReports, OpenStatus, Resting
    <2>2. QED
      BY <1>1, <2>1 DEF StatusAfter, Active, Unresolved, Resting, Terminal
  <1>3. CASE r \in Reports(b)
    <2>1. r.filled = ex[b].filled
      BY <1>3 DEF Reports
    <2>2. CASE ex[b].st = "OPEN"
      <3>1. r.st \in {"PENDING", "PARTIAL_FILLED", "PENDING_CANCEL"}
            /\ (r.st = "PENDING_CANCEL" => b \in asked)
        BY <1>3, <2>2 DEF Reports, OpenStatus
      <3>2. r.filled # Quantity
        BY <2>1, <2>2 DEF FilledInFull
      <3>3. QED
        BY <1>1, <2>1, <3>1, <3>2 DEF StatusAfter, Active, Unresolved, Resting, Terminal
    <2>3. CASE ex[b].st # "OPEN"
      <3>1. r = ex[b] /\ Terminal(r.st)
        BY <1>3, <2>3 DEF Reports, Exists, HandlerInv, TypeOK, Terminal
      <3>2. r.filled = Quantity => r.st = "FILLED"
        BY <3>1 DEF FilledInFull
      <3>3. QED
        BY <1>1, <3>1, <3>2 DEF StatusAfter, Active, Unresolved, Resting, Terminal
    <2>4. QED BY <2>2, <2>3
  <1>4. QED BY <1>2, <1>3

\* An exchange moves only orders that work there, and only onwards.
LEMMA FollowsExchange ==
  ASSUME HandlerInv, Accounted, Follows, Exchange
  PROVE  Follows'
  <1> USE ConstantsAssumption DEF HandlerInv, Follows
  <1>1. row' = row
    BY DEF Exchange, PlaceArrives, PlaceLost, Fill, CancelCompletes, Withdrawn, store
  <1>2. PICK b \in Orders :
          \/ UNCHANGED ex
          \/ ~Exists(b) /\ ex' = [ex EXCEPT ![b] = [st |-> "OPEN", filled |-> 0]]
          \/ /\ ex[b].st = "OPEN"
             /\ \/ \E f \in (ex[b].filled + 1)..Quantity :
                     ex' = [ex EXCEPT ![b] = [st |-> IF f = Quantity THEN "FILLED" ELSE "OPEN",
                                              filled |-> f]]
                \/ \E st \in {"CANCELED", "REJECTED"} :
                     ex' = [ex EXCEPT ![b] = [st |-> st, filled |-> ex[b].filled]]
    BY DEF Exchange, PlaceArrives, PlaceLost, Fill, CancelCompletes, Withdrawn
  <1>3. \A p \in Orders : p # b => ex'[p] = ex[p]
    BY <1>2 DEF TypeOK
  <1>4. ex[b].filled \in 0..Quantity /\ ex'[b].filled \in 0..Quantity
    BY <1>2 DEF TypeOK
  <1>5. FilledInFull'
    <2>1. ex'[b].st = "FILLED" <=> ex'[b].filled = Quantity
      BY <1>2, <1>4 DEF FilledInFull, TypeOK, Accounted
    <2>2. QED BY <1>3, <2>1 DEF FilledInFull
  <1>6. Exists(b) => ex[b].filled <= ex'[b].filled
    BY <1>2, <1>4 DEF TypeOK
  <1>7. Terminal(ex[b].st) => ex'[b] = ex[b]
    BY <1>2 DEF Terminal, Exists
  <1>8. RowFollowsExchange'
    <2> SUFFICES ASSUME NEW o \in Orders, row[o].bid # NoOrder
                 PROVE  /\ row[o].filled <= ex'[row[o].bid].filled
                        /\ Terminal(row[o].st) =>
                             row[o].st = ex'[row[o].bid].st /\ row[o].filled = ex'[row[o].bid].filled
      BY <1>1 DEF RowFollowsExchange
    <2>1. /\ row[o].filled <= ex[row[o].bid].filled
          /\ Terminal(row[o].st) =>
               row[o].st = ex[row[o].bid].st /\ row[o].filled = ex[row[o].bid].filled
      BY DEF RowFollowsExchange
    <2>2. row[o].bid \in Orders /\ Exists(row[o].bid) /\ row[o].filled \in Nat
      BY DEF Accounted, TypeOK
    <2>3. CASE row[o].bid # b
      BY <1>3, <2>1, <2>2, <2>3
    <2>4. CASE row[o].bid = b
      <3>1. row[o].filled <= ex'[b].filled
        BY <1>4, <1>6, <2>1, <2>2, <2>4
      <3>2. Terminal(row[o].st) => ex'[b] = ex[b]
        BY <1>7, <2>1, <2>4
      <3>3. QED BY <2>1, <2>4, <3>1, <3>2
    <2>5. QED BY <2>3, <2>4
  <1>9. QED BY <1>1, <1>5, <1>8 DEF NothingWithout

\* No handler moves an exchange's record of an order.
LEMMA OnlyExchangeMoves ==
  ASSUME [Next]_vars, ~Exchange
  PROVE  ex' = ex
  <1> USE DEF exchange
  <1>1. CASE Operator \/ Reconcile \/ Stop \/ UNCHANGED vars
    BY <1>1 DEF Operator, SubmitDraft, Resume, CancelLadder, CancelEverything, PruneDraft,
                CancelOrder, ResolveMissing, ResolveFound, Reconcile, Stop, vars
  <1>2. CASE Submitting \/ Canceling
    BY <1>2 DEF Submitting, SubmitRefused, SubmitPlacing, SubmitClose, SubmitSending,
                SubmitRequest, SubmitAccepted, SubmitRejected, SubmitAmbiguous, StopAt,
                Canceling, CancelNext, CancelDrop, CancelAccepted, AcceptCancel, CancelErrored
  <1>3. CASE Refresh \/ Settle
    BY <1>3 DEF Refresh, ListOpenOrders, ListingFailed, RefreshOrder, RecoverFound, RecoverParked,
                RecoverClaimed, RefreshParked, RefreshFailed,
                Settle, SettleOpen, SettleClosed, SettleFailed, Finish
  <1>4. QED BY <1>1, <1>2, <1>3 DEF Next, Handler

LEMMA FollowsStep ==
  ASSUME CarefulOperator, HandlerInv, Accounted, Follows, [Next]_vars
  PROVE  Follows'
  <1> USE ConstantsAssumption DEF Follows
  <1>1. CASE Exchange
    BY <1>1, FollowsExchange
  <1>2. CASE ~Exchange
    <2>1. ex' = ex
      BY <1>2, OnlyExchangeMoves
    <2>2. FilledInFull'
      BY <2>1 DEF FilledInFull
    <2>3. SUFFICES ASSUME NEW o \in Orders
                   PROVE  /\ row'[o].bid = NoOrder => row'[o].filled = 0
                          /\ row'[o].bid # NoOrder =>
                               /\ row'[o].filled <= ex[row'[o].bid].filled
                               /\ Terminal(row'[o].st) =>
                                    /\ row'[o].st = ex[row'[o].bid].st
                                    /\ row'[o].filled = ex[row'[o].bid].filled
      BY <2>1, <2>2 DEF RowFollowsExchange, NothingWithout
    <2>4. /\ row[o].bid = NoOrder => row[o].filled = 0
          /\ row[o].bid # NoOrder =>
               /\ row[o].filled <= ex[row[o].bid].filled
               /\ Terminal(row[o].st) =>
                    row[o].st = ex[row[o].bid].st /\ row[o].filled = ex[row[o].bid].filled
      BY DEF RowFollowsExchange, NothingWithout
    <2>5. CASE Untouched(o)
      BY <2>4, <2>5 DEF Untouched
    <2>6. CASE Drafted(o)
      <3>1. row[o].bid = NoOrder
        BY <2>6 DEF Drafted, HandlerInv, NotSent
      <3>2. QED BY <2>4, <2>6, <3>1 DEF Drafted, SameFills
    <2>7. CASE Noted(o)
      <3>1. row'[o].filled = row[o].filled
        BY <2>7 DEF Noted, SameFills
      <3>2. row'[o].bid = NoOrder => row[o].bid = NoOrder
        BY <2>7 DEF Noted
      <3>3. row'[o].bid # NoOrder => ~Terminal(row'[o].st) /\ row[o].bid \in {NoOrder, row'[o].bid}
        BY <2>7 DEF Noted, Terminal
      <3>4. row'[o].bid # NoOrder => 0 <= ex[row'[o].bid].filled
        BY <2>7 DEF Noted, HandlerInv, TypeOK
      <3>5. QED BY <2>4, <3>1, <3>2, <3>3, <3>4
    <2>8. CASE Learned(o)
      <3>1. PICK b \in Orders, reach \in {"row", "event", "all"} :
              \E r \in Reports(b) \cup StaleReports(b) : Exists(b) /\ Apply(o, b, r, reach)
        BY <2>8 DEF Learned
      <3>2. PICK r \in Reports(b) \cup StaleReports(b) : Exists(b) /\ Apply(o, b, r, reach)
        BY <3>1
      <3>3. Active(row[o].st) /\ r \in Answers
        BY <2>8, <3>2, AnswersOfExchange DEF Learned
      <3>4. CASE row'[o] = row[o]
        BY <2>4, <3>4
      <3>5. CASE row'[o].st = StatusAfter(row[o], r) /\ row'[o].bid = b /\ row'[o].filled = r.filled
        BY <3>2, <3>3, <3>5, Reading
      <3>6. QED BY <3>2, <3>3, <3>4, <3>5, ApplyWrites DEF HandlerInv
    <2>9. QED BY <2>5, <2>6, <2>7, <2>8, RowStep DEF Step
  <1>3. QED BY <1>1, <1>2

LEMMA FollowsAlways == CarefulOperator => (Spec => []Follows)
  <1> SUFFICES ASSUME CarefulOperator PROVE Spec => []Follows
    OBVIOUS
  <1>1. Inductive /\ Follows /\ [Next]_vars => Follows'
    BY FollowsStep DEF Inductive
  <1>2. QED BY InductiveAlways, FollowsInit, <1>1, PTL DEF Spec

\* A row never claims an execution the exchange did not make, and what it says
\* in the end is what the exchange says.
THEOREM RowFollowsExchangeAlways == CarefulOperator => (Spec => []RowFollowsExchange)
  <1> SUFFICES ASSUME CarefulOperator PROVE Spec => []RowFollowsExchange
    OBVIOUS
  <1>1. Follows => RowFollowsExchange
    BY DEF Follows
  <1>2. QED BY FollowsAlways, <1>1, PTL

-----------------------------------------------------------------------------
(* Accepted cancellations.                                                 *)

\* A cancellation a row waits for is one the exchange accepted.
CancelInv ==
  \A o \in Orders : row[o].st = "PENDING_CANCEL" /\ row[o].bid # NoOrder => row[o].bid \in asked

\* A cancellation once accepted is never withdrawn.
LEMMA AskedGrows ==
  ASSUME [Next]_vars
  PROVE  asked \subseteq asked'
  <1> USE DEF exchange
  <1>1. CASE Operator \/ Reconcile \/ Stop \/ UNCHANGED vars
    BY <1>1 DEF Operator, SubmitDraft, Resume, CancelLadder, CancelEverything, PruneDraft,
                CancelOrder, ResolveMissing, ResolveFound, Reconcile, Stop, vars
  <1>2. CASE Submitting \/ Canceling
    BY <1>2 DEF Submitting, SubmitRefused, SubmitPlacing, SubmitClose, SubmitSending,
                SubmitRequest, SubmitAccepted, SubmitRejected, SubmitAmbiguous, StopAt,
                Canceling, CancelNext, CancelDrop, CancelAccepted, AcceptCancel, CancelErrored
  <1>3. CASE Refresh \/ Settle
    BY <1>3 DEF Refresh, ListOpenOrders, ListingFailed, RefreshOrder, RecoverFound, RecoverParked,
                RecoverClaimed, RefreshParked, RefreshFailed,
                Settle, SettleOpen, SettleClosed, SettleFailed, Finish
  <1>4. CASE Exchange
    BY <1>4 DEF Exchange, PlaceArrives, PlaceLost, Fill, CancelCompletes, Withdrawn
  <1>5. QED BY <1>1, <1>2, <1>3, <1>4 DEF Next, Handler

LEMMA CancelStep ==
  ASSUME CarefulOperator, HandlerInv, Accounted, FilledInFull, CancelInv, [Next]_vars
  PROVE  CancelInv'
  <1> SUFFICES ASSUME NEW o \in Orders, row'[o].st = "PENDING_CANCEL", row'[o].bid # NoOrder
               PROVE  row'[o].bid \in asked'
    BY DEF CancelInv
  <1>1. row[o].st = "PENDING_CANCEL" => row[o].bid \in asked'
    BY AskedGrows DEF CancelInv, Accounted
  <1>2. CASE Untouched(o) \/ Drafted(o) \/ Noted(o)
    BY <1>1, <1>2 DEF Untouched, Drafted, Noted
  <1>3. CASE Learned(o)
    <2>1. PICK b \in Orders, reach \in {"row", "event", "all"} :
            \E r \in Reports(b) \cup StaleReports(b) :
              /\ Exists(b) /\ Apply(o, b, r, reach)
              /\ row[o].bid \in {NoOrder, b}
      BY <1>3 DEF Learned
    <2>2. PICK r \in Reports(b) \cup StaleReports(b) : Exists(b) /\ Apply(o, b, r, reach)
      BY <2>1
    <2>3. Active(row[o].st) /\ r \in Answers
      BY <1>3, <2>2, AnswersOfExchange DEF Learned
    <2>4. CASE row'[o] = row[o]
      BY <1>1, <2>4
    <2>5. CASE row'[o].st = StatusAfter(row[o], r) /\ row'[o].bid = b
      <3>1. row[o].st = "PENDING_CANCEL" \/ b \in asked
        BY <2>2, <2>3, <2>5, Reading
      <3>2. row[o].st = "PENDING_CANCEL" => row[o].bid # NoOrder
        BY DEF Accounted
      <3>3. QED BY <1>1, <2>1, <2>5, <3>1, <3>2, AskedGrows
    <2>6. QED BY <2>2, <2>3, <2>4, <2>5, ApplyWrites DEF HandlerInv
  <1>4. QED BY <1>2, <1>3, RowStep DEF Step

LEMMA CancelAlways == CarefulOperator => (Spec => []CancelInv)
  <1> SUFFICES ASSUME CarefulOperator PROVE Spec => []CancelInv
    OBVIOUS
  <1>1. Init => CancelInv
    BY DEF Init, CancelInv
  <1>2. Inductive /\ Follows /\ CancelInv /\ [Next]_vars => CancelInv'
    BY CancelStep DEF Inductive, Follows
  <1>3. QED BY InductiveAlways, FollowsAlways, <1>1, <1>2, PTL DEF Spec

\* A row waits only for a cancel its exchange accepted, and until it takes over
\* the end the exchange gave the order or park puts the order in question,
\* whatever is read late or out of order (apply, park).
THEOREM CancelIsWaitedForAlways == CarefulOperator => (Spec => CancelIsWaitedFor)
  <1> SUFFICES ASSUME CarefulOperator PROVE Spec => CancelIsWaitedFor
    OBVIOUS
  <1> DEFINE Waits == \A o \in Orders : row[o].st = "PENDING_CANCEL" =>
        /\ row[o].bid \in asked
        /\ \/ row'[o].st \in {"PENDING_CANCEL", "UNKNOWN"}
           \/ Terminal(row'[o].st) /\ row'[o].st = ex[row[o].bid].st
  <1>1. Inductive /\ Follows /\ CancelInv /\ [Next]_vars => [Waits]_vars
    <2> SUFFICES ASSUME Inductive, Follows, CancelInv, [Next]_vars,
                        NEW o \in Orders, row[o].st = "PENDING_CANCEL"
                 PROVE  /\ row[o].bid \in asked
                        /\ \/ row'[o].st \in {"PENDING_CANCEL", "UNKNOWN"}
                           \/ Terminal(row'[o].st) /\ row'[o].st = ex[row[o].bid].st
      OBVIOUS
    <2>1. HandlerInv /\ FilledInFull
      BY DEF Inductive, Follows
    <2>2. row[o].bid # NoOrder /\ row[o].bid \in asked
      BY DEF Inductive, Accounted, CancelInv
    <2>3. ladder[LadderOf[o]] # "DRAFT"
      BY <2>1 DEF HandlerInv, NotSent
    <2>4. CASE Untouched(o) \/ Drafted(o)
      BY <2>2, <2>3, <2>4 DEF Untouched, Drafted
    <2>5. CASE Noted(o)
      BY <2>2, <2>5 DEF Noted, Resting
    <2>6. CASE Learned(o)
      <3>1. PICK b \in Orders, reach \in {"row", "event", "all"} :
              /\ \E r \in Reports(b) \cup StaleReports(b) : Exists(b) /\ Apply(o, b, r, reach)
              /\ row[o].bid \in {NoOrder, b}
        BY <2>6 DEF Learned
      <3>2. PICK r \in Reports(b) \cup StaleReports(b) : Exists(b) /\ Apply(o, b, r, reach)
        BY <3>1
      <3>3. Active(row[o].st) /\ r \in Answers
        BY <2>1, <2>6, <3>2, AnswersOfExchange DEF Learned
      <3>4. row'[o] = row[o] \/ row'[o].st = StatusAfter(row[o], r)
        BY <2>1, <3>2, <3>3, ApplyWrites DEF HandlerInv
      <3>5. Terminal(StatusAfter(row[o], r)) => StatusAfter(row[o], r) = ex[b].st
        BY <2>1, <3>2, <3>3, Reading
      <3>6. StatusAfter(row[o], r) = "PENDING_CANCEL" \/ Terminal(StatusAfter(row[o], r))
        BY <3>3 DEF StatusAfter, Answers, Resting, Terminal
      <3>7. QED BY <2>2, <3>1, <3>4, <3>5, <3>6
    <2>7. QED BY <2>1, <2>2, <2>4, <2>5, <2>6, RowStep DEF Step
  <1>2. QED
    BY InductiveAlways, FollowsAlways, CancelAlways, <1>1, PTL DEF Spec, CancelIsWaitedFor

-----------------------------------------------------------------------------
(* Closing.                                                                *)

\* What makes ClosedAsFilled inductive: it is true of the rows, which hold the
\* exchange's figure once they are at their end; and nothing is filled before
\* it exists.
ClosedByRows ==
  \A l \in Ladders : ladder[l] \in {"DONE", "CANCELED"} =>
    (ladder[l] = "DONE" <=> \E o \in RungsOf(l) : row[o].filled > 0)
NothingYet == \A o \in Orders : ~Exists(o) => ex[o].filled = 0

\* Only settle closes a ladder, and nothing opens it again.
LEMMA OnlySettleCloses ==
  ASSUME HandlerInv, [Next]_vars, \A l \in Ladders : ~SettleClosed(l), NEW k \in Ladders,
         ladder'[k] \in {"DONE", "CANCELED"}
  PROVE  ladder'[k] = ladder[k]
  <1> USE DEF store
  <1>1. CASE UNCHANGED vars \/ Reconcile \/ Stop \/ Exchange
    BY <1>1 DEF vars, Reconcile, Stop,
                Exchange, PlaceArrives, PlaceLost, Fill, CancelCompletes, Withdrawn
  <1>2. CASE Operator
    BY <1>2 DEF Operator, SubmitDraft, Resume, CancelLadder, CancelEverything, CancelOrder,
                ResolveMissing, ResolveFound, PruneDraft, HandlerInv, TypeOK
  <1>3. CASE Canceling \/ Refresh
    BY <1>3 DEF Canceling, CancelNext, CancelDrop, CancelAccepted, AcceptCancel, CancelErrored,
                Refresh, ListOpenOrders, ListingFailed, RefreshOrder, RecoverFound, RecoverParked,
                RecoverClaimed, RefreshParked, RefreshFailed
  <1>4. CASE Submitting
    BY <1>4 DEF Submitting, SubmitRefused, SubmitPlacing, SubmitClose, SubmitSending,
                SubmitRequest, SubmitAccepted, SubmitRejected, SubmitAmbiguous, StopAt,
                HandlerInv, TypeOK
  <1>5. CASE Settle
    BY <1>5 DEF Settle, SettleOpen, SettleFailed, Finish
  <1>6. QED BY <1>1, <1>2, <1>3, <1>4, <1>5 DEF Next, Handler

\* What is filled at a closed ladder was filled before it was closed.
LEMMA ClosedStep ==
  ASSUME HandlerInv, ClosedByRows, [Next]_vars
  PROVE  ClosedByRows'
  <1> SUFFICES ASSUME NEW l \in Ladders, ladder'[l] \in {"DONE", "CANCELED"}
               PROVE  ladder'[l] = "DONE" <=> \E o \in RungsOf(l) : row'[o].filled > 0
    BY DEF ClosedByRows, RungsOf
  <1>1. ASSUME NEW k \in Ladders, SettleClosed(k)
        PROVE  ladder'[l] = "DONE" <=> \E o \in RungsOf(l) : row'[o].filled > 0
    <2>1. row' = row /\ ladder' = [ladder EXCEPT ![k] =
            IF \E o \in RungsOf(k) : row[o].filled > 0 THEN "DONE" ELSE "CANCELED"]
      BY <1>1 DEF SettleClosed
    <2>2. CASE l = k
      BY <2>1, <2>2 DEF HandlerInv, TypeOK
    <2>3. CASE l # k
      BY <2>1, <2>3 DEF ClosedByRows
    <2>4. QED BY <2>2, <2>3
  <1>2. CASE \A k \in Ladders : ~SettleClosed(k)
    <2>1. ladder'[l] = ladder[l]
      BY <1>2, OnlySettleCloses
    <2>2. ASSUME NEW o \in RungsOf(l) PROVE row'[o].filled = row[o].filled
      <3>1. o \in Orders /\ ladder[LadderOf[o]] \in {"DONE", "CANCELED"}
        BY <2>1 DEF RungsOf
      <3>2. ~Active(row[o].st)
        BY <3>1 DEF HandlerInv, LadderStateHolds
      <3>3. Untouched(o)
        BY <3>1, <3>2, RowStep DEF Step, Drafted, Noted, Learned
      <3>4. QED BY <3>3 DEF Untouched
    <2>3. QED BY <2>1, <2>2 DEF ClosedByRows
  <1>3. QED BY <1>1, <1>2

LEMMA NothingYetStep ==
  ASSUME HandlerInv, NothingYet, [Next]_vars
  PROVE  NothingYet'
  <1>1. CASE ~Exchange
    BY <1>1, OnlyExchangeMoves DEF NothingYet, Exists
  <1>2. CASE Exchange
    BY <1>2 DEF Exchange, PlaceArrives, PlaceLost, Fill, CancelCompletes, Withdrawn, NothingYet,
                Exists, HandlerInv, TypeOK
  <1>3. QED BY <1>1, <1>2

\* A ladder is closed as done exactly when the exchange executed some of it
\* (settle), whatever its rungs ended in.
THEOREM ClosedAsFilledAlways == CarefulOperator => (Spec => []ClosedAsFilled)
  <1> SUFFICES ASSUME CarefulOperator PROVE Spec => []ClosedAsFilled
    OBVIOUS
  <1>1. Init => ClosedByRows /\ NothingYet
    BY DEF Init, ClosedByRows, NothingYet
  <1>2. Inductive /\ ClosedByRows /\ NothingYet /\ [Next]_vars => (ClosedByRows /\ NothingYet)'
    BY ClosedStep, NothingYetStep DEF Inductive
  <1>3. Inductive /\ Follows /\ ClosedByRows /\ NothingYet => ClosedAsFilled
    <2> SUFFICES ASSUME Inductive, Follows, ClosedByRows, NothingYet,
                        NEW l \in Ladders, ladder[l] \in {"DONE", "CANCELED"}
                 PROVE  ladder[l] = "DONE" <=> \E o \in RungsOf(l) : ex[o].filled > 0
      BY DEF ClosedAsFilled
    <2>1. ASSUME NEW o \in RungsOf(l) PROVE row[o].filled = ex[o].filled
      <3>1. o \in Orders /\ ~Active(row[o].st) /\ row[o].st \in Statuses
        BY DEF RungsOf, Inductive, HandlerInv, LadderStateHolds, TypeOK
      <3>2. CASE row[o].bid = NoOrder
        <4>1. ~Exists(o)
          BY <3>1, <3>2 DEF Inductive, Accounted, Active
        <4>2. QED BY <3>1, <3>2, <4>1 DEF Follows, NothingWithout, NothingYet
      <3>3. CASE row[o].bid # NoOrder
        <4>1. row[o].bid = o
          BY <3>1, <3>3 DEF Inductive, OwnBrokerId
        <4>2. Terminal(row[o].st)
          BY <3>1, <3>3 DEF Inductive, HandlerInv, NotSent, Statuses, Active, Unresolved, Resting,
                            Terminal
        <4>3. QED BY <3>1, <3>3, <4>1, <4>2 DEF Follows, RowFollowsExchange
      <3>4. QED BY <3>2, <3>3
    <2>2. QED BY <2>1 DEF ClosedByRows
  <1>4. QED BY InductiveAlways, FollowsAlways, <1>1, <1>2, <1>3, PTL DEF Spec

-----------------------------------------------------------------------------
(* /cancel.                                                                *)

\* A rung no cancellation has anything left to do for.
Dealt(o) ==
  /\ row[o].st # "PREPARED"
  /\ Resting(row[o].st) /\ row[o].bid # NoOrder => o \in kept

\* While /cancel runs, each rung of a live ladder belongs to a ladder still to
\* come, is in hand, or has been dealt with.
SweepInv ==
  pc = "sweep" => \A o \in Orders :
    Live(LadderOf[o]) => LadderOf[o] \in left \/ o \in todo \/ Dealt(o)

\* The steps that begin /cancel or take it further.
LEMMA SweepStep ==
  ASSUME TypeOK, SweepInv, [Next]_vars
  PROVE  SweepInv'
  <1> SUFFICES ASSUME pc' = "sweep", NEW o \in Orders, Live(LadderOf[o])'
               PROVE  LadderOf[o] \in left' \/ o \in todo' \/ Dealt(o)'
    BY DEF SweepInv
  <1> USE ConstantsAssumption DEF store, process, command, exchange
  <1> DEFINE Before == LadderOf[o] \in left \/ o \in todo \/ Dealt(o)
  <1>1. ASSUME pc = "sweep", Live(LadderOf[o]) PROVE Before
    BY <1>1 DEF SweepInv
  <1>2. CASE UNCHANGED <<ladder, row, process>>
    BY <1>1, <1>2 DEF Live, Dealt
  <1>3. CASE UNCHANGED vars \/ Exchange
    BY <1>2, <1>3 DEF vars, Exchange, PlaceArrives, PlaceLost, Fill, CancelCompletes, Withdrawn
  <1>4. CASE Operator
    <2>1. CASE CancelEverything
      BY <2>1 DEF CancelEverything, Live
    <2>2. QED
      BY <1>4, <2>1 DEF Operator, SubmitDraft, Resume, CancelLadder, PruneDraft, CancelOrder,
                        ResolveMissing, ResolveFound
  <1>5. CASE Reconcile \/ Stop \/ Submitting \/ Refresh
    BY <1>5 DEF Reconcile, Stop, Idle,
                Submitting, SubmitRefused, SubmitPlacing, SubmitClose, SubmitSending,
                SubmitRequest, SubmitAccepted, SubmitRejected, SubmitAmbiguous, StopAt,
                Refresh, ListOpenOrders, ListingFailed, RefreshOrder, RecoverFound, RecoverParked,
                RecoverClaimed, RefreshParked, RefreshFailed, Refreshing
  <1>6. CASE Canceling
    <2>1. ASSUME NEW l \in Ladders, CancelNext(l)
          PROVE  LadderOf[o] \in left' \/ o \in todo' \/ Dealt(o)'
      BY <1>1, <2>1 DEF CancelNext, Withdraws, RungsOf, Withdrawable, Dealt, Live
    <2>2. ASSUME NEW p \in Orders, CancelDrop(p) \/ CancelAccepted(p)
          PROVE  LadderOf[o] \in left' \/ o \in todo' \/ Dealt(o)'
      <3>1. /\ pc = "sweep" /\ todo' = todo \ {p} /\ UNCHANGED <<ladder, left, kept>>
            /\ \E st \in {"CANCELED", "PENDING_CANCEL"} : row' = [row EXCEPT ![p] = Marked(@, st)]
        BY <2>2 DEF CancelDrop, CancelAccepted, AcceptCancel
      <3>2. QED
        BY <1>1, <3>1 DEF Marked, Identified, Dealt, Live, Resting, TypeOK
    <2>3. ASSUME NEW p \in Orders, CancelErrored(p)
          PROVE  LadderOf[o] \in left' \/ o \in todo' \/ Dealt(o)'
      BY <1>1, <2>3 DEF CancelErrored, Dealt, Live, Resting
    <2>4. QED BY <1>6, <2>1, <2>2, <2>3 DEF Canceling
  <1>7. CASE Settle
    <2>1. CASE Finish
      BY <2>1 DEF Finish, Idle
    <2>2. ASSUME NEW l \in Ladders, SettleOpen(l) \/ SettleFailed(l)
          PROVE  LadderOf[o] \in left' \/ o \in todo' \/ Dealt(o)'
      BY <1>1, <2>2 DEF SettleOpen, SettleFailed, Live, Dealt
    <2>3. ASSUME NEW l \in Ladders, SettleClosed(l)
          PROVE  LadderOf[o] \in left' \/ o \in todo' \/ Dealt(o)'
      <3>1. pc = "sweep" /\ UNCHANGED <<row, todo, left, kept>>
        BY <2>3 DEF SettleClosed
      <3>2. Live(LadderOf[o])
        BY <2>3 DEF SettleClosed, Live, TypeOK
      <3>3. QED BY <1>1, <3>1, <3>2 DEF Dealt
    <2>4. QED BY <1>7, <2>1, <2>2, <2>3 DEF Settle
  <1>8. QED BY <1>3, <1>4, <1>5, <1>6, <1>7 DEF Next, Handler

\* Only Finish takes /cancel to its end.
LEMMA SweepEnds ==
  ASSUME TypeOK, Next, pc = "sweep", pc' = "idle", faults' = faults
  PROVE  Finish
  <1> USE DEF process, store, exchange
  <1>1. ~Fault
    BY DEF Fault, TypeOK
  <1>2. ~Operator /\ ~Reconcile /\ ~Stop /\ ~Exchange
    BY <1>1 DEF Operator, SubmitDraft, Resume, CancelLadder, CancelEverything, PruneDraft,
                CancelOrder, ResolveMissing, ResolveFound, Reconcile, Stop,
                Exchange, PlaceArrives, PlaceLost, Fill, CancelCompletes, Withdrawn
  <1>3. ~Submitting /\ ~Canceling /\ ~Refresh
    BY DEF Submitting, SubmitRefused, SubmitPlacing, SubmitClose, SubmitSending,
           SubmitRequest, SubmitAccepted, SubmitRejected, SubmitAmbiguous, StopAt,
           Canceling, CancelNext, CancelDrop, CancelAccepted, AcceptCancel, CancelErrored,
           Refresh, ListOpenOrders, ListingFailed, RefreshOrder, RecoverFound, RecoverParked,
           RecoverClaimed, RefreshParked, RefreshFailed, Refreshing
  <1>4. \A l \in Ladders : ~SettleOpen(l) /\ ~SettleFailed(l) /\ ~SettleClosed(l)
    BY <1>1 DEF SettleOpen, SettleFailed, SettleClosed, Reached
  <1>5. QED BY <1>2, <1>3, <1>4 DEF Next, Handler, Settle

\* /cancel passes no ladder over, whatever stops, failures and half-sent
\* ladders came before it.
THEOREM CancelReachesAllAlways == CarefulOperator => (Spec => CancelReachesAll)
  <1> SUFFICES ASSUME CarefulOperator PROVE Spec => CancelReachesAll
    OBVIOUS
  <1> DEFINE Reaches ==
        pc = "sweep" /\ pc' = "idle" /\ faults' = faults =>
          \A o \in Orders : Live(LadderOf[o]) =>
            /\ row[o].st # "PREPARED"
            /\ ex[o].st = "OPEN" => o \in asked \cup kept \/ Unresolved(row[o].st)
  <1>1. Init => SweepInv
    BY DEF Init, SweepInv
  <1>2. Inductive /\ SweepInv /\ [Next]_vars => SweepInv'
    BY SweepStep DEF Inductive, HandlerInv
  <1>3. Inductive /\ SweepInv /\ CancelInv /\ [Next]_vars => [Reaches]_vars
    <2> SUFFICES ASSUME Inductive, SweepInv, CancelInv, Next, pc = "sweep", pc' = "idle",
                        faults' = faults, NEW o \in Orders, Live(LadderOf[o])
                 PROVE  /\ row[o].st # "PREPARED"
                        /\ ex[o].st = "OPEN" => o \in asked \cup kept \/ Unresolved(row[o].st)
      OBVIOUS
    <2>1. left = {} /\ todo = {}
      BY SweepEnds DEF Finish, Inductive, HandlerInv
    <2>2. Dealt(o)
      BY <2>1 DEF SweepInv
    <2>3. ASSUME ex[o].st = "OPEN", ~Unresolved(row[o].st) PROVE o \in asked \cup kept
      <3>1. Active(row[o].st) /\ row[o].bid = o
        BY <2>3 DEF Inductive, Accounted, OwnBrokerId, Exists
      <3>2. CASE Resting(row[o].st)
        BY <2>2, <3>1, <3>2, ConstantsAssumption DEF Dealt
      <3>3. CASE row[o].st = "PENDING_CANCEL"
        BY <3>1, <3>3, ConstantsAssumption DEF CancelInv
      <3>4. QED BY <2>2, <2>3, <3>1, <3>2, <3>3 DEF Active, Dealt
    <2>4. QED BY <2>2, <2>3 DEF Dealt
  <1>4. QED
    BY InductiveAlways, CancelAlways, <1>1, <1>2, <1>3, PTL DEF Spec, CancelReachesAll

-----------------------------------------------------------------------------
(* Orders implements OrderLife: every step is one the promise allows, or   *)
(* changes nothing the promise speaks of.                                  *)

Alike(o) == Life(o)' = Life(o) /\ row'[o].filled = row[o].filled

-----------------------------------------------------------------------------
(* What rows and lives have to do with each other.                         *)

\* An order that was never sent, in doubt, or known; it is not deleted.
LEMMA ActiveLife ==
  ASSUME HandlerInv, Accounted, NEW o \in Orders, Active(row[o].st)
  PROVE  /\ ladder[LadderOf[o]] # "GONE"
         /\ row[o].st = "PREPARED" => Life(o) = "unsent"
         /\ row[o].st # "PREPARED" =>
              Life(o) = IF row[o].bid = NoOrder THEN "in doubt" ELSE "known"
  <1>1. ladder[LadderOf[o]] # "GONE" /\ ~Terminal(row[o].st)
    BY DEF HandlerInv, LadderStateHolds, Active, Unresolved, Resting, Terminal
  <1>2. row[o].st = "PREPARED" => row[o].bid = NoOrder /\ ~InDoubt(o)
    BY DEF HandlerInv, NotSent, InDoubt, Unresolved
  <1>3. row[o].st # "PREPARED" /\ row[o].bid = NoOrder => InDoubt(o)
    BY DEF Accounted, InDoubt, Active, Unresolved, Resting
  <1>4. row[o].bid # NoOrder => ~InDoubt(o)
    BY DEF InDoubt
  <1>5. QED BY <1>1, <1>2, <1>3, <1>4 DEF Life

\* Only PruneDrafts deletes a ladder, and nothing brings one back.
LEMMA OnlyPruneDeletes ==
  ASSUME HandlerInv, [Next]_vars, \A l \in Ladders : ~PruneDraft(l), NEW k \in Ladders
  PROVE  ladder'[k] = "GONE" <=> ladder[k] = "GONE"
  <1> USE DEF store
  <1>1. CASE UNCHANGED vars \/ Reconcile \/ Stop \/ Exchange
    BY <1>1 DEF vars, Reconcile, Stop,
                Exchange, PlaceArrives, PlaceLost, Fill, CancelCompletes, Withdrawn
  <1>2. CASE Operator
    BY <1>2 DEF Operator, SubmitDraft, Resume, CancelLadder, CancelEverything, CancelOrder,
                ResolveMissing, ResolveFound
  <1>3. CASE Canceling \/ Refresh
    BY <1>3 DEF Canceling, CancelNext, CancelDrop, CancelAccepted, AcceptCancel, CancelErrored,
                Refresh, ListOpenOrders, ListingFailed, RefreshOrder, RecoverFound, RecoverParked,
                RecoverClaimed, RefreshParked, RefreshFailed
  <1>4. CASE Submitting
    <2>1. ASSUME NEW l \in Ladders, SubmitPlacing(l) \/ SubmitClose(l)
          PROVE  ladder'[k] = "GONE" <=> ladder[k] = "GONE"
      <3>1. ladder[l] \in {"DRAFT", "FAILED", "PLACING"}
        BY <2>1 DEF SubmitPlacing, SubmitClose, HandlerInv, HandInOrder, Submission
      <3>2. QED BY <2>1, <3>1 DEF SubmitPlacing, SubmitClose, HandlerInv, TypeOK
    <2>2. QED
      BY <1>4, <2>1 DEF Submitting, SubmitRefused, SubmitSending, SubmitRequest, SubmitAccepted,
                        SubmitRejected, SubmitAmbiguous, StopAt
  <1>5. CASE Settle
    <2>1. ASSUME NEW l \in Ladders, SettleClosed(l)
          PROVE  ladder'[k] = "GONE" <=> ladder[k] = "GONE"
      BY <2>1 DEF SettleClosed, Closeable, Live, HandlerInv, TypeOK
    <2>2. QED BY <1>5, <2>1 DEF Settle, SettleOpen, SettleFailed, Finish
  <1>6. QED BY <1>1, <1>2, <1>3, <1>4, <1>5 DEF Next, Handler

\* But for drafts, a step writes one row at most.
LEMMA OneRowAtATime ==
  ASSUME HandlerInv, [Next]_vars, \A l \in Ladders : ~SubmitDraft(l) /\ ~PruneDraft(l)
  PROVE  row' = row \/ \E p \in Orders : \A o \in Orders : o # p => row'[o] = row[o]
  <1> USE DEF store, exchange, HandlerInv, TypeOK
  <1>1. CASE UNCHANGED vars \/ Reconcile \/ Stop \/ Exchange \/ Settle
    BY <1>1 DEF vars, Reconcile, Stop,
                Exchange, PlaceArrives, PlaceLost, Fill, CancelCompletes, Withdrawn,
                Settle, SettleOpen, SettleClosed, SettleFailed, Finish
  <1>2. CASE Operator
    BY <1>2 DEF Operator, Resume, CancelLadder, CancelEverything, CancelOrder, ResolveMissing,
                ResolveFound, Apply
  <1>3. CASE Submitting
    BY <1>3 DEF Submitting, SubmitRefused, SubmitPlacing, SubmitClose, SubmitSending,
                SubmitRequest, SubmitAccepted, SubmitRejected, SubmitAmbiguous, StopAt
  <1>4. CASE Canceling
    BY <1>4 DEF Canceling, CancelNext, CancelDrop, CancelAccepted, AcceptCancel, CancelErrored
  <1>5. CASE Refresh
    BY <1>5 DEF Refresh, ListOpenOrders, ListingFailed, RefreshOrder, RecoverFound, RecoverParked,
                RecoverClaimed, RefreshParked, RefreshFailed, Apply
  <1>6. QED BY <1>1, <1>2, <1>3, <1>4, <1>5 DEF Next, Handler

\* A row and its ladder left alone mean the same life.
LEMMA SameLife ==
  ASSUME NEW o \in Orders, row'[o] = row[o],
         ladder'[LadderOf[o]] = "GONE" <=> ladder[LadderOf[o]] = "GONE"
  PROVE  Alike(o)
  BY DEF Alike, Life, InDoubt

-----------------------------------------------------------------------------
(* The steps of the promise.                                               *)

LEMMA PromiseStutter ==
  ASSUME \A o \in Orders : Alike(o)
  PROVE  UNCHANGED Promise!vars
  BY DEF Alike, Promise!vars

LEMMA PromiseAttempt ==
  ASSUME NEW p \in Orders, \A o \in Orders : o # p => Alike(o),
         Life(p) = "unsent", Life(p)' = "in doubt", row'[p].filled = row[p].filled,
         \A o \in Orders : Venue(o) = Venue(p) => Life(o) # "in doubt"
  PROVE  Promise!Next
  <1>1. Promise!Attempt(p)
    BY DEF Alike, Promise!Attempt
  <1>2. QED BY <1>1 DEF Promise!Next

LEMMA PromiseLearn ==
  ASSUME NEW p \in Orders, \A o \in Orders : o # p => Alike(o),
         Life(p) \in {"in doubt", "known"}, Life(p)' \in {"known", "settled"},
         row'[p].filled \in row[p].filled..Quantity
  PROVE  Promise!Next
  <1>1. Promise!Learn(p)
    BY DEF Alike, Promise!Learn
  <1>2. QED BY <1>1 DEF Promise!Next

LEMMA PromiseGiveUp ==
  ASSUME NEW gone \in SUBSET Orders, \A o \in Orders \ gone : Alike(o),
         \A o \in gone : /\ Life(o) \in {"unsent", "in doubt", "settled"}
                         /\ Life(o)' = "settled" /\ row'[o].filled = row[o].filled
  PROVE  Promise!Next
  <1>1. Promise!GiveUp(gone)
    BY DEF Alike, Promise!GiveUp
  <1>2. QED BY <1>1 DEF Promise!Next

-----------------------------------------------------------------------------
(* What the steps of Orders are to the promise.                            *)

\* The rows of a draft that is submitted are as unsent as before.
LEMMA DraftIsSilent ==
  ASSUME HandlerInv, NEW l \in Ladders, SubmitDraft(l)
  PROVE  UNCHANGED Promise!vars
  <1>1. ASSUME NEW o \in Orders PROVE Alike(o)
    <2>1. CASE LadderOf[o] = l
      BY <2>1 DEF SubmitDraft, RungsOf, Marked, Identified, Alike, Life, InDoubt, Terminal,
                  Unresolved, HandlerInv, NotSent
    <2>2. CASE LadderOf[o] # l
      BY <2>2, SameLife DEF SubmitDraft
    <2>3. QED BY <2>1, <2>2
  <1>2. QED BY <1>1, PromiseStutter

\* A deleted draft gives its orders up.
LEMMA PruneGivesUp ==
  ASSUME HandlerInv, NEW l \in Ladders, PruneDraft(l)
  PROVE  Promise!Next
  <1> USE ConstantsAssumption
  <1>1. ASSUME NEW o \in RungsOf(l)
        PROVE  /\ Life(o) \in {"unsent", "in doubt", "settled"}
               /\ Life(o)' = "settled" /\ row'[o].filled = row[o].filled
    <2>1. o \in Orders /\ LadderOf[o] = l /\ ladder[l] = "DRAFT" /\ ladder'[l] = "GONE"
      BY DEF RungsOf, PruneDraft, HandlerInv, TypeOK
    <2>2. row'[o].filled = row[o].filled /\ row'[o].st = "ABSENT"
      BY <2>1 DEF PruneDraft, Marked, Identified
    <2>3. Life(o)' = "settled"
      BY <2>1, <2>2 DEF Life, InDoubt, Active, Unresolved, Resting
    <2>4. row[o].bid = NoOrder
      BY <2>1 DEF HandlerInv, NotSent
    <2>5. Life(o) \in {"unsent", "in doubt", "settled"}
      BY <2>4 DEF Life
    <2>6. QED BY <2>2, <2>3, <2>5
  <1>2. ASSUME NEW o \in Orders \ RungsOf(l) PROVE Alike(o)
    BY SameLife DEF PruneDraft, RungsOf, HandlerInv, TypeOK
  <1>3. RungsOf(l) \in SUBSET Orders
    BY DEF RungsOf
  <1>4. QED BY <1>1, <1>2, <1>3, PromiseGiveUp

\* A status written without a reading: an attempt, a parked order, one given
\* up, or nothing the promise speaks of.
LEMMA NotedKeepsPromise ==
  ASSUME CarefulOperator, HandlerInv, Accounted, NEW p \in Orders, Noted(p),
         ladder'[LadderOf[p]] = "GONE" <=> ladder[LadderOf[p]] = "GONE",
         \A o \in Orders : o # p => Alike(o)
  PROVE  Promise!Next \/ UNCHANGED Promise!vars
  <1> USE ConstantsAssumption
  <1>1. ladder'[LadderOf[p]] # "GONE" /\ row'[p].filled = row[p].filled
    BY ActiveLife DEF Noted, SameFills
  <1>2. row'[p].filled \in row[p].filled..Quantity
    BY <1>1 DEF HandlerInv, TypeOK
  <1>3. CASE row[p].bid = NoOrder /\ row'[p].bid = NoOrder /\ row'[p].st \in {"CANCELED", "REJECTED"}
    <2>1. Life(p) \in {"unsent", "in doubt"}
      BY <1>3, ActiveLife DEF Noted
    <2>2. Life(p)' = "settled"
      BY <1>3 DEF Life, Terminal, InDoubt, Unresolved
    <2>3. QED BY <1>1, <2>1, <2>2, PromiseGiveUp, {p} \in SUBSET Orders
  <1>4. CASE /\ row[p].bid = NoOrder /\ row'[p].bid = NoOrder
             /\ row'[p].st = "UNKNOWN" /\ row[p].st # "PREPARED"
    <2>1. Life(p) = "in doubt"
      BY <1>4, ActiveLife DEF Noted
    <2>2. Life(p)' = "in doubt"
      BY <1>1, <1>4 DEF Life, Terminal, InDoubt, Unresolved
    <2>3. QED BY <1>1, <2>1, <2>2, PromiseStutter DEF Alike
  <1>5. CASE row[p].bid = NoOrder /\ row'[p].bid = NoOrder /\ row'[p].st = "SENDING" /\ Attempted(p)
    <2>1. Life(p) = "unsent"
      BY <1>5, ActiveLife DEF Noted, Attempted
    <2>2. Life(p)' = "in doubt"
      BY <1>1, <1>5 DEF Life, Terminal, InDoubt, Unresolved
    <2>3. \A o \in Orders : Venue(o) = Venue(p) => Life(o) # "in doubt"
      BY <1>5 DEF Attempted, Life, InDoubt
    <2>4. QED BY <1>1, <2>1, <2>2, <2>3, PromiseAttempt
  <1>6. CASE /\ Resting(row[p].st) /\ row'[p].st = "PENDING_CANCEL" /\ row'[p].bid = row[p].bid
    <2>1. row[p].bid # NoOrder /\ row[p].st # "PREPARED"
      BY <1>6 DEF Accounted, Resting
    <2>2. Life(p) = "known"
      BY <2>1, ActiveLife DEF Noted
    <2>3. Life(p)' = "known"
      BY <1>1, <1>6, <2>1 DEF Life, Terminal, InDoubt, Unresolved, Active
    <2>4. QED BY <1>1, <2>2, <2>3, PromiseStutter DEF Alike
  <1>7. CASE /\ row'[p].st \in {"UNKNOWN", "PENDING"} /\ row[p].st # "PREPARED"
             /\ row'[p].bid \in Orders
    <2>1. Life(p) \in {"in doubt", "known"}
      BY <1>7, ActiveLife DEF Noted
    <2>2. Life(p)' = "known"
      BY <1>1, <1>7 DEF Life, Terminal, InDoubt, Unresolved, Resting, Active
    <2>3. QED BY <1>2, <2>1, <2>2, PromiseLearn
  <1>8. QED BY <1>3, <1>4, <1>5, <1>6, <1>7 DEF Noted

\* A reading teaches, or changes nothing.
LEMMA LearnedKeepsPromise ==
  ASSUME HandlerInv, Accounted, NEW p \in Orders, Learned(p),
         ladder'[LadderOf[p]] = "GONE" <=> ladder[LadderOf[p]] = "GONE",
         \A o \in Orders : o # p => Alike(o)
  PROVE  Promise!Next \/ UNCHANGED Promise!vars
  <1> USE ConstantsAssumption
  <1>1. PICK b \in Orders, reach \in {"row", "event", "all"} :
          \E r \in Reports(b) \cup StaleReports(b) : Exists(b) /\ Apply(p, b, r, reach)
    BY DEF Learned
  <1>2. PICK r \in Answers : Apply(p, b, r, reach)
    BY <1>1, AnswersOfExchange
  <1>3. CASE row'[p] = row[p]
    BY <1>3, SameLife, PromiseStutter
  <1>4. CASE row'[p] # row[p]
    <2>1. /\ row'[p].st \in {"PENDING", "PARTIAL_FILLED", "PENDING_CANCEL", "FILLED", "CANCELED",
                             "REJECTED"}
          /\ row'[p].bid = b /\ row'[p].filled = r.filled
      BY <1>2, <1>4, ApplyWrites DEF Learned, HandlerInv
    <2>2. ~OutOfOrder(row[p], r)
      BY <1>2, <1>4 DEF Apply
    <2>3. row'[p].filled \in row[p].filled..Quantity
      BY <2>1, <2>2 DEF OutOfOrder, Answers, HandlerInv, TypeOK
    <2>4. Life(p) \in {"in doubt", "known"} /\ ladder'[LadderOf[p]] # "GONE"
      BY ActiveLife DEF Learned
    <2>5. Life(p)' \in {"known", "settled"}
      BY <2>1, <2>4 DEF Life, Terminal, InDoubt, Unresolved, Resting, Active
    <2>6. QED BY <2>3, <2>4, <2>5, PromiseLearn
  <1>5. QED BY <1>3, <1>4

LEMMA KeepsPromise ==
  ASSUME CarefulOperator, HandlerInv, Accounted, [Next]_vars
  PROVE  [Promise!Next]_(Promise!vars)
  <1> USE ConstantsAssumption
  <1>1. CASE \E l \in Ladders : SubmitDraft(l) \/ PruneDraft(l)
    BY <1>1, DraftIsSilent, PruneGivesUp
  <1>2. CASE \A l \in Ladders : ~SubmitDraft(l) /\ ~PruneDraft(l)
    <2>1. \A o \in Orders : ladder'[LadderOf[o]] = "GONE" <=> ladder[LadderOf[o]] = "GONE"
      BY <1>2, OnlyPruneDeletes
    <2>2. CASE row' = row
      BY <2>1, <2>2, SameLife, PromiseStutter
    <2>3. CASE row' # row
      <3>1. PICK p \in Orders : \A o \in Orders : o # p => row'[o] = row[o]
        BY <1>2, <2>3, OneRowAtATime
      <3>2. \A o \in Orders : o # p => Alike(o)
        BY <2>1, <3>1, SameLife
      <3>3. CASE Untouched(p)
        BY <2>1, <3>2, <3>3, SameLife, PromiseStutter DEF Untouched
      <3>4. ~Drafted(p)
        BY <1>2 DEF Drafted
      <3>5. QED
        BY <2>1, <3>2, <3>3, <3>4, RowStep, NotedKeepsPromise, LearnedKeepsPromise DEF Step
    <2>4. QED BY <2>2, <2>3
  <1>3. QED BY <1>1, <1>2

\* The promise holds from the start.
LEMMA PromiseInit == Init => Promise!Init
  <1> SUFFICES ASSUME Init PROVE Promise!Init
    OBVIOUS
  <1>1. ASSUME NEW o \in Orders PROVE Life(o) = "unsent" /\ row[o].filled = 0
    <2>1. row[o].st = "ABSENT" /\ row[o].bid = NoOrder /\ row[o].filled = 0
      BY DEF Init
    <2>2. ladder[LadderOf[o]] = "DRAFT"
      BY ConstantsAssumption DEF Init
    <2>3. QED
      BY <2>1, <2>2 DEF Life, Terminal, InDoubt, Unresolved
  <1>2. QED BY <1>1 DEF Promise!Init

\* internal/orders keeps its promise: an order is attempted at most once, never
\* while another at its venue is in doubt, its fills only grow, and what is
\* settled stays settled, whatever fails.
THEOREM OrderLifeImplemented == CarefulOperator => (Spec => ImplementsOrderLife)
  <1> SUFFICES ASSUME CarefulOperator PROVE Spec => ImplementsOrderLife
    OBVIOUS
  <1>1. Inductive /\ [Next]_vars => [Promise!Next]_(Promise!vars)
    BY KeepsPromise DEF Inductive
  <1>2. QED
    BY InductiveAlways, PromiseInit, <1>1, PTL DEF Spec, ImplementsOrderLife, Promise!Spec
=============================================================================
