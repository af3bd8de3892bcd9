------------------------------- MODULE Calls -------------------------------
(***************************************************************************)
(* Requests to the exchanges, one at a time: whoever makes one waits for   *)
(* its answer (app.Run is one goroutine).  What becomes of an order at its *)
(* exchange goes on without regard to who waits.                           *)
(*                                                                         *)
(* Time passes in ticks.  What runs out is a countdown, so that only its   *)
(* remaining ticks are state.                                              *)
(***************************************************************************)
EXTENDS Naturals, FiniteSets, Sequences

CONSTANTS
  Orders,    \* orders to place
  Enabled,   \* the venues the operator has switched on
  NoOrder,   \* what a call that places none names
  Timeout    \* ticks a request waits for its answer (http.Client, 15 s)

VARIABLES
  call,  \* the call under way: its client, purpose, venue, order, attempt, stage
         \* and the ticks left of a wait or of the time to answer
  fate,  \* what became of each order at its exchange
  said   \* what Place returned for it

asking == <<call, fate, said>>

Venues == {"toss", "upbit_krw", "upbit_usdt"}

ASSUME CallsAssumption ==
  /\ NoOrder \notin Orders
  /\ Enabled \subseteq Venues
  /\ Timeout \in Nat

\* Upbit's clients, one per key pair (trading, the personal pocket, transfers),
\* and the one of Toss.
Roles   == {"cotrader", "main", "admin"}
Clients == Roles \cup {"toss"}

\* The resting orders, one order, the list of accounts, something of one account,
\* the history of transfers, an order to place.
Purposes == {"orders", "lookup", "accounts", "account", "history", "place"}

Stages == {"none", "throttle", "issuing", "authorized", "sleep", "limiter", "sending", "ok", "failed"}

\* What is asked for: the venue and the order matter when one is placed.
Call(client, what)     == [client |-> client, what |-> what, venue |-> "toss", order |-> NoOrder]
PlaceCall(venue, o)    == [client |-> IF venue = "toss" THEN "toss" ELSE "cotrader",
                           what |-> "place", venue |-> venue, order |-> o]
Begun(spec, stage, left) == [client |-> spec.client, what |-> spec.what, venue |-> spec.venue,
                             order |-> spec.order, attempt |-> 1, stage |-> stage, left |-> left]

NoCall == Begun(Call("toss", "orders"), "none", 0)

Free         == call.stage = "none"
Placing      == call.what = "place"
At(stage)    == call.stage = stage
Move(stage, left) == call' = [call EXCEPT !.stage = stage, !.left = left]

\* The other end has this long to answer.
InFlight == call.stage \in {"issuing", "sending"}

-----------------------------------------------------------------------------
(* What an exchange does with an order, and what it can answer.            *)

Arrives(o) ==
  /\ fate[o] = "travelling"
  /\ \E f \in {"deciding", "refused"} : fate' = [fate EXCEPT ![o] = f]
  /\ UNCHANGED <<call, said>>

Decided(o) ==
  /\ fate[o] = "deciding"
  /\ \E f \in {"made", "refused"} : fate' = [fate EXCEPT ![o] = f]
  /\ UNCHANGED <<call, said>>

\* A made order is answered 2xx, legibly or not; "request-in-progress" says
\* that Toss has not decided; a refusal is a 4xx, for the rate among others.
\* Any request may end without an answer or in a 5xx.
AnswersTo(f) ==
  {"none", "5xx"} \cup CASE f = "made"     -> {"2xx", "garbled"}
                         [] f = "deciding" -> {"in-progress"}
                         [] f = "refused"  -> {"4xx", "429"}
                         [] OTHER          -> {}

\* A read may be answered in any of these ways.
Answers ==
  IF Placing THEN AnswersTo(fate[call.order])
  ELSE {"none", "5xx", "2xx", "garbled", "4xx", "429"}

-----------------------------------------------------------------------------
(* What a caller is told.                                                  *)

\* The request leaves.
Leaves ==
  /\ Move("sending", Timeout)
  /\ fate' = IF Placing THEN [fate EXCEPT ![call.order] = "travelling"] ELSE fate
  /\ UNCHANGED said

Tells(word) == said' = IF Placing THEN [said EXCEPT ![call.order] = word] ELSE said

Succeeds == Move("ok", 0) /\ Tells("accepted") /\ UNCHANGED fate

\* An error, ambiguous or not.
Fails(ambiguous) ==
  Move("failed", 0) /\ Tells(IF ambiguous THEN "ambiguous" ELSE "definite") /\ UNCHANGED fate

\* An error before anything left.
FailsUnsent ==
  /\ Move("failed", 0) /\ Tells("definite")
  /\ fate' = IF Placing THEN [fate EXCEPT ![call.order] = "refused"] ELSE fate

\* The operator has switched the venue off: new exposure is refused by the
\* transport itself.
Blocked ==
  /\ call.stage \in {"throttle", "limiter"} /\ call.attempt = 1
  /\ Placing /\ call.venue \notin Enabled
  /\ FailsUnsent

Allowed == Placing => call.venue \in Enabled

CallsInit ==
  /\ call = NoCall
  /\ fate = [o \in Orders |-> "unasked"]
  /\ said = [o \in Orders |-> "nothing"]

CallsTypeOK ==
  /\ call \in [client : Clients, what : Purposes, venue : Venues,
               order : Orders \cup {NoOrder}, attempt : 1..3, stage : Stages, left : Nat]
  /\ fate \in [Orders -> {"unasked", "asked", "travelling", "deciding", "made", "refused"}]
  /\ said \in [Orders -> {"nothing", "accepted", "definite", "ambiguous"}]
=============================================================================
