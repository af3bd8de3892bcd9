-------------------------------- MODULE Loop --------------------------------
(***************************************************************************)
(* The one goroutine (app.Run) with the calls its work makes: ticks come   *)
(* while it is busy and wait, select picks one when it is free, a handler  *)
(* works through its tasks, and a task through its calls.                  *)
(*                                                                         *)
(* A task is what one client is asked for: its resting orders and lookups  *)
(* of some of them (Reconcile), the history of transfers (Settle), its     *)
(* account (accounts.Refresh).  An error ends a task and the handler goes  *)
(* on to the next one.  The rows these calls lead to are in Orders and     *)
(* Transfers, the ticks that call no exchange in Telegram and              *)
(* SingleInstance.                                                         *)
(***************************************************************************)
EXTENDS TossClient, UpbitClient

CONSTANTS
  Connected,    \* the clients with credentials
  Working,      \* the clients with an active order, or a transfer in doubt, always
  AccountReads, \* requests that read one Toss account (five in Snapshot)
  MaxLookups,   \* bound: orders of a client that need a lookup in one cycle
  MaxRestarts   \* bound: how often the process is stopped

ASSUME LoopAssumption ==
  /\ Connected \subseteq Clients /\ Working \subseteq Connected \ {"main"}
  /\ AccountReads \in Nat /\ MaxLookups \in [Clients -> Nat] /\ MaxRestarts \in Nat

VARIABLES
  due,      \* ticks that wait for the loop
  work,     \* tasks the handler has still to begin
  calls,    \* calls the task has still to make
  restarts

loop == <<due, work, calls>>
vars == <<asking, toss, upbit, loop, restarts>>

Ticks == {"reconcile", "balances"}

Task(client, what) == [client |-> client, what |-> what]

\* What is not connected is passed over.
IfConnected(client, what) == IF client \in Connected THEN <<Task(client, what)>> ELSE <<>>

\* A client is asked only while there is something to ask for: always, at Working.
IfActive(client, what) ==
  (IF client \in Working THEN {} ELSE {<<>>}) \cup {IfConnected(client, what)}

\* A venue is listed while one of its orders is active.
Listings(client) == IfActive(client, "orders")

\* Settle asks for the history while a transfer is in doubt.
Settlements == IfActive("admin", "history")

\* Reconcile goes through the venues in no particular order (the two of Upbit,
\* which share a client, count as one), Refresh through the accounts as written.
Programs(tick) ==
  IF tick = "reconcile"
  THEN UNION {{first \o second \o settling, second \o first \o settling} :
                first \in Listings("toss"), second \in Listings("cotrader"),
                settling \in Settlements}
  ELSE {IfConnected("toss", "account") \o IfConnected("cotrader", "account")
          \o IfConnected("main", "account")}

\* What a tick always has to do.
TasksOf(tick) ==
  LET tasks(program) == {program[i] : i \in DOMAIN program}
      all == UNION {tasks(program) : program \in Programs(tick)}
  IN {task \in all : \A program \in Programs(tick) : task \in tasks(program)}

\* A listing decides which orders are looked up one by one (see Orders);
\* Snapshot lists the accounts and then reads the chosen one.
CallsFor(task) ==
  LET first == Call(task.client, task.what)
  IN CASE task.what = "orders" ->
            {<<first>> \o [i \in 1..n |-> Call(task.client, "lookup")] : n \in 0..MaxLookups[task.client]}
       [] task = Task("toss", "account") ->
            {<<Call("toss", "accounts")>> \o [i \in 1..AccountReads |-> first]}
       [] OTHER -> {<<first>>}

Idle == work = <<>> /\ calls = <<>> /\ Free

-----------------------------------------------------------------------------
(* Time.                                                                   *)

Less(n) == IF n > 0 THEN n - 1 ELSE 0

\* An answer is not waited for beyond its time, and a token just received is
\* in the request that follows.  One that will not be sent again is forgotten.
Passes ==
  /\ InFlight => call.left > 0
  /\ ~At("authorized")
  /\ call' = [call EXCEPT !.left = Less(@)]
  /\ lease' = Less(lease)
  /\ IF lease' = 0 /\ ~(Toss /\ At("sending"))
     THEN life' = 0 /\ revoked' = FALSE
     ELSE life' = Less(life) /\ UNCHANGED revoked
  /\ pause' = [role \in Roles |-> Less(pause[role])] /\ banned' = Less(banned)
  /\ UNCHANGED <<fate, said, seq, used, loop, restarts>>

\* A ticker keeps one tick for a loop that is busy and drops the others.
TickComes(tick) ==
  /\ due' = due \cup {tick}
  /\ UNCHANGED <<asking, toss, upbit, work, calls, restarts>>

-----------------------------------------------------------------------------
(* Handlers.                                                               *)

Serve(tick) ==
  /\ Idle /\ tick \in due
  /\ due' = due \ {tick}
  /\ work' \in Programs(tick)
  /\ UNCHANGED <<asking, toss, upbit, calls, restarts>>

\* An update that sends an order.  Orders writes down that it asks before it
\* does, so no order is asked for again, by this process or a later one.
PlaceOrder(o) ==
  /\ Idle /\ fate[o] = "unasked"
  /\ fate' = [fate EXCEPT ![o] = "asked"]
  /\ \E venue \in Venues :
       /\ PlaceCall(venue, o).client \in Connected
       /\ calls' = <<PlaceCall(venue, o)>>
  /\ UNCHANGED <<call, said, toss, upbit, due, work, restarts>>

\* What is left of the task, or what the next one comes to.
Upcoming == IF calls # <<>> THEN {calls} ELSE CallsFor(Head(work))

BeginCall ==
  /\ Free /\ ~Idle
  /\ \E run \in Upcoming :
       LET next == Head(run)
       IN /\ call' = Begun(next, IF next.client = "toss" THEN "throttle" ELSE "limiter",
                           Held(next.client))
          /\ calls' = Tail(run)
  /\ work' = IF calls = <<>> THEN Tail(work) ELSE work
  /\ UNCHANGED <<fate, said, toss, upbit, due, restarts>>

\* Mutant: an error ends the handler.
AfterError_Gone(tasks) == <<>>

\* Errors are collected; the next task goes ahead, and so does the next lookup.
AfterError(tasks) == tasks

EndCall ==
  /\ call.stage \in {"ok", "failed"}
  /\ call' = NoCall
  /\ IF At("ok") \/ call.what = "lookup" THEN UNCHANGED <<calls, work>>
     ELSE calls' = <<>> /\ work' = AfterError(work)
  /\ UNCHANGED <<fate, said, toss, upbit, due, restarts>>

\* A stop takes along all that is not written down; Run begins with a refresh.
Restart ==
  /\ restarts < MaxRestarts /\ restarts' = restarts + 1
  /\ call' = NoCall /\ calls' = <<>>
  /\ work' \in Programs("balances")
  /\ due' = {}
  /\ lease' = 0 /\ life' = 0 /\ revoked' = FALSE
  /\ seq' = NoAccount /\ used' = {}
  /\ pause' = [role \in Roles |-> 0] /\ banned' = 0
  /\ UNCHANGED <<fate, said>>

-----------------------------------------------------------------------------
Init ==
  /\ CallsInit /\ TossInit /\ UpbitInit
  /\ work \in Programs("balances")
  /\ due = {} /\ calls = <<>> /\ restarts = 0

Others == UNCHANGED <<loop, restarts>>

ClientStep == (TossStep /\ UNCHANGED upbit /\ Others) \/ (UpbitStep /\ UNCHANGED toss /\ Others)

Exchange ==
  /\ \/ Revoke
     \/ \E o \in Orders : (Arrives(o) \/ Decided(o)) /\ UNCHANGED toss
  /\ UNCHANGED upbit /\ Others

Progress == ClientStep \/ BeginCall \/ EndCall

Next ==
  \/ Passes \/ Progress \/ Exchange \/ Restart
  \/ \E tick \in Ticks : TickComes(tick) \/ Serve(tick)
  \/ \E o \in Orders : PlaceOrder(o)

Spec == Init /\ [][Next]_vars

\* Time passes and with it the tickers fire, the goroutine runs on, and select
\* picks at random among what is ready: no tick is passed over for ever.
FairSpec ==
  /\ Spec
  /\ WF_vars(Passes) /\ WF_vars(Progress)
  /\ \A tick \in Ticks : WF_vars(TickComes(tick)) /\ SF_vars(Serve(tick))

Tasks    == [client : Clients, what : {"orders", "account", "history"}]
Requests == [client : Clients, what : Purposes, venue : Venues, order : Orders \cup {NoOrder}]

TypeOK ==
  /\ CallsTypeOK /\ TossTypeOK /\ UpbitTypeOK
  /\ due \subseteq Ticks
  /\ work \in Seq(Tasks) /\ calls \in Seq(Requests)
  /\ restarts \in 0..MaxRestarts

-----------------------------------------------------------------------------
(* Correctness.                                                            *)

\* What has become of an order, or may yet.
Outcome(f) == CASE f = "unasked" -> "unasked"
                [] f = "made"    -> "made"
                [] f = "refused" -> "never"
                [] OTHER         -> "open"

\* What the order executor is promised (see Placement).
Promise == INSTANCE Placement WITH fate <- [o \in Orders |-> Outcome(fate[o])]

\* The clients keep the promise of Place: an order is requested once, though
\* reads are retried, and an error that is not ambiguous, whatever the reason
\* for it, is the end of it, though an exchange may still be deciding.
ImplementsPlacement == Promise!Spec

\* The types; and the silence Upbit asks for is kept.
LoopOK == TypeOK /\ CooldownHolds

\* The first call of the task is under way.
InHand(task) ==
  /\ ~Free /\ call.client = task.client
  /\ call.what = IF task = Task("toss", "account") THEN "accounts" ELSE task.what

\* Every exchange is read again and again (Run, Reconcile, Refresh), however
\* long the calls before wait for tokens, limits and answers that do not come,
\* and even if they fail every time.
EverySourceIsRead == \A tick \in Ticks : \A task \in TasksOf(tick) : []<>InHand(task)
=============================================================================
