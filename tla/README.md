# A verification project for cotrader

cotrader is a Telegram bot that spreads one order over a price range (a *ladder* of limit
orders, its *rungs*) at Toss Securities or Upbit, watches the orders until they end, and moves
assets between the operator's own Upbit pockets.  One process runs it, one person uses it, and
MySQL keeps everything that must survive a crash.  Nothing in it may be done twice, forgotten or
reported falsely, although requests time out with their outcome unknown, exchanges answer late
and out of order, and the process can stop between any two writes.

This directory holds TLA+ models of that program, the TLC configurations that check them and
TLAPS proofs about all of it.  `PROJECT.json` maps every definition to the lines it
models and lists the runs, the mutants each property was tried against, the findings, the
hazards and the theorems.

Contents: [Inventory](#inventory) · [Modules](#modules) · [Orders](#orders) ·
[Transfers](#transfers) · [Draft](#draft) · [Calls and the loop](#calls-and-the-loop) ·
[Telegram, SingleInstance](#telegram-singleinstance) ·
[Ladder](#ladder) · [Proofs](#proofs) · [Divergences](#where-code-and-words-part) ·
[Not modelled](#not-modelled) · [Plan](#plan)

## Inventory

Every state change happens in the goroutine of `App.Run`, a `select` over a channel of Telegram
updates and five tickers.  A handler runs to its end before the next is chosen, so that no two
handlers interleave; what does interleave with a handler is the outside world (exchanges,
Telegram, MySQL, the operator, a second process) and the end of the process.

| Part | State | Operations | Works with | What is hard | What makes it correct |
|---|---|---|---|---|---|
| **orders** (`internal/orders`) | none of its own: rows of the store | `Submit`, `CancelLadder`, `CancelOrder`, `Reconcile` (`refresh`, `recover`, `apply`, `reportFill`, `settle`), `ResolveFound`, `ResolveMissing` | store, exchanges, called by screens and by the reconcile tick | lost answers, stale and out-of-order readings, crashes between row, event and mark, two orders that look alike | no order placed twice, none lost sight of, one in doubt at a time, rows say what the exchange says, finished ladders close |
| **order outcome** (`orders/outcome.go`) | none | sums over a ladder's rows for messages | orders | – | – |
| **broker vocabulary** (`internal/broker`) | none | statuses, ambiguous and definite errors | orders, clients | which failures leave an outcome open | – |
| **store** (`internal/store`) | `ladders`, `ladder_orders`, `transfers`, `events`, `runtime_state`, the named lock | reads and writes, `InsertOrders` in a transaction, `PruneDrafts`, `Acquire`/`Verify`/`Release` | everything | which writes are one transaction, unique keys, a session that ends unnoticed | rows are what the handlers need to start again; one bot writes |
| **ladder, market** (`internal/ladder`, `internal/market`) | none | `Build`, `MaxRungs`; ticks, units, smallest amounts | screens | rounding at borders, commission, division remainders | prices on the grid and apart, the commitment fits, nothing lost |
| **transfers** (`internal/transfers`, `app/transfer.go`) | rows of `transfers`, the draft in `runtime_state` | `Send`, `Settle`, the send button | store, Upbit pockets | an outcome in doubt, a press delivered twice, a history that goes back seven days | each transfer requested once, one at a time, records true |
| **app loop** (`app/app.go`) | tickers, the update channel, poll's offset | `Run`, `poll`, `dispatch`, `deliver`, lock tick | Telegram, store | crash between acting and recording, a full channel, a lost lock | no update skipped, notices at least once and in order |
| **app screens** (`app/routes.go`, `draft.go`, `preview.go`, `actions.go`, `screens.go`) | draft rows, the open keypad, the pending question | the conversation that assembles a ladder; submit, cancel, resolve buttons | orders, store, Telegram | presses on screens that are out of date, redelivered presses, typed answers that come late | a ladder priced from answers chosen in order, one sent left alone by what comes late, a screen from before a restart refused |
| **accounts** (`internal/accounts`) | cached balances and the reason of the last failure | `Refresh`, reads | clients | balances older than they look, an exchange that does not answer | one that fails does not keep the others from being read |
| **toss client** (`internal/toss`) | the access token and its expiry, the chosen account, a throttle per rate limit group | signed requests, retry of reads, `Snapshot` | orders, accounts | token expired or given up under way, which failures are definite, accounts that change | an order never requested twice, a definite failure is the end of it, no request outlives its token, one account |
| **upbit client** (`internal/upbit`) | one limiter, shared by every client of the account: the next free slot, moved a minute ahead by a 429 or 418 | signed requests, lookup by our own id | orders, transfers, accounts | a rejection of one client is about all of them, an ambiguous 429 | silence is kept while Upbit asks for it |
| **telegram client** (`internal/telegram`) | none | `getUpdates`, send, edit | app loop, screens | – | – |
| **configuration and helpers** (`internal/config`, `ids`, `money`) | none | parsing, identifiers, number formats | – | – | – |
| **main** (`cmd/cotrader`) | – | wiring, the lock, `migrate` | – | – | the lock is taken first |

## Modules

| Module | Models | Checked by | Proved in |
|---|---|---|---|
| `Orders` | the executor, `/cancel`, the ladder and order rows, the part of an exchange it depends on | – | – |
| `OrdersProperties` | what the executor keeps true; the inductive invariant; what documents say and it does not | `MCOrders` | `OrdersProofs`, `OrdersRowProofs` |
| `OrderLife` | the abstract promise about one order, implemented by `Orders` | `MCOrders` | `OrdersRowProofs` |
| `Calls` | one request under way, and what an exchange does with an order and can answer | – | – |
| `TossClient` | token, retries, sorting of answers, the chosen account | – | – |
| `UpbitClient` | the shared limiter, sorting of answers | – | – |
| `Loop` | ticks, handlers, their tasks and calls, through both clients | `MCLoop` | `LoopProofs` |
| `Placement` | the abstract promise of `Exchange.Place`, on which `Orders` rests, implemented by `Loop` | `MCLoop` | `LoopProofs` |
| `Transfers` | `transfers.Service`, the transfer button, Upbit's side of a transfer | `MCTransfers` | `TransfersProofs` |
| `Draft` | the conversation that assembles a ladder | `MCDraft` | `DraftProofs` |
| `Inbox` | `poll`, the channel, `dispatch` and the stored offset | – | – |
| `Outbox` | `Notify` and `deliver` | – | – |
| `Telegram` | `Inbox` and `Outbox` around the one loop they share | `MCTelegram` | `TelegramProofs` |
| `SingleInstance` | the MySQL lock over the lives of several processes | `MCSingleInstance` | `SingleInstanceProofs` |
| `Ladder` | `ladder.Build` and `MaxRungs` with the rules of `market` | `MCLadder` | `LadderProofs` |

The modules meet at the rows they share and at the promises they make each other.  `Orders` takes a submission from the screens as
given; `Draft` models how that submission comes about and stops where `Orders` starts; `Ladder`
is the function between the two.  What a request to an exchange may come to is an assumption of
`Orders`, written down as `Placement` and implemented by `Loop`.  `Orders` writes fill and closing
events; `Outbox` models what becomes of an event.  `Inbox` shows how often and in which order a handler is called; `Draft`
and `Transfers` allow for the repeated presses that follow from it.  `SingleInstance` is the
reason the others have one process.

Conventions: an action is a whole handler, or the part of one between two points where the
outside can act or the process can be cut off.  A definition named `X_Something`, commented
"Mutant", is a plausible bug and is not part of the specification; `PROJECT.json` names the
property that notices it.  A configuration whose name contains `v_` is expected to be violated;
`PROJECT.json` lists two of them as runs, the others are kept to reproduce what
[the table of divergences](#where-code-and-words-part) says.  Every bound (`MaxFaults`,
`MaxPresses`, …) is a constant and a guard.  An invariant named `…OK` is the types of a module's
state together with the state invariant that matters most there.

## Orders

### State and actions

`ladder` is `ladders.status`; `row` holds status, exchange id, filled and notified quantity of
each `ladder_orders` row; `told` and `reported` are the fill and closing events.  `pc`,
`batches`, `todo`, `venues` are the locals of the running handler, empty between handlers; so
are `left`, the ladders a `/cancel` has still to come to, and `kept`, the rungs it had to leave.
`wire`, `sends`, `ex`, `asked` are the world: requests travelling, how many ever left, the
exchange's record, the cancels it accepted.

| Actions | Code |
|---|---|
| `SubmitDraft`, `Resume` | `App.submitDraft` up to the call of `Submit`, `InsertOrders` included |
| `SubmitRefused`, `SubmitPlacing`, `SubmitSending`, `SubmitRequest`, then `SubmitAccepted`, `SubmitRejected` or `SubmitAmbiguous`, `SubmitClose` | `Executor.Submit`, cut at its writes and its request |
| `CancelEverything`, `CancelNext` | `App.cancelEverything`: the live ladders, one after the other, until one fails |
| `CancelLadder`, `CancelDrop`, `CancelAccepted`, `CancelErrored`, `CancelOrder` | `Executor.CancelLadder` rung by rung, `CancelOrder` |
| `Reconcile`, `ListOpenOrders`, `ListingFailed`, `RefreshOrder`, `RecoverFound`, `RecoverParked`, `RecoverClaimed`, `RefreshParked`, `RefreshFailed`, `SettleOpen`, `SettleClosed`, `SettleFailed`, `Finish` | `Executor.Reconcile` with `refresh`, `recover`, `apply`, `reportFill`, `park`, `settle` |
| `ResolveFound`, `ResolveMissing` | the operator's answers about an order in doubt |
| `PruneDraft` | `DB.PruneDrafts` |
| `Stop` | a crash and restart, or a return on an error: locals gone, rows stay |
| `PlaceArrives`, `PlaceLost`, `Fill`, `CancelCompletes`, `Withdrawn` | the exchange |

Decisions a reader should know:

- A read of the database and the write that follows are one action when nobody else can act on
  the rows between them.  A run of writes (row, event, notified mark) is one action with the
  points where it may be cut off as outcomes: `reach` is `"row"`, `"event"` or `"all"`, and any
  but the last costs a fault.
- Which orders a listing shows unchanged is decided when the venue is listed; the detail lookup
  comes later and may meet a different exchange, or answer with an older state
  (`StaleReports`), which `apply` must refuse.
- The exchange calls the order made for rung `o` simply `o`: exchange ids are unique.
- `PENDING_CANCEL` and `REJECTED` are answers of Toss only; Upbit can be asked for an order by
  our own id and Toss cannot (`LookupVenues`).
- `SubmitRejected` covers requests refused before they leave (orders switched off);
  `PlaceLost` those that never left because the context was cancelled.  An exchange that is
  not connected is one that always fails.
- A listing of open orders may miss one that rests (it fell between two pages that shifted): the
  lookup of that order by its id decides, and the detail lookup is what `apply` is given.
- The reason text of a row, and the events that report a submission or an order in doubt, are
  left out.  The check for buttons of earlier screens just refuses; `Draft` models it.
- The operator is part of the system's safety.  `ResolveMissing` may be pressed only when the
  order does not exist and is not travelling (`TrulyMissing`: the operator has looked in the
  exchange's own app).  With `CarefulOperator` the operator does not replace an exchange id
  already on record; `MCOrders_v_wrong_match.cfg` shows what happens otherwise.

### Runs

| Run | Instance | Shows |
|---|---|---|
| `rungs` | one Toss ladder of two rungs, two fills each, 2 faults; 559 k states | rows, ladder, events and exchange agree, the closing state included (`ClosedAsFilled`); nothing is lost sight of or taken back, exchange ids included; an accepted cancel is waited for until the order ends or is parked (`CancelIsWaitedFor`) |
| `ladders` | two Toss ladders, one rung each, that look alike, 2 faults; 345 k | the inductive invariant (one order in doubt per market, right matches and what was sent is recorded are parts of it), refinement of `OrderLife`; a `/cancel` over both ladders that comes to its end has passed over neither (`CancelReachesAll`) |
| `careless` | two Upbit ladders that look alike, an operator who names any order that fits, 2 faults; 349 k | no order placed twice, nothing sent in doubt, whatever the operator does to the rows; an exchange order that another row holds already is refused by the unique key |
| `live` | a Toss and an Upbit ladder, 1 fault, fairness; 138 k | ladders close, doubt is resolved where lookup exists, ends reach the rows, cancels end |
| `v_cancel_missing` | one ladder, one order | a divergence, see below |

Why the bounds are enough.  Two rungs give the first / not first, sent / waiting distinctions
of a submission and everything relating two rungs of a ladder; two ladders at one venue give
everything relating markets.  Two fills distinguish no, partial and complete execution, and a
stale reading between them.  Two faults allow a failure while recovering from a failure (an
unread answer and then a crash in the cycle that finds it); the theorems below hold without
these bounds for the properties they name.  In `live` each behaviour has its one fault and then
goes on without, which is the assumption behind every "eventually" here: failures stop for long
enough.

Fairness (`Fairness`): a handler that has begun goes on (`WF(Handler)`: the goroutine runs, and
every request has a timeout); `SF(Reconcile)`, because `select` chooses at random among ready
cases and the three-second tick is ready again and again between handlers, though not while one
runs; `WF(CancelCompletes)` is the exchange's word that an accepted cancel ends.  Fills, the
operator, arrival of requests and faults are not fair.

## Transfers

`row` is `transfers.status`; `draft` says whether direction, currency and amount are chosen;
`inbox` and `unstored` carry presses, including one delivered again; `wire`, `sends`, `ex`,
`listed`, `old` are Upbit.  `Send` is cut where `Service.Send` writes and asks: `SendInsert`,
`SendSending`, `SendRequest`, `Record` with its outcomes, then `ClearDraft` and `StoreOffset`
of the button.  `Settle` looks a transfer in doubt up in the history, which may not yet list it
or may no longer go back that far (`Ages`).

A press that finds nothing to move, or cannot read what there is, returns early and keeps the
draft (`Handle`); every other clears it, whatever became of the transfer.  `kept` counts the one way
around that: a stop, or a failed write, after the request has left and before the draft is cleared.

`transfers_moves` (two transfers, presses and drafts, two faults; 85 k states) checks that a
record is requested at most once and never beside another under way, that what a record says of the
outcome is true, and that one filled-in transfer moves assets once, and once more only for a draft
kept that way: other failures, presses delivered again above all, do not buy another movement.
Under fairness of the loop and of Upbit doubt ends (`DoubtEnds`), unless the transfer becomes
too old first.  Two transfers are what "one at a time" needs; two faults
allow the crash after the request and a failed write of its outcome.

## Draft

A draft is its answered questions in the order of answering, written as the order itself
(`given`: the pairs `<<q, r>>` of answered questions where `q` was answered no later than `r`);
what the answers say is left out, so that "priced from a mix" is "an answer to a later question
that is older than one to an earlier".  `shown` is what the message shows, `queue` the presses made on
whatever it showed then, handled one at a time; redraws fail, the process restarts, presses
come again.  `Step` and `Cleared` are `Ladder.Step` and `Ladder.Clear`; the actions are the
buttons of each screen, the keypad, the typed answer, the send button and `PruneDrafts`.  An answer
that rounds to zero is saved and leaves its question open, as in the code.

Whether a preview is from before a restart is read off its date.  `clock` counts whole seconds of
the process's clock, `startedAt` is the second in which `Run` began, and a preview carries the date
Telegram gave it (`Dates`: the second it was written in, up to `Skew` off); `Stale` compares the two
as `submitDraft` does.  `old` is the truth, for checking: the screen was drawn by an earlier process.
The test is not exact, and `MCDraft_v_before` shows it with clocks that agree: a preview drawn in the
very second of the restart still sends.

`draft_presses` (2.2 M states) allows three presses on their way at once, one fault and a clock of
two seconds.  A press overtaken by another is the hazard; with three, a number pad can be left open
when a draft is sent, which two cannot bring about.  One fault and two seconds give a restart in the
second a screen was drawn in and one in a later second.  Deadlock is not checked: the conversation
ends when the bounded drafts are sent or pruned.

## Calls and the loop

`Calls` holds the one request that can be under way (`call`: client, purpose, attempt, stage,
remaining ticks), what has become of each order at its exchange (`fate`) and what `Place`
returned for it (`said`).  What an exchange can answer depends on the order's fate
(`AnswersTo`): a made order is answered 2xx, legible or not; "request-in-progress" says that
Toss has not decided; a 4xx or 429 is a refusal; no answer and a 5xx say nothing.

`TossClient` adds `lease` (the client's idea of its token) beside `life` and `revoked` (Toss's).
`AskToken`, `TokenIssued`, `TokenNotIssued` are `accessToken`; `TossSends`, `NoAccountSelected`,
`TossOK`, `Unauthorized`, `TossBusy`, `TossFails`, `WakesUp` the stages of `request` and
`attempt`; `Picks` is the choice `Snapshot` makes.  `UpbitClient` has the limiter (`pause`, one
entry per client so that a mutant can take it apart) and what Upbit has asked for (`banned`).
Both refuse new exposure at a venue the operator has switched off before anything leaves
(`Blocked`).

`Loop` puts the clients under the handlers that use them: a tick waits in `due` (a ticker keeps
one), `Serve` takes it up when the goroutine is free, a handler is a list of tasks in `work`, a
task a list of calls.  An error ends its task and leaves the handler to the next, except that a
failed lookup leaves the task to its next order.

The reconcile tick lists the venues with an active order, in any order (it ranges over a map), and
looks up single orders as the listing shows them to have changed (`lookup`, up to `MaxLookups`); it
then asks for the history of transfers while one is in doubt (`Transfers.Settle`, through the
administrator's client, which shares the limiter of the other two).  Which rows are active, which
changed and which transfer is in doubt is not in this module: it is any choice, except at `Working`,
the clients that always have an active order, or a transfer in doubt.  The venues of Upbit share a
client and count as one.  The balances tick reads the accounts in the order written; a Toss account
is a listing and as many reads as `AccountReads` says, five in the code.  The calls of other handlers
(quotes, cancels, the send button of a transfer) go the same way through the same clients and are not
repeated here.

`Placement` is the promise on which `Orders` is built: `SubmitAccepted`, `SubmitRejected` and
`SubmitAmbiguous` are its three words, `wire` its open orders.  An order is asked for once; an
error that is not ambiguous means it can never come to exist, and no error means that it does.
`Loop` implements it (`ImplementsPlacement`): a token that cannot be had, an account that is not
chosen and a venue switched off are definite because nothing has left; a 401 or 429 of Toss
because Toss refused; the 429 of Upbit is told as ambiguous although it never made an order.

`loop_calls` (459 k states): one order for any venue, one of the three venues switched off, two
accounts the login may list, one restart.  Toss and Upbit always have an active order and a transfer
is always in doubt, and one order at Upbit may need a lookup in each cycle; the theorems cover the
cycles with less to do and with more.  The client that only reads the personal pocket is not
connected (it is optional): it does what Upbit's trading client does for its account.  A Toss account
takes one read after the listing, for the other four only repeat it.  Time is counted in ticks: a
request waits 1 tick for its answer, a token lives 4 and is renewed 3 before its end, so
that a lease of one tick, the renewal and an expiry under way all happen; a 429 of Toss costs up
to 1 tick, the silence of Upbit is 1.  Longer waits only repeat these orders of events, and
the theorems hold for any.  One order is enough because calls are one at a time; the proofs are
for any number.

- `LoopOK`: no client of the Upbit account sends anything during the silence after a 429.  A call
  reads the limiter once, before it waits; the code is right because one goroutine makes all calls,
  and `SharedWith_None` shows it is the shared limiter that makes it so.
- `TokenIsGood`: no request leaves with a token that has been refused before, and none outlives its
  token.  It rests on a lead longer than two timeouts (`tokenLead`, 120 s, against 15 s) and on Toss giving
  tokens that outlast a request (`TossAssumption`).
- `OneAccount`: an account chosen because it stood alone stays the account of the process.
- `EverySourceIsRead`: what a tick always has to ask for (`TasksOf`: the listings and the history, the
  accounts) is asked for again and again, even if every call fails.  A failed call ends its task and
  no more.

Fairness (`FairSpec`): time passes, and with it the tickers fire; a call under way goes on, since
each has a timeout and each wait an end; `SF(Serve)`, since `select` chooses at random among
ready cases, and the goroutine is free again and again.  Nothing is assumed about answers.

## Telegram, SingleInstance

`Inbox`: `poll` and `dispatch` are separate processes around the bounded channel.  `offset` is
poll's own, `stored` the row in `runtime_state`, `confirmed` Telegram's: asking with an offset
makes it forget every earlier update, so `confirmed` may run ahead of `stored`.  `Outbox`:
`deliver` reads a batch and sends and marks one notice after another; an error gives up the
batch.  `Telegram` composes them as the process does: poll runs beside the loop, the loop either
acts on an update or sends a batch, the handlers are what queues notices, and a stop ends both.

`telegram_talk` (77 k states): three updates, one of a stranger, a channel of one (it
is full as soon as a second update comes), three notices in batches of two (a full batch and a
remainder after a fault), two faults (a stop, and a failure while starting again).  `TelegramOK`
says that the stored offset passes over nothing Telegram still has and that what is marked sent
has gone out; `NoticesInOrder` that a failure holds later notices up and repeats only the one in
hand.  `AnsweredInTheEnd` is about both directions waiting for the same goroutine.  Fairness:
poll and the loop run, `select` starves neither updates nor notices, a stopped process is started
again (a Deployment of one replica, `deploy/k8s/workloads.yaml`).  It assumes that Telegram takes
a message sooner or later: a notice it always refuses would hold up the later ones, which is the
price of the order.

`SingleInstance`: three processes, each `off`, asking for the lock, in the loop, in a handler
or ending; `owner` and `session` are MySQL's view.  A session may end while its process runs.
`OneWriterPerLock` is what the lock can give, `LoserStops` what the lock tick adds (fair because
`select` takes the tick again and again; a handler ends because its requests time out).  Three
processes allow one to lose its session, a second to take over and a third to be refused.

In `Telegram` deadlock is not checked: all bounded updates and notices get handled and nothing
is left to do.

## Ladder

Amounts are counted in whole units: prices in smallest ticks, quantities in tradable units,
cash in their product.  This is exact: each quotient of the code is truncated to such a unit,
and cash finer than it pays for nothing.  (The share of cash is rounded to 18 decimals, half
up, before it is truncated to 8 or 0: it cannot matter for amounts of less than 18 decimals.)
Interior prices come from `math.Pow`; the model takes *any* values in order between the two
ends.  Upbit's unit of 1e-8 and the limit of 50 rungs are scaled down, the ranges of ticks to
three; the constants `Tiers` and `MinTotals` make a venue Upbit-like (smallest amount) or
Toss-like (one share).

`ladder_requests` (32 k states) builds every request on both kinds of venue from 2 sides, 3
prices, 3 offsets at either end, 5 counts, 5 totals and 2 commissions, invalid ones included; the prices lie in each range of ticks and next to a
border.  `HandsOutAll` says that each step of handing out leaves less to do, passes that start
again included, or is the last and leaves no cash or quantity any rung could still take.
`CarriesMaxRungs` says that every count up to `MaxRungs` is built, for sells and for whole
shares; for buys with a smallest amount it is not so (`ladder_v_maxrungs`).  `MCLadder` also
evaluates that the tick tables in the code fit together (`TablesFitTogether`), the one assumption
about `Tiers` the theorems need: every border between two tiers is on the grid of both.  Offsets
and commissions are parts of `Whole`, 100 here.  Deadlock is not checked: a function ends.

## Proofs

The theorems hold for any sets of orders, ladders, venues, transfers, processes, updates and
notices, any quantities and waits, and any number of faults: the bounds of the runs occur in them
only as constants.  What they assume of the constants is the named `ASSUME` of each module, which
TLC evaluates in every run.  For `Orders` (`ConstantsAssumption`) it is what the schema guarantees:
every order belongs to one ladder and every ladder to one venue, rungs of a ladder are numbered
apart, orders with the same terms trade at the same venue (the symbol tells it).

### The executor

`OrdersProofs` (1134 obligations), `OrdersRowProofs` (998).

| Theorem | Says | Assumes |
|---|---|---|
| `TypeCorrect` | `[]TypeOK` | – |
| `PlacedOnceAlways` | no order is requested twice | – |
| `LadderAlways`, `NearestFirstAlways` | a ladder's state is true of its rungs; rungs go out nearest first | – |
| `NothingSentInDoubtAlways` | nothing is sent while its market is in doubt | – |
| `OwnBrokerIdAlways` | every order is attached to its own exchange order, and at most one per venue is in doubt | `CarefulOperator` |
| `NoOrphanAlways` | what works at an exchange is active in its row and in a live ladder; what travels is recorded as in doubt | `CarefulOperator` |
| `InductiveAlways` | the invariant behind them | `CarefulOperator` |
| `NotifiedIsToldAlways` | what is marked as told has an event, and what an event reports is in the row (not that every fill is told, or told once) | – |
| `NothingTakenBackAlways` | no recorded fill is lowered, no exchange id lost, no ended order changed; only the operator's word on an order in question replaces an id | – |
| `CancelIsWaitedForAlways` | a row waits only for a cancel its exchange accepted, until it takes over the end the exchange gave the order or is parked | `CarefulOperator` |
| `ClosedAsFilledAlways` | a ladder is closed as done exactly when the exchange executed some of it | `CarefulOperator` |
| `RowFollowsExchangeAlways` | fills and ends on record are those of the exchange | `CarefulOperator` |
| `CancelReachesAllAlways` | a `/cancel` that ends without an error has passed over no ladder | `CarefulOperator` |
| `OrderLifeImplemented` | `Orders` implements `OrderLife` for every order | `CarefulOperator` |

*What a submission has in hand.*  None of the properties is inductive: that no order is sent twice
depends on what the handler holds at each stage.  `HandlerInv` says it: `HandInOrder` (a
submission works on one ladder; the first rung in hand is `SENDING` and not yet sent at
`"request"`, the others wait), `VenueHeld` (while a ladder is being sent the only order of its
venue in question is the one in hand, which is why reconciliation and the operator cannot
interfere), `NotSent` (a row not yet sending was never sent), with the ladder properties.  It is
inductive with no assumption about the operator, because it never looks at whose exchange id a
row holds.

*What the exchange holds* needs that: `Accounted /\ OneInDoubt /\ OwnBrokerId` is inductive on top
of it if the operator is careful.  One order in doubt per market is what makes naming an exchange
order by its terms safe, and being attached to the right order is what keeps the count of orders
in doubt right: neither is inductive alone.  TLC checks `Inductive` on `ladders`.

*What a row may become.*  `RowStep` sorts every step by what it does to a row: it leaves it
`Untouched`, inserts or deletes a draft's (`Drafted`), writes a status without a reading
(`Noted`), or applies a reading (`Learned`).  `NothingTakenBack` and `NotifiedIsTold` rest on it,
the types and `NotSent`.  `RowFollowsExchange` is not inductive, for
a row that is first attached may bring fills of its own: `Follows` adds that an order without an
exchange id has none, and that an exchange calls filled what it executed in full.

*Accepted cancels* need `CancelInv`: a row that waits for a cancel waits for one the exchange
accepted.  With it a waiting row that ends takes its end from the exchange; the one other way out
is `park`, after which the row has forgotten the cancel (`MCOrders_v_cancel_forgotten`).  *Closing* is first
shown of the rows (`ClosedByRows`), whose figures are final once they are at their end, and carried
over to the exchange by `Follows`.

*A `/cancel` over everything.*  While it runs, each rung of a live ladder belongs to a ladder
still to come (`left`), is in hand, or has been dealt with (`SweepInv`: cancelled, or in `kept`
because the exchange answered with an error); it rests on `CancelInv`, too.

*The refinement* maps a row and the exchange's record of its order to one of the states of
`OrderLife`, so that each step of `Orders` is one step there or none; it rests on `Inductive` and
`Follows`.

### The clients

`LoopProofs` (995 obligations): `LoopIsOKAlways`, `TokenIsGoodAlways`, `OneAccountAlways` and
`PlacementImplemented`.  The wait for an answer, the length of a silence, leases and lives of
tokens are any numbers; `TossAssumption` asks that the lead (`tokenLead`, two minutes) is longer than two timeouts of 15
seconds, and that Toss issues tokens that outlast as much.

Behind all of them is `Orderly`: the types, what can wait to be called (`Waiting`: reads of one
task, or a single order just written down), that an order in hand has not been asked for before it
leaves and that nothing has been said of it until its answer is read (`InHandIsOpen`,
`NothingBefore`).  `SilenceInv` says that every client's limiter holds at least the silence Upbit
has asked for, and that a call that waits for it waits at least as long; it is inductive because
calls are made one at a time.  `TokenInv` strengthens `TokenIsGood` over time: while a token has a
lease, its life exceeds the lease by more than a request can take, and a request under way has
less to wait than its token to live.  `AccountInv`: whatever account was used is the chosen one.
The refinement of `Placement` goes step by step over `Orderly`: what is said of an order fits what
its fate allows at that moment.

### Telegram, transfers, the lock

| Theorem | Says |
|---|---|
| `TelegramProofs.TelegramOKAlways` | the stored offset passes over nothing that was not acted on or lost by a stop, the channel keeps its bound, what is marked sent went out |
| `TelegramProofs.InOrderOnceAlways` | a process acts on updates in order, on none twice |
| `TelegramProofs.RepeatsAreUnstoredAlways` | a restart repeats only what was never stored |
| `TelegramProofs.NoticesInOrderAlways` | notices are first read in order, and a failure repeats at most one |
| `TransfersProofs.TransfersOKAlways` | no transfer is requested twice |
| `TransfersProofs.RecordIsTrueAlways` | a record is true of its outcome |
| `TransfersProofs.MovesOneAtATimeAlways` | nothing is requested while another transfer travels or is under way |
| `TransfersProofs.SentAsChosenAlways` | a filled-in transfer moves assets once, and once more only for a draft kept after its request had left |
| `SingleInstanceProofs.LockAlways` | of the processes whose session lives at most one writes |

`TelegramProofs` (1331 obligations).  That an update is not passed over follows from where it is:
`InLine` says that the one in hand, the channel and what poll holds are in ascending order, with
poll's offset between the last two; `Covered` that every update before that offset, or
before Telegram's own, is acted on, lost, or in one of those places; `PastStored` that nothing
before the stored offset is among them once it has been read.  On the way out, `InTurn` says that
whatever comes before a notice in the batch is marked or in the batch too, and `Paid` that each
message was marked, is the one in hand, or cost a fault.

`TransfersProofs` (283).  `InHand` ties the stage of a `Send` to its record, `NoOtherInDoubt`
says that the look at outstanding transfers stays true until the request leaves, `Moved` that what
was never requested moves nothing.  `ChosenInv` counts: transfers sent, plus the ones a press may
still send, are within the choices made and the drafts kept.

`SingleInstanceProofs` (40).  A process that writes with a session of its own is the owner the
server knows, and the owner is past asking.

### The ladder

| `LadderProofs` (2102 obligations) | Says |
|---|---|
| `PlanOKAlways` | every rung is on the grid of its own tier, strictly farther out than the one before, no nearer than asked |
| `FitsBudgetAlways` | what the rungs of a buy cost, commission included, never exceeds the cash |
| `NothingIsLeftAlways` | a finished sell offers the whole tradable holding, and no rung of a finished buy can take another unit |
| `HandsOutAllAlways` | every step of handing out leaves less to do or is the last, so that it cannot go round for ever |
| `CarriesMaxRungsAlways` | a sell, or a buy where a unit is enough, is refused only for more rungs than `MaxRungs` |

They hold for any venue whose ticks fit together (`TiersAssumption`), any request, and any
interior prices in order, whatever the float arithmetic makes of them.

*The grid.*  `StaysInTier` is the heart of it: rounding never takes a price past the border of its
tier, because borders are on the grid of both sides.  So a rounded price is on the grid of the
tier it ended in (`OnGrid`, including a price rounded up onto the border) and rounding keeps
prices in order from tier to tier (`PriceTickMonotone`), which is what the comment at
`ladder.go:238` relies on for equal prices to be adjacent.  `SnapIs` carries that through the loop
of `snap`.

*Handing out.*  `PlanInv` is inductive.  `Shared` is the loop invariant of `size`: what the rungs
have and what is left make up the whole, and each rung has at least its even share.  `Handing` is
that of the two spreading loops: a sell has no more units left than rungs to come; a pass of a
buy that has bought nothing yet could afford none of the rungs behind it, so that when the pass
ends and nothing was bought nothing can be.  `Refused` keeps why a request was refused, for
`CarriesMaxRungs`: every rung has at least the smallest quantity of the nearest one.

*Loops over data.*  `Snap` and `Total` are recursive functions.  What they compute is proved by
induction in the form of sets: `Least` (from the well-foundedness of `<` in the library) gives
`UpTo`, a set with 0 that is closed under successors holds all numbers up to `n`; `Recursion`
gives that the recursive function exists, which its definition (a `CHOOSE`) leaves open.

### The draft

| `DraftProofs` (810 obligations) | Says |
|---|---|
| `DraftOKAlways` | no answer on record is older than one to an earlier question, unless that one is an offset; the keypad asks for the price before anything rests on it |
| `SentIsUntouchedAlways` | a ladder once sent stays sent, and what comes late leaves it alone but for a number pad left open |

For any number of drafts, presses on their way and faults, and any clock.  `DraftOK` is inductive
as it stands: an answer first drops every later one (`Cleared`), except one typed on the keypad, and
there `StaysChosen` says that an offset, a total or a price with nothing after it breaks no order.
That the exception is real is `MCDraft_v_mix`.

### Only model-checked

Liveness: it rests on fairness and `ENABLED`, which are out of the prover's reach.

## Where code and words part

Each is a configuration that checks the property the words state and finds it violated by what
the code does.  The first two are runs of `PROJECT.json`, under "findings".

| Configuration, property | Words | Code |
|---|---|---|
| `MCOrders_v_cancel_missing`, `CancelClearsMissing` | `docs/live-trading.md:27`: an order in doubt that does not exist is cleared with `/cancel` | `CancelLadder` leaves it; only `ResolveMissing` clears it |
| `MCLadder_v_maxrungs`, `CarriesEveryCount` | `ladder.go:165`: how many rungs the budget can actually carry | one too many for a lower rung of a buy; the screen then offers the count it refused |
| `MCOrders_v_cancel_forgotten`, `CancelIsSticky` | `reconcile.go:154`: a cancel was accepted; keep waiting for proof | a lookup that does not fit the order parks it as `UNKNOWN`, and the next reading makes it `PENDING` |
| `MCDraft_v_before`, `NeverSentFromBefore` | `actions.go:18`: a button drawn before this process started is refused | whole seconds are compared: a preview drawn in the second of the restart passes |
| `MCOrders_v_draft_orders`, `DraftHoldsNoOrders` | `ladder.go:339`: a draft holds no orders | a submission that is refused leaves a draft with orders, which `/cancel` does not see and `PruneDrafts` deletes |
| `MCOrders_v_never_asked`, `NeverAskedFor` | `reconcile.go:160`: "We never asked for this one" | we did, and the answer was lost |
| `MCOrders_v_fill_untold`, `FillsAreTold` | `reconcile.go:171`: the operator is told about every fill | not when a stop falls between the row and the event of the last one |
| `MCOrders_v_fill_repeated`, `NothingRepeats` | `reconcile.go:172`: "so nothing repeats" | a stop between the event and the mark repeats it |
| `MCOrders_v_closing_untold`, `ClosingIsReported` | `reconcile.go:196`: closes a ladder and reports what it achieved | not when a stop falls between the two |
| `MCOrders_v_wrong_match`, `OwnBrokerId` | `resolve.go:15`: every field is checked before an order is adopted | an id on record can be replaced by that of a rung that looks the same |
| `MCTransfers_v_person`, `PersonSettles` | `docs/pocket-migration.md:40`: a record stays until a person has checked | no operation lets the person say so |
| `MCDraft_v_mix`, `NeverAMix` | `rows.go:200`: never priced from a mix of old and new choices | the keypad sets an offset without dropping later answers |
| `MCDraft_v_stale`, `SentWasShown` | `preview.go:194`: nothing submitted without the operator reading this screen | the send button sends the draft as it is when the press is handled |
| `MCDraft_v_keypad`, `KeypadIsAlive` | `rows.go:175`: the flow cannot get out of step with the data | a keypad cancelled while it asks for the reference price stays on the screen and ignores every key |
| `MCDraft_v_reply`, `RepliesReachTheirAsker` | `draft.go:288`: a reply counts only against what asked for it | it counts against the latest question |
| `MCDraft_v_sent`, `SentIsClosed` | `draft.go:331`: nothing that comes late is to land on a ladder that has been sent | a key of a number pad left open does: `keypad` asks for the open entry and not for the state (three presses overtake one another, two faults) |
| `MCTelegram_v_read`, `ReadWasActedOn` | `app.go:140`: never marked read before it has been acted on | asking for more marks what is still in the channel |
| `MCSingleInstance_v_writers`, `OnlyWriter` | `store.go:136`: the lock proves this process is the only writer | not between the end of its session and the next tick |

Met while reading and not turned into a run: `main.go:28` says that an in-flight submission is
never cut off on SIGTERM, but the context it cancels is the one requests are made with;
`ladder.go:348` says of a canceled ladder that the operator withdrew it, which it also is when the
exchange refused every rung (`ClosedAsFilled` says what holds); `ladder.go:314` says that handing out
settles in a pass or two, which it does not when the last price is far below the first;
`broker/order.go:14` says adapters report four statuses, while Toss also reports
`PENDING_CANCEL` and `REJECTED`; `ResolveFound` reports "linked" also when an out-of-order
reading wrote nothing; `park`'s notice is lost when the process stops after the row was written
with that reason; the heartbeat is stored and nobody reads it, though `docs/deployment.md:7`
promises a notice when the executor is silent; an order parked `UNKNOWN` with its exchange id
that rests with the recorded fills looks unchanged to every cycle and shuts its market until it
fills or ends; a ladder left `PLACING` shows no button to send it again, though
`docs/live-trading.md` says it does; the comment on `Positions` says reserved amounts are excluded,
which Toss's are not (`Sellable` has no caller); nothing reads `Record.Stale`; the limiter lives in
memory, so that a restart forgets a silence Upbit asked for; the lock tick of
`docs/architecture.md`, every 30 seconds, comes later when a handler waits out such a silence;
Toss's list of open orders is one page of at most 100; a change of Toss's rates takes effect one
call late.

## Not modelled

- Layout, wording and drawing of screens and messages (`screens.go`, most of `preview.go`), the
  sums `orders/outcome.go` forms for them, parsing of configuration, identifiers, number formats,
  migrations, the heartbeat (nobody reads it) and `StateUpdatedAt`: no state that anything
  modelled depends on.
- The clients' HTTP, signatures and JSON, and the shapes of answers: an answer is legible or not.
- The spacing of requests within a rate limit: at Upbit 200 ms, less than a tick; at Toss any wait.
- What screens show of the cached records of `accounts` (balances, positions, quotes): how old a
  figure gets has no bound in the code but the time its calls take, so that there is nothing to
  state beyond `EverySourceIsRead`.
- MySQL itself: a write or a transaction happens or fails, and what has been written stays.

## Plan

The order was: the executor first, since it moves money and everything else serves it; then
the other part that moves assets (`Transfers`), the conversation in front of the executor
(`Draft`), the plumbing (`Inbox`, `Outbox`, `SingleInstance`) and the arithmetic (`Ladder`); then
the calls everything rests on (`Loop` and the clients), the composition of the two directions of
Telegram, and the proofs about each of them.  What is left:

1. *Model.*  A composition of `Inbox` with `Draft` and `Transfers`, whose repeated presses are
   assumptions of their own; `Draft` with two ladders at once.
2. *Prove.*  An abstract promise of `Draft` towards `Orders` (what a submission may rest on),
   implemented step by step.
