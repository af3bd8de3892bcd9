----------------------------- MODULE LoopProofs -----------------------------
(***************************************************************************)
(* Theorems about Loop and the clients it calls through, for any accounts, *)
(* orders, settings and waits.                                             *)
(***************************************************************************)
EXTENDS Loop, FiniteSetTheorems, SequenceTheorems, TLAPS

-----------------------------------------------------------------------------
(* Types.                                                                  *)

Reads == [client : Clients, what : Purposes \ {"place"}, venue : {"toss"}, order : {NoOrder}]

\* What waits to be called: reads of one task, or an order just written down,
\* which nothing else is under way beside.
Waiting ==
  \/ calls \in Seq(Reads)
  \/ Free /\ \E venue \in Venues, o \in Orders :
       calls = <<PlaceCall(venue, o)>> /\ fate[o] = "asked" /\ said[o] = "nothing"

\* An order in hand has not been asked for before it leaves, and nothing has
\* been said of it until its answer is read.
InHandIsOpen ==
  ~Free /\ Placing =>
    /\ call.order \in Orders
    /\ call.stage \in {"throttle", "issuing", "authorized", "limiter"} => fate[call.order] = "asked"
    /\ call.stage = "sending" =>
         fate[call.order] \in {"travelling", "deciding", "made", "refused"}
    /\ call.stage \notin {"ok", "failed"} => said[call.order] = "nothing"
    /\ call.attempt = 1 /\ call.stage # "sleep"

NothingBefore == \A o \in Orders : fate[o] = "unasked" => said[o] = "nothing"

Types ==
  /\ CallsTypeOK /\ TossTypeOK /\ UpbitTypeOK
  /\ due \subseteq Ticks /\ restarts \in 0..MaxRestarts
  /\ work \in Seq(Tasks)

Orderly == Types /\ Waiting /\ InHandIsOpen /\ NothingBefore

LEMMA Listed ==
  ASSUME NEW client \in Clients, NEW what \in {"orders", "account", "history"}
  PROVE  IfConnected(client, what) \in Seq(Tasks)
  <1>1. Task(client, what) \in Tasks
    BY DEF Task, Tasks
  <1>2. QED BY <1>1 DEF IfConnected

LEMMA TasksListed ==
  ASSUME NEW tick \in Ticks, NEW program \in Programs(tick)
  PROVE  program \in Seq(Tasks)
  <1>1. PICK s, t, u \in Seq(Tasks) : program = s \o t \o u
    <2>1. CASE tick = "reconcile"
      <3>1. PICK first \in Listings("toss"), second \in Listings("cotrader"),
                 settling \in Settlements :
              program = first \o second \o settling \/ program = second \o first \o settling
        <4> DEFINE order(s, t, u) == s \o t \o u
        <4>1. Programs(tick) =
                UNION {{order(s, t, u), order(t, s, u)} :
                        s \in Listings("toss"), t \in Listings("cotrader"), u \in Settlements}
          BY <2>1 DEF Programs
        <4> HIDE DEF order
        <4>2. PICK s \in Listings("toss"), t \in Listings("cotrader"), u \in Settlements :
                program \in {order(s, t, u), order(t, s, u)}
          BY <4>1
        <4>3. QED BY <4>2 DEF order
      <3>2. <<>> \in Seq(Tasks)
        OBVIOUS
      <3>3. /\ IfConnected("toss", "orders") \in Seq(Tasks)
            /\ IfConnected("cotrader", "orders") \in Seq(Tasks)
            /\ IfConnected("admin", "history") \in Seq(Tasks)
        BY Listed DEF Clients, Roles
      <3>4. first \in Seq(Tasks) /\ second \in Seq(Tasks) /\ settling \in Seq(Tasks)
        BY <3>2, <3>3 DEF Listings, Settlements, IfActive
      <3>5. QED BY <3>1, <3>4
    <2>2. CASE tick # "reconcile"
      <3>1. program = IfConnected("toss", "account") \o IfConnected("cotrader", "account")
                        \o IfConnected("main", "account")
        BY <2>2 DEF Programs
      <3>2. /\ IfConnected("toss", "account") \in Seq(Tasks)
            /\ IfConnected("cotrader", "account") \in Seq(Tasks)
            /\ IfConnected("main", "account") \in Seq(Tasks)
        BY Listed DEF Clients, Roles
      <3>3. QED BY <3>1, <3>2
    <2>3. QED BY <2>1, <2>2
  <1>2. s \o t \in Seq(Tasks)
    BY ConcatProperties
  <1>3. QED BY <1>1, <1>2, ConcatProperties

\* A task is a run of reads.
LEMMA CallsListed ==
  ASSUME NEW task \in Tasks, NEW run \in CallsFor(task)
  PROVE  run \in Seq(Reads) /\ run # <<>>
  <1>1. /\ Call("toss", "accounts") \in Reads /\ Call(task.client, "lookup") \in Reads
        /\ Call(task.client, task.what) \in Reads
    BY DEF Call, Reads, Tasks, Clients, Purposes
  <1>2. PICK c, d \in Reads, n \in Nat : run = <<c>> \o [i \in 1..n |-> d]
    <2>1. CASE task.what = "orders"
      <3>1. PICK n \in 0..MaxLookups[task.client] :
              run = <<Call(task.client, task.what)>> \o [i \in 1..n |-> Call(task.client, "lookup")]
        <4> DEFINE runOf(n) ==
              <<Call(task.client, task.what)>> \o [i \in 1..n |-> Call(task.client, "lookup")]
        <4>1. CallsFor(task) = {runOf(n) : n \in 0..MaxLookups[task.client]}
          <5>1. task # Task("toss", "account")
            BY <2>1 DEF Task
          <5>2. QED BY <2>1, <5>1, Zenon DEF CallsFor
        <4> HIDE DEF runOf
        <4>2. PICK n \in 0..MaxLookups[task.client] : run = runOf(n)
          BY <4>1
        <4>3. QED BY <4>2 DEF runOf
      <3>2. n \in Nat
        BY LoopAssumption
      <3>3. QED BY <1>1, <3>1, <3>2
    <2>2. CASE task = Task("toss", "account")
      <3>1. task.what # "orders"
        BY <2>2 DEF Task
      <3>2. run = <<Call("toss", "accounts")>> \o [i \in 1..AccountReads |-> Call(task.client, task.what)]
        BY <2>2, <3>1 DEF CallsFor
      <3>3. QED BY <1>1, <3>2, LoopAssumption
    <2>3. CASE task.what # "orders" /\ task # Task("toss", "account")
      <3>1. run = <<Call(task.client, task.what)>>
        BY <2>3 DEF CallsFor
      <3>2. \A c \in Reads : <<c>> = <<c>> \o [i \in 1..0 |-> c]
        OBVIOUS
      <3>3. QED BY <1>1, <3>1, <3>2
    <2>4. QED BY <2>1, <2>2, <2>3
  <1>3. /\ <<c>> \in Seq(Reads) /\ Len(<<c>>) = 1
        /\ [i \in 1..n |-> d] \in Seq(Reads) /\ Len([i \in 1..n |-> d]) = n
    OBVIOUS
  <1>4. run \in Seq(Reads) /\ Len(run) = 1 + n
    BY <1>2, <1>3, ConcatProperties
  <1>5. QED BY <1>4

\* The call that comes next is a read, or the order that waits.
LEMMA NextCall ==
  ASSUME Orderly, Free, ~Idle, NEW run \in Upcoming
  PROVE  /\ Tail(run) \in Seq(Reads)
         /\ calls = <<>> => work # <<>> /\ Tail(work) \in Seq(Tasks)
         /\ \/ Head(run) \in Reads
            \/ \E venue \in Venues, o \in Orders :
                 /\ run = <<PlaceCall(venue, o)>>
                 /\ fate[o] = "asked" /\ said[o] = "nothing"
  <1>1. CASE calls = <<>>
    <2>1. work \in Seq(Tasks) /\ work # <<>>
      BY <1>1 DEF Idle, Orderly, Types
    <2>2. Head(work) \in Tasks /\ Tail(work) \in Seq(Tasks)
      BY <2>1, HeadTailProperties
    <2>3. run \in Seq(Reads) /\ run # <<>>
      BY <1>1, <2>2, CallsListed DEF Upcoming
    <2>4. QED BY <1>1, <2>1, <2>2, <2>3, HeadTailProperties
  <1>2. CASE calls # <<>> /\ calls \in Seq(Reads)
    BY <1>2, HeadTailProperties DEF Upcoming
  <1>3. CASE calls # <<>> /\ calls \notin Seq(Reads)
    <2>1. PICK venue \in Venues, o \in Orders :
            calls = <<PlaceCall(venue, o)>> /\ fate[o] = "asked" /\ said[o] = "nothing"
      BY <1>3 DEF Orderly, Waiting
    <2>2. run = calls
      BY <1>3 DEF Upcoming
    <2>3. Tail(run) = <<>> /\ <<>> \in Seq(Reads)
      BY <2>1, <2>2
    <2>4. QED BY <1>3, <2>1, <2>2, <2>3
  <1>4. QED BY <1>1, <1>2, <1>3

-----------------------------------------------------------------------------
(* Steps of a call.                                                        *)

LEMMA OrderlyInit == Init => Orderly
  <1> SUFFICES ASSUME Init PROVE Orderly
    OBVIOUS
  <1> USE CallsAssumption, TossAssumption, UpbitAssumption, LoopAssumption
      DEF Init, CallsInit, TossInit, UpbitInit
  <1>1. CallsTypeOK
    BY DEF CallsTypeOK, NoCall, Begun, Call, Stages, Purposes, Clients, Venues
  <1>2. TossTypeOK
    BY DEF TossTypeOK
  <1>3. UpbitTypeOK
    BY DEF UpbitTypeOK
  <1>4. work \in Seq(Tasks)
    BY TasksListed DEF Ticks
  <1>5. Waiting /\ InHandIsOpen /\ NothingBefore
    BY DEF Waiting, InHandIsOpen, NothingBefore, Free, NoCall, Begun
  <1>6. QED BY <1>1, <1>2, <1>3, <1>4, <1>5 DEF Orderly, Types

\* A call under way goes on, with nothing said and no order changed.
LEMMA MoveStep ==
  ASSUME Orderly, ~Free, NEW stage \in Stages \ {"none"}, NEW wait \in Nat, Move(stage, wait),
         UNCHANGED <<fate, said, calls>>,
         Placing => \/ stage = "authorized" /\ At("issuing")
                    \/ stage = "issuing" /\ At("throttle")
                    \/ stage \in {"ok", "failed"}
  PROVE  CallsTypeOK' /\ Waiting' /\ InHandIsOpen' /\ NothingBefore'
  <1> USE DEF Orderly, Types
  <1>1. CallsTypeOK'
    BY DEF CallsTypeOK, Move
  <1>2. Waiting'
    BY DEF Waiting
  <1>3. InHandIsOpen'
    BY DEF InHandIsOpen, Move, CallsTypeOK, Free, Placing, At
  <1>4. QED BY <1>1, <1>2, <1>3 DEF NothingBefore

\* The request leaves.
LEMMA LeavesStep ==
  ASSUME Orderly, call.stage \in {"throttle", "authorized", "limiter"}, Leaves, calls' = calls
  PROVE  CallsTypeOK' /\ Waiting' /\ InHandIsOpen' /\ NothingBefore'
  <1> USE CallsAssumption DEF Orderly, Types
  <1>1. CallsTypeOK'
    BY DEF CallsTypeOK, Leaves, Move, Stages, InHandIsOpen, Free, Placing
  <1>2. Waiting'
    BY DEF Waiting, Free
  <1>3. InHandIsOpen'
    BY DEF InHandIsOpen, Leaves, Move, CallsTypeOK, Free, Placing
  <1>4. NothingBefore'
    BY DEF NothingBefore, Leaves, CallsTypeOK
  <1>5. QED BY <1>1, <1>2, <1>3, <1>4

\* A call ends with a word on its order, and the order as it is or, when
\* nothing left, refused.
LEMMA EndStep ==
  ASSUME Orderly, call.stage \notin {"none", "ok", "failed"}, NEW stage \in {"ok", "failed"},
         NEW word \in {"accepted", "definite", "ambiguous"},
         Move(stage, 0), Tells(word), calls' = calls,
         \/ UNCHANGED fate /\ (Placing => fate[call.order] # "unasked")
         \/ fate' = IF Placing THEN [fate EXCEPT ![call.order] = "refused"] ELSE fate
  PROVE  CallsTypeOK' /\ Waiting' /\ InHandIsOpen' /\ NothingBefore'
  <1> USE DEF Orderly, Types
  <1>1. CallsTypeOK'
    BY DEF CallsTypeOK, Move, Tells, Stages
  <1>2. Waiting'
    BY DEF Waiting, Free
  <1>3. InHandIsOpen'
    BY DEF InHandIsOpen, Move, CallsTypeOK, Free, Placing
  <1>4. NothingBefore'
    BY DEF NothingBefore, Tells, CallsTypeOK, InHandIsOpen, Free, Placing
  <1>5. QED BY <1>1, <1>2, <1>3, <1>4

\* Fails and Succeeds are ends of a request that left.
LEMMA AnswerStep ==
  ASSUME Orderly, At("sending"), calls' = calls, NEW ambiguous \in BOOLEAN,
         Succeeds \/ Fails(ambiguous)
  PROVE  CallsTypeOK' /\ Waiting' /\ InHandIsOpen' /\ NothingBefore'
  <1>1. Placing => fate[call.order] # "unasked"
    BY DEF Orderly, InHandIsOpen, Free, At
  <1>2. call.stage \notin {"none", "ok", "failed"}
    BY DEF At
  <1>3. CASE Succeeds
    BY <1>1, <1>2, <1>3, EndStep DEF Succeeds
  <1>4. CASE Fails(ambiguous)
    BY <1>1, <1>2, <1>4, EndStep DEF Fails
  <1>5. QED BY <1>3, <1>4

LEMMA UnsentStep ==
  ASSUME Orderly, call.stage \notin {"none", "ok", "failed"}, calls' = calls, FailsUnsent
  PROVE  CallsTypeOK' /\ Waiting' /\ InHandIsOpen' /\ NothingBefore'
  BY EndStep DEF FailsUnsent

\* Only reads are tried again.
LEMMA RetryStep ==
  ASSUME Orderly, At("sending"), MayRetry, calls' = calls, NEW stage \in {"throttle", "sleep"},
         NEW wait \in Nat, Retry(stage, wait)
  PROVE  CallsTypeOK' /\ Waiting' /\ InHandIsOpen' /\ NothingBefore'
  <1> USE DEF Orderly, Types
  <1>1. ~Placing
    BY DEF InHandIsOpen, MayRetry, Attempts, At, Free
  <1>2. CallsTypeOK'
    <2>1. (IF call.attempt < 3 THEN call.attempt + 1 ELSE call.attempt) \in 1..3
      BY DEF CallsTypeOK
    <2>2. QED BY <2>1 DEF CallsTypeOK, Retry, Stages
  <1>3. Waiting'
    BY DEF Waiting, Free, At, Retry
  <1>4. InHandIsOpen'
    BY <1>1 DEF InHandIsOpen, Retry, Placing, CallsTypeOK
  <1>5. NothingBefore'
    BY DEF NothingBefore, Retry
  <1>6. QED BY <1>2, <1>3, <1>4, <1>5

\* A token is taken to end before it does, and some ticks are left of it.
LEMMA TokenTimes ==
  ASSUME Orderly, NEW given \in Lifetimes, NEW late \in 0..(Timeout - call.left)
  PROVE  /\ LeaseFor(given) \in Nat \ {0}
         /\ given - late \in Nat
         /\ given - late > LeaseFor(given) + Timeout
  <1>1. /\ Timeout \in Nat /\ Lead \in Nat /\ given \in Nat /\ call.left \in Nat
        /\ 2 * Timeout < Lead /\ 1 + 2 * Timeout < given
    BY CallsAssumption, TossAssumption DEF Orderly, Types, CallsTypeOK
  <1>2. late \in Nat /\ late <= Timeout
    BY <1>1
  <1>3. QED BY <1>1, <1>2 DEF LeaseFor

LEMMA PicksType ==
  ASSUME Orderly, NEW listed \in SUBSET Accounts
  PROVE  Picks(listed) \in Accounts \cup {NoAccount}
  <1>1. Cardinality(listed) = 1 => listed # {}
    BY FS_EmptySet
  <1>2. QED BY <1>1 DEF Picks, Orderly, Types, TossTypeOK

\* The Toss client keeps the account and the token it has in range.
LEMMA TossOrderly ==
  ASSUME Orderly, TossStep, UNCHANGED upbit, UNCHANGED <<loop, restarts>>
  PROVE  Orderly'
  <1> USE CallsAssumption, TossAssumption DEF loop, upbit
  <1>1. SUFFICES /\ CallsTypeOK' /\ TossTypeOK'
                 /\ Waiting' /\ InHandIsOpen' /\ NothingBefore'
    BY DEF Orderly, Types, UpbitTypeOK
  <1>2. CASE AskToken
    <2>1. TossTypeOK'
      BY <1>2 DEF AskToken, TossTypeOK, toss, token, Orderly, Types
    <2>2. QED BY <1>2, <2>1, MoveStep DEF AskToken, At, Free, Stages
  <1>3. CASE TokenIssued
    <2>1. PICK given \in Lifetimes, late \in 0..(Timeout - call.left) :
            lease' = LeaseFor(given) /\ life' = given - late
      BY <1>3 DEF TokenIssued
    <2>2. lease' \in Nat /\ life' \in Nat
      BY <2>1, TokenTimes
    <2>3. TossTypeOK'
      BY <1>3, <2>2 DEF TokenIssued, TossTypeOK, Orderly, Types
    <2>4. QED BY <1>3, <2>3, MoveStep DEF TokenIssued, At, Free, Stages
  <1>4. CASE TokenNotIssued \/ TossBlocked \/ NoAccountSelected
    <2>1. FailsUnsent /\ call.stage \in {"issuing", "throttle", "limiter", "authorized"}
      BY <1>4 DEF TokenNotIssued, TossBlocked, Blocked, NoAccountSelected, Authorized, At
    <2>2. TossTypeOK'
      BY <1>4 DEF TokenNotIssued, TossBlocked, NoAccountSelected, TossTypeOK, toss, token,
                  Orderly, Types
    <2>3. QED BY <2>1, <2>2, UnsentStep
  <1>5. CASE TossSends
    <2>1. TossTypeOK'
      BY <1>5 DEF TossSends, TossTypeOK, token, Orderly, Types
    <2>2. QED BY <1>5, <2>1, LeavesStep DEF TossSends, Authorized, At
  <1>6. CASE TossOK
    <2>1. Succeeds \/ Fails(FALSE)
      BY <1>6 DEF TossOK
    <2>2. TossTypeOK'
      BY <1>6, PicksType DEF TossOK, TossTypeOK, token, Orderly, Types
    <2>3. QED BY <1>6, <2>1, <2>2, AnswerStep DEF TossOK
  <1>7. CASE Unauthorized
    <2>1. TossTypeOK'
      BY <1>7 DEF Unauthorized, Invalidate, TossTypeOK, Orderly, Types
    <2>2. QED BY <1>7, <2>1, RetryStep, AnswerStep DEF Unauthorized
  <1>8. CASE TossBusy
    <2>1. TossTypeOK'
      BY <1>8 DEF TossBusy, TossTypeOK, toss, token, Orderly, Types
    <2>2. CASE MayRetry
      BY <1>8, <2>1, <2>2, RetryStep DEF TossBusy
    <2>3. CASE ~MayRetry
      BY <1>8, <2>1, <2>3, AnswerStep DEF TossBusy
    <2>4. QED BY <2>2, <2>3
  <1>9. CASE TossFails
    <2>1. TossTypeOK'
      BY <1>9 DEF TossFails, TossTypeOK, toss, token, Orderly, Types
    <2>2. QED BY <1>9, <2>1, AnswerStep DEF TossFails, IsAmbiguous
  <1>10. CASE WakesUp
    <2>1. TossTypeOK'
      BY <1>10 DEF WakesUp, TossTypeOK, toss, token, Orderly, Types
    <2>2. ~Placing /\ ~Free
      BY <1>10 DEF WakesUp, Orderly, InHandIsOpen, At, Free
    <2>3. QED BY <1>10, <2>1, <2>2, MoveStep DEF WakesUp, Stages
  <1>11. QED
    BY <1>2, <1>3, <1>4, <1>5, <1>6, <1>7, <1>8, <1>9, <1>10 DEF TossStep

LEMMA UpbitOrderly ==
  ASSUME Orderly, UpbitStep, UNCHANGED toss, UNCHANGED <<loop, restarts>>
  PROVE  Orderly'
  <1> USE UpbitAssumption DEF loop, toss, token
  <1>1. SUFFICES /\ CallsTypeOK' /\ UpbitTypeOK'
                 /\ Waiting' /\ InHandIsOpen' /\ NothingBefore'
    BY DEF Orderly, Types, TossTypeOK
  <1>2. CASE UpbitSends
    <2>1. UpbitTypeOK'
      BY <1>2 DEF UpbitSends, upbit, UpbitTypeOK, Orderly, Types
    <2>2. QED BY <1>2, <2>1, LeavesStep DEF UpbitSends, At
  <1>3. CASE UpbitOK \/ UpbitFails
    <2>1. UpbitTypeOK'
      BY <1>3 DEF UpbitOK, UpbitFails, upbit, UpbitTypeOK, Orderly, Types
    <2>2. QED BY <1>3, <2>1, AnswerStep DEF UpbitOK, UpbitFails, Unread
  <1>4. CASE Limited
    <2>1. UpbitTypeOK'
      BY <1>4 DEF Limited, UpbitTypeOK, Orderly, Types
    <2>2. QED BY <1>4, <2>1, AnswerStep DEF Limited, Unread
  <1>5. CASE UpbitBlocked
    <2>1. UpbitTypeOK'
      BY <1>5 DEF UpbitBlocked, upbit, UpbitTypeOK, Orderly, Types
    <2>2. QED BY <1>5, <2>1, UnsentStep DEF UpbitBlocked, Blocked
  <1>6. QED BY <1>2, <1>3, <1>4, <1>5 DEF UpbitStep

\* Time, the ticks, the exchanges.
LEMMA WorldOrderly ==
  ASSUME Orderly, Passes \/ Exchange \/ (\E tick \in Ticks : TickComes(tick) \/ Serve(tick))
  PROVE  Orderly'
  <1> USE DEF Orderly, Types
  <1>1. CASE Passes
    <2>1. CallsTypeOK' /\ InHandIsOpen'
      BY <1>1 DEF Passes, Less, CallsTypeOK, InHandIsOpen, Free, Placing, loop
    <2>2. TossTypeOK'
      <3>1. lease' \in Nat /\ life' \in Nat /\ revoked' \in BOOLEAN
        <4>1. lease \in Nat /\ life \in Nat
          BY DEF TossTypeOK
        <4>2. Less(lease) \in Nat /\ Less(life) \in Nat
          BY <4>1 DEF Less
        <4>3. revoked' = FALSE \/ revoked' = revoked
          BY <1>1 DEF Passes
        <4>4. lease' = Less(lease) /\ (life' = 0 \/ life' = Less(life))
          BY <1>1 DEF Passes
        <4>5. lease' \in Nat /\ life' \in Nat
          BY <4>2, <4>4
        <4>6. revoked \in BOOLEAN
          BY DEF TossTypeOK
        <4>7. revoked' \in BOOLEAN
          BY <4>3, <4>6
        <4>8. QED BY <4>5, <4>7
      <3>2. UNCHANGED <<seq, used>>
        BY <1>1 DEF Passes
      <3>3. QED BY <3>1, <3>2 DEF TossTypeOK
    <2>3. UpbitTypeOK'
      BY <1>1, UpbitAssumption DEF Passes, Less, UpbitTypeOK
    <2>4. Waiting'
      BY <1>1 DEF Passes, Waiting, Free, loop, CallsTypeOK
    <2>5. QED BY <1>1, <2>1, <2>2, <2>3, <2>4 DEF Passes, NothingBefore, loop
  <1>2. CASE Exchange
    <2>1. /\ UNCHANGED <<call, said, lease, life, seq, used, pause, banned, due, work, calls, restarts>>
          /\ revoked' \in {revoked, TRUE}
      BY <1>2 DEF Exchange, Revoke, Arrives, Decided, Others, asking, toss, token, upbit, loop
    <2>2. \/ fate' = fate
          \/ \E o \in Orders, f \in {"deciding", "refused", "made"} :
               fate[o] \in {"travelling", "deciding"} /\ fate' = [fate EXCEPT ![o] = f]
      BY <1>2 DEF Exchange, Revoke, Arrives, Decided, asking
    <2>3. CallsTypeOK' /\ TossTypeOK' /\ UpbitTypeOK'
      BY <2>1, <2>2 DEF CallsTypeOK, TossTypeOK, UpbitTypeOK
    <2>4. Waiting' /\ NothingBefore'
      BY <2>1, <2>2 DEF Waiting, NothingBefore, CallsTypeOK, Free
    <2>5. InHandIsOpen'
      BY <2>1, <2>2 DEF InHandIsOpen, CallsTypeOK, Free, Placing
    <2>6. QED BY <2>1, <2>3, <2>4, <2>5
  <1>3. ASSUME NEW tick \in Ticks, TickComes(tick) \/ Serve(tick) PROVE Orderly'
    <2>1. /\ UNCHANGED <<asking, toss, upbit, calls, restarts>>
          /\ due' \subseteq Ticks /\ work' \in Seq(Tasks)
      BY <1>3, TasksListed DEF TickComes, Serve
    <2>2. QED
      BY <2>1 DEF asking, toss, token, upbit, CallsTypeOK, TossTypeOK, UpbitTypeOK, Waiting,
                  InHandIsOpen, NothingBefore, Free, Placing
  <1>4. QED BY <1>1, <1>2, <1>3

\* The loop's own steps.
LEMMA LoopOrderly ==
  ASSUME Orderly, BeginCall \/ EndCall \/ Restart \/ (\E o \in Orders : PlaceOrder(o))
  PROVE  Orderly'
  <1> USE CallsAssumption, UpbitAssumption DEF toss, token, upbit
  <1>1. CASE BeginCall
    <2>1. Free /\ ~Idle /\ UNCHANGED <<fate, said, toss, upbit, due, restarts>>
      BY <1>1 DEF BeginCall
    <2>p. PICK run \in Upcoming :
            /\ call' = Begun(Head(run), IF Head(run).client = "toss" THEN "throttle" ELSE "limiter",
                             Held(Head(run).client))
            /\ calls' = Tail(run)
      BY <1>1 DEF BeginCall
    <2>2. /\ calls' \in Seq(Reads) /\ work' \in Seq(Tasks)
      BY <1>1, <2>p, <2>1, NextCall DEF BeginCall, Orderly, Types
    <2>3. PICK stage \in {"throttle", "limiter"}, wait \in Nat :
            call' = Begun(Head(run), stage, wait)
      BY <2>p DEF Held, Orderly, Types, UpbitTypeOK
    <2>4. CASE Head(run) \in Reads
      <3>1. CallsTypeOK' /\ ~Placing'
        BY <2>1, <2>3, <2>4 DEF Begun, Reads, CallsTypeOK, Orderly, Types, Placing, Purposes,
                                Venues, Stages
      <3>2. QED
        BY <2>1, <2>2, <3>1 DEF Orderly, Types, TossTypeOK, UpbitTypeOK, Waiting, InHandIsOpen,
                                NothingBefore
    <2>5. ASSUME NEW venue \in Venues, NEW o \in Orders, run = <<PlaceCall(venue, o)>>,
                 fate[o] = "asked", said[o] = "nothing"
          PROVE  Orderly'
      <3>1. Head(run) = PlaceCall(venue, o)
        BY <2>5
      <3>2. call' = Begun(PlaceCall(venue, o), stage, wait)
        BY <2>3, <3>1
      <3>3. CallsTypeOK'
        BY <2>1, <3>2 DEF Begun, PlaceCall, CallsTypeOK, Orderly, Types, Purposes, Clients, Roles,
                          Venues, Stages
      <3>4. InHandIsOpen'
        BY <2>1, <2>5, <3>2 DEF Begun, PlaceCall, InHandIsOpen
      <3>5. QED
        BY <2>1, <2>2, <3>3, <3>4 DEF Orderly, Types, TossTypeOK, UpbitTypeOK, Waiting,
                                      NothingBefore
    <2>6. QED BY <2>1, <2>4, <2>5, NextCall
  <1>2. CASE EndCall
    <2>1. call' = NoCall /\ UNCHANGED <<fate, said, toss, upbit, due, restarts>>
      BY <1>2 DEF EndCall
    <2>2. CallsTypeOK' /\ Free'
      BY <2>1 DEF NoCall, Begun, Call, CallsTypeOK, Orderly, Types, Purposes, Clients, Venues,
                  Stages, Free
    <2>3. calls \in Seq(Reads) /\ work \in Seq(Tasks)
      BY <1>2 DEF EndCall, Orderly, Types, Waiting, Free
    <2>4. calls' \in {calls, <<>>} /\ work' = work
      BY <1>2 DEF EndCall, AfterError, At
    <2>5. calls' \in Seq(Reads)
      <3>1. <<>> \in Seq(Reads)
        OBVIOUS
      <3>2. QED BY <2>3, <2>4, <3>1
    <2>6. QED
      BY <2>1, <2>2, <2>3, <2>4, <2>5
      DEF Orderly, Types, TossTypeOK, UpbitTypeOK, Waiting, InHandIsOpen, NothingBefore
  <1>3. CASE Restart
    <2>1. /\ call' = NoCall /\ calls' = <<>> /\ due' = {} /\ UNCHANGED <<fate, said>>
          /\ restarts' \in 0..MaxRestarts
      BY <1>3, LoopAssumption DEF Restart, Orderly, Types
    <2>2. work' \in Seq(Tasks)
      BY <1>3, TasksListed DEF Restart, Ticks
    <2>3. CallsTypeOK' /\ Free'
      BY <2>1 DEF NoCall, Begun, Call, CallsTypeOK, Orderly, Types, Purposes, Clients, Venues,
                  Stages, Free
    <2>4. TossTypeOK'
      BY <1>3 DEF Restart, TossTypeOK
    <2>5. UpbitTypeOK'
      BY <1>3 DEF Restart, UpbitTypeOK
    <2>6. QED
      BY <2>1, <2>2, <2>3, <2>4, <2>5 DEF Orderly, Types, Waiting, InHandIsOpen, NothingBefore
  <1>4. ASSUME NEW o \in Orders, PlaceOrder(o) PROVE Orderly'
    <2>1. PICK venue \in Venues : calls' = <<PlaceCall(venue, o)>>
      BY <1>4 DEF PlaceOrder
    <2>2. /\ Free /\ UNCHANGED <<call, said, toss, upbit, due, work, restarts>>
          /\ fate[o] = "unasked" /\ fate' = [fate EXCEPT ![o] = "asked"]
      BY <1>4 DEF PlaceOrder, Idle
    <2>3. fate'[o] = "asked" /\ said'[o] = "nothing" /\ Free'
      BY <2>2 DEF Orderly, Types, CallsTypeOK, NothingBefore, Free
    <2>4. Waiting'
      BY <2>1, <2>3 DEF Waiting
    <2>5. CallsTypeOK' /\ NothingBefore'
      BY <2>2 DEF Orderly, Types, CallsTypeOK, NothingBefore
    <2>6. QED
      BY <2>2, <2>3, <2>4, <2>5 DEF Orderly, Types, TossTypeOK, UpbitTypeOK, InHandIsOpen
  <1>5. QED BY <1>1, <1>2, <1>3, <1>4

LEMMA OrderlyStep == Orderly /\ [Next]_vars => Orderly'
  <1> SUFFICES ASSUME Orderly, [Next]_vars PROVE Orderly'
    OBVIOUS
  <1>1. CASE UNCHANGED vars
    BY <1>1 DEF vars, asking, toss, token, upbit, loop, Orderly, Types, CallsTypeOK, TossTypeOK,
                UpbitTypeOK, Waiting, InHandIsOpen, NothingBefore, Free, Placing
  <1>2. QED
    BY <1>1, TossOrderly, UpbitOrderly, WorldOrderly, LoopOrderly
    DEF Next, Progress, ClientStep, Others

-----------------------------------------------------------------------------
(* Theorems.                                                               *)

THEOREM OrderlyAlways == Spec => []Orderly
  <1>1. Init => Orderly
    BY OrderlyInit
  <1>2. Orderly /\ [Next]_vars => Orderly'
    BY OrderlyStep
  <1>3. QED BY <1>1, <1>2, PTL DEF Spec

\* The account, once chosen, stays; whoever names one names it.
AccountInv == used = {} \/ (seq # NoAccount /\ used = {seq})

LEMMA AccountStep == Orderly /\ AccountInv /\ [Next]_vars => AccountInv'
  <1> SUFFICES ASSUME Orderly, AccountInv, [Next]_vars PROVE AccountInv'
    OBVIOUS
  <1>1. CASE TossSends
    BY <1>1 DEF TossSends, Scoped, AccountInv
  <1>2. CASE TossOK
    <2>1. seq # NoAccount => seq' = seq
      BY <1>2 DEF TossOK, Picks
    <2>2. used' = used
      BY <1>2 DEF TossOK
    <2>3. QED BY <2>1, <2>2 DEF AccountInv
  <1>3. CASE Restart
    BY <1>3 DEF Restart, AccountInv
  <1>4. CASE TossStep /\ ~TossSends /\ ~TossOK
    <2>1. UNCHANGED <<seq, used>>
      BY <1>4 DEF TossStep, AskToken, TokenIssued, TokenNotIssued, TossBlocked, NoAccountSelected,
                  Unauthorized, TossBusy, TossFails, WakesUp, toss
    <2>2. QED BY <2>1 DEF AccountInv
  <1>5. CASE ~TossStep /\ ~Restart
    <2>1. UNCHANGED <<seq, used>>
      BY <1>5 DEF Next, Passes, Progress, ClientStep, BeginCall, EndCall, Exchange, Revoke,
                  TickComes, Serve, PlaceOrder, vars, toss
    <2>2. QED BY <2>1 DEF AccountInv
  <1>6. QED BY <1>1, <1>2, <1>3, <1>4, <1>5

\* Every call of a process that names a brokerage account names the same one
\* (toss/trading.go, Snapshot), whatever accounts the login lists and however
\* the list changes.
THEOREM OneAccountAlways == Spec => []OneAccount
  <1>1. Init => AccountInv
    BY DEF Init, TossInit, AccountInv
  <1>2. AccountInv => OneAccount
    <2>1. Cardinality({}) = 0 /\ Cardinality({seq}) = 1
      BY FS_EmptySet, FS_Singleton
    <2>2. CASE used = {}
      BY <2>1, <2>2 DEF OneAccount
    <2>3. CASE used = {seq}
      BY <2>1, <2>3 DEF OneAccount
    <2>4. QED BY <2>2, <2>3 DEF AccountInv
  <1>3. QED BY <1>1, <1>2, AccountStep, OrderlyAlways, PTL DEF Spec

\* Whoever waits for the limiter waits as long as Upbit wants silence.
SilenceInv ==
  /\ \A role \in Roles : pause[role] >= banned
  /\ Upbit /\ At("limiter") => call.left >= banned
  /\ CooldownHolds

LEMMA SilenceStep == Orderly /\ SilenceInv /\ [Next]_vars => SilenceInv'
  <1> SUFFICES ASSUME Orderly, SilenceInv, [Next]_vars PROVE SilenceInv'
    OBVIOUS
  <1> USE UpbitAssumption DEF SilenceInv, CooldownHolds, Upbit, At
  <1>t. /\ banned \in Nat /\ call.left \in Nat /\ \A role \in Roles : pause[role] \in Nat
        /\ call \in [client : Clients, what : Purposes, venue : Venues,
                     order : Orders \cup {NoOrder}, attempt : 1..3, stage : Stages, left : Nat]
    BY DEF Orderly, Types, UpbitTypeOK, CallsTypeOK
  <1>1. CASE Passes
    <2>1. /\ call' = [call EXCEPT !.left = Less(call.left)]
          /\ pause' = [role \in Roles |-> Less(pause[role])] /\ banned' = Less(banned)
      BY <1>1 DEF Passes
    <2>2. /\ call'.left = Less(call.left) /\ call'.client = call.client
          /\ call'.stage = call.stage
      BY <1>t, <2>1
    <2>3. QED BY <1>t, <2>1, <2>2 DEF Less
  <1>2. CASE UpbitSends
    <2>1. /\ Upbit /\ At("limiter") /\ call.left = 0 /\ UNCHANGED <<pause, banned>>
          /\ call' = [call EXCEPT !.stage = "sending", !.left = Timeout]
      BY <1>2 DEF UpbitSends, Leaves, Move, upbit
    <2>2. banned = 0 /\ call'.stage = "sending"
      BY <1>t, <2>1
    <2>3. QED BY <2>1, <2>2
  <1>3. CASE Limited
    <2>1. /\ banned' = Cooldown
          /\ pause' = [role \in Roles |-> IF pause[role] < Cooldown THEN Cooldown ELSE pause[role]]
          /\ call' = [call EXCEPT !.stage = "failed", !.left = 0]
      BY <1>3 DEF Limited, SharedWith, Fails, Move
    <2>2. call'.stage = "failed"
      BY <1>t, <2>1
    <2>3. QED BY <1>t, <2>1, <2>2
  <1>4. CASE UpbitOK \/ UpbitFails \/ UpbitBlocked \/ EndCall
    <2>1. UNCHANGED <<pause, banned>>
      BY <1>4 DEF UpbitOK, UpbitFails, UpbitBlocked, upbit, EndCall
    <2>2. call' = NoCall \/ \E stage \in {"ok", "failed"} : Move(stage, 0)
      BY <1>4 DEF UpbitOK, UpbitFails, UpbitBlocked, Blocked, FailsUnsent, Succeeds, Fails, EndCall
    <2>3. call'.stage \in {"ok", "failed", "none"}
      <3>1. ASSUME NEW stage \in {"ok", "failed"}, Move(stage, 0) PROVE call'.stage = stage
        BY <1>t, <3>1 DEF Move
      <3>2. NoCall.stage = "none"
        BY DEF NoCall, Begun
      <3>3. QED BY <2>2, <3>1, <3>2
    <2>4. QED BY <2>1, <2>3
  <1>5. CASE TossStep /\ UNCHANGED upbit
    <2>1. /\ UNCHANGED <<pause, banned>>
          /\ call.client = "toss" /\ call'.client = "toss"
      BY <1>t, <1>5 DEF TossStep, AskToken, TokenIssued, TokenNotIssued, TossBlocked, TossSends,
                        NoAccountSelected, TossOK, Unauthorized, TossBusy, TossFails, WakesUp,
                        Toss, FailsUnsent, Leaves, Succeeds, Fails, Retry, Move, upbit, Blocked
    <2>2. QED BY <2>1 DEF Roles
  <1>6. CASE BeginCall
    <2>1. UNCHANGED <<pause, banned>>
      BY <1>6 DEF BeginCall, upbit
    <2>2. PICK run \in Upcoming :
            call' = Begun(Head(run), IF Head(run).client = "toss" THEN "throttle" ELSE "limiter",
                          Held(Head(run).client))
      BY <1>6 DEF BeginCall
    <2>3. /\ call'.client = Head(run).client
          /\ call'.stage \in {"throttle", "limiter"}
          /\ call'.left = Held(Head(run).client)
      BY <2>2 DEF Begun
    <2>4. QED BY <2>1, <2>3 DEF Held
  <1>7. CASE Restart
    <2>1. banned' = 0 /\ pause' = [role \in Roles |-> 0] /\ call'.stage = "none"
      BY <1>7 DEF Restart, NoCall, Begun
    <2>2. QED BY <2>1
  <1>8. CASE UNCHANGED <<call, pause, banned>>
    BY <1>8
  <1>9. QED
    <2>1. \/ Passes
          \/ UpbitSends
          \/ Limited
          \/ UpbitOK \/ UpbitFails \/ UpbitBlocked \/ EndCall
          \/ (TossStep /\ UNCHANGED upbit)
          \/ BeginCall \/ Restart
          \/ UNCHANGED <<call, pause, banned>>
      BY DEF Next, Progress, ClientStep, UpbitStep, Exchange, Revoke, Arrives, Decided, asking,
             TickComes, Serve, PlaceOrder, vars, upbit
    <2>2. QED BY <1>1, <1>2, <1>3, <1>4, <1>5, <1>6, <1>7, <1>8, <2>1

\* After Upbit has rejected a call for its rate, no client of the account says
\* anything for as long as the limiter holds them back (upbit/client.go,
\* Limiter.Backoff); and every variable has its type.
THEOREM LoopIsOKAlways == Spec => []LoopOK
  <1>1. Init => SilenceInv
    BY UpbitAssumption
    DEF Init, UpbitInit, CallsInit, NoCall, Begun, SilenceInv, CooldownHolds, Upbit, At
  <1>2. Orderly => TypeOK
    <2> SUFFICES ASSUME Orderly PROVE TypeOK
      OBVIOUS
    <2>1. calls \in Seq(Requests)
      <3>1. Reads \subseteq Requests
        BY DEF Reads, Requests, Purposes, Venues
      <3>2. \A venue \in Venues, o \in Orders : PlaceCall(venue, o) \in Requests
        BY DEF PlaceCall, Requests, Clients, Roles, Purposes
      <3>3. \A r \in Requests : <<r>> \in Seq(Requests)
        OBVIOUS
      <3>4. calls \in Seq(Reads) => calls \in Seq(Requests)
        BY <3>1
      <3>5. QED BY <3>2, <3>3, <3>4 DEF Orderly, Waiting
    <2>2. QED BY <2>1 DEF Orderly, Types, TypeOK
  <1>3. SilenceInv => CooldownHolds
    BY DEF SilenceInv
  <1>4. TypeOK /\ CooldownHolds => LoopOK
    BY DEF LoopOK
  <1>5. QED BY <1>1, <1>2, <1>3, <1>4, SilenceStep, OrderlyAlways, PTL DEF Spec

\* A token in use outlasts the wait for an answer; the one a request carries,
\* what is left of that wait.
TokenInv ==
  /\ lease > 0 => life > lease + Timeout
  /\ Toss /\ At("authorized") => lease > 0
  /\ Toss /\ At("sending") => life > call.left

LEMMA TokenStep == Orderly /\ TokenInv /\ [Next]_vars => TokenInv'
  <1> SUFFICES ASSUME Orderly, TokenInv, [Next]_vars PROVE TokenInv'
    OBVIOUS
  <1> USE DEF TokenInv, Toss, At
  <1>t. /\ lease \in Nat /\ life \in Nat /\ Timeout \in Nat
        /\ call \in [client : Clients, what : Purposes, venue : Venues,
                     order : Orders \cup {NoOrder}, attempt : 1..3, stage : Stages, left : Nat]
    BY CallsAssumption DEF Orderly, Types, TossTypeOK, CallsTypeOK
  <1>1. CASE Passes
    <2>1. /\ InFlight => call.left > 0
          /\ ~At("authorized")
          /\ call' = [call EXCEPT !.left = Less(call.left)] /\ lease' = Less(lease)
          /\ lease' > 0 \/ (Toss /\ At("sending")) => life' = Less(life)
      BY <1>1, <1>t DEF Passes, Less
    <2>2. /\ call'.left = Less(call.left) /\ call'.client = call.client
          /\ call'.stage = call.stage
      BY <1>t, <2>1
    <2>3. lease' > 0 => life' > lease' + Timeout
      BY <1>t, <2>1 DEF Less
    <2>4. Toss' /\ At("sending")' => life' > call'.left
      BY <1>t, <2>1, <2>2 DEF Less, InFlight
    <2>5. QED BY <2>1, <2>2, <2>3, <2>4
  <1>2. CASE TokenIssued
    <2>1. PICK given \in Lifetimes, late \in 0..(Timeout - call.left) :
            lease' = LeaseFor(given) /\ life' = given - late
      BY <1>2 DEF TokenIssued
    <2>2. lease' > 0 /\ life' > lease' + Timeout
      BY <2>1, TokenTimes
    <2>3. call'.stage = "authorized"
      BY <1>2, <1>t DEF TokenIssued, Move
    <2>4. QED BY <2>2, <2>3
  <1>3. CASE TossSends
    <2>1. lease > 0 /\ UNCHANGED <<lease, life>>
      BY <1>3 DEF TossSends, Authorized, HasToken, token
    <2>2. call'.stage = "sending" /\ call'.left = Timeout
      BY <1>3, <1>t DEF TossSends, Leaves, Move
    <2>3. QED BY <1>t, <2>1, <2>2
  <1>4. CASE Unauthorized
    <2>1. lease' = 0 /\ call'.stage \in {"throttle", "failed"}
      BY <1>4, <1>t DEF Unauthorized, Invalidate, Retry, Fails, Move
    <2>2. QED BY <2>1
  <1>5. CASE \/ AskToken \/ TokenNotIssued \/ TossBlocked \/ NoAccountSelected \/ TossOK
             \/ TossBusy \/ TossFails \/ WakesUp
    <2>1. UNCHANGED <<lease, life>>
      BY <1>5 DEF AskToken, TokenNotIssued, TossBlocked, NoAccountSelected, TossOK, TossBusy,
                  TossFails, WakesUp, toss, token
    <2>2. call'.stage \in {"issuing", "failed", "ok", "sleep", "throttle"}
      BY <1>5, <1>t
      DEF AskToken, TokenNotIssued, TossBlocked, NoAccountSelected, TossOK, TossBusy, TossFails,
          WakesUp, Blocked, FailsUnsent, Succeeds, Fails, Retry, Move
    <2>3. QED BY <2>1, <2>2
  <1>6. CASE UpbitStep /\ UNCHANGED toss
    <2>1. UNCHANGED <<lease, life>> /\ call'.client # "toss"
      BY <1>6, <1>t DEF UpbitStep, UpbitSends, UpbitOK, Limited, UpbitFails, UpbitBlocked, Blocked,
                        Upbit, Roles, FailsUnsent, Leaves, Succeeds, Fails, Move, toss, token
    <2>2. QED BY <2>1
  <1>7. CASE BeginCall \/ EndCall
    <2>1. UNCHANGED <<lease, life>> /\ call'.stage \in {"throttle", "limiter", "none"}
      BY <1>7 DEF BeginCall, EndCall, Begun, NoCall, toss, token
    <2>2. QED BY <2>1
  <1>8. CASE Restart
    <2>1. lease' = 0 /\ call'.stage = "none"
      BY <1>8 DEF Restart, NoCall, Begun
    <2>2. QED BY <2>1
  <1>9. CASE UNCHANGED <<call, lease, life>>
    BY <1>9
  <1>10. QED
    <2>1. \/ Passes \/ TossStep
          \/ (UpbitStep /\ UNCHANGED toss)
          \/ BeginCall \/ EndCall \/ Restart
          \/ UNCHANGED <<call, lease, life>>
      BY DEF Next, Progress, ClientStep, Exchange, Revoke, Arrives, Decided, asking,
             TickComes, Serve, PlaceOrder, vars, toss, token
    <2>2. TossStep => \/ TokenIssued \/ TossSends \/ Unauthorized
                      \/ AskToken \/ TokenNotIssued \/ TossBlocked \/ NoAccountSelected \/ TossOK
                      \/ TossBusy \/ TossFails \/ WakesUp
      BY DEF TossStep
    <2>3. QED BY <1>1, <1>2, <1>3, <1>4, <1>5, <1>6, <1>7, <1>8, <1>9, <2>1, <2>2

\* No request outlives the access token it carries (toss/client.go, tokenLead),
\* for every lead and every lifetime that leave time for it.
THEOREM TokenIsGoodAlways == Spec => []TokenIsGood
  <1>1. Init => TokenInv
    BY DEF Init, TossInit, CallsInit, NoCall, Begun, TokenInv, At
  <1>2. Orderly /\ TokenInv => TokenIsGood
    BY DEF Orderly, Types, CallsTypeOK, TossTypeOK, TokenInv, TokenIsGood
  <1>3. QED BY <1>1, <1>2, TokenStep, OrderlyAlways, PTL DEF Spec

-----------------------------------------------------------------------------
(* What the clients promise.                                               *)

Kept == [Promise!Next]_(Promise!vars)

\* Nothing the promise speaks of changes.
LEMMA NothingSaid ==
  ASSUME Orderly, said' = said,
         \/ fate' = fate
         \/ \E o \in Orders, f \in {"asked", "travelling", "deciding"} :
              Outcome(fate[o]) = "open" /\ fate' = [fate EXCEPT ![o] = f]
  PROVE  Kept
  <1>1. \A o \in Orders : Outcome(fate'[o]) = Outcome(fate[o])
    BY DEF Orderly, Types, CallsTypeOK, Outcome
  <1>2. [o \in Orders |-> Outcome(fate[o])]' = [o \in Orders |-> Outcome(fate[o])]
    BY <1>1
  <1>3. QED BY <1>2 DEF Kept, Promise!vars

\* The exchange, or the executor, moves one order on.
LEMMA OrderMoves ==
  ASSUME Orderly, said' = said, NEW o \in Orders, NEW f, fate' = [fate EXCEPT ![o] = f],
         \/ fate[o] = "unasked" /\ f = "asked"
         \/ fate[o] \in {"asked", "travelling", "deciding"} /\ f \in {"made", "refused"}
  PROVE  Kept
  <1> DEFINE seen == [p \in Orders |-> Outcome(fate[p])]
  <1>1. seen' = [seen EXCEPT ![o] = Outcome(f)]
    BY DEF Orderly, Types, CallsTypeOK
  <1>2. \/ seen[o] = "unasked" /\ Outcome(f) = "open"
        \/ seen[o] = "open" /\ Outcome(f) \in {"made", "never"}
    BY DEF Outcome
  <1> HIDE DEF seen
  <1>3. \/ seen[o] \in {"unasked"} /\ seen' = [seen EXCEPT ![o] = "open"]
        \/ seen[o] \in {"open"} /\ seen' = [seen EXCEPT ![o] = "made"]
        \/ seen[o] \in {"open"} /\ seen' = [seen EXCEPT ![o] = "never"]
    BY <1>1, <1>2
  <1>4. QED
    BY <1>3 DEF seen, Kept, Promise!Next, Promise!Ask, Promise!TakesEffect, Promise!Vanishes,
                Promise!Becomes

\* The caller is told what is true.
LEMMA TruthTold ==
  ASSUME Orderly, ~Free, Placing, call.stage \notin {"ok", "failed"}, NEW word, Tells(word),
         LET o == call.order
         IN \/ fate' = fate /\ \/ word = "accepted" /\ fate[o] = "made"
                               \/ word = "definite" /\ fate[o] = "refused"
                               \/ word = "ambiguous" /\ fate[o] # "unasked"
            \/ fate' = [fate EXCEPT ![o] = "refused"] /\ fate[o] = "asked" /\ word = "definite"
  PROVE  Kept
  <1> DEFINE o == call.order
             seen == [p \in Orders |-> Outcome(fate[p])]
  <1>1. o \in Orders /\ said[o] = "nothing"
    BY DEF Orderly, InHandIsOpen
  <1>2. said' = [said EXCEPT ![o] = word]
    BY DEF Tells
  <1>3. CASE fate' = fate /\ word = "accepted" /\ fate[o] = "made"
    <2>1. seen[o] = "made" /\ seen' = seen
      BY <1>1, <1>3 DEF Outcome
    <2>2. QED
      BY <1>1, <1>2, <1>3, <2>1 DEF Kept, Promise!Next, Promise!Accepted, Promise!Says
  <1>4. CASE fate' = fate /\ word = "ambiguous" /\ fate[o] # "unasked"
    <2>1. seen[o] # "unasked" /\ seen' = seen
      BY <1>1, <1>4 DEF Outcome
    <2>2. QED
      BY <1>1, <1>2, <1>4, <2>1 DEF Kept, Promise!Next, Promise!Ambiguous, Promise!Says
  <1>5. CASE /\ word = "definite"
             /\ \/ fate' = fate /\ fate[o] = "refused"
                \/ fate' = [fate EXCEPT ![o] = "refused"] /\ fate[o] = "asked"
    <2>1. seen[o] \in {"open", "never"}
      BY <1>1, <1>5 DEF Outcome
    <2>2. seen' = [seen EXCEPT ![o] = "never"]
      <3>1. CASE fate' = fate /\ fate[o] = "refused"
        <4>1. seen[o] = "never" /\ seen' = seen
          BY <1>1, <3>1 DEF Outcome
        <4>2. QED BY <4>1, <1>1
      <3>2. CASE fate' = [fate EXCEPT ![o] = "refused"] /\ fate[o] = "asked"
        BY <1>1, <3>2 DEF Orderly, Types, CallsTypeOK, Outcome
      <3>3. QED BY <1>5, <3>1, <3>2
    <2>3. QED
      BY <1>1, <1>2, <1>5, <2>1, <2>2
      DEF Kept, Promise!Next, Promise!Refused, Promise!Becomes, Promise!Says
  <1>6. QED BY <1>3, <1>4, <1>5

\* Nothing left, and the caller knows.
LEMMA UnsentKept ==
  ASSUME Orderly, FailsUnsent, call.stage \in {"throttle", "issuing", "authorized", "limiter"}
  PROVE  Kept
  <1>1. CASE Placing
    <2>1. fate[call.order] = "asked" /\ ~Free
      BY <1>1 DEF Orderly, InHandIsOpen, Free
    <2>2. QED BY <1>1, <2>1, TruthTold DEF FailsUnsent
  <1>2. CASE ~Placing
    BY <1>2, NothingSaid DEF FailsUnsent, Tells
  <1>3. QED BY <1>1, <1>2

\* A request leaves.
LEMMA LeavesKept ==
  ASSUME Orderly, Leaves, call.stage \in {"throttle", "authorized", "limiter"}
  PROVE  Kept
  <1>1. CASE Placing
    <2>1. call.order \in Orders /\ Outcome(fate[call.order]) = "open"
      BY <1>1 DEF Orderly, InHandIsOpen, Free, Outcome
    <2>2. QED BY <1>1, <2>1, NothingSaid DEF Leaves
  <1>2. CASE ~Placing
    BY <1>2, NothingSaid DEF Leaves
  <1>3. QED BY <1>1, <1>2

\* An answer says what it may say of the order.
LEMMA AnswerKept ==
  ASSUME Orderly, At("sending"),
         \/ Succeeds /\ "2xx" \in Answers
         \/ Fails(FALSE) /\ (Placing => fate[call.order] = "refused")
         \/ \E answer \in Answers, ambiguous \in BOOLEAN :
              Fails(ambiguous) /\ (Placing /\ ~ambiguous => answer \in {"4xx", "429"})
  PROVE  Kept
  <1>1. CASE ~Placing
    BY <1>1, NothingSaid DEF Succeeds, Fails, Tells
  <1>2. CASE Placing
    <2> DEFINE f == fate[call.order]
    <2>1. ~Free /\ f # "unasked"
      BY <1>2 DEF Orderly, InHandIsOpen, At, Free
    <2>2. Answers = AnswersTo(f)
      BY <1>2 DEF Answers
    <2>3. CASE Succeeds /\ "2xx" \in Answers
      <3>1. f = "made"
        BY <2>2, <2>3 DEF AnswersTo
      <3>2. QED BY <1>2, <2>1, <2>3, <3>1, TruthTold DEF Succeeds, At
    <2>4. CASE Fails(FALSE) /\ f = "refused"
      BY <1>2, <2>1, <2>4, TruthTold DEF Fails, At
    <2>5. ASSUME NEW answer \in Answers, NEW ambiguous \in BOOLEAN, Fails(ambiguous),
                 ~ambiguous => answer \in {"4xx", "429"}
          PROVE  Kept
      <3>1. CASE ambiguous
        BY <1>2, <2>1, <2>5, <3>1, TruthTold DEF Fails, At
      <3>2. CASE ~ambiguous
        <4>1. f = "refused"
          BY <2>2, <2>5, <3>2 DEF AnswersTo
        <4>2. QED BY <1>2, <2>1, <2>5, <3>2, <4>1, TruthTold DEF Fails, At
      <3>3. QED BY <3>1, <3>2
    <2>6. QED BY <1>2, <2>3, <2>4, <2>5
  <1>3. QED BY <1>1, <1>2

LEMMA TossKept == Orderly /\ TossStep => Kept
  <1> SUFFICES ASSUME Orderly, TossStep PROVE Kept
    OBVIOUS
  <1>1. CASE AskToken \/ TokenIssued \/ WakesUp
    <2>1. UNCHANGED <<fate, said>>
      BY <1>1 DEF AskToken, TokenIssued, WakesUp
    <2>2. QED BY <2>1, NothingSaid
  <1>2. CASE TokenNotIssued \/ TossBlocked \/ NoAccountSelected
    <2>1. FailsUnsent /\ call.stage \in {"throttle", "issuing", "authorized", "limiter"}
      BY <1>2 DEF TokenNotIssued, TossBlocked, Blocked, NoAccountSelected, Authorized, At
    <2>2. QED BY <2>1, UnsentKept
  <1>3. CASE TossSends
    BY <1>3, LeavesKept DEF TossSends, Authorized, At
  <1>4. CASE TossOK
    <2>1. call.what = "accounts" => ~Placing
      BY DEF Placing
    <2>2. QED BY <1>4, <2>1, AnswerKept DEF TossOK
  <1>5. CASE Unauthorized
    <2>1. CASE MayRetry
      BY <1>5, <2>1, NothingSaid DEF Unauthorized, Retry
    <2>2. CASE ~MayRetry
      BY <1>5, <2>2, AnswerKept DEF Unauthorized
    <2>3. QED BY <2>1, <2>2
  <1>6. CASE TossBusy
    <2>1. CASE MayRetry
      <3>1. UNCHANGED <<fate, said>>
        BY <1>6, <2>1 DEF TossBusy, Retry
      <3>2. QED BY <3>1, NothingSaid
    <2>2. CASE ~MayRetry
      BY <1>6, <2>2, AnswerKept DEF TossBusy
    <2>3. QED BY <2>1, <2>2
  <1>7. CASE TossFails
    <2>1. PICK answer \in Answers \ {"2xx", "429"} : Fails(IsAmbiguous(answer))
      BY <1>7 DEF TossFails
    <2>2. IsAmbiguous(answer) \in BOOLEAN
      BY DEF IsAmbiguous
    <2>3. Placing /\ ~IsAmbiguous(answer) => answer \in {"4xx", "429"}
      BY <2>1 DEF IsAmbiguous, Answers, AnswersTo
    <2>4. QED BY <1>7, <2>1, <2>2, <2>3, AnswerKept DEF TossFails
  <1>8. QED BY <1>1, <1>2, <1>3, <1>4, <1>5, <1>6, <1>7 DEF TossStep

LEMMA UpbitKept == Orderly /\ UpbitStep => Kept
  <1> SUFFICES ASSUME Orderly, UpbitStep PROVE Kept
    OBVIOUS
  <1>1. CASE UpbitSends
    BY <1>1, LeavesKept DEF UpbitSends, At
  <1>2. CASE UpbitOK
    BY <1>2, AnswerKept DEF UpbitOK
  <1>3. CASE Limited
    <2>1. Unread("429") \in BOOLEAN
      BY DEF Unread
    <2>2. QED BY <1>3, <2>1, AnswerKept DEF Limited
  <1>4. CASE UpbitFails
    <2>1. PICK answer \in Answers \ {"2xx", "429", "in-progress"} : Fails(Unread(answer))
      BY <1>4 DEF UpbitFails
    <2>2. Unread(answer) \in BOOLEAN
      BY DEF Unread
    <2>3. Placing /\ ~Unread(answer) => answer \in {"4xx", "429"}
      BY <2>1 DEF Unread, Answers, AnswersTo
    <2>4. QED BY <1>4, <2>1, <2>2, <2>3, AnswerKept DEF UpbitFails
  <1>5. CASE UpbitBlocked
    BY <1>5, UnsentKept DEF UpbitBlocked, Blocked
  <1>6. QED BY <1>1, <1>2, <1>3, <1>4, <1>5 DEF UpbitStep

LEMMA StepKept == Orderly /\ [Next]_vars => Kept
  <1> SUFFICES ASSUME Orderly, [Next]_vars PROVE Kept
    OBVIOUS
  <1>1. ASSUME NEW o \in Orders, PlaceOrder(o) PROVE Kept
    BY <1>1, OrderMoves DEF PlaceOrder
  <1>2. ASSUME NEW o \in Orders, Arrives(o) \/ Decided(o) PROVE Kept
    <2>1. PICK f \in {"deciding", "refused", "made"} :
            /\ fate' = [fate EXCEPT ![o] = f] /\ said' = said
            /\ fate[o] \in {"travelling", "deciding"}
      BY <1>2 DEF Arrives, Decided
    <2>2. CASE f = "deciding"
      BY <2>1, <2>2, NothingSaid DEF Outcome
    <2>3. CASE f # "deciding"
      BY <2>1, <2>3, OrderMoves
    <2>4. QED BY <2>2, <2>3
  <1>3. CASE UNCHANGED <<fate, said>>
    BY <1>3, NothingSaid
  <1>4. QED
    BY <1>1, <1>2, <1>3, TossKept, UpbitKept
    DEF Next, Passes, Progress, ClientStep, BeginCall, EndCall, Exchange, Revoke, Restart,
        TickComes, Serve, vars, asking

\* The clients keep what Exchange.Place promises the order executor
\* (orders/exchange.go, broker.Error), for any number of orders: each is asked
\* for once, and Place says it failed for good only when it can never exist.
THEOREM PlacementImplemented == Spec => ImplementsPlacement
  <1>1. Init => Promise!Init
    <2> SUFFICES ASSUME Init PROVE Promise!Init
      OBVIOUS
    <2>1. \A o \in Orders : Outcome(fate[o]) = "unasked"
      BY DEF Init, CallsInit, Outcome
    <2>2. QED BY <2>1 DEF Init, CallsInit, Promise!Init
  <1>2. Orderly /\ [Next]_vars => [Promise!Next]_(Promise!vars)
    BY StepKept DEF Kept
  <1>3. QED
    BY <1>1, <1>2, OrderlyAlways, PTL DEF Spec, ImplementsPlacement, Promise!Spec
=============================================================================
