-------------------------------- MODULE Inbox --------------------------------
(***************************************************************************)
(* How updates get from Telegram to the handlers: App.poll fetches them    *)
(* and feeds a bounded channel, App.dispatch acts on one at a time and     *)
(* then stores the offset past it (app/app.go).                            *)
(*                                                                         *)
(* Poll and dispatch run beside each other.  The offset poll asks with is  *)
(* its own; the stored one is read when the process starts.  To ask with   *)
(* an offset tells Telegram to forget every update before it.  Updates are *)
(* numbered in the order they are made; what one does is left out.         *)
(***************************************************************************)
EXTENDS Naturals, Sequences, FiniteSets

CONSTANTS
  MaxUpdates,  \* bound: updates ever made
  Foreign,     \* updates of somebody who is not the owner
  Capacity,    \* what the channel holds, 32 in the code
  MaxFaults    \* bound: failures

\* What the constants are taken to be; Telegram assumes it.
ConstantsOK ==
  /\ MaxUpdates \in Nat /\ MaxFaults \in Nat /\ Capacity \in Nat \ {0}
  /\ Foreign \subseteq Nat

VARIABLES
  made,      \* the last update Telegram was given
  confirmed, \* Telegram's own offset: updates before it are forgotten
  up,        \* the process runs
  offset,    \* poll: the next update to ask for
  batch,     \* poll: received, not yet in the channel
  channel,   \* updates between poll and the loop
  stage,     \* what dispatch does: "idle", "act", "store"
  cur,       \* the update dispatch has taken last
  stored,    \* runtime_state "telegram_offset"
  faults,    \* failures so far
  acted,     \* for checking: how often each update was acted on
  life,      \* for checking: updates this process acted on
  lost,      \* for checking: updates a stop lost for good
  unread     \* for checking: this process could not read the stored offset

poll     == <<offset, batch>>
dispatch == <<stage, cur>>
history  == <<acted, life, lost, unread>>
vars     == <<made, confirmed, up, poll, channel, dispatch, stored, faults, history>>

Updates == 1..MaxUpdates
Fault   == faults < MaxFaults /\ faults' = faults + 1
NoFault == UNCHANGED faults

\* What Telegram answers to a question with offset o, and forgets on it.
From(o)   == IF o > confirmed THEN o ELSE confirmed
Answer(o) == [i \in 1..(made + 1 - From(o)) |-> From(o) + i - 1]

-----------------------------------------------------------------------------
(* Telegram.                                                               *)

Make ==
  /\ made < MaxUpdates
  /\ made' = made + 1
  /\ UNCHANGED <<confirmed, up, poll, channel, dispatch, stored, faults, history>>

-----------------------------------------------------------------------------
(* poll.                                                                   *)

\* getUpdates, which may find nothing new; asking is enough to make Telegram forget.
Poll ==
  /\ up /\ batch = <<>>
  /\ confirmed' = From(offset)
  /\ batch' = Answer(offset)
  /\ UNCHANGED <<made, up, offset, channel, dispatch, stored, faults, history>>

PollFails ==
  /\ up /\ batch = <<>> /\ Fault
  /\ confirmed' \in {confirmed, From(offset)}
  /\ UNCHANGED <<made, up, poll, channel, dispatch, stored, history>>

\* Mutant: an update is not passed over once it is queued.
After_Same(u) == u

\* The offset past an update.
After(u) == u + 1

\* Mutant: what does not fit the channel is dropped.
Queue_Dropping ==
  /\ up /\ batch # <<>>
  /\ channel' = IF Len(channel) < Capacity THEN Append(channel, Head(batch)) ELSE channel
  /\ offset' = After(Head(batch))
  /\ batch' = Tail(batch)
  /\ UNCHANGED <<made, confirmed, up, dispatch, stored, faults, history>>

\* Mutant: an update is marked read when it is queued.
Queue_Storing ==
  /\ up /\ batch # <<>> /\ Len(channel) < Capacity
  /\ channel' = Append(channel, Head(batch))
  /\ offset' = After(Head(batch)) /\ stored' = After(Head(batch))
  /\ batch' = Tail(batch)
  /\ UNCHANGED <<made, confirmed, up, dispatch, faults, history>>

\* The channel blocks while it is full.
Queue ==
  /\ up /\ batch # <<>> /\ Len(channel) < Capacity
  /\ channel' = Append(channel, Head(batch))
  /\ offset' = After(Head(batch))
  /\ batch' = Tail(batch)
  /\ UNCHANGED <<made, confirmed, up, dispatch, stored, faults, history>>

-----------------------------------------------------------------------------
(* dispatch.                                                               *)

\* An update that is not the owner's is passed over, and no offset is stored.
Take ==
  /\ up /\ stage = "idle" /\ channel # <<>>
  /\ cur' = Head(channel)
  /\ channel' = Tail(channel)
  /\ stage' = IF cur' \in Foreign THEN "idle" ELSE "act"
  /\ UNCHANGED <<made, confirmed, up, poll, stored, faults, history>>

\* The handler runs; that it fails is only logged.
Act ==
  /\ up /\ stage = "act"
  /\ acted' = [acted EXCEPT ![cur] = @ + 1]
  /\ life' = life \cup {cur}
  /\ stage' = "store"
  /\ UNCHANGED <<made, confirmed, up, poll, channel, cur, stored, faults, lost, unread>>

\* That the offset cannot be stored is only logged, too.
StoreOffset ==
  /\ up /\ stage = "store"
  /\ \/ stored' = After(cur) /\ NoFault
     \/ UNCHANGED stored /\ Fault
  /\ stage' = "idle"
  /\ UNCHANGED <<made, confirmed, up, poll, channel, cur, history>>

-----------------------------------------------------------------------------
(* The process.                                                            *)

Stop ==
  /\ up /\ Fault
  /\ up' = FALSE
  /\ batch' = <<>> /\ channel' = <<>> /\ stage' = "idle" /\ cur' = 0 /\ offset' = 0
  /\ lost' = {u \in Updates \ Foreign : u < confirmed /\ acted[u] = 0}
  /\ life' = {}
  /\ UNCHANGED <<made, confirmed, stored, acted, unread>>

\* Mutant: poll begins anew with whatever Telegram still has.
Start_Fresh ==
  /\ ~up /\ up' = TRUE
  /\ offset' = 0 /\ unread' = FALSE
  /\ UNCHANGED <<made, confirmed, batch, channel, dispatch, stored, faults, acted, life, lost>>

\* poll reads the stored offset; if that fails it starts with none.
Start ==
  /\ ~up /\ up' = TRUE
  /\ \/ offset' = stored /\ NoFault /\ unread' = FALSE
     \/ offset' = 0 /\ Fault /\ unread' = TRUE
  /\ UNCHANGED <<made, confirmed, batch, channel, dispatch, stored, acted, life, lost>>

-----------------------------------------------------------------------------
Init ==
  /\ made = 0 /\ confirmed = 1 /\ up = FALSE
  /\ offset = 0 /\ batch = <<>> /\ channel = <<>>
  /\ stage = "idle" /\ cur = 0 /\ stored = 0 /\ faults = 0
  /\ acted = [u \in Updates |-> 0] /\ life = {} /\ lost = {} /\ unread = FALSE

Dispatch == Take \/ Act \/ StoreOffset

Next == Make \/ Poll \/ PollFails \/ Queue \/ Dispatch \/ Stop \/ Start

Spec == Init /\ [][Next]_vars

TypeOK ==
  /\ made \in 0..MaxUpdates /\ confirmed \in 1..(MaxUpdates + 1) /\ up \in BOOLEAN
  /\ offset \in 0..(MaxUpdates + 1) /\ stored \in 0..(MaxUpdates + 1)
  /\ batch \in Seq(Updates) /\ channel \in Seq(Updates) /\ Len(channel) <= Capacity
  /\ stage \in {"idle", "act", "store"} /\ cur \in 0..MaxUpdates
  /\ faults \in 0..MaxFaults
  /\ acted \in [Updates -> Nat] /\ life \subseteq Updates /\ lost \subseteq Updates /\ unread \in BOOLEAN

-----------------------------------------------------------------------------
(* Correctness.                                                            *)

\* A process acts on updates in the order they were made and on none twice,
\* whatever it had to fetch again (poll's offset).
InOrderOnce ==
  [][\A u \in Updates : acted'[u] > acted[u] => \A v \in life : v < u]_vars

\* The stored offset passes over no update that could still be acted on
\* (dispatch stores it last), so a restart skips nothing Telegram still has.
StoredWasActedOn ==
  \A u \in Updates \ Foreign : u < stored => acted[u] > 0 \/ u \in lost

\* The types (the channel keeps its bound), and no update passed over.
InboxOK == TypeOK /\ StoredWasActedOn

\* A restart repeats nothing it need not: an update is acted on again only if
\* its own offset, and every later one, was never stored, or could not be read.
RepeatsAreUnstored ==
  [][\A u \in Updates : acted'[u] > acted[u] /\ acted[u] > 0 => stored <= u \/ unread]_vars

\* Every update of the owner is acted on, unless a stop lost it: the bounded
\* channel holds poll up but drops nothing.
ActedOnInTheEnd ==
  \A u \in Updates \ Foreign : made >= u ~> acted[u] > 0 \/ u \in lost

\* An update is never marked read before it has been acted on.  To Telegram it
\* is, as soon as poll asks for the next ones.
ReadWasActedOn == \A u \in Updates \ Foreign : u < confirmed => acted[u] > 0
=============================================================================
