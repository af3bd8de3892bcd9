--------------------------- MODULE TelegramProofs ---------------------------
(***************************************************************************)
(* Theorems about Telegram, for any number of updates and notices, any     *)
(* channel, any batch and any number of faults.                            *)
(***************************************************************************)
EXTENDS Telegram, FiniteSetTheorems, SequenceTheorems, TLAPS

-----------------------------------------------------------------------------
(* Updates.                                                                *)

Updates == 1..MaxUpdates

InboxTypes ==
  /\ made \in 0..MaxUpdates /\ confirmed \in 1..(MaxUpdates + 1) /\ up \in BOOLEAN
  /\ offset \in 0..(MaxUpdates + 1) /\ stored \in 0..(MaxUpdates + 1)
  /\ fetched \in Seq(Updates) /\ channel \in Seq(Updates) /\ Len(channel) <= Capacity
  /\ stage \in {"idle", "act", "store"} /\ cur \in 0..MaxUpdates
  /\ acted \in [Updates -> Nat] /\ life \subseteq Updates /\ lost \subseteq Updates
  /\ unread \in BOOLEAN

\* In the order they were made: the one in hand, the channel, what poll holds.
InLine ==
  /\ cur = 0 \/ cur < offset
  /\ \A i \in 1..Len(channel) : cur < channel[i] /\ channel[i] < offset
  /\ \A i, j \in 1..Len(channel) : i < j => channel[i] < channel[j]
  /\ \A i \in 1..Len(fetched) : offset <= fetched[i]
  /\ \A i, j \in 1..Len(fetched) : i < j => fetched[i] < fetched[j]

\* What dispatch has in hand, and has had.
InHand ==
  /\ stage # "idle" => cur \in Updates \ Foreign
  /\ \A v \in life : v <= cur /\ (stage = "act" => v < cur)
  /\ stage = "store" => acted[cur] > 0
  /\ ~up => channel = <<>> /\ fetched = <<>> /\ stage = "idle" /\ offset = 0 /\ cur = 0

Holds(s, u) == \E i \in 1..Len(s) : s[i] = u

\* An update of the owner is with the process, or done, or lost.
InSight(u) ==
  \/ acted[u] > 0 \/ u \in lost
  \/ stage = "act" /\ u = cur
  \/ Holds(channel, u) \/ Holds(fetched, u)

\* Nothing that Telegram forgot or poll went past is out of sight.
Covered ==
  /\ \A u \in Updates \ Foreign :
       \/ u < confirmed
       \/ u < offset
       \/ \E i \in 1..Len(fetched) : u <= fetched[i]
       => InSight(u)
  /\ \A u \in lost : u < confirmed

\* With the stored offset read, nothing before it is worked on again.
PastStored ==
  up /\ ~unread =>
    /\ stored <= offset
    /\ stage = "act" => stored <= cur
    /\ \A i \in 1..Len(channel) : stored <= channel[i]
    /\ \A i \in 1..Len(fetched) : stored <= fetched[i]

InboxInv == InboxTypes /\ InLine /\ InHand /\ Covered /\ PastStored /\ In!StoredWasActedOn

ConstantTypes ==
  /\ MaxUpdates \in Nat /\ MaxFaults \in Nat /\ Capacity \in Nat \ {0}
  /\ MaxEvents \in Nat /\ Batch \in Nat \ {0}

LEMMA Constants == ConstantTypes
  BY TelegramAssumption DEF ConstantTypes, In!ConstantsOK, Out!ConstantsOK

LEMMA InboxInit == Init => InboxInv
  <1> SUFFICES ASSUME Init PROVE InboxInv
    OBVIOUS
  <1> USE Constants DEF ConstantTypes, Init, In!Init, In!Updates, Updates
  <1>1. Len(<<>>) = 0 /\ <<>> \in Seq(Updates)
    OBVIOUS
  <1>2. InboxTypes
    <2>1. /\ made \in 0..MaxUpdates /\ confirmed \in 1..(MaxUpdates + 1)
          /\ offset \in 0..(MaxUpdates + 1) /\ stored \in 0..(MaxUpdates + 1)
          /\ cur \in 0..MaxUpdates /\ Len(channel) <= Capacity
      BY <1>1
    <2>2. acted \in [Updates -> Nat]
      OBVIOUS
    <2>3. up \in BOOLEAN /\ unread \in BOOLEAN
      OBVIOUS
    <2>4. QED BY <1>1, <2>1, <2>2, <2>3 DEF InboxTypes
  <1>3. InLine /\ InHand /\ Covered /\ PastStored
    BY <1>1 DEF InLine, InHand, Covered, PastStored
  <1>4. In!StoredWasActedOn
    BY DEF In!StoredWasActedOn
  <1>5. QED BY <1>2, <1>3, <1>4 DEF InboxInv

\* What Telegram answers.
LEMMA Answered ==
  ASSUME InboxTypes
  PROVE  /\ In!From(offset) \in 1..(MaxUpdates + 1)
         /\ In!From(offset) >= offset /\ In!From(offset) >= confirmed
         /\ In!From(offset) = offset \/ In!From(offset) = confirmed
         /\ In!Answer(offset) \in Seq(Updates)
         /\ \A i \in 1..Len(In!Answer(offset)) :
              /\ In!Answer(offset)[i] = In!From(offset) + i - 1
              /\ In!Answer(offset)[i] <= made
         /\ \A u \in Updates : u >= In!From(offset) /\ u <= made =>
              Holds(In!Answer(offset), u)
  <1> DEFINE from == In!From(offset)
             n    == IF made + 1 >= from THEN made + 1 - from ELSE 0
             ans  == In!Answer(offset)
  <1>1. /\ from \in 1..(MaxUpdates + 1) /\ from >= offset /\ from >= confirmed
        /\ from = offset \/ from = confirmed
    BY Constants DEF ConstantTypes, InboxTypes, In!From
  <1>2. made \in Nat /\ made <= MaxUpdates /\ from \in Nat /\ n \in Nat
    BY <1>1, Constants DEF ConstantTypes, InboxTypes
  <1>3. 1..(made + 1 - from) = 1..n
    BY <1>2
  <1>4. ans = [i \in 1..n |-> from + i - 1]
    BY <1>3 DEF In!Answer
  <1>5. \A i \in 1..n : from + i - 1 \in Updates /\ from + i - 1 <= made
    <2> SUFFICES ASSUME NEW i \in 1..n PROVE from + i - 1 \in Updates /\ from + i - 1 <= made
      OBVIOUS
    <2>1. from >= 1 /\ MaxUpdates \in Nat
      BY <1>1, Constants DEF ConstantTypes
    <2> HIDE DEF from
    <2>2. i \in Nat /\ i >= 1 /\ i <= made + 1 - from
      BY <1>2
    <2>3. QED BY <1>2, <2>1, <2>2 DEF Updates
  <1>6. \A u \in Updates : u >= from /\ u <= made =>
          u - from + 1 \in 1..n /\ from + (u - from + 1) - 1 = u
    BY <1>2, Constants DEF ConstantTypes, Updates
  <1> HIDE DEF from, n, ans
  <1>7. ans \in Seq(Updates) /\ Len(ans) = n
    <2>1. ans \in [1..n -> Updates]
      BY <1>4, <1>5
    <2>2. DOMAIN ans = 1..n
      BY <1>4
    <2>3. QED BY <1>2, <2>1, <2>2
  <1>8. \A i \in 1..Len(ans) : ans[i] = from + i - 1 /\ ans[i] <= made
    BY <1>4, <1>5, <1>7
  <1>9. ASSUME NEW u \in Updates, u >= from, u <= made PROVE Holds(ans, u)
    <2>1. u - from + 1 \in 1..n /\ from + (u - from + 1) - 1 = u
      BY <1>6, <1>9
    <2>2. QED BY <1>7, <1>8, <2>1 DEF Holds
  <1>10. QED BY <1>1, <1>7, <1>8, <1>9 DEF from, ans

-----------------------------------------------------------------------------
(* Every step keeps the invariant of the way in.                           *)

LEMMA StepMake ==
  ASSUME InboxInv, In!Make PROVE InboxInv'
  <1>1. InboxTypes'
    BY Constants DEF InboxInv, ConstantTypes, InboxTypes, In!Make, In!poll, In!dispatch, In!history
  <1>2. UNCHANGED <<confirmed, up, offset, fetched, channel, stage, cur, stored, acted, life, lost, unread>>
    BY DEF In!Make, In!poll, In!dispatch, In!history
  <1>3. (InLine /\ InHand /\ Covered /\ PastStored /\ In!StoredWasActedOn)'
    BY <1>2 DEF InboxInv, InLine, InHand, Covered, InSight, Holds, PastStored, In!StoredWasActedOn,
                In!Updates
  <1>4. QED BY <1>1, <1>3 DEF InboxInv

\* Whether or not the answer arrives.
LEMMA StepAsked ==
  ASSUME InboxInv, up, fetched = <<>>,
         confirmed' \in {confirmed, In!From(offset)},
         \/ fetched' = <<>>
         \/ fetched' = In!Answer(offset) /\ confirmed' = In!From(offset),
         UNCHANGED <<made, up, offset, channel, stage, cur, stored, acted, life, lost, unread>>
  PROVE  InboxInv'
  <1> DEFINE from == In!From(offset)
  <1>1. InboxTypes /\ InLine /\ InHand /\ Covered /\ PastStored /\ In!StoredWasActedOn
    BY DEF InboxInv
  <1>2. /\ from \in 1..(MaxUpdates + 1) /\ from >= offset /\ from >= confirmed
        /\ from = offset \/ from = confirmed
        /\ confirmed' \in 1..(MaxUpdates + 1) /\ confirmed' >= confirmed
        /\ confirmed' = offset \/ confirmed' = confirmed
    BY <1>1, Answered DEF InboxTypes
  <1>3. /\ fetched' \in Seq(Updates)
        /\ \A i \in 1..Len(fetched') :
             confirmed' = from /\ fetched'[i] = from + i - 1 /\ fetched'[i] <= made
        /\ \A u \in Updates : Len(fetched') # 0 /\ u >= from /\ u <= made => Holds(fetched', u)
    <2>1. CASE fetched' = <<>>
      BY <2>1
    <2>2. CASE fetched' = In!Answer(offset) /\ confirmed' = from
      BY <1>1, <2>2, Answered
    <2>3. QED BY <2>1, <2>2
  <1> HIDE DEF from
  <1>4. InboxTypes'
    BY <1>1, <1>2, <1>3 DEF InboxTypes
  <1>5. \A i \in 1..Len(fetched') : offset <= fetched'[i] /\ from <= fetched'[i]
    <2> SUFFICES ASSUME NEW i \in 1..Len(fetched')
                 PROVE offset <= fetched'[i] /\ from <= fetched'[i]
      OBVIOUS
    <2>1. offset \in Nat /\ from \in Nat /\ i \in Nat /\ i >= 1
      BY <1>1, <1>2, <1>3, Constants DEF InboxTypes, ConstantTypes
    <2>2. QED BY <1>2, <1>3, <2>1
  <1>6. \A i, j \in 1..Len(fetched') : i < j => fetched'[i] < fetched'[j]
    <2>1. from \in Nat /\ Len(fetched') \in Nat
      BY <1>2, <1>3, Constants DEF ConstantTypes
    <2>2. QED BY <1>3, <2>1
  <1>7. InLine'
    BY <1>1, <1>5, <1>6 DEF InLine
  <1>8. InHand'
    <2>1. ~(~up')
      OBVIOUS
    <2>2. QED BY <1>1, <2>1 DEF InHand
  <1>9. Covered'
    <2>1. ASSUME NEW u \in Updates \ Foreign, InSight(u) PROVE InSight(u)'
      BY <2>1 DEF InSight, Holds
    <2>2. ASSUME NEW u \in Updates \ Foreign, u < confirmed' \/ u < offset PROVE InSight(u)
      BY <1>1, <1>2, <2>2 DEF Covered
    <2>3. ASSUME NEW u \in Updates \ Foreign, NEW i \in 1..Len(fetched'), u <= fetched'[i]
          PROVE  InSight(u)'
      <3>1. /\ u \in Nat /\ from \in Nat /\ confirmed' = from /\ fetched'[i] <= made
            /\ fetched'[i] \in Nat /\ made \in Nat /\ Len(fetched') # 0
        <4>1. u \in Nat /\ from \in Nat /\ made \in Nat
          BY <1>1, <1>2, Constants DEF InboxTypes, ConstantTypes, Updates
        <4>2. confirmed' = from /\ fetched'[i] <= made
          BY <1>3
        <4>3. Len(fetched') # 0 /\ fetched'[i] \in Updates
          <5>1. Len(fetched') \in Nat /\ i \in Nat /\ i >= 1 /\ i <= Len(fetched')
            BY <1>3
          <5>2. fetched'[i] \in Updates
            BY <1>3, <5>1
          <5>3. QED BY <5>1, <5>2
        <4>4. QED BY <4>1, <4>2, <4>3, Constants DEF ConstantTypes, Updates
      <3>2. CASE u < from
        BY <2>1, <2>2, <3>1, <3>2
      <3>3. CASE u >= from
        <4>1. u <= made
          BY <2>3, <3>1
        <4>2. Holds(fetched', u)
          BY <1>3, <3>1, <3>3, <4>1
        <4>3. QED BY <4>2 DEF InSight, Holds
      <3>4. QED BY <3>1, <3>2, <3>3
    <2>4. \A u \in lost' : u < confirmed'
      <3>1. \A u \in lost : u \in Nat /\ u < confirmed
        BY <1>1, Constants DEF Covered, InboxTypes, Updates, ConstantTypes
      <3>2. confirmed \in Nat /\ confirmed' \in Nat
        BY <1>1, <1>2, Constants DEF InboxTypes, ConstantTypes
      <3>3. QED BY <1>2, <3>1, <3>2
    <2>5. QED BY <2>1, <2>2, <2>3, <2>4 DEF Covered
  <1>10. PastStored'
    <2>1. \A i \in 1..Len(fetched') : stored <= offset => stored <= fetched'[i]
      <3>1. stored \in Nat /\ offset \in Nat /\ \A i \in 1..Len(fetched') : fetched'[i] \in Nat
        <4>1. stored \in Nat /\ offset \in Nat /\ Updates \subseteq Nat
          BY <1>1, Constants DEF InboxTypes, ConstantTypes, Updates
        <4>2. \A i \in 1..Len(fetched') : fetched'[i] \in Updates
          BY <1>3
        <4>3. QED BY <4>1, <4>2
      <3>2. QED BY <1>5, <3>1
    <2>2. QED BY <1>1, <2>1 DEF PastStored
  <1>11. In!StoredWasActedOn'
    BY <1>1 DEF In!StoredWasActedOn, In!Updates
  <1>12. QED BY <1>4, <1>7, <1>8, <1>9, <1>10, <1>11 DEF InboxInv

\* Taking the first of a sequence, and adding a last one.
LEMMA Shift ==
  ASSUME NEW S, NEW s \in Seq(S), s # <<>>
  PROVE  /\ Head(s) = s[1] /\ Head(s) \in S /\ Len(s) \in Nat /\ Len(s) >= 1
         /\ Tail(s) \in Seq(S) /\ Len(Tail(s)) = Len(s) - 1
         /\ \A i \in 1..Len(Tail(s)) : i + 1 \in 1..Len(s) /\ Tail(s)[i] = s[i + 1]
         /\ \A u : Holds(s, u) => u = Head(s) \/ Holds(Tail(s), u)
  <1>1. /\ Len(s) \in Nat /\ Len(s) >= 1 /\ Head(s) = s[1] /\ Head(s) \in S
        /\ Tail(s) \in Seq(S) /\ Len(Tail(s)) = Len(s) - 1
    OBVIOUS
  <1>2. \A i \in 1..Len(Tail(s)) : i + 1 \in 1..Len(s) /\ Tail(s)[i] = s[i + 1]
    BY <1>1
  <1>3. ASSUME NEW u, Holds(s, u), u # Head(s) PROVE Holds(Tail(s), u)
    <2>1. PICK j \in 1..Len(s) : s[j] = u
      BY <1>3 DEF Holds
    <2>2. j # 1
      BY <1>1, <1>3, <2>1
    <2>3. j - 1 \in 1..Len(Tail(s)) /\ (j - 1) + 1 = j
      BY <1>1, <2>1, <2>2
    <2>4. QED BY <1>2, <2>1, <2>3 DEF Holds
  <1>4. QED BY <1>1, <1>2, <1>3

LEMMA Wider ==
  ASSUME NEW S, NEW T, S \subseteq T, NEW s \in Seq(S)
  PROVE  s \in Seq(T)
  <1>1. s \in [1..Len(s) -> T] /\ Len(s) \in Nat
    OBVIOUS
  <1>2. QED BY <1>1

LEMMA Grow ==
  ASSUME NEW S, NEW s \in Seq(S), NEW e \in S
  PROVE  /\ Append(s, e) \in Seq(S) /\ Len(Append(s, e)) = Len(s) + 1 /\ Len(s) \in Nat
         /\ \A i \in 1..Len(s) : Append(s, e)[i] = s[i]
         /\ Append(s, e)[Len(s) + 1] = e
         /\ \A i \in 1..(Len(s) + 1) : i \in 1..Len(s) \/ i = Len(s) + 1
         /\ \A u : Holds(s, u) \/ u = e => Holds(Append(s, e), u)
  <1>1. /\ Append(s, e) \in Seq(S) /\ Len(Append(s, e)) = Len(s) + 1 /\ Len(s) \in Nat
        /\ Append(s, e)[Len(s) + 1] = e
    OBVIOUS
  <1>2. \A i \in 1..Len(s) : Append(s, e)[i] = s[i]
    OBVIOUS
  <1>3. \A i \in 1..(Len(s) + 1) : i \in 1..Len(s) \/ i = Len(s) + 1
    BY <1>1
  <1>4. ASSUME NEW u, Holds(s, u) \/ u = e PROVE Holds(Append(s, e), u)
    <2>1. CASE Holds(s, u)
      <3>1. PICK i \in 1..Len(s) : s[i] = u
        BY <2>1 DEF Holds
      <3>2. i \in 1..(Len(s) + 1)
        BY <1>1
      <3>3. QED BY <1>1, <1>2, <3>1, <3>2 DEF Holds
    <2>2. CASE u = e
      <3>1. Len(s) + 1 \in 1..(Len(s) + 1)
        BY <1>1
      <3>2. QED BY <1>1, <2>2, <3>1 DEF Holds
    <2>3. QED BY <1>4, <2>1, <2>2
  <1>5. QED BY <1>1, <1>2, <1>3, <1>4

\* What the types say in numbers.
LEMMA Numbers ==
  ASSUME InboxTypes
  PROVE  /\ made \in Nat /\ confirmed \in Nat /\ offset \in Nat /\ stored \in Nat /\ cur \in Nat
         /\ Updates \subseteq Nat /\ \A u \in Updates : u >= 1 /\ u + 1 \in 0..(MaxUpdates + 1)
         /\ \A i \in 1..Len(channel) : channel[i] \in Updates
         /\ \A i \in 1..Len(fetched) : fetched[i] \in Updates
  <1>1. /\ made \in Nat /\ confirmed \in Nat /\ offset \in Nat /\ stored \in Nat /\ cur \in Nat
        /\ Updates \subseteq Nat /\ \A u \in Updates : u >= 1 /\ u + 1 \in 0..(MaxUpdates + 1)
    BY Constants DEF InboxTypes, ConstantTypes, Updates
  <1>2. channel \in Seq(Updates) /\ fetched \in Seq(Updates)
    BY DEF InboxTypes
  <1>3. QED BY <1>1, <1>2

LEMMA StepQueue ==
  ASSUME InboxInv, In!Queue PROVE InboxInv'
  <1> DEFINE h == Head(fetched)
  <1>1. InboxTypes /\ InLine /\ InHand /\ Covered /\ PastStored /\ In!StoredWasActedOn
    BY DEF InboxInv
  <1>2. /\ up /\ fetched # <<>> /\ Len(channel) < Capacity
        /\ channel' = Append(channel, h) /\ offset' = h + 1 /\ fetched' = Tail(fetched)
        /\ UNCHANGED <<made, confirmed, up, stage, cur, stored, acted, life, lost, unread>>
    BY DEF In!Queue, In!After, In!dispatch, In!history
  <1>3. /\ h \in Updates /\ h = fetched[1] /\ 1 \in 1..Len(fetched)
        /\ Tail(fetched) \in Seq(Updates)
        /\ \A i \in 1..Len(fetched') : i + 1 \in 1..Len(fetched) /\ fetched'[i] = fetched[i + 1]
        /\ \A u : Holds(fetched, u) => u = h \/ Holds(fetched', u)
    BY <1>1, <1>2, Shift DEF InboxTypes
  <1>4. /\ channel' \in Seq(Updates) /\ Len(channel') = Len(channel) + 1 /\ Len(channel) \in Nat
        /\ \A i \in 1..Len(channel) : channel'[i] = channel[i]
        /\ channel'[Len(channel) + 1] = h
        /\ \A i \in 1..Len(channel') : i \in 1..Len(channel) \/ i = Len(channel) + 1
        /\ \A u : Holds(channel, u) \/ u = h => Holds(channel', u)
    BY <1>1, <1>2, <1>3, Grow DEF InboxTypes
  <1>5. offset <= h /\ h < offset' /\ offset < offset' /\ h >= 1 /\ h \in Nat
        /\ offset' \in 0..(MaxUpdates + 1)
    <2>1. h \in Nat /\ h >= 1 /\ h + 1 \in 0..(MaxUpdates + 1) /\ offset \in Nat
      BY <1>1, <1>3, Numbers
    <2>2. offset <= h
      BY <1>1, <1>3 DEF InLine
    <2> HIDE DEF h
    <2>3. QED BY <1>2, <2>1, <2>2
  <1> HIDE DEF h
  <1>6. InboxTypes'
    <2>1. Len(channel') <= Capacity
      BY <1>2, <1>4, Constants DEF ConstantTypes
    <2>2. QED BY <1>1, <1>2, <1>3, <1>4, <1>5, <2>1 DEF InboxTypes
  <1>7. InLine'
    <2>1. cur' = 0 \/ cur' < offset'
      BY <1>1, <1>2, <1>5, Numbers DEF InLine
    <2>2. cur < h /\ \A i \in 1..Len(channel) : channel[i] < h
      BY <1>1, <1>5, Numbers DEF InLine
    <2>3. \A i \in 1..Len(channel') : cur' < channel'[i] /\ channel'[i] < offset'
      <3>1. \A i \in 1..Len(channel) : cur < channel[i] /\ channel[i] < offset'
        BY <1>1, <1>2, <1>5, <2>2, Numbers DEF InLine
      <3>2. QED BY <1>2, <1>4, <1>5, <2>2, <3>1
    <2>4. \A i, j \in 1..Len(channel') : i < j => channel'[i] < channel'[j]
      <3> SUFFICES ASSUME NEW i \in 1..Len(channel'), NEW j \in 1..Len(channel'), i < j
                   PROVE  channel'[i] < channel'[j]
        OBVIOUS
      <3>1. i \in 1..Len(channel)
        BY <1>4
      <3>2. CASE j \in 1..Len(channel)
        BY <1>1, <1>4, <3>1, <3>2 DEF InLine
      <3>3. CASE j = Len(channel) + 1
        BY <1>4, <2>2, <3>1, <3>3
      <3>4. QED BY <1>4, <3>2, <3>3
    <2>5. \A i \in 1..Len(fetched') : offset' <= fetched'[i]
      <3> SUFFICES ASSUME NEW i \in 1..Len(fetched') PROVE offset' <= fetched'[i]
        OBVIOUS
      <3>1. i + 1 \in 1..Len(fetched) /\ 1 < i + 1 /\ fetched'[i] = fetched[i + 1]
        BY <1>3
      <3>2. fetched[1] < fetched[i + 1] /\ fetched[i + 1] \in Nat
        BY <1>1, <1>3, <3>1, Numbers DEF InLine
      <3>3. QED BY <1>2, <1>3, <1>5, <3>1, <3>2
    <2>6. \A i, j \in 1..Len(fetched') : i < j => fetched'[i] < fetched'[j]
      <3> SUFFICES ASSUME NEW i \in 1..Len(fetched'), NEW j \in 1..Len(fetched'), i < j
                   PROVE  fetched'[i] < fetched'[j]
        OBVIOUS
      <3>1. i + 1 < j + 1
        OBVIOUS
      <3>2. QED BY <1>1, <1>3, <3>1 DEF InLine
    <2>7. QED BY <2>1, <2>3, <2>4, <2>5, <2>6 DEF InLine
  <1>8. InHand'
    BY <1>1, <1>2 DEF InHand
  <1>9. Covered'
    <2>1. ASSUME NEW u \in Updates \ Foreign, InSight(u) PROVE InSight(u)'
      BY <1>2, <1>3, <1>4, <2>1 DEF InSight, Holds
    <2>2. ASSUME NEW u \in Updates \ Foreign,
                 u < offset' \/ \E i \in 1..Len(fetched') : u <= fetched'[i]
          PROVE  InSight(u)
      <3>1. u < offset' => u <= fetched[1]
        BY <1>2, <1>3, <1>5, Numbers, <1>1
      <3>2. \E i \in 1..Len(fetched) : u <= fetched[i]
        BY <1>3, <2>2, <3>1
      <3>3. QED BY <1>1, <3>2 DEF Covered
    <2>3. \A u \in lost' : u < confirmed'
      BY <1>1, <1>2 DEF Covered
    <2>4. ASSUME NEW u \in Updates \ Foreign, u < confirmed' PROVE InSight(u)
      BY <1>1, <1>2, <2>4 DEF Covered
    <2>5. QED BY <2>1, <2>2, <2>3, <2>4 DEF Covered
  <1>10. PastStored'
    <2> SUFFICES ASSUME ~unread
                 PROVE  /\ stored <= offset'
                        /\ stage = "act" => stored <= cur
                        /\ \A i \in 1..Len(channel') : stored <= channel'[i]
                        /\ \A i \in 1..Len(fetched') : stored <= fetched'[i]
      BY <1>2 DEF PastStored
    <2>1. /\ stored <= offset
          /\ stage = "act" => stored <= cur
          /\ \A i \in 1..Len(channel) : stored <= channel[i]
          /\ \A i \in 1..Len(fetched) : stored <= fetched[i]
      BY <1>1, <1>2 DEF PastStored
    <2>2. stored <= offset' /\ stored <= h
      BY <1>1, <1>2, <1>3, <1>5, <2>1, Numbers
    <2>3. QED BY <1>3, <1>4, <2>1, <2>2
  <1>11. In!StoredWasActedOn'
    BY <1>1, <1>2 DEF In!StoredWasActedOn, In!Updates
  <1>12. QED BY <1>6, <1>7, <1>8, <1>9, <1>10, <1>11 DEF InboxInv

LEMMA StepTake ==
  ASSUME InboxInv, In!Take PROVE InboxInv'
  <1> DEFINE h == Head(channel)
  <1>1. InboxTypes /\ InLine /\ InHand /\ Covered /\ PastStored /\ In!StoredWasActedOn
    BY DEF InboxInv
  <1>2. /\ up /\ stage = "idle" /\ channel # <<>> /\ cur' = h /\ channel' = Tail(channel)
        /\ stage' = IF cur' \in Foreign THEN "idle" ELSE "act"
        /\ UNCHANGED <<made, confirmed, up, offset, fetched, stored, acted, life, lost, unread>>
    BY DEF In!Take, In!poll, In!history
  <1>3. /\ h \in Updates /\ h = channel[1] /\ 1 \in 1..Len(channel)
        /\ Tail(channel) \in Seq(Updates) /\ Len(channel') = Len(channel) - 1 /\ Len(channel) \in Nat
        /\ \A i \in 1..Len(channel') : i + 1 \in 1..Len(channel) /\ channel'[i] = channel[i + 1]
        /\ \A u : Holds(channel, u) => u = h \/ Holds(channel', u)
    BY <1>1, <1>2, Shift DEF InboxTypes
  <1>4. cur < h /\ h < offset /\ h \in Nat /\ h \in 0..MaxUpdates
    BY <1>1, <1>3, Numbers, Constants DEF InLine, Updates, ConstantTypes
  <1> HIDE DEF h
  <1>5. InboxTypes'
    <2>1. Len(channel') <= Capacity
      BY <1>1, <1>3, Constants DEF ConstantTypes, InboxTypes
    <2>2. QED BY <1>1, <1>2, <1>3, <1>4, <2>1 DEF InboxTypes
  <1>6. InLine'
    <2>1. \A i, j \in 1..Len(channel') : i < j => channel'[i] < channel'[j]
      <3> SUFFICES ASSUME NEW i \in 1..Len(channel'), NEW j \in 1..Len(channel'), i < j
                   PROVE  channel'[i] < channel'[j]
        OBVIOUS
      <3>1. i + 1 < j + 1
        OBVIOUS
      <3>2. QED BY <1>1, <1>3, <3>1 DEF InLine
    <2>2. \A i \in 1..Len(channel') : cur' < channel'[i] /\ channel'[i] < offset'
      <3> SUFFICES ASSUME NEW i \in 1..Len(channel')
                   PROVE  cur' < channel'[i] /\ channel'[i] < offset'
        OBVIOUS
      <3>1. i + 1 \in 1..Len(channel) /\ 1 < i + 1 /\ channel'[i] = channel[i + 1]
        BY <1>3
      <3>2. QED BY <1>1, <1>2, <1>3, <3>1 DEF InLine
    <2>3. QED BY <1>1, <1>2, <1>4, <2>1, <2>2 DEF InLine
  <1>7. InHand'
    <2>1. \A v \in life : v < h
      BY <1>1, <1>4, Numbers DEF InHand, InboxTypes
    <2>2. \A v \in life' : v <= cur' /\ (stage' = "act" => v < cur')
      <3>1. \A v \in life : v \in Nat
        BY <1>1, Numbers DEF InboxTypes
      <3>2. QED BY <1>2, <1>4, <2>1, <3>1
    <2>3. stage' # "idle" => cur' \in Updates \ Foreign
      BY <1>2, <1>3
    <2>4. QED BY <1>2, <2>2, <2>3 DEF InHand
  <1>8. Covered'
    <2>1. ASSUME NEW u \in Updates \ Foreign, InSight(u) PROVE InSight(u)'
      BY <1>2, <1>3, <2>1 DEF InSight, Holds
    <2>2. QED BY <1>1, <1>2, <2>1 DEF Covered
  <1>9. PastStored'
    BY <1>1, <1>2, <1>3 DEF PastStored
  <1>10. In!StoredWasActedOn'
    BY <1>1, <1>2 DEF In!StoredWasActedOn, In!Updates
  <1>11. QED BY <1>5, <1>6, <1>7, <1>8, <1>9, <1>10 DEF InboxInv

LEMMA StepAct ==
  ASSUME InboxInv, In!Act PROVE InboxInv'
  <1>1. InboxTypes /\ InLine /\ InHand /\ Covered /\ PastStored /\ In!StoredWasActedOn
    BY DEF InboxInv
  <1>2. /\ up /\ stage = "act" /\ acted' = [acted EXCEPT ![cur] = @ + 1]
        /\ life' = life \cup {cur} /\ stage' = "store"
        /\ UNCHANGED <<made, confirmed, up, offset, fetched, channel, cur, stored, lost, unread>>
    BY DEF In!Act, In!poll
  <1>3. cur \in Updates \ Foreign /\ acted[cur] \in Nat
    BY <1>1, <1>2 DEF InHand, InboxTypes
  <1>4. /\ acted' \in [Updates -> Nat] /\ acted'[cur] > 0
        /\ \A u \in Updates : acted[u] > 0 => acted'[u] > 0
    BY <1>1, <1>2, <1>3 DEF InboxTypes
  <1>5. InboxTypes'
    BY <1>1, <1>2, <1>3, <1>4 DEF InboxTypes
  <1>6. InLine'
    BY <1>1, <1>2 DEF InLine
  <1>7. InHand'
    <2>1. \A v \in life' : v <= cur
      BY <1>1, <1>2, Numbers DEF InHand
    <2>2. QED BY <1>1, <1>2, <1>3, <1>4, <2>1 DEF InHand
  <1>8. Covered'
    <2>1. ASSUME NEW u \in Updates \ Foreign, InSight(u) PROVE InSight(u)'
      BY <1>2, <1>4, <2>1 DEF InSight, Holds
    <2>2. QED BY <1>1, <1>2, <2>1 DEF Covered
  <1>9. PastStored'
    BY <1>1, <1>2 DEF PastStored
  <1>10. In!StoredWasActedOn'
    BY <1>1, <1>2, <1>4 DEF In!StoredWasActedOn, In!Updates, Updates
  <1>11. QED BY <1>5, <1>6, <1>7, <1>8, <1>9, <1>10 DEF InboxInv

LEMMA StepStoreOffset ==
  ASSUME InboxInv, In!StoreOffset PROVE InboxInv'
  <1>1. InboxTypes /\ InLine /\ InHand /\ Covered /\ PastStored /\ In!StoredWasActedOn
    BY DEF InboxInv
  <1>2. /\ up /\ stage = "store" /\ stage' = "idle" /\ stored' \in {stored, cur + 1}
        /\ UNCHANGED <<made, confirmed, up, offset, fetched, channel, cur, acted, life, lost, unread>>
    BY DEF In!StoreOffset, In!After, In!poll, In!history
  <1>3. /\ cur \in Updates \ Foreign /\ acted[cur] > 0 /\ cur \in Nat /\ cur + 1 \in 0..(MaxUpdates + 1)
        /\ cur < offset /\ cur >= 1
    BY <1>1, <1>2, Numbers DEF InHand, InLine
  <1>4. InboxTypes'
    BY <1>1, <1>2, <1>3 DEF InboxTypes
  <1>5. InLine'
    BY <1>1, <1>2 DEF InLine
  <1>6. InHand'
    <2>1. \A v \in life' : v <= cur' /\ (stage' = "act" => v < cur')
      BY <1>1, <1>2 DEF InHand
    <2>2. QED BY <1>2, <2>1 DEF InHand
  <1>7. Covered'
    <2>1. ASSUME NEW u \in Updates \ Foreign, InSight(u) PROVE InSight(u)'
      BY <1>2, <2>1 DEF InSight, Holds
    <2>2. QED BY <1>1, <1>2, <2>1 DEF Covered
  <1>8. PastStored'
    <2>1. cur + 1 <= offset
      BY <1>1, <1>3, Numbers
    <2>2. \A i \in 1..Len(channel) : cur + 1 <= channel[i]
      <3>1. \A i \in 1..Len(channel) : channel[i] \in Nat /\ cur < channel[i]
        BY <1>1, Numbers DEF InLine
      <3>2. QED BY <1>3, <3>1
    <2>3. \A i \in 1..Len(fetched) : cur + 1 <= fetched[i]
      <3>1. \A i \in 1..Len(fetched) : fetched[i] \in Nat /\ offset <= fetched[i] /\ offset \in Nat
        BY <1>1, Numbers DEF InLine
      <3>2. QED BY <1>3, <2>1, <3>1
    <2>4. QED BY <1>1, <1>2, <2>1, <2>2, <2>3 DEF PastStored
  <1>9. In!StoredWasActedOn'
    <2>1. ASSUME NEW u \in Updates \ Foreign, u < cur + 1 PROVE acted[u] > 0 \/ u \in lost
      <3>1. u \in Nat /\ u <= cur /\ u < offset
        BY <1>1, <1>3, <2>1, Numbers
      <3>2. InSight(u)
        BY <1>1, <3>1 DEF Covered
      <3>3. ~Holds(channel, u)
        BY <1>1, <1>3, <3>1, Numbers DEF Holds, InLine
      <3>4. ~Holds(fetched, u)
        BY <1>1, <1>3, <3>1, Numbers DEF Holds, InLine
      <3>5. QED BY <1>2, <3>2, <3>3, <3>4 DEF InSight
    <2>2. QED BY <1>1, <1>2, <2>1 DEF In!StoredWasActedOn, In!Updates, Updates
  <1>10. QED BY <1>4, <1>5, <1>6, <1>7, <1>8, <1>9 DEF InboxInv

LEMMA StepStop ==
  ASSUME InboxInv, In!Stop PROVE InboxInv'
  <1>1. InboxTypes /\ InLine /\ InHand /\ Covered /\ PastStored /\ In!StoredWasActedOn
    BY DEF InboxInv
  <1>2. /\ up' = FALSE /\ fetched' = <<>> /\ channel' = <<>> /\ stage' = "idle" /\ cur' = 0
        /\ offset' = 0 /\ life' = {}
        /\ lost' = {u \in Updates \ Foreign : u < confirmed /\ acted[u] = 0}
        /\ UNCHANGED <<made, confirmed, stored, acted, unread>>
    BY DEF In!Stop, In!Updates, Updates
  <1>3. Len(<<>>) = 0 /\ <<>> \in Seq(Updates) /\ 1..0 = {}
    OBVIOUS
  <1>4. \A u \in Updates \ Foreign : u < confirmed => acted[u] > 0 \/ u \in lost'
    BY <1>1, <1>2 DEF InboxTypes
  <1>5. InboxTypes'
    <2>1. Len(channel') <= Capacity /\ fetched' \in Seq(Updates) /\ channel' \in Seq(Updates)
      BY <1>2, <1>3, Constants DEF ConstantTypes
    <2>2. offset' \in 0..(MaxUpdates + 1) /\ cur' \in 0..MaxUpdates
      BY <1>2, Constants DEF ConstantTypes
    <2>3. QED BY <1>1, <1>2, <2>1, <2>2 DEF InboxTypes
  <1>6. InLine' /\ InHand' /\ PastStored'
    BY <1>2, <1>3 DEF InLine, InHand, PastStored
  <1>7. Covered'
    <2>1. \A u \in Updates : ~(u < offset')
      BY <1>1, <1>2, Numbers
    <2>2. QED BY <1>2, <1>3, <1>4, <2>1 DEF Covered, InSight
  <1>8. In!StoredWasActedOn'
    <2>1. \A u \in lost : u < confirmed
      BY <1>1 DEF Covered
    <2>2. QED BY <1>1, <1>2, <1>4, <2>1 DEF In!StoredWasActedOn, In!Updates, Updates
  <1>9. QED BY <1>5, <1>6, <1>7, <1>8 DEF InboxInv

LEMMA StepStart ==
  ASSUME InboxInv, In!Start PROVE InboxInv'
  <1>1. InboxTypes /\ InLine /\ InHand /\ Covered /\ PastStored /\ In!StoredWasActedOn
    BY DEF InboxInv
  <1>2. /\ ~up /\ up' = TRUE
        /\ \/ offset' = stored /\ unread' = FALSE
           \/ offset' = 0 /\ unread' = TRUE
        /\ UNCHANGED <<made, confirmed, fetched, channel, stage, cur, stored, acted, life, lost>>
    BY DEF In!Start, In!dispatch
  <1>3. /\ channel = <<>> /\ fetched = <<>> /\ stage = "idle" /\ cur = 0 /\ Len(<<>>) = 0
        /\ 1..0 = {}
    BY <1>1, <1>2 DEF InHand
  <1>4. InboxTypes'
    <2>1. 0 \in 0..(MaxUpdates + 1) /\ stored \in 0..(MaxUpdates + 1)
      BY <1>1, Constants DEF InboxTypes, ConstantTypes
    <2>2. offset' \in 0..(MaxUpdates + 1)
      BY <1>2, <2>1
    <2>3. unread' \in BOOLEAN
      BY <1>2
    <2>4. QED BY <1>1, <1>2, <2>2, <2>3 DEF InboxTypes
  <1>5. InLine' /\ InHand'
    BY <1>1, <1>2, <1>3 DEF InLine, InHand
  <1>6. Covered'
    <2>1. ASSUME NEW u \in Updates \ Foreign, InSight(u) PROVE InSight(u)'
      BY <1>2, <2>1 DEF InSight, Holds
    <2>2. ASSUME NEW u \in Updates \ Foreign, u < offset' PROVE InSight(u)'
      <3>1. u < stored
        BY <1>1, <1>2, <2>2, Numbers
      <3>2. QED BY <1>1, <1>2, <3>1 DEF In!StoredWasActedOn, In!Updates, Updates, InSight
    <2>3. QED BY <1>1, <1>2, <1>3, <2>1, <2>2 DEF Covered
  <1>7. PastStored'
    BY <1>1, <1>2, <1>3, Numbers DEF PastStored
  <1>8. In!StoredWasActedOn'
    BY <1>1, <1>2 DEF In!StoredWasActedOn, In!Updates
  <1>9. QED BY <1>4, <1>5, <1>6, <1>7, <1>8 DEF InboxInv

-----------------------------------------------------------------------------
(* Every step keeps the invariant of the way out.                          *)

OutboxTypes ==
  /\ queued \in 0..MaxEvents /\ sent \subseteq 1..queued /\ batch \subseteq 1..queued
  /\ going \in BOOLEAN /\ (going => batch # {})
  /\ chat \in Seq(1..queued) /\ faults \in 0..MaxFaults

\* What deliver has in hand comes next: all before it is marked, or in hand.
InTurn ==
  /\ \A e \in batch : e \notin sent /\ \A f \in 1..(e - 1) : f \in sent \/ f \in batch
  /\ sent \subseteq Out!Delivered
  /\ going => \E e \in batch : Out!Oldest(e) /\ e \in Out!Delivered

\* Each message but those marked, and the one not marked yet, cost a fault.
Paid == Len(chat) <= Cardinality(sent) + faults + (IF going THEN 1 ELSE 0)

OutboxInv == OutboxTypes /\ InTurn /\ Paid /\ Out!InOrder

LEMMA OutboxNumbers ==
  ASSUME OutboxTypes
  PROVE  /\ queued \in Nat /\ faults \in Nat /\ Len(chat) \in Nat /\ DOMAIN chat = 1..Len(chat)
         /\ \A e \in batch \cup sent : e \in Nat /\ e >= 1 /\ e <= queued /\ e \in 1..queued
         /\ IsFiniteSet(sent) /\ Cardinality(sent) \in Nat
         /\ \A i \in DOMAIN chat : chat[i] \in 1..queued
         /\ IsFiniteSet(Out!Delivered) /\ Cardinality(Out!Delivered) \in Nat
  <1>1. queued \in Nat /\ faults \in Nat
    BY Constants DEF OutboxTypes, ConstantTypes
  <1>2. Len(chat) \in Nat /\ DOMAIN chat = 1..Len(chat) /\ \A i \in DOMAIN chat : chat[i] \in 1..queued
    BY DEF OutboxTypes
  <1>3. \A e \in batch \cup sent : e \in Nat /\ e >= 1 /\ e <= queued /\ e \in 1..queued
    BY <1>1 DEF OutboxTypes
  <1>4. IsFiniteSet(1..queued)
    BY <1>1, FS_Interval
  <1>5. sent \subseteq 1..queued /\ Out!Delivered \subseteq 1..queued
    BY <1>2 DEF OutboxTypes, Out!Delivered
  <1>6. IsFiniteSet(sent) /\ IsFiniteSet(Out!Delivered)
    BY <1>4, <1>5, FS_Subset
  <1>7. QED BY <1>1, <1>2, <1>3, <1>6, FS_CardinalityType

LEMMA OutboxInit == Init => OutboxInv
  <1> SUFFICES ASSUME Init PROVE OutboxInv
    OBVIOUS
  <1>1. queued = 0 /\ sent = {} /\ batch = {} /\ going = FALSE /\ chat = <<>> /\ faults = 0
    BY DEF Init, Out!Init
  <1>2. Len(<<>>) = 0 /\ DOMAIN <<>> = {} /\ <<>> \in Seq(1..0)
    OBVIOUS
  <1>3. Cardinality({}) = 0
    BY FS_EmptySet
  <1>4. OutboxTypes
    <2>1. queued \in 0..MaxEvents /\ faults \in 0..MaxFaults
      BY <1>1, Constants DEF ConstantTypes
    <2>2. chat \in Seq(1..queued)
      BY <1>1
    <2>3. QED BY <1>1, <2>1, <2>2 DEF OutboxTypes
  <1>5. InTurn /\ Out!InOrder
    BY <1>1, <1>2 DEF InTurn, Out!InOrder
  <1>6. Paid
    BY <1>1, <1>2, <1>3 DEF Paid
  <1>7. QED BY <1>4, <1>5, <1>6 DEF OutboxInv

\* What happens elsewhere may fail.
LEMMA OutboxFrame ==
  ASSUME OutboxInv, UNCHANGED outbox, faults' \in 0..MaxFaults, faults' >= faults
  PROVE  OutboxInv'
  <1>1. OutboxTypes /\ InTurn /\ Paid /\ Out!InOrder
    BY DEF OutboxInv
  <1>2. UNCHANGED <<queued, sent, batch, going, chat>>
    BY DEF outbox
  <1>3. OutboxTypes' /\ InTurn' /\ Out!InOrder'
    BY <1>1, <1>2 DEF OutboxTypes, InTurn, Out!InOrder, Out!Delivered, Out!Oldest
  <1>4. Paid'
    <2>1. faults' \in Nat /\ faults \in Nat /\ Cardinality(sent) \in Nat /\ Len(chat) \in Nat
      BY <1>1, OutboxNumbers, Constants DEF ConstantTypes
    <2>2. Len(chat) <= Cardinality(sent) + faults' + (IF going THEN 1 ELSE 0)
      BY <1>1, <2>1 DEF Paid
    <2>3. QED BY <1>2, <2>2 DEF Paid
  <1>5. QED BY <1>1, <1>3, <1>4 DEF OutboxInv

LEMMA StepNotify ==
  ASSUME OutboxInv, Out!Notify PROVE OutboxInv'
  <1>1. OutboxTypes /\ InTurn /\ Paid /\ Out!InOrder
    BY DEF OutboxInv
  <1>2. /\ batch = {} /\ queued < MaxEvents /\ queued' = queued + 1
        /\ UNCHANGED <<sent, batch, going, chat, faults>>
    BY DEF Out!Notify
  <1>3. 1..queued \subseteq 1..queued' /\ queued' \in 0..MaxEvents
    BY <1>1, <1>2, Constants DEF OutboxTypes, ConstantTypes
  <1>4. chat \in Seq(1..queued')
    BY <1>1, <1>3, Wider DEF OutboxTypes
  <1>5. OutboxTypes'
    BY <1>1, <1>2, <1>3, <1>4 DEF OutboxTypes
  <1>6. InTurn' /\ Paid' /\ Out!InOrder'
    BY <1>1, <1>2 DEF InTurn, Paid, Out!InOrder, Out!Delivered, Out!Oldest
  <1>7. QED BY <1>5, <1>6 DEF OutboxInv

\* What Outbox counts with is what this module counts with.
LEMMA SameCount == \A S : Out!Cardinality(S) = Cardinality(S)
  BY DEF Out!Cardinality, Cardinality

LEMMA StepDeliver ==
  ASSUME OutboxInv, Out!Deliver PROVE OutboxInv'
  <1>1. OutboxTypes /\ InTurn /\ Paid /\ Out!InOrder
    BY DEF OutboxInv
  <1>2. batch = {} /\ batch' = Out!Pending /\ UNCHANGED <<queued, sent, going, chat, faults>>
    BY DEF Out!Deliver
  <1>3. ~going
    BY <1>1, <1>2 DEF OutboxTypes
  <1>4. batch' \subseteq 1..queued /\ \A e \in batch' : e \notin sent
    BY <1>2 DEF Out!Pending, Out!Unsent
  <1>5. OutboxTypes'
    BY <1>1, <1>2, <1>3, <1>4 DEF OutboxTypes
  <1>6. ASSUME NEW e \in batch', NEW f \in 1..(e - 1), f \notin sent PROVE f \in batch'
    <2>1. e \in Out!Unsent /\ Cardinality(Out!Before(e)) < Batch
      BY <1>2, <1>6, SameCount DEF Out!Pending
    <2>2. queued \in Nat /\ e \in Nat /\ f \in Nat /\ f < e /\ f \in 1..queued
      BY <1>1, <1>4, <1>6, OutboxNumbers
    <2>3. f \in Out!Unsent
      BY <1>6, <2>2 DEF Out!Unsent
    <2>4. Out!Before(f) \subseteq Out!Before(e)
      <3>1. \A h \in Out!Unsent : h \in Nat
        BY <2>2 DEF Out!Unsent
      <3>2. QED BY <2>2, <3>1 DEF Out!Before
    <2>5. IsFiniteSet(Out!Before(e))
      <3>1. IsFiniteSet(1..queued) /\ Out!Before(e) \subseteq 1..queued
        BY <2>2, FS_Interval DEF Out!Unsent, Out!Before
      <3>2. QED BY <3>1, FS_Subset
    <2>6. Cardinality(Out!Before(f)) <= Cardinality(Out!Before(e))
      BY <2>4, <2>5, FS_Subset
    <2>7. IsFiniteSet(Out!Before(f))
      BY <2>4, <2>5, FS_Subset
    <2>8. Cardinality(Out!Before(f)) \in Nat /\ Cardinality(Out!Before(e)) \in Nat
      BY <2>5, <2>7, FS_CardinalityType
    <2>9. Cardinality(Out!Before(f)) < Batch
      BY <2>1, <2>6, <2>8, Constants DEF ConstantTypes
    <2>10. QED BY <1>2, <2>3, <2>9, SameCount DEF Out!Pending
  <1>7. InTurn'
    <2>1. \A e \in batch' : e \notin sent' /\ \A f \in 1..(e - 1) : f \in sent' \/ f \in batch'
      BY <1>2, <1>4, <1>6
    <2>2. QED BY <1>1, <1>2, <1>3, <2>1 DEF InTurn, Out!Delivered
  <1>8. Paid' /\ Out!InOrder'
    BY <1>1, <1>2 DEF Paid, Out!InOrder
  <1>9. QED BY <1>5, <1>7, <1>8 DEF OutboxInv

LEMMA StepSend ==
  ASSUME OutboxInv, Out!Send PROVE OutboxInv'
  <1>1. OutboxTypes /\ InTurn /\ Paid /\ Out!InOrder
    BY DEF OutboxInv
  <1>2. PICK e \in Out!Events : Out!Oldest(e) /\ chat' = Append(chat, e)
    BY DEF Out!Send
  <1>3. /\ going = FALSE /\ UNCHANGED <<queued, sent>>
        /\ \/ going' = TRUE /\ batch' = batch /\ faults' = faults
           \/ batch' = {} /\ going' = FALSE /\ faults' = faults + 1 /\ faults < MaxFaults
    BY <1>1 DEF Out!Send, Out!NoFault, Out!Fault, OutboxTypes
  <1>4. e \in batch /\ e \in 1..queued /\ e \in Nat /\ \A f \in batch : e <= f
    BY <1>1, <1>2, OutboxNumbers DEF Out!Oldest
  <1>5. /\ chat' \in Seq(1..queued) /\ Len(chat') = Len(chat) + 1 /\ Len(chat) \in Nat
        /\ \A i \in 1..Len(chat) : chat'[i] = chat[i]
        /\ chat'[Len(chat) + 1] = e
        /\ \A i \in 1..Len(chat') : i \in 1..Len(chat) \/ i = Len(chat) + 1
        /\ DOMAIN chat = 1..Len(chat) /\ DOMAIN chat' = 1..Len(chat')
    <2>1. chat \in Seq(1..queued)
      BY <1>1 DEF OutboxTypes
    <2>2. QED BY <1>2, <1>4, <2>1, Grow
  <1>6. Out!Delivered \subseteq Out!Delivered' /\ e \in Out!Delivered'
    <2>1. 1..Len(chat) \subseteq 1..Len(chat') /\ Len(chat) + 1 \in 1..Len(chat')
      BY <1>5
    <2>2. QED BY <1>5, <2>1 DEF Out!Delivered
  <1>7. OutboxTypes'
    <2>1. faults' \in 0..MaxFaults
      BY <1>1, <1>3, Constants DEF OutboxTypes, ConstantTypes
    <2>2. QED BY <1>1, <1>3, <1>4, <1>5, <2>1 DEF OutboxTypes
  <1>8. InTurn'
    <2>1. sent' \subseteq Out!Delivered'
      BY <1>1, <1>3, <1>6 DEF InTurn
    <2>2. CASE batch' = {} /\ going' = FALSE
      BY <2>1, <2>2 DEF InTurn
    <2>3. CASE going' = TRUE /\ batch' = batch
      <3>1. Out!Oldest(e)'
        BY <1>2, <2>3 DEF Out!Oldest
      <3>2. \A f \in batch' : f \notin sent' /\ \A g \in 1..(f - 1) : g \in sent' \/ g \in batch'
        BY <1>1, <1>3, <2>3 DEF InTurn
      <3>3. QED BY <1>4, <1>6, <2>1, <2>3, <3>1, <3>2 DEF InTurn
    <2>4. QED BY <1>3, <2>2, <2>3
  <1>9. Paid'
    <2>1. /\ faults \in Nat /\ Cardinality(sent) \in Nat
          /\ Len(chat) <= Cardinality(sent) + faults
      BY <1>1, <1>3, OutboxNumbers DEF Paid
    <2>2. sent' = sent
      BY <1>3
    <2>3. Len(chat') <= Cardinality(sent) + faults' + (IF going' THEN 1 ELSE 0)
      BY <1>3, <1>5, <2>1
    <2>4. QED BY <2>2, <2>3 DEF Paid
  <1>10. Out!InOrder'
    <2> SUFFICES ASSUME NEW i \in 1..Len(chat'), NEW f \in 1..chat'[i]
                 PROVE  \E j \in 1..i : chat'[j] = f
      BY <1>5 DEF Out!InOrder
    <2>1. CASE i \in 1..Len(chat)
      <3>1. PICK j \in 1..i : chat[j] = f
        BY <1>1, <1>5, <2>1 DEF Out!InOrder
      <3>2. j \in 1..Len(chat)
        BY <1>5, <2>1
      <3>3. QED BY <1>5, <3>1, <3>2
    <2>2. CASE i = Len(chat) + 1
      <3>1. CASE f = e
        BY <1>5, <2>2, <3>1
      <3>2. CASE f # e
        <4>1. f \in 1..(e - 1) /\ f \in Nat /\ f < e
          BY <1>4, <1>5, <2>2, <3>2
        <4>2. f \notin batch
          BY <1>4, <4>1
        <4>3. f \in Out!Delivered
          BY <1>1, <1>4, <4>1, <4>2 DEF InTurn
        <4>4. PICK j \in 1..Len(chat) : chat[j] = f
          BY <1>5, <4>3 DEF Out!Delivered
        <4>5. j \in 1..i /\ chat'[j] = f
          BY <1>5, <2>2, <4>4
        <4>6. QED BY <4>5
      <3>3. QED BY <3>1, <3>2
    <2>3. QED BY <1>5, <2>1, <2>2
  <1>11. QED BY <1>7, <1>8, <1>9, <1>10 DEF OutboxInv

\* Whatever gives the batch up, costs a fault.
LEMMA StepGivenUp ==
  ASSUME OutboxInv, faults < MaxFaults, faults' = faults + 1, batch' = {}, going' = FALSE,
         UNCHANGED <<queued, sent, chat>>
  PROVE  OutboxInv'
  <1>1. OutboxTypes /\ InTurn /\ Paid /\ Out!InOrder
    BY DEF OutboxInv
  <1>2. OutboxTypes'
    <2>1. faults' \in 0..MaxFaults
      BY <1>1, Constants DEF OutboxTypes, ConstantTypes
    <2>2. QED BY <1>1, <2>1 DEF OutboxTypes
  <1>3. InTurn' /\ Out!InOrder'
    BY <1>1 DEF InTurn, Out!InOrder, Out!Delivered
  <1>4. Paid'
    <2>1. faults \in Nat /\ Cardinality(sent) \in Nat /\ Len(chat) \in Nat
      BY <1>1, OutboxNumbers
    <2>2. Len(chat) <= Cardinality(sent) + faults'
      BY <1>1, <2>1 DEF Paid
    <2>3. Len(chat) <= Cardinality(sent) + faults' + 0
      BY <2>1, <2>2
    <2>4. QED BY <2>3 DEF Paid
  <1>5. QED BY <1>2, <1>3, <1>4 DEF OutboxInv

LEMMA StepMarkSent ==
  ASSUME OutboxInv, Out!MarkSent PROVE OutboxInv'
  <1>1. OutboxTypes /\ InTurn /\ Paid /\ Out!InOrder
    BY DEF OutboxInv
  <1>2. going /\ going' = FALSE /\ UNCHANGED <<queued, chat>>
    BY DEF Out!MarkSent
  <1>3. CASE faults < MaxFaults /\ faults' = faults + 1 /\ batch' = {} /\ UNCHANGED sent
    BY <1>2, <1>3, StepGivenUp
  <1>4. ASSUME faults' = faults, NEW e, Out!Oldest(e), sent' = sent \cup {e}, batch' = batch \ {e}
        PROVE  OutboxInv'
    <2>1. e \in batch /\ e \notin sent /\ e \in 1..queued /\ e \in Nat
      BY <1>1, <1>4, OutboxNumbers DEF Out!Oldest, InTurn
    <2>2. e \in Out!Delivered
      <3>1. PICK d \in batch : Out!Oldest(d) /\ d \in Out!Delivered
        BY <1>1, <1>2 DEF InTurn
      <3>2. d = e
        BY <1>1, <1>4, <3>1, OutboxNumbers DEF Out!Oldest
      <3>3. QED BY <3>1, <3>2
    <2>3. OutboxTypes'
      BY <1>1, <1>2, <1>4, <2>1 DEF OutboxTypes
    <2>4. InTurn'
      <3>1. \A g \in batch' : g \notin sent' /\ \A f \in 1..(g - 1) : f \in sent' \/ f \in batch'
        BY <1>1, <1>4 DEF InTurn
      <3>2. sent' \subseteq Out!Delivered'
        BY <1>1, <1>2, <1>4, <2>2 DEF InTurn, Out!Delivered
      <3>3. QED BY <1>2, <3>1, <3>2 DEF InTurn
    <2>5. Paid'
      <3>1. /\ faults \in Nat /\ Cardinality(sent) \in Nat /\ Len(chat) \in Nat
            /\ Len(chat) <= Cardinality(sent) + faults + 1
        BY <1>1, <1>2, OutboxNumbers DEF Paid
      <3>2. Cardinality(sent') = Cardinality(sent) + 1
        BY <1>1, <1>4, <2>1, FS_AddElement, OutboxNumbers
      <3>3. Len(chat) <= Cardinality(sent') + faults + 0
        BY <3>1, <3>2
      <3>4. QED BY <1>2, <1>4, <3>3 DEF Paid
    <2>6. Out!InOrder'
      BY <1>1, <1>2 DEF Out!InOrder
    <2>7. QED BY <2>3, <2>4, <2>5, <2>6 DEF OutboxInv
  <1>5. QED BY <1>3, <1>4 DEF Out!MarkSent, Out!NoFault, Out!Fault

-----------------------------------------------------------------------------
(* Both ways together.                                                     *)

TelegramInv == InboxInv /\ OutboxInv

LEMMA TelegramStep == TelegramInv /\ [Next]_vars => TelegramInv'
  <1> SUFFICES ASSUME TelegramInv, [Next]_vars PROVE TelegramInv'
    OBVIOUS
  <1>1. InboxInv /\ OutboxInv /\ faults \in 0..MaxFaults
    BY DEF TelegramInv, OutboxInv, OutboxTypes
  <1>2. faults \in Nat /\ MaxFaults \in Nat
    BY <1>1, Constants DEF ConstantTypes
  <1>3. ASSUME UNCHANGED inbox PROVE InboxInv'
    BY <1>1, <1>3 DEF inbox, InboxInv, InboxTypes, InLine, InHand, Covered, InSight, Holds, PastStored,
                      In!StoredWasActedOn, In!Updates
  <1>4. ASSUME UNCHANGED outbox,
               faults' = faults \/ (faults < MaxFaults /\ faults' = faults + 1)
        PROVE  OutboxInv'
    <2>1. faults' \in 0..MaxFaults /\ faults' >= faults
      BY <1>1, <1>2, <1>4
    <2>2. QED BY <1>1, <1>4, <2>1, OutboxFrame
  <1>5. CASE Poll
    <2>1. OutboxInv'
      BY <1>4, <1>5 DEF Poll, In!Make, In!Poll, In!PollFails, In!Queue, In!Fault
    <2>2. InboxInv'
      <3>1. CASE In!Make
        BY <1>1, <3>1, StepMake
      <3>2. CASE In!Poll
        BY <1>1, <3>2, StepAsked DEF In!Poll, In!dispatch, In!history
      <3>3. CASE In!PollFails
        BY <1>1, <3>3, StepAsked DEF In!PollFails, In!poll, In!dispatch, In!history
      <3>4. CASE In!Queue
        BY <1>1, <3>4, StepQueue
      <3>5. QED BY <1>5, <3>1, <3>2, <3>3, <3>4 DEF Poll
    <2>3. QED BY <2>1, <2>2 DEF TelegramInv
  <1>6. CASE Take
    <2>1. OutboxInv'
      BY <1>4, <1>6 DEF Take, In!Take
    <2>2. QED BY <1>1, <1>6, <2>1, StepTake DEF Take, TelegramInv
  <1>7. CASE Act
    <2>1. OutboxInv'
      BY <1>1, <1>4, <1>7, StepNotify DEF Act, In!Act
    <2>2. QED BY <1>1, <1>7, <2>1, StepAct DEF Act, TelegramInv
  <1>8. CASE StoreOffset
    <2>1. OutboxInv'
      BY <1>4, <1>8 DEF StoreOffset, In!StoreOffset, In!Fault, In!NoFault
    <2>2. QED BY <1>1, <1>8, <2>1, StepStoreOffset DEF StoreOffset, TelegramInv
  <1>9. CASE Reconcile
    BY <1>1, <1>3, <1>9, StepNotify DEF Reconcile, TelegramInv
  <1>10. CASE Deliver
    BY <1>1, <1>3, <1>10, StepDeliver DEF Deliver, TelegramInv
  <1>11. CASE Delivering
    <2>1. CASE Out!SendFails
      <3>1. ~going
        BY <2>1 DEF Out!SendFails
      <3>2. OutboxInv'
        BY <1>1, <2>1, <3>1, StepGivenUp DEF Out!SendFails, Out!Fault, OutboxInv, OutboxTypes
      <3>3. QED BY <1>3, <1>11, <3>2 DEF Delivering, TelegramInv
    <2>2. QED BY <1>1, <1>3, <1>11, <2>1, StepSend, StepMarkSent DEF Delivering, TelegramInv
  <1>12. CASE Stop
    <2>1. OutboxInv'
      BY <1>1, <1>12, StepGivenUp DEF Stop, Out!Stop, Out!Fault
    <2>2. QED BY <1>1, <1>12, <2>1, StepStop DEF Stop, TelegramInv
  <1>13. CASE Start
    <2>1. OutboxInv'
      BY <1>4, <1>13 DEF Start, In!Start, In!Fault, In!NoFault
    <2>2. QED BY <1>1, <1>13, <2>1, StepStart DEF Start, TelegramInv
  <1>14. CASE UNCHANGED vars
    BY <1>3, <1>4, <1>14 DEF vars, TelegramInv
  <1>15. QED BY <1>5, <1>6, <1>7, <1>8, <1>9, <1>10, <1>11, <1>12, <1>13, <1>14 DEF Next

LEMMA TelegramInvariant == Spec => []TelegramInv
  <1>1. Init => TelegramInv
    BY InboxInit, OutboxInit DEF TelegramInv
  <1>2. QED BY <1>1, TelegramStep, PTL DEF Spec

-----------------------------------------------------------------------------
(* The theorems.                                                           *)

LEMMA SafeNow == TelegramInv => TelegramOK
  <1> SUFFICES ASSUME TelegramInv PROVE TelegramOK
    OBVIOUS
  <1>1. InboxInv /\ OutboxInv
    BY DEF TelegramInv
  <1>2. In!InboxOK
    BY <1>1 DEF In!InboxOK, In!TypeOK, In!Updates, InboxInv, InboxTypes, Updates, OutboxInv, OutboxTypes
  <1>3. Out!OutboxOK
    BY <1>1 DEF Out!OutboxOK, Out!TypeOK, Out!MarkedWasDelivered, OutboxInv, OutboxTypes, InTurn
  <1>4. QED BY <1>2, <1>3 DEF TelegramOK

LEMMA InOrderNow == TelegramInv => NoticesInOrder
  <1> SUFFICES ASSUME TelegramInv PROVE NoticesInOrder
    OBVIOUS
  <1>1. OutboxTypes /\ InTurn /\ Paid /\ Out!InOrder
    BY DEF TelegramInv, OutboxInv
  <1>2. /\ Len(chat) \in Nat /\ faults \in Nat /\ IsFiniteSet(sent) /\ Cardinality(sent) \in Nat
        /\ IsFiniteSet(Out!Delivered) /\ Cardinality(Out!Delivered) \in Nat
        /\ sent \subseteq Out!Delivered
    BY <1>1, OutboxNumbers DEF InTurn
  <1>3. Len(chat) <= Cardinality(Out!Delivered) + faults
    <2>1. CASE ~going
      <3>1. Cardinality(sent) <= Cardinality(Out!Delivered)
        BY <1>2, FS_Subset
      <3>2. Len(chat) <= Cardinality(sent) + faults
        BY <1>1, <1>2, <2>1 DEF Paid
      <3>3. QED BY <1>2, <3>1, <3>2
    <2>2. CASE going
      <3>1. PICK e \in batch : e \in Out!Delivered /\ e \notin sent
        BY <1>1, <2>2 DEF InTurn
      <3>2. sent \cup {e} \subseteq Out!Delivered
        BY <1>2, <3>1
      <3>3. Cardinality(sent \cup {e}) = Cardinality(sent) + 1
        BY <1>2, <3>1, FS_AddElement
      <3>4. Cardinality(sent \cup {e}) <= Cardinality(Out!Delivered)
        BY <1>2, <3>2, FS_Subset
      <3>5. Len(chat) <= Cardinality(sent) + faults + 1
        BY <1>1, <1>2, <2>2 DEF Paid
      <3>6. QED BY <1>2, <3>3, <3>4, <3>5
    <2>3. QED BY <2>1, <2>2
  <1>4. QED BY <1>1, <1>3, SameCount DEF NoticesInOrder, Out!EachFaultRepeatsOne

\* Only Act works on an update, the one in hand.
LEMMA ActedIsInHand ==
  ASSUME TelegramInv, [Next]_vars, NEW u \in In!Updates, acted'[u] > acted[u]
  PROVE  up /\ stage = "act" /\ u = cur
  <1>1. In!Act
    <2>1. acted[u] \in Nat
      BY DEF TelegramInv, InboxInv, InboxTypes, In!Updates, Updates
    <2>2. acted' # acted
      BY <2>1
    <2>3. ~Poll
      BY <2>2 DEF Poll, In!Make, In!Poll, In!PollFails, In!Queue, In!history
    <2>4. ~Take /\ ~StoreOffset /\ ~Stop /\ ~Start
      BY <2>2 DEF Take, StoreOffset, Stop, Start, In!Take, In!StoreOffset, In!Stop, In!Start, In!history
    <2>5. ~Reconcile /\ ~Deliver /\ ~Delivering /\ ~UNCHANGED vars
      BY <2>2 DEF Reconcile, Deliver, Delivering, inbox, vars
    <2>6. QED BY <2>3, <2>4, <2>5 DEF Next, Act
  <1>2. u = cur
    BY <1>1 DEF In!Act, TelegramInv, InboxInv, InboxTypes, In!Updates, Updates
  <1>3. QED BY <1>1, <1>2 DEF In!Act

\* The stored offset passes over no update that was not acted on, what is
\* marked sent has gone out, and the channel keeps its bound (poll, dispatch,
\* deliver), however often the process stops.
THEOREM TelegramOKAlways == Spec => []TelegramOK
  BY TelegramInvariant, SafeNow, PTL

\* The operator reads notices for the first time in the order they happened;
\* each failure repeats at most one (deliver).
THEOREM NoticesInOrderAlways == Spec => []NoticesInOrder
  BY TelegramInvariant, InOrderNow, PTL

\* A process acts on updates in the order they were made and on none twice.
THEOREM InOrderOnceAlways == Spec => InOrderOnce
  <1> DEFINE Ordered == \A u \in In!Updates : acted'[u] > acted[u] => \A v \in life : v < u
  <1>1. TelegramInv /\ [Next]_vars => [Ordered]_(In!vars)
    <2> SUFFICES ASSUME TelegramInv, [Next]_vars, NEW u \in In!Updates, acted'[u] > acted[u],
                        NEW v \in life
                 PROVE  v < u
      OBVIOUS
    <2>1. stage = "act" /\ u = cur
      BY ActedIsInHand
    <2>2. QED BY <2>1 DEF TelegramInv, InboxInv, InHand
  <1>2. QED BY <1>1, TelegramInvariant, PTL DEF Spec, InOrderOnce, In!InOrderOnce

\* What a restart repeats was never passed by the stored offset, or that
\* offset could not be read.
THEOREM RepeatsAreUnstoredAlways == Spec => RepeatsAreUnstored
  <1> DEFINE Unstored ==
        \A u \in In!Updates : acted'[u] > acted[u] /\ acted[u] > 0 => stored <= u \/ unread
  <1>1. TelegramInv /\ [Next]_vars => [Unstored]_(In!vars)
    <2> SUFFICES ASSUME TelegramInv, [Next]_vars, NEW u \in In!Updates, acted'[u] > acted[u]
                 PROVE  stored <= u \/ unread
      OBVIOUS
    <2>1. up /\ stage = "act" /\ u = cur
      BY ActedIsInHand
    <2>2. QED BY <2>1 DEF TelegramInv, InboxInv, PastStored
  <1>2. QED BY <1>1, TelegramInvariant, PTL DEF Spec, RepeatsAreUnstored, In!RepeatsAreUnstored
=============================================================================
