-------------------------- MODULE TransfersProofs ---------------------------
(***************************************************************************)
(* Theorems about Transfers, for any ids and any number of presses,        *)
(* choices and faults.                                                     *)
(***************************************************************************)
EXTENDS Transfers, FiniteSetTheorems, TLAPS

\* The record in hand is at the stage its Send is at.
InHand ==
  /\ pc \in {"idle", "send", "offset"} => cur = {}
  /\ pc \in {"prepared", "request", "await"} => \E t \in Transfers : cur = {t}
  /\ \A t \in cur :
       /\ pc = "prepared" => row[t] = "PREPARED"
       /\ pc = "request"  => row[t] = "SENDING" /\ sends[t] = 0
       /\ pc = "await"    => row[t] = "SENDING" /\ sends[t] = 1

\* From the look at the outstanding ones until the request leaves.
NoOtherInDoubt ==
  pc \in {"prepared", "request"} => \A u \in Transfers \ cur : ~Unresolved(u)

\* What was not requested moves nothing, and what arrived travels no more.
Moved ==
  \A t \in Transfers :
    /\ sends[t] = 0 => t \notin wire /\ ex[t] = "none"
    /\ t \in wire => ex[t] = "none"

TransferInv == TypeOK /\ InHand /\ NoOtherInDoubt /\ Moved /\ SentOnce /\ RecordIsTrue

LEMMA TransferInit == Init => TransferInv
  <1> SUFFICES ASSUME Init PROVE TransferInv
    OBVIOUS
  <1> USE DEF Init
  <1>1. TypeOK
    <2>1. faults \in 0..MaxFaults
      BY ConstantsAssumption
    <2>2. draft \in BOOLEAN /\ unstored \in BOOLEAN
      OBVIOUS
    <2>3. QED BY <2>1, <2>2 DEF TypeOK, Statuses
  <1>2. InHand /\ NoOtherInDoubt
    BY DEF InHand, NoOtherInDoubt
  <1>3. Moved /\ SentOnce /\ RecordIsTrue
    BY DEF Moved, SentOnce, RecordIsTrue
  <1>4. QED BY <1>1, <1>2, <1>3 DEF TransferInv

\* Steps that neither send nor record anything, and take nothing in hand.
LEMMA QuietStep ==
  ASSUME TransferInv, UNCHANGED <<row, exchange>>,
         \/ UNCHANGED <<pc, cur>>
         \/ cur' = {} /\ pc' \in {"idle", "send", "offset"}
         \/ cur' = cur /\ pc' = "clear"
         \/ cur' = cur /\ pc = "idle" /\ pc' \in {"send", "offset"}
         \/ cur' = cur /\ pc = "offset" /\ pc' = "idle"
  PROVE  /\ InHand' /\ NoOtherInDoubt' /\ Moved' /\ SentOnce' /\ RecordIsTrue'
         /\ row' \in [Transfers -> Statuses] /\ sends' \in [Transfers -> Nat]
         /\ ex' \in [Transfers -> {"none", "processing", "done", "failed"}]
         /\ cur' \subseteq Transfers /\ wire' \subseteq Transfers
         /\ listed' \subseteq Transfers /\ old' \subseteq Transfers
         /\ pc' \in {"idle", "send", "prepared", "request", "await", "clear", "offset"}
  BY DEF TransferInv, exchange, TypeOK, InHand, NoOtherInDoubt, Moved, SentOnce, RecordIsTrue,
         Unresolved

\* Steps around a Send.
LEMMA AroundStep ==
  ASSUME TransferInv,
         Operator \/ Handle \/ SendRefused \/ SendUnwritten \/ ClearDraft \/ StoreOffset \/ Stop
  PROVE  TransferInv'
  <1>1. /\ UNCHANGED <<row, exchange>>
        /\ \/ UNCHANGED <<pc, cur>>
           \/ cur' = {} /\ pc' \in {"idle", "send", "offset"}
           \/ cur' = cur /\ pc' = "clear"
           \/ cur' = cur /\ pc = "idle" /\ pc' \in {"send", "offset"}
           \/ cur' = cur /\ pc = "offset" /\ pc' = "idle"
    BY DEF Operator, Choose, Reopen, Press, Handle, SendRefused, SendUnwritten, ClearDraft,
           StoreOffset, Stop, process
  <1>2. /\ draft' \in BOOLEAN /\ unstored' \in BOOLEAN
    BY DEF Operator, Choose, Reopen, Press, Handle, SendRefused, SendUnwritten, ClearDraft,
           StoreOffset, Stop, process, TransferInv, TypeOK
  <1>3. /\ inbox' \in Nat /\ pressed' \in Nat /\ choices' \in Nat /\ kept' \in Nat
    <2>1. CASE Stop
      BY <2>1 DEF Stop, Kept, counts, TransferInv, TypeOK
    <2>2. CASE ~Stop
      BY <2>2 DEF Operator, Choose, Reopen, Press, Handle, SendRefused, SendUnwritten, ClearDraft,
             StoreOffset, Kept, process, counts, TransferInv, TypeOK
    <2>3. QED BY <2>1, <2>2
  <1>4. faults' \in 0..MaxFaults
    BY ConstantsAssumption
    DEF Operator, Choose, Reopen, Press, Handle, SendRefused, SendUnwritten, ClearDraft,
        StoreOffset, Stop, Fault, NoFault, TransferInv, TypeOK
  <1>5. QED BY <1>1, <1>2, <1>3, <1>4, QuietStep DEF TransferInv, TypeOK

\* The stages of Send up to the request.
LEMMA SendingStep ==
  ASSUME TransferInv, NEW t \in Transfers, SendInsert(t) \/ SendSending(t) \/ SendRequest(t)
  PROVE  TransferInv'
  <1> USE DEF TransferInv, TypeOK
  <1>1. CASE SendInsert(t)
    <2>1. /\ pc = "send" /\ row[t] = "ABSENT" /\ \A u \in Transfers : ~Unresolved(u)
          /\ row' = [row EXCEPT ![t] = "PREPARED"] /\ cur' = {t} /\ pc' = "prepared"
          /\ UNCHANGED <<draft, inbox, unstored, wire, sends, ex, listed, old, pressed, choices, kept, faults>>
      BY <1>1 DEF SendInsert, NoneOutstanding, exchange, counts
    <2>2. TypeOK'
      BY <2>1 DEF Statuses
    <2>3. InHand' /\ NoOtherInDoubt'
      BY <2>1 DEF InHand, NoOtherInDoubt, Unresolved
    <2>4. Moved' /\ SentOnce' /\ RecordIsTrue'
      BY <2>1 DEF Moved, SentOnce, RecordIsTrue
    <2>5. QED BY <2>2, <2>3, <2>4
  <1>2. CASE SendSending(t)
    <2>1. /\ pc = "prepared" /\ cur = {t} /\ row[t] = "PREPARED"
          /\ row' = [row EXCEPT ![t] = "SENDING"] /\ pc' = "request"
          /\ UNCHANGED <<draft, inbox, unstored, cur, wire, sends, ex, listed, old, pressed, choices, kept, faults>>
      BY <1>2 DEF SendSending, InHand, exchange, counts
    <2>2. TypeOK'
      BY <2>1 DEF Statuses
    <2>3. InHand' /\ NoOtherInDoubt'
      BY <2>1 DEF InHand, NoOtherInDoubt, Unresolved, RecordIsTrue
    <2>4. Moved' /\ SentOnce' /\ RecordIsTrue'
      BY <2>1 DEF Moved, SentOnce, RecordIsTrue
    <2>5. QED BY <2>2, <2>3, <2>4
  <1>3. CASE SendRequest(t)
    <2>1. /\ pc = "request" /\ cur = {t} /\ row[t] = "SENDING" /\ sends[t] = 0
          /\ wire' = wire \cup {t} /\ sends' = [sends EXCEPT ![t] = @ + 1] /\ pc' = "await"
          /\ UNCHANGED <<row, draft, inbox, unstored, cur, ex, listed, old, pressed, choices, kept, faults>>
      BY <1>3 DEF SendRequest, InHand, counts
    <2>2. TypeOK'
      BY <2>1
    <2>3. InHand' /\ NoOtherInDoubt'
      BY <2>1 DEF InHand, NoOtherInDoubt
    <2>4. Moved' /\ SentOnce' /\ RecordIsTrue'
      BY <2>1 DEF Moved, SentOnce, RecordIsTrue
    <2>5. QED BY <2>2, <2>3, <2>4
  <1>4. QED BY <1>1, <1>2, <1>3

\* The outcome reaches the record, or does not.
LEMMA RecordStep ==
  ASSUME TransferInv, NEW t \in Transfers, NEW st \in {"DONE", "FAILED", "UNKNOWN"}, Record(t, st),
         \/ wire' = wire
         \/ wire' = wire \ {t},
         st = "DONE" => ex[t] = "done",
         st = "FAILED" => t \notin wire' /\ ex[t] = "none"
  PROVE  TransferInv'
  <1> USE DEF TransferInv, TypeOK
  <1>1. /\ pc = "await" /\ cur = {t} /\ sends[t] = 1 /\ pc' = "clear"
        /\ row' = row \/ row' = [row EXCEPT ![t] = st]
        /\ UNCHANGED <<draft, inbox, unstored, cur, sends, ex, listed, old, pressed, choices, kept>>
    BY DEF Record, InHand, counts
  <1>2. faults' \in 0..MaxFaults
    BY ConstantsAssumption DEF Record, Fault, NoFault
  <1>3. TypeOK'
    BY <1>1, <1>2 DEF Statuses
  <1>4. InHand' /\ NoOtherInDoubt'
    BY <1>1 DEF InHand, NoOtherInDoubt
  <1>5. Moved' /\ SentOnce' /\ RecordIsTrue'
    BY <1>1 DEF Moved, SentOnce, RecordIsTrue
  <1>6. QED BY <1>3, <1>4, <1>5

\* Upbit moves on, and its history is asked.
LEMMA UpbitTransferStep ==
  ASSUME TransferInv, NEW t \in Transfers,
         Settle(t) \/ Arrives(t) \/ Lost(t) \/ Completes(t) \/ Listed(t) \/ Ages(t)
  PROVE  TransferInv'
  <1> USE DEF TransferInv, TypeOK
  <1>1. CASE Settle(t)
    <2>1. /\ pc = "idle" /\ row[t] \in {"SENDING", "UNKNOWN"} /\ ex[t] \in {"done", "failed"}
          /\ row' = [row EXCEPT ![t] = IF ex[t] = "done" THEN "DONE" ELSE "FAILED"]
          /\ UNCHANGED <<draft, inbox, unstored, pc, cur, wire, sends, ex, listed, old, pressed, choices, kept, faults>>
      BY <1>1 DEF Settle, Unresolved, Settled, Done, process, exchange, counts
    <2>2. TypeOK'
      BY <2>1 DEF Statuses
    <2>3. InHand' /\ NoOtherInDoubt'
      BY <2>1 DEF InHand, NoOtherInDoubt
    <2>4. Moved' /\ SentOnce' /\ RecordIsTrue'
      BY <2>1 DEF Moved, SentOnce, RecordIsTrue
    <2>5. QED BY <2>2, <2>3, <2>4
  <1>2. CASE Arrives(t) \/ Lost(t) \/ Completes(t) \/ Listed(t) \/ Ages(t)
    <2>1. /\ UNCHANGED <<row, draft, inbox, unstored, pc, cur, sends, pressed, choices, kept, faults>>
          /\ listed' \subseteq Transfers /\ old' \subseteq Transfers
          /\ \/ UNCHANGED <<wire, ex>>
             \/ wire' = wire \ {t} /\ ex' = ex
             \/ t \in wire /\ wire' = wire \ {t} /\ ex' = [ex EXCEPT ![t] = "processing"]
             \/ \E s \in {"done", "failed"} :
                  ex[t] = "processing" /\ wire' = wire /\ ex' = [ex EXCEPT ![t] = s]
      BY <1>2 DEF Arrives, Lost, Completes, Listed, Ages, process, counts
    <2>2. TypeOK'
      BY <2>1
    <2>3. InHand' /\ NoOtherInDoubt'
      BY <2>1 DEF InHand, NoOtherInDoubt, Unresolved
    <2>4. Moved' /\ SentOnce' /\ RecordIsTrue'
      BY <2>1 DEF Moved, SentOnce, RecordIsTrue
    <2>5. QED BY <2>2, <2>3, <2>4
  <1>3. QED BY <1>1, <1>2

LEMMA TransferStep == TransferInv /\ [Next]_vars => TransferInv'
  <1> SUFFICES ASSUME TransferInv, [Next]_vars PROVE TransferInv'
    OBVIOUS
  <1>1. ASSUME NEW t \in Transfers, SendAnswered(t) \/ SendFailed(t) \/ SendAmbiguous(t)
        PROVE  TransferInv'
    <2>1. CASE SendAnswered(t)
      BY <2>1, RecordStep DEF SendAnswered, Done
    <2>2. CASE SendFailed(t)
      BY <2>2, RecordStep DEF SendFailed, TransferInv, Moved
    <2>3. CASE SendAmbiguous(t)
      BY <2>3, RecordStep DEF SendAmbiguous
    <2>4. QED BY <1>1, <2>1, <2>2, <2>3
  <1>2. CASE UNCHANGED vars
    BY <1>2 DEF vars, process, exchange, counts, TransferInv, TypeOK, InHand, NoOtherInDoubt, Moved,
                SentOnce, RecordIsTrue, Unresolved
  <1>3. QED
    BY <1>1, <1>2, AroundStep, SendingStep, UpbitTransferStep DEF Next, Send, Upbit

-----------------------------------------------------------------------------
(* Theorems.                                                               *)

LEMMA TransferInvariant == Spec => []TransferInv
  BY TransferInit, TransferStep, PTL DEF Spec

\* A transfer is never requested twice (transfers.Service.Send and Settle).
THEOREM TransfersOKAlways == Spec => []TransfersOK
  <1>1. TransferInv => TransfersOK
    BY DEF TransferInv, TransfersOK
  <1>2. QED BY TransferInvariant, <1>1, PTL

\* A record says of its outcome what is so (Settle, the sorting of answers).
THEOREM RecordIsTrueAlways == Spec => []RecordIsTrue
  <1>1. TransferInv => RecordIsTrue
    BY DEF TransferInv
  <1>2. QED BY TransferInvariant, <1>1, PTL

\* No request leaves while another travels or is under way at Upbit
\* (transfers.Service, noneOutstanding).
THEOREM MovesOneAtATimeAlways == Spec => MovesOneAtATime
  <1> DEFINE Alone == \A t, u \in Transfers :
        sends'[t] > sends[t] /\ u # t => u \notin wire /\ ex[u] # "processing"
  <1>1. TransferInv /\ [Next]_vars => [Alone]_vars
    <2> SUFFICES ASSUME TransferInv, Next, NEW t \in Transfers, NEW u \in Transfers,
                        sends'[t] > sends[t], u # t
                 PROVE  u \notin wire /\ ex[u] # "processing"
      BY DEF vars
    <2>1. \E s \in Transfers : SendRequest(s)
      <3>1. sends' # sends
        BY DEF TransferInv, TypeOK
      <3>2. QED
        BY <3>1 DEF Next, Operator, Choose, Reopen, Press, Handle, Send, SendRefused, SendUnwritten,
           ClearDraft, StoreOffset, Stop, SendInsert, SendSending, SendAnswered, SendFailed,
           SendAmbiguous, Record, Settle, Upbit, Arrives, Lost, Completes, Listed, Ages, exchange
    <2>2. pc = "request" /\ cur = {t}
      BY <2>1 DEF SendRequest, TransferInv, TypeOK, InHand
    <2>3. ~Unresolved(u)
      BY <2>2 DEF TransferInv, NoOtherInDoubt
    <2>4. QED
      BY <2>3 DEF TransferInv, TypeOK, Statuses, RecordIsTrue, Moved, Unresolved
  <1>2. QED BY TransferInvariant, TransferStep, <1>1, PTL DEF Spec, MovesOneAtATime

\* A draft can be sent once more while it is filled in and no request has left
\* for it in the Send in hand.
Sent == {t \in Transfers : sends[t] > 0}
Spendable == IF draft /\ ~Asked THEN 1 ELSE 0

ChosenInv ==
  /\ IsFiniteSet(Sent)
  /\ Cardinality(Sent) + Spendable <= choices + kept
  /\ pc \in {"send", "prepared", "request"} => draft

LEMMA ChosenStep == TransferInv /\ ChosenInv /\ [Next]_vars => ChosenInv'
  <1> SUFFICES ASSUME TransferInv, ChosenInv, [Next]_vars PROVE ChosenInv'
    OBVIOUS
  <1>1. /\ choices \in Nat /\ kept \in Nat /\ draft \in BOOLEAN /\ cur \subseteq Transfers
        /\ sends \in [Transfers -> Nat] /\ Cardinality(Sent) \in Nat
        /\ Cardinality(Sent) + Spendable <= choices + kept
    BY FS_CardinalityType DEF TransferInv, TypeOK, ChosenInv
  <1>2. Spendable \in {0, 1} /\ Spendable' \in {0, 1}
    BY DEF Spendable
  <1>a. \A n, x, y, c, k, d, l \in Nat :
          n + x <= c + k /\ y + c + k <= x + d + l => n + y <= d + l
    OBVIOUS
  \* What a step adds to what can be sent, a choice or a kept draft accounts for.
  <1> DEFINE Paid == /\ sends' = sends /\ choices' \in Nat /\ kept' \in Nat
                     /\ Spendable' + choices + kept <= Spendable + choices' + kept'
                     /\ pc' \in {"send", "prepared", "request"} => draft'
  <1>3. Paid => ChosenInv'
    <2> SUFFICES ASSUME Paid PROVE ChosenInv'
      OBVIOUS
    <2>1. Sent' = Sent
      BY DEF Sent
    <2>2. Cardinality(Sent) + Spendable' <= choices' + kept'
      <3>1. Spendable \in Nat /\ Spendable' \in Nat
        BY <1>2
      <3> QED BY <1>1, <1>a, <3>1
    <2> QED BY <2>1, <2>2 DEF ChosenInv
  <1>4. ASSUME UNCHANGED <<sends, cur, draft, choices, kept>>,
               pc' \in {"send", "prepared", "request"} => draft
        PROVE  ChosenInv'
    <2>1. Spendable' = Spendable
      BY <1>4 DEF Spendable, Asked
    <2> QED BY <1>1, <1>2, <1>3, <1>4, <2>1
  <1>5. ASSUME NEW t \in Transfers, SendRequest(t) PROVE ChosenInv'
    <2>1. /\ cur = {t} /\ draft /\ sends[t] = 0 /\ sends' = [sends EXCEPT ![t] = @ + 1]
          /\ pc' = "await" /\ UNCHANGED <<draft, cur, choices, kept>>
      BY <1>5 DEF SendRequest, counts, TransferInv, InHand, ChosenInv
    <2>2. Sent' = Sent \cup {t} /\ t \notin Sent
      BY <1>1, <2>1 DEF Sent
    <2>3. IsFiniteSet(Sent') /\ Cardinality(Sent') = Cardinality(Sent) + 1
      BY <2>2, FS_AddElement DEF ChosenInv
    <2>4. Spendable = 1 /\ Spendable' = 0
      BY <1>1, <2>1 DEF Spendable, Asked
    <2> QED BY <1>1, <2>1, <2>3, <2>4 DEF ChosenInv
  <1>6. CASE Choose \/ Reopen
    <2>1. /\ pc = "idle" /\ cur = {} /\ UNCHANGED <<pc, cur, sends, kept>>
          /\ \/ choices' = choices + 1
             \/ draft' = FALSE /\ choices' = choices
      BY <1>6 DEF Choose, Reopen, process, exchange, counts, TransferInv, InHand
    <2>2. draft' = FALSE => Spendable' = 0
      BY DEF Spendable
    <2> QED BY <1>1, <1>2, <1>3, <2>1, <2>2
  <1>7. CASE ClearDraft \/ Stop
    <2>1. /\ cur' = {} /\ pc' \in {"offset", "idle"} /\ UNCHANGED <<sends, choices>>
          /\ \/ draft' = FALSE /\ kept' = kept
             \/ draft' = draft /\ kept' = IF draft /\ Asked THEN kept + 1 ELSE kept
      BY <1>7 DEF ClearDraft, Stop, exchange, Kept
    <2>2. draft' = FALSE => Spendable' = 0
      BY DEF Spendable
    <2>3. draft' = draft => Spendable' = (IF draft THEN 1 ELSE 0)
      BY <2>1 DEF Spendable, Asked
    <2> QED BY <1>1, <1>2, <1>3, <2>1, <2>2, <2>3 DEF Spendable
  <1>8. ASSUME NEW t \in Transfers, SendInsert(t) PROVE ChosenInv'
    <2>1. /\ cur = {} /\ cur' = {t} /\ draft /\ sends[t] = 0
          /\ UNCHANGED <<draft, sends, choices, kept>>
      BY <1>8 DEF SendInsert, exchange, counts, TransferInv, InHand, RecordIsTrue, ChosenInv
    <2>2. Spendable' = Spendable
      BY <2>1 DEF Spendable, Asked
    <2> QED BY <1>1, <1>2, <1>3, <2>1, <2>2
  <1>9. CASE Handle
    <2>1. /\ UNCHANGED <<sends, cur, draft, choices, kept>>
          /\ \/ pc' = "send" /\ draft
             \/ pc' = "offset"
      BY <1>9 DEF Handle, exchange, counts
    <2> QED BY <1>4, <2>1
  <1>10. CASE Press \/ SendRefused \/ SendUnwritten \/ StoreOffset
    BY <1>4, <1>10 DEF Press, SendRefused, SendUnwritten, StoreOffset, exchange, counts, ChosenInv
  <1>11. ASSUME NEW t \in Transfers,
                SendSending(t) \/ SendAnswered(t) \/ SendFailed(t) \/ SendAmbiguous(t)
         PROVE  ChosenInv'
    BY <1>4, <1>11 DEF SendSending, SendAnswered, SendFailed, SendAmbiguous, Record,
                       exchange, counts, ChosenInv
  <1>12. ASSUME NEW t \in Transfers,
                Settle(t) \/ Arrives(t) \/ Lost(t) \/ Completes(t) \/ Listed(t) \/ Ages(t)
         PROVE  ChosenInv'
    BY <1>4, <1>12 DEF Settle, Arrives, Lost, Completes, Listed, Ages, process, exchange, counts,
                       ChosenInv
  <1>13. CASE UNCHANGED vars
    BY <1>4, <1>13 DEF vars, process, exchange, counts, ChosenInv
  <1> QED
    BY <1>5, <1>6, <1>7, <1>8, <1>9, <1>10, <1>11, <1>12, <1>13 DEF Next, Operator, Send, Upbit

\* One filled-in transfer moves assets once, however often its button is pressed
\* and its presses are delivered again, but for a draft that outlived its request
\* because the process stopped or the write failed in between (runTransfer).
THEOREM SentAsChosenAlways == Spec => []SentAsChosen
  <1>1. Init => ChosenInv
    <2> SUFFICES ASSUME Init PROVE ChosenInv
      OBVIOUS
    <2>1. Sent = {}
      BY DEF Init, Sent
    <2> QED BY <2>1, FS_EmptySet DEF Init, ChosenInv, Spendable
  <1>2. TransferInv /\ ChosenInv => SentAsChosen
    <2> SUFFICES ASSUME TransferInv, ChosenInv PROVE SentAsChosen
      OBVIOUS
    <2>1. Cardinality(Sent) \in Nat /\ choices \in Nat /\ kept \in Nat
      BY FS_CardinalityType DEF ChosenInv, TransferInv, TypeOK
    <2>2. Spendable \in Nat
      BY DEF Spendable
    <2>3. Cardinality(Sent) <= choices + kept
      BY <2>1, <2>2 DEF ChosenInv
    <2> QED BY <2>3 DEF SentAsChosen, Sent
  <1> QED BY TransferInit, TransferStep, ChosenStep, <1>1, <1>2, PTL DEF Spec
=============================================================================
