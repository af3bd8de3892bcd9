----------------------------- MODULE OrderLife ------------------------------
(***************************************************************************)
(* What internal/orders promises about one order, whatever fails: it is    *)
(* attempted at most once, never while another order at its venue is in    *)
(* doubt; what is recorded as filled only grows; and an order that is      *)
(* settled stays as it is.                                                 *)
(***************************************************************************)
EXTENDS Naturals

CONSTANTS Orders, VenueOfOrder, Quantity

VARIABLES
  life,    \* unsent, in doubt (sent, not identified), known, settled
  filled   \* the quantity recorded as executed

vars == <<life, filled>>

Init ==
  /\ life = [o \in Orders |-> "unsent"]
  /\ filled = [o \in Orders |-> 0]

\* The one attempt to place an order.
Attempt(o) ==
  /\ life[o] = "unsent"
  /\ \A p \in Orders : VenueOfOrder[p] = VenueOfOrder[o] => life[p] # "in doubt"
  /\ life' = [life EXCEPT ![o] = "in doubt"]
  /\ UNCHANGED filled

\* The exchange's account of an attempted order is taken over.
Learn(o) ==
  /\ life[o] \in {"in doubt", "known"}
  /\ \E now \in {"known", "settled"} : life' = [life EXCEPT ![o] = now]
  /\ \E q \in filled[o]..Quantity : filled' = [filled EXCEPT ![o] = q]

\* Orders given up without one: refused, found missing, or never sent.
GiveUp(gone) ==
  /\ \A o \in gone : life[o] \in {"unsent", "in doubt", "settled"}
  /\ life' = [o \in Orders |-> IF o \in gone THEN "settled" ELSE life[o]]
  /\ UNCHANGED filled

Next ==
  \/ \E o \in Orders : Attempt(o) \/ Learn(o)
  \/ \E gone \in SUBSET Orders : GiveUp(gone)

Spec == Init /\ [][Next]_vars
=============================================================================
