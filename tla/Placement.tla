----------------------------- MODULE Placement ------------------------------
(***************************************************************************)
(* What Exchange.Place promises to the order executor (orders/exchange.go, *)
(* broker.Error): an order is asked for once, an error that is not         *)
(* ambiguous means that it never comes to exist, and an answer without an  *)
(* error means that it does.  Orders is built on this contract: its        *)
(* SubmitAccepted, SubmitRejected and SubmitAmbiguous are the three words  *)
(* a caller can be given, its wire the orders that are open here.          *)
(***************************************************************************)
CONSTANT Orders

VARIABLES
  fate,  \* "unasked", "open" while it may yet be made, "made" or "never"
  said   \* what Place returned: "nothing" so far, "accepted", "definite", "ambiguous"

vars == <<fate, said>>

Becomes(o, from, to) == fate[o] \in from /\ fate' = [fate EXCEPT ![o] = to]
Says(o, word)        == said[o] = "nothing" /\ said' = [said EXCEPT ![o] = word]

Ask(o)         == Becomes(o, {"unasked"}, "open") /\ UNCHANGED said
TakesEffect(o) == Becomes(o, {"open"}, "made") /\ UNCHANGED said
Vanishes(o)    == Becomes(o, {"open"}, "never") /\ UNCHANGED said

Accepted(o)  == fate[o] = "made" /\ Says(o, "accepted") /\ UNCHANGED fate
Refused(o)   == Becomes(o, {"open", "never"}, "never") /\ Says(o, "definite")
Ambiguous(o) == fate[o] # "unasked" /\ Says(o, "ambiguous") /\ UNCHANGED fate

Init == fate = [o \in Orders |-> "unasked"] /\ said = [o \in Orders |-> "nothing"]

Next == \E o \in Orders : \/ Ask(o) \/ TakesEffect(o) \/ Vanishes(o)
                          \/ Accepted(o) \/ Refused(o) \/ Ambiguous(o)

Spec == Init /\ [][Next]_vars
=============================================================================
