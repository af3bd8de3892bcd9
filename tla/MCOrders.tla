------------------------------ MODULE MCOrders ------------------------------
(***************************************************************************)
(* Finite instances of Orders.  Ladder A has the rungs a1 and a2, ladder B *)
(* the rung b1, as far as the configuration includes them.                 *)
(***************************************************************************)
EXTENDS OrdersProperties

CONSTANTS A, B, a1, a2, b1, toss, upbit

Rungs  == [o \in Orders |-> IF o = b1 THEN B ELSE A]
Places == [o \in Orders |-> IF o = a2 THEN 1 ELSE 0]

\* a2 and b1 trade the same symbol, side, quantity and price.
Alike    == [o \in Orders |-> o \in {a2, b1}]
Distinct == [o \in Orders |-> o]

OnToss  == [l \in Ladders |-> toss]
OnUpbit == [l \in Ladders |-> upbit]
Apart   == [l \in Ladders |-> IF l = A THEN upbit ELSE toss]
=============================================================================
