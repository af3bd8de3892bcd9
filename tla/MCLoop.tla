------------------------------- MODULE MCLoop --------------------------------
(***************************************************************************)
(* Finite instances of Loop: an order for any of the venues, one of which  *)
(* is switched off, two accounts the login may list, waits of a tick, and  *)
(* up to one order at Upbit in each cycle that needs a lookup of its own.  *)
(***************************************************************************)
EXTENDS Loop

CONSTANTS o1, p, q

OneAtUpbit == [client \in Clients |-> IF client = "cotrader" THEN 1 ELSE 0]
=============================================================================
