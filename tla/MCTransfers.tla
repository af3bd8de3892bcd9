---------------------------- MODULE MCTransfers -----------------------------
(***************************************************************************)
(* A finite instance of Transfers with two transfer ids.                   *)
(***************************************************************************)
EXTENDS Transfers

CONSTANTS t1, t2
=============================================================================
