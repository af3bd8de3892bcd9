-------------------------- MODULE MCSingleInstance --------------------------
(***************************************************************************)
(* Finite instances of SingleInstance: three bots.                         *)
(***************************************************************************)
EXTENDS SingleInstance

CONSTANTS p1, p2, p3
=============================================================================
