------------------------------ MODULE MCDraft -------------------------------
(***************************************************************************)
(* Finite instances of Draft: one draft under many presses, or two that    *)
(* compete for the one pending question.                                   *)
(***************************************************************************)
EXTENDS Draft

CONSTANTS d1, d2
=============================================================================
