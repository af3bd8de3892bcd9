------------------------------ MODULE MCLadder ------------------------------
(***************************************************************************)
(* Finite instances of Ladder: a venue with two tiers of ticks above the   *)
(* smallest, with or without a smallest amount, and every request of small *)
(* numbers.                                                                *)
(***************************************************************************)
EXTENDS Ladder

TwoTiers == << <<40, 10>>, <<20, 4>> >>

-----------------------------------------------------------------------------
(* The tick tables of the code, which the theorems about Ladder need to fit *)
(* together (TiersAssumption).  The one of the won market reaches past what *)
(* TLC counts to: it is checked in two halves that share a tier.            *)

tossTicks == << <<10000, 100>> >>                          \* in 0.0001
krwTicksHigh ==                                            \* in 0.1
  << <<10000000, 10000>>, <<5000000, 5000>>, <<1000000, 1000>>, <<500000, 500>>,
     <<100000, 100>>, <<50000, 50>>, <<1000, 10>>, <<100, 1>> >>
krwTicksLow ==                                             \* in 0.00000001
  << <<1000000000, 10000000>>, <<100000000, 1000000>>, <<10000000, 100000>>,
     <<1000000, 10000>>, <<100000, 1000>>, <<10000, 100>>, <<1000, 10>> >>
usdtTicks ==                                               \* in 0.00000001
  << <<1000000000, 1000000>>, <<100000000, 100000>>, <<10000000, 10000>>,
     <<1000000, 1000>>, <<100000, 100>>, <<10000, 10>> >>

ASSUME TablesFitTogether ==
  \A tiers \in {tossTicks, krwTicksHigh, krwTicksLow, usdtTicks} : FitTogether(tiers)
=============================================================================
