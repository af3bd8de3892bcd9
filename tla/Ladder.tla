------------------------------- MODULE Ladder --------------------------------
(***************************************************************************)
(* From one request to a list of limit orders: ladder.Build and MaxRungs,  *)
(* with the rules of a venue they rest on (internal/market).               *)
(*                                                                         *)
(* Everything is counted in whole units: a price in smallest ticks, a      *)
(* quantity in tradable units, and cash in ticks times units, so that an   *)
(* amount is a price times a quantity.  A holding may be finer than a unit *)
(* (Fine parts of one).  Cash finer than that never matters: no order can  *)
(* be paid with it, and the quotients of the code truncate it.             *)
(*                                                                         *)
(* Where the interior prices fall is float arithmetic: any that lie in     *)
(* order between the first and the last.                                   *)
(***************************************************************************)
EXTENDS Integers, Sequences, FiniteSetsExt

CONSTANTS
  Tiers,     \* <<from, step>> pairs of the venue, high to low; below them the step is 1
  MinTotals, \* each venue's smallest amount of an order, 0 where one unit is enough (Toss)
  Fine,      \* parts of a unit a holding is counted in
  Whole,     \* what offsets and fees are parts of, 100 for percent
  Limit,     \* maxRungs, 50 in the code
  Sides, Bases, Offsets, Counts, Totals, Fees  \* the requests

ASSUME ConstantsAssumption ==
  /\ MinTotals \subseteq Nat /\ Fine \in Nat \ {0} /\ Whole \in Nat \ {0} /\ Limit \in Nat \ {0}
  /\ Sides \subseteq {"BUY", "SELL"}
  /\ Bases \cup Offsets \cup Counts \cup Totals \cup Fees \subseteq Int

\* Prices on the grid of one tier never reach past the next: every bound is on
\* the grid above it and on the one below.
FitTogether(tiers) ==
  /\ tiers \in Seq((Nat \ {0}) \X (Nat \ {0}))
  /\ \A t \in DOMAIN tiers :
       /\ tiers[t][1] % tiers[t][2] = 0
       /\ t < Len(tiers) => tiers[t][1] % tiers[t + 1][2] = 0
       /\ \A u \in DOMAIN tiers : t < u => tiers[t][1] > tiers[u][1]

ASSUME TiersAssumption == FitTogether(Tiers)

VARIABLES
  spec,    \* the request
  stage,   \* how far Build is: "new", "priced", "sized", "spread", "built", "refused"
  prices,  \* the rungs' prices, nearest the reference price first
  qty,     \* their quantities
  left,    \* what the even split left over: units of a sell, cash of a buy
  rung,    \* the rung the next unit may go to
  bought   \* spreadCash: this pass has bought something

vars == <<spec, stage, prices, qty, left, rung, bought>>

Specs == [least : MinTotals, side : Sides, base : Bases, start : Offsets, end : Offsets,
          count : Counts, total : Totals, fee : Fees]

-----------------------------------------------------------------------------
(* The venue.                                                              *)

\* TickSize: the step of the first tier whose lower bound the price reaches.
TickSize(p) ==
  LET reached == {t \in DOMAIN Tiers : p >= Tiers[t][1]}
  IN IF reached = {} THEN 1 ELSE Tiers[Min(reached)][2]

Up(p, step)   == ((p + step - 1) \div step) * step
Down(p, step) == (p \div step) * step

\* Mutant: a price goes to the nearest tick.
PriceTick_Nearest(p, side) ==
  IF p <= 0 THEN 0 ELSE Down(p + TickSize(p) \div 2, TickSize(p))

\* A seller never gives away a tick, a buyer never pays one.
PriceTick(p, side) ==
  IF p <= 0 THEN 0 ELSE IF side = "SELL" THEN Up(p, TickSize(p)) ELSE Down(p, TickSize(p))

RoundQuantity(holding) == holding \div Fine
MinQuantity(p)         == IF spec.least = 0 THEN 1 ELSE (spec.least + p - 1) \div p
QuantityFor(cash, p)   == cash \div p
OrderSizeValid(q, p)   == q > 0 /\ p > 0 /\ q * p >= spec.least

-----------------------------------------------------------------------------
(* The request.                                                            *)

\* Validate, as far as numbers go.
Valid(s) ==
  /\ s.base > 0 /\ s.start >= 0 /\ s.end > s.start
  /\ s.side = "BUY" => s.end < Whole
  /\ s.count \in 1..Limit /\ s.total > 0 /\ s.fee >= 0

\* bounds.  A fraction of a tick is rounded the way PriceTick rounds it later.
Bound(s, pct) ==
  IF s.side = "SELL" THEN (s.base * (Whole + pct) + Whole - 1) \div Whole
                     ELSE (s.base * (Whole - pct)) \div Whole

\* Mutant: the commission is not taken out of the cash.
Budget_Whole(s) == s.total

\* budget: what is left of the cash once the commission is held.
Budget(s) == IF s.side = "BUY" THEN (s.total * Whole) \div (Whole + s.fee) ELSE s.total

AtMost(n) == IF n < Limit THEN n ELSE Limit

\* Mutant: the rung farthest from the reference price is taken to be binding.
MaxRungs_Far(s) ==
  LET p == PriceTick(Bound(s, s.end), s.side)
  IN IF s.base <= 0 \/ s.total <= 0 \/ p <= 0 THEN 0
     ELSE IF s.side = "BUY" THEN AtMost(Budget(s) \div (MinQuantity(p) * p))
     ELSE AtMost(RoundQuantity(s.total) \div MinQuantity(p))

\* MaxRungs: how many rungs the budget or the holding is said to carry.
MaxRungs(s) ==
  LET p == PriceTick(Bound(s, s.start), s.side)
  IN IF s.base <= 0 \/ s.total <= 0 \/ p <= 0 THEN 0
     ELSE IF s.side = "BUY" THEN AtMost(Budget(s) \div (MinQuantity(p) * p))
     ELSE AtMost(RoundQuantity(s.total) \div MinQuantity(p))

-----------------------------------------------------------------------------
(* Build.                                                                  *)

\* geometric: the ends are exact, the interior lies in order between them.
Geometric(s) ==
  LET a == Bound(s, s.start)  b == Bound(s, s.end)
      Ordered(f) == \A i, j \in 1..s.count :
                      i < j => IF s.side = "SELL" THEN f[i] <= f[j] ELSE f[i] >= f[j]
  IN {f \in [1..s.count -> IF a <= b THEN a..b ELSE b..a] :
        f[1] = a /\ (s.count > 1 => f[s.count] = b) /\ Ordered(f)}

\* snap: prices on the grid, those that fall together merged, those below it dropped.
Snap(raw, side) ==
  LET kept[n \in 0..Len(raw)] ==
        IF n = 0 THEN <<>>
        ELSE LET p == PriceTick(raw[n], side)
             IN IF p <= 0 \/ (kept[n - 1] # <<>> /\ kept[n - 1][Len(kept[n - 1])] = p)
                THEN kept[n - 1] ELSE Append(kept[n - 1], p)
  IN kept[Len(raw)]

Refuse ==
  /\ stage = "new" /\ ~Valid(spec)
  /\ stage' = "refused"
  /\ UNCHANGED <<spec, prices, qty, left, rung, bought>>

Price ==
  /\ stage = "new" /\ Valid(spec)
  /\ \E raw \in Geometric(spec) : prices' = Snap(raw, spec.side)
  /\ stage' = IF prices' = <<>> THEN "refused" ELSE "priced"
  /\ UNCHANGED <<spec, qty, left, rung, bought>>

\* f[1] + ... + f[n].
Total(f, n) ==
  LET sum[k \in 0..n] == IF k = 0 THEN 0 ELSE sum[k - 1] + f[k]
  IN sum[n]

TotalQuantity == Total(qty, Len(qty))
TotalAmount   == Total([i \in DOMAIN qty |-> prices[i] * qty[i]], Len(qty))

\* size of a sell: the quantity is divided evenly.
DivideQuantity ==
  /\ stage = "priced" /\ spec.side = "SELL"
  /\ LET n     == Len(prices)
         total == RoundQuantity(spec.total)
     IN /\ qty' = [i \in 1..n |-> total \div n]
        /\ left' = total % n
        /\ rung' = n
  /\ stage' = "spread"
  /\ UNCHANGED <<spec, prices, bought>>

\* size of a buy: the cash is divided evenly.
DivideCash ==
  /\ stage = "priced" /\ spec.side = "BUY"
  /\ LET n == Len(prices)
     IN /\ qty' = [i \in 1..n |-> QuantityFor(Budget(spec), n * prices[i])]
        /\ left' = Budget(spec) - Total([i \in 1..n |-> prices[i] * qty'[i]], n)
        /\ rung' = n
  /\ bought' = FALSE
  /\ stage' = "spread"
  /\ UNCHANGED <<spec, prices>>

\* spreadQuantity: one unit each, from the far end inwards.
SpreadQuantity ==
  /\ stage = "spread" /\ spec.side = "SELL"
  /\ IF rung > 0 /\ left > 0
     THEN /\ qty' = [qty EXCEPT ![rung] = @ + 1]
          /\ left' = left - 1 /\ rung' = rung - 1
          /\ UNCHANGED stage
     ELSE stage' = "sized" /\ UNCHANGED <<qty, left, rung>>
  /\ UNCHANGED <<spec, prices, bought>>

\* spreadCash: one unit of each rung there is cash for, from the cheapest up.
SpreadCash ==
  /\ stage = "spread" /\ spec.side = "BUY" /\ rung > 0
  /\ IF prices[rung] <= left
     THEN qty' = [qty EXCEPT ![rung] = @ + 1] /\ left' = left - prices[rung] /\ bought' = TRUE
     ELSE UNCHANGED <<qty, left, bought>>
  /\ rung' = rung - 1
  /\ UNCHANGED <<spec, stage, prices>>

\* Mutant: the loop ends only when the cash is used up.
NextPass_UntilSpent ==
  /\ stage = "spread" /\ spec.side = "BUY" /\ rung = 0
  /\ IF left > 0 THEN rung' = Len(prices) /\ bought' = FALSE /\ UNCHANGED stage
     ELSE stage' = "sized" /\ UNCHANGED <<rung, bought>>
  /\ UNCHANGED <<spec, prices, qty, left>>

\* The loop ends with the first pass that can afford nothing.
NextPass ==
  /\ stage = "spread" /\ spec.side = "BUY" /\ rung = 0
  /\ IF bought THEN rung' = Len(prices) /\ bought' = FALSE /\ UNCHANGED stage
     ELSE stage' = "sized" /\ UNCHANGED <<rung, bought>>
  /\ UNCHANGED <<spec, prices, qty, left>>

Check ==
  /\ stage = "sized"
  /\ stage' = IF \A i \in DOMAIN qty : OrderSizeValid(qty[i], prices[i]) THEN "built" ELSE "refused"
  /\ UNCHANGED <<spec, prices, qty, left, rung, bought>>

-----------------------------------------------------------------------------
Init ==
  /\ spec \in Specs /\ stage = "new"
  /\ prices = <<>> /\ qty = <<>> /\ left = 0 /\ rung = 0 /\ bought = FALSE

Next ==
  \/ Refuse \/ Price \/ DivideQuantity \/ DivideCash
  \/ SpreadQuantity \/ SpreadCash \/ NextPass \/ Check

Spec == Init /\ [][Next]_vars

TypeOK ==
  /\ spec \in Specs
  /\ stage \in {"new", "priced", "spread", "sized", "built", "refused"}
  /\ prices \in Seq(Nat \ {0}) /\ qty \in Seq(Nat)
  /\ (prices # <<>> => Len(prices) <= spec.count) /\ (stage \in {"spread", "sized", "built"} => Len(qty) = Len(prices))
  /\ left \in Nat /\ rung \in 0..Len(prices) /\ bought \in BOOLEAN

-----------------------------------------------------------------------------
(* Correctness.                                                            *)

\* Every rung has a price of its own, on the tick grid of its own tier, farther
\* out than the rung before it and no worse for the operator than the offsets
\* that were asked for (snap, PriceTick).
PricesAreOffered ==
  \A i \in DOMAIN prices :
    /\ prices[i] % TickSize(prices[i]) = 0
    /\ spec.side = "SELL" => /\ prices[i] >= Bound(spec, spec.start)
                             /\ i > 1 => prices[i] > prices[i - 1]
    /\ spec.side = "BUY"  => /\ prices[i] <= Bound(spec, spec.start)
                             /\ i > 1 => prices[i] < prices[i - 1]

\* The types, and the prices of every rung, at every step of Build.
PlanOK == TypeOK /\ PricesAreOffered

\* What the venue will lock for a buy, commission included, never exceeds the
\* cash that was given, at any step of handing it out (budget, Commitment).
FitsBudget ==
  spec.side = "BUY" /\ qty # <<>> => TotalAmount * (Whole + spec.fee) <= spec.total * Whole

\* Nothing is lost to the division: when Build is through, a sell offers the
\* whole tradable holding, and a buy has stopped handing out cash, as it must,
\* only when no rung could take another unit (spreadQuantity, spreadCash).
NothingIsLeft ==
  stage \in {"sized", "built", "refused"} /\ qty # <<>> =>
    IF spec.side = "SELL" THEN TotalQuantity = RoundQuantity(spec.total)
    ELSE \A i \in DOMAIN prices : left < prices[i]

\* What there is left to do while units are handed out.
Work == left * (Len(prices) + 1) + rung + (IF bought THEN Len(prices) + 1 ELSE 0)

\* A step of handing out leaves less to do, another pass over the rungs included,
\* or is the last and leaves nothing over: handing out cannot go round for ever
\* and does not stop too early (spreadQuantity, spreadCash).
HandsOutAll ==
  [][stage = "spread" => IF stage' = "spread" THEN Work' < Work ELSE NothingIsLeft']_vars

\* On a sell, and where a unit is enough, every count up to MaxRungs is built.
CarriesMaxRungs ==
  stage = "refused" /\ Valid(spec) /\ (spec.side = "SELL" \/ spec.least = 0) => spec.count > MaxRungs(spec)

\* MaxRungs is how many rungs the budget can actually carry.  On a buy with a
\* smallest amount it can be one too many for a rung below the first.
CarriesEveryCount ==
  stage = "refused" /\ Valid(spec) => spec.count > MaxRungs(spec)
=============================================================================
