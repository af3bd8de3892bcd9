---------------------------- MODULE LadderProofs ----------------------------
(***************************************************************************)
(* Theorems about Ladder, for any venue whose ticks fit together and any   *)
(* request.                                                                *)
(***************************************************************************)
EXTENDS Ladder, WellFoundedInduction, SequenceTheorems, TLAPS

-----------------------------------------------------------------------------
(* Quotients.                                                              *)

LEMMA Quotient ==
  ASSUME NEW a \in Int, NEW b \in Nat \ {0}
  PROVE  /\ a \div b \in Int /\ a % b \in 0..(b - 1)
         /\ a = (a \div b) * b + (a % b)
  OBVIOUS

LEMMA Product ==
  ASSUME NEW a \in Int, NEW b \in Int, NEW c \in Nat, a <= b
  PROVE  a * c <= b * c /\ a * c \in Int /\ b * c \in Int
  OBVIOUS

\* A multiple of b that is no more than a is no more than the one found.
LEMMA QuotientIsLargest ==
  ASSUME NEW a \in Int, NEW b \in Nat \ {0}, NEW k \in Int, k * b <= a
  PROVE  k <= a \div b
  <1>1. a < (a \div b) * b + b /\ a \div b \in Int
    BY Quotient
  <1>2. SUFFICES ASSUME a \div b + 1 <= k PROVE FALSE
    BY <1>1
  <1>3. (a \div b + 1) * b <= k * b
    BY <1>1, <1>2, Product
  <1>4. (a \div b + 1) * b = (a \div b) * b + b
    BY <1>1
  <1> QED BY <1>1, <1>3, <1>4

LEMMA QuotientOfNat ==
  ASSUME NEW a \in Nat, NEW b \in Nat \ {0}
  PROVE  a \div b \in Nat /\ (a \div b) * b <= a /\ (a \div b) * b \in Nat
  OBVIOUS

LEMMA Multiple ==
  ASSUME NEW b \in Nat \ {0}, NEW k \in Int
  PROVE  (k * b) % b = 0
  <1> DEFINE a == k * b
  <1>1. a \in Int
    OBVIOUS
  <1>2. k <= a \div b
    <2>1. k * b <= a
      BY <1>1
    <2> HIDE DEF a
    <2> QED BY <1>1, <2>1, QuotientIsLargest
  <1>3. a \div b \in Int /\ a % b \in Int /\ a % b >= 0 /\ a = (a \div b) * b + (a % b)
    <2> HIDE DEF a
    <2> QED BY <1>1, Quotient
  <1>4. a <= (a \div b) * b
    BY <1>2, <1>3, Product
  <1>5. (a \div b) * b \in Int
    BY <1>3
  <1> HIDE DEF a
  <1>6. a % b = 0
    BY <1>1, <1>3, <1>4, <1>5
  <1> QED BY <1>6 DEF a

-----------------------------------------------------------------------------
(* Induction over the natural numbers.                                     *)

LEMMA Least ==
  ASSUME NEW T \in SUBSET Nat, T # {}
  PROVE  \E x \in T : \A y \in T : x <= y
  <1> DEFINE R == {ss \in Nat \X Nat : ss[1] < ss[2]}
  <1>1. IsWellFoundedOn(R, Nat)
    BY NatLessThanWellFounded DEF OpToRel
  <1>2. PICK x \in T : \A y \in T : <<y, x>> \notin R
    <2> HIDE DEF R
    <2> QED BY <1>1, WFMin
  <1>3. \A y \in T : ~(y < x)
    BY <1>2
  <1> QED BY <1>3

\* What holds of 0 and passes from one number to the next holds up to n.
LEMMA UpTo ==
  ASSUME NEW n \in Nat, NEW T, 0 \in T, \A k \in 0..(n - 1) : k \in T => k + 1 \in T
  PROVE  0..n \subseteq T
  <1> DEFINE F == (0..n) \ T
  <1> SUFFICES ASSUME F # {} PROVE FALSE
    OBVIOUS
  <1>1. PICK x \in F : \A y \in F : x <= y
    <2>1. F \in SUBSET Nat
      OBVIOUS
    <2> HIDE DEF F
    <2> QED BY <2>1, Least
  <1>2. x - 1 \in 0..(n - 1) /\ x - 1 \notin F
    BY <1>1
  <1> QED BY <1>1, <1>2

\* Each value of f is made from the one before it, by G.
Follows(f, G, n) == \A k \in 1..n : f[k] = G[k][f[k - 1]]

\* A function can be built value by value.
LEMMA Recursion ==
  ASSUME NEW n \in Nat, NEW V, NEW v \in V, NEW G \in [1..n -> [V -> V]]
  PROVE  \E f \in [0..n -> V] : f[0] = v /\ Follows(f, G, n)
  <1> DEFINE Good(m, f) == f[0] = v /\ \A k \in 1..m : f[k] = G[k][f[k - 1]]
             T == {m \in 0..n : \E f \in [0..m -> V] : Good(m, f)}
  <1>1. 0 \in T
    <2> DEFINE h == [k \in 0..0 |-> v]
    <2>1. h \in [0..0 -> V] /\ h[0] = v
      OBVIOUS
    <2>2. Good(0, h)
      BY <2>1
    <2> HIDE DEF h, Good
    <2> QED BY <2>1, <2>2
  <1>2. ASSUME NEW m \in 0..(n - 1), m \in T PROVE m + 1 \in T
    <2>1. PICK f \in [0..m -> V] : Good(m, f)
      BY <1>2
    <2> DEFINE h == [k \in 0..(m + 1) |-> IF k <= m THEN f[k] ELSE G[m + 1][f[m]]]
    <2>2. h \in [0..(m + 1) -> V]
      BY <2>1
    <2>3. h[0] = v
      BY <2>1
    <2>4. ASSUME NEW k \in 1..(m + 1) PROVE h[k] = G[k][h[k - 1]]
      <3>1. CASE k = m + 1
        <4>1. h[k] = G[m + 1][f[m]] /\ h[k - 1] = f[m]
          BY <3>1
        <4> QED BY <3>1, <4>1
      <3>2. CASE k <= m
        <4>1. h[k] = f[k] /\ h[k - 1] = f[k - 1] /\ k \in 1..m
          BY <3>2
        <4> QED BY <2>1, <4>1
      <3> QED BY <3>1, <3>2
    <2>5. Good(m + 1, h)
      <3> HIDE DEF h
      <3> QED BY <2>3, <2>4
    <2>6. m + 1 \in 0..n
      OBVIOUS
    <2> HIDE DEF h, Good
    <2> QED BY <2>2, <2>5, <2>6
  <1>3. \A k \in 0..(n - 1) : k \in T => k + 1 \in T
    BY <1>2
  <1>4. 0..n \subseteq T
    <2> HIDE DEF T
    <2> QED BY <1>1, <1>3, UpTo
  <1>5. n \in T
    BY <1>4
  <1> QED BY <1>5 DEF Follows

-----------------------------------------------------------------------------
(* Sums.                                                                   *)

\* What Total adds up, partial sum by partial sum.
PartialSums(f, n) ==
  {s \in [0..n -> Int] : s[0] = 0 /\ \A k \in 1..n : s[k] = s[k - 1] + f[k]}

LEMMA TotalIs ==
  ASSUME NEW n \in Nat, NEW f \in [1..n -> Int]
  PROVE  \E s \in PartialSums(f, n) : Total(f, n) = s[n]
  <1> DEFINE G == [k \in 1..n |-> [x \in Int |-> x + f[k]]]
             Sum(g) == [k \in 0..n |-> IF k = 0 THEN 0 ELSE g[k - 1] + f[k]]
             sum == CHOOSE g : g = Sum(g)
  <1>1. PICK s \in [0..n -> Int] : s[0] = 0 /\ Follows(s, G, n)
    <2> DEFINE V == Int  v == 0
    <2>1. v \in V /\ G \in [1..n -> [V -> V]]
      OBVIOUS
    <2> HIDE DEF G, V, v
    <2>2. \E s \in [0..n -> V] : s[0] = v /\ Follows(s, G, n)
      BY <2>1, Recursion
    <2> QED BY <2>2 DEF V, v
  <1>2. ASSUME NEW k \in 1..n PROVE s[k] = s[k - 1] + f[k]
    <2>1. k - 1 \in 0..n
      OBVIOUS
    <2>2. s[k] = G[k][s[k - 1]] /\ s[k - 1] \in Int
      <3> HIDE DEF G
      <3> QED BY <1>1, <2>1 DEF Follows
    <2> QED BY <2>2
  <1>3. s = Sum(s)
    BY <1>1, <1>2
  <1>4. sum = Sum(sum)
    BY <1>3
  <1>5. \A k \in 0..n : sum[k] = IF k = 0 THEN 0 ELSE sum[k - 1] + f[k]
    BY <1>4
  <1> HIDE DEF sum
  <1> DEFINE T == {k \in 0..n : sum[k] = s[k]}
  <1>6. 0 \in T
    BY <1>1, <1>5
  <1>7. \A k \in 0..(n - 1) : k \in T => k + 1 \in T
    BY <1>2, <1>5
  <1>8. 0..n \subseteq T
    <2> HIDE DEF T
    <2> QED BY <1>6, <1>7, UpTo
  <1>9. sum[n] = s[n]
    BY <1>8
  <1>10. Total(f, n) = sum[n]
    BY DEF Total, sum
  <1>11. s \in PartialSums(f, n)
    BY <1>1, <1>2 DEF PartialSums
  <1> QED BY <1>9, <1>10, <1>11

\* A bound on every summand bounds the sum.
LEMMA TotalAtMost ==
  ASSUME NEW n \in Nat, NEW f \in [1..n -> Int], NEW c \in Nat, NEW b \in Int,
         \A k \in 1..n : c * f[k] <= b
  PROVE  Total(f, n) \in Int /\ c * Total(f, n) <= n * b
  <1>1. PICK s \in PartialSums(f, n) : Total(f, n) = s[n]
    BY TotalIs
  <1>2. s \in [0..n -> Int] /\ s[0] = 0 /\ \A k \in 1..n : s[k] = s[k - 1] + f[k]
    BY <1>1 DEF PartialSums
  <1> DEFINE T == {k \in 0..n : c * s[k] <= k * b}
  <1>3. 0 \in T
    BY <1>2
  <1>4. ASSUME NEW k \in 0..(n - 1), k \in T PROVE k + 1 \in T
    <2>1. s[k + 1] = s[k] + f[k + 1] /\ s[k] \in Int /\ f[k + 1] \in Int
      BY <1>2
    <2>2. c * s[k] <= k * b /\ c * f[k + 1] <= b
      BY <1>4
    <2>3. c * (s[k] + f[k + 1]) = c * s[k] + c * f[k + 1] /\ (k + 1) * b = k * b + b
      BY <2>1
    <2>4. c * s[k] \in Int /\ c * f[k + 1] \in Int /\ k * b \in Int
      BY <2>1
    <2>5. c * s[k + 1] <= (k + 1) * b
      BY <2>1, <2>2, <2>3, <2>4
    <2> QED BY <2>5
  <1>5. \A k \in 0..(n - 1) : k \in T => k + 1 \in T
    BY <1>4
  <1>6. 0..n \subseteq T
    <2> HIDE DEF T
    <2> QED BY <1>3, <1>5, UpTo
  <1>7. c * s[n] <= n * b /\ s[n] \in Int
    BY <1>2, <1>6
  <1> QED BY <1>1, <1>7

\* The sum of equal summands.
LEMMA TotalOfEqual ==
  ASSUME NEW n \in Nat, NEW f \in [1..n -> Int], NEW c \in Int, \A k \in 1..n : f[k] = c
  PROVE  Total(f, n) = n * c
  <1>1. PICK s \in PartialSums(f, n) : Total(f, n) = s[n]
    BY TotalIs
  <1>2. s \in [0..n -> Int] /\ s[0] = 0 /\ \A k \in 1..n : s[k] = s[k - 1] + f[k]
    BY <1>1 DEF PartialSums
  <1> DEFINE T == {k \in 0..n : s[k] = k * c}
  <1>3. 0 \in T
    BY <1>2
  <1>4. \A k \in 0..(n - 1) : k \in T => k + 1 \in T
    <2>1. ASSUME NEW k \in 0..(n - 1), s[k] = k * c PROVE s[k + 1] = (k + 1) * c
      <3>1. s[k + 1] = k * c + c
        BY <1>2, <2>1
      <3> QED BY <3>1
    <2> QED BY <2>1
  <1>5. 0..n \subseteq T
    <2> HIDE DEF T
    <2> QED BY <1>3, <1>4, UpTo
  <1> QED BY <1>1, <1>5

\* Changing one summand changes the sum by as much.
LEMMA TotalOfChanged ==
  ASSUME NEW n \in Nat, NEW f \in [1..n -> Int], NEW g \in [1..n -> Int], NEW r \in 1..n,
         \A k \in 1..n : k # r => g[k] = f[k]
  PROVE  /\ Total(f, n) \in Int
         /\ Total(g, n) = Total(f, n) + (g[r] - f[r])
  <1>1. PICK s \in PartialSums(f, n) : Total(f, n) = s[n]
    BY TotalIs
  <1>2. PICK t \in PartialSums(g, n) : Total(g, n) = t[n]
    BY TotalIs
  <1>3. /\ s \in [0..n -> Int] /\ s[0] = 0 /\ \A k \in 1..n : s[k] = s[k - 1] + f[k]
        /\ t \in [0..n -> Int] /\ t[0] = 0 /\ \A k \in 1..n : t[k] = t[k - 1] + g[k]
    BY <1>1, <1>2 DEF PartialSums
  <1> DEFINE T == {k \in 0..n : t[k] = s[k] + (IF k < r THEN 0 ELSE g[r] - f[r])}
  <1>4. 0 \in T
    BY <1>3
  <1>5. ASSUME NEW k \in 0..(n - 1), k \in T PROVE k + 1 \in T
    <2>1. /\ s[k + 1] = s[k] + f[k + 1] /\ t[k + 1] = t[k] + g[k + 1]
          /\ s[k] \in Int /\ t[k] \in Int /\ f[k + 1] \in Int /\ g[k + 1] \in Int
          /\ f[r] \in Int /\ g[r] \in Int
      <3>1. k + 1 \in 1..n /\ k \in 0..n /\ (k + 1) - 1 = k
        OBVIOUS
      <3> QED BY <1>3, <3>1
    <2>2. t[k] = s[k] + (IF k < r THEN 0 ELSE g[r] - f[r]) /\ k + 1 \in 0..n /\ k + 1 \in 1..n
      BY <1>5
    <2>3. t[k + 1] = s[k + 1] + (IF k + 1 < r THEN 0 ELSE g[r] - f[r])
      <3>1. CASE k + 1 = r
        <4>1. g[k + 1] = g[r] /\ f[k + 1] = f[r] /\ k < r /\ ~(k + 1 < r)
          BY <3>1
        <4> QED BY <2>1, <2>2, <4>1
      <3>2. CASE k + 1 # r
        <4>1. g[k + 1] = f[k + 1] /\ (k + 1 < r <=> k < r)
          BY <2>2, <3>2
        <4> QED BY <2>1, <2>2, <4>1
      <3> QED BY <3>1, <3>2
    <2> QED BY <2>2, <2>3
  <1>6. \A k \in 0..(n - 1) : k \in T => k + 1 \in T
    BY <1>5
  <1>7. 0..n \subseteq T
    <2> HIDE DEF T
    <2> QED BY <1>4, <1>6, UpTo
  <1>8. t[n] = s[n] + (g[r] - f[r]) /\ s[n] \in Int
    BY <1>3, <1>7
  <1> QED BY <1>1, <1>2, <1>8

-----------------------------------------------------------------------------
(* Ticks.                                                                  *)

\* p lies in the t-th tier, counted from the highest; the one below them all is
\* the last.
InTier(p, t) ==
  /\ t \in 1..(Len(Tiers) + 1)
  /\ t <= Len(Tiers) => p >= Tiers[t][1]
  /\ \A u \in 1..(t - 1) : p < Tiers[u][1]

Step(t) == IF t <= Len(Tiers) THEN Tiers[t][2] ELSE 1

LEMMA TierTypes ==
  /\ Len(Tiers) \in Nat /\ DOMAIN Tiers = 1..Len(Tiers)
  /\ \A t \in 1..Len(Tiers) : Tiers[t][1] \in Nat \ {0} /\ Tiers[t][2] \in Nat \ {0}
  /\ \A t \in 1..Len(Tiers) :
       /\ Tiers[t][1] % Tiers[t][2] = 0
       /\ t < Len(Tiers) => Tiers[t][1] % Tiers[t + 1][2] = 0
       /\ \A u \in 1..Len(Tiers) : t < u => Tiers[t][1] > Tiers[u][1]
  <1>1. Tiers \in Seq((Nat \ {0}) \X (Nat \ {0}))
    BY TiersAssumption DEF FitTogether
  <1>2. DOMAIN Tiers = 1..Len(Tiers) /\ Len(Tiers) \in Nat
    BY <1>1
  <1>3. \A t \in 1..Len(Tiers) : Tiers[t] \in (Nat \ {0}) \X (Nat \ {0})
    BY <1>1, <1>2
  <1>4. \A t \in 1..Len(Tiers) :
          /\ Tiers[t][1] % Tiers[t][2] = 0
          /\ t < Len(Tiers) => Tiers[t][1] % Tiers[t + 1][2] = 0
          /\ \A u \in 1..Len(Tiers) : t < u => Tiers[t][1] > Tiers[u][1]
    BY <1>2, TiersAssumption DEF FitTogether
  <1> QED BY <1>2, <1>3, <1>4

\* Every price lies in one tier, which is the one TickSize takes the step from.
LEMMA TierExists ==
  ASSUME NEW p \in Int
  PROVE  \E t \in 1..(Len(Tiers) + 1) : InTier(p, t)
  <1> DEFINE reached == {t \in 1..Len(Tiers) : p >= Tiers[t][1]}
  <1>1. Len(Tiers) \in Nat
    BY TierTypes
  <1>2. CASE reached = {}
    <2>1. InTier(p, Len(Tiers) + 1)
      BY <1>1, <1>2, TierTypes DEF InTier
    <2> QED BY <1>1, <2>1
  <1>3. CASE reached # {}
    <2>1. PICK t \in reached : \A u \in reached : t <= u
      <3>1. reached \in SUBSET Nat
        BY <1>1
      <3> HIDE DEF reached
      <3> QED BY <1>3, <3>1, Least
    <2>2. InTier(p, t)
      BY <1>1, <2>1, TierTypes DEF InTier
    <2> QED BY <1>1, <2>1, <2>2
  <1> QED BY <1>2, <1>3

LEMMA TierTick ==
  ASSUME NEW p \in Int, NEW t, InTier(p, t)
  PROVE  TickSize(p) = Step(t) /\ Step(t) \in Nat \ {0}
  <1> DEFINE reached == {u \in DOMAIN Tiers : p >= Tiers[u][1]}
  <1>1. /\ Len(Tiers) \in Nat /\ DOMAIN Tiers = 1..Len(Tiers)
        /\ t \in 1..(Len(Tiers) + 1)
    BY TierTypes DEF InTier
  <1>2. CASE t = Len(Tiers) + 1
    <2>1. reached = {}
      BY <1>1, <1>2, TierTypes DEF InTier
    <2> QED BY <1>1, <1>2, <2>1 DEF TickSize, Step
  <1>3. CASE t <= Len(Tiers)
    <2>1. t \in reached /\ \A u \in reached : t <= u
      BY <1>1, <1>3, TierTypes DEF InTier
    <2>2. Min(reached) = t
      <3>1. \A x \in reached : (\A y \in reached : x <= y) => x = t
        BY <1>1, <2>1
      <3> HIDE DEF reached
      <3> QED BY <2>1, <3>1 DEF Min
    <2>3. TickSize(p) = Tiers[t][2]
      BY <2>1, <2>2 DEF TickSize
    <2> QED BY <1>1, <1>3, <2>3, TierTypes DEF Step
  <1> QED BY <1>1, <1>2, <1>3

\* Rounding up and down to a multiple.
LEMMA Rounding ==
  ASSUME NEW p \in Int, NEW b \in Nat \ {0}
  PROVE  /\ Up(p, b) \in Int /\ Down(p, b) \in Int
         /\ Up(p, b) % b = 0 /\ Down(p, b) % b = 0
         /\ p <= Up(p, b) /\ Down(p, b) <= p
         /\ \A m \in Int : m % b = 0 => /\ p <= m => Up(p, b) <= m
                                        /\ m <= p => m <= Down(p, b)
  <1> DEFINE q == p + b - 1
  <1>1. q \in Int
    OBVIOUS
  <1>2. /\ p \div b \in Int /\ p % b \in 0..(b - 1) /\ p = (p \div b) * b + (p % b)
        /\ (p \div b) * b \in Int
    BY Quotient
  <1>3. /\ q \div b \in Int /\ q % b \in 0..(b - 1) /\ q = (q \div b) * b + (q % b)
        /\ (q \div b) * b \in Int
    <2> HIDE DEF q
    <2> QED BY <1>1, Quotient
  <1>4. Up(p, b) = (q \div b) * b /\ Down(p, b) = (p \div b) * b
    BY DEF Up, Down
  <1>5. Up(p, b) \in Int /\ Down(p, b) \in Int /\ Up(p, b) % b = 0 /\ Down(p, b) % b = 0
    <2> HIDE DEF q
    <2> QED BY <1>2, <1>3, <1>4, Multiple
  <1>6. Down(p, b) <= p
    BY <1>2, <1>4
  <1>7. p <= Up(p, b)
    <2>1. q <= (q \div b) * b + (b - 1)
      <3> HIDE DEF q
      <3> QED BY <1>1, <1>3
    <2> HIDE DEF Up
    <2> QED BY <1>3, <1>4, <2>1
  <1>8. ASSUME NEW m \in Int, m % b = 0
        PROVE  (p <= m => Up(p, b) <= m) /\ (m <= p => m <= Down(p, b))
    <2>1. m \div b \in Int /\ m = (m \div b) * b
      BY <1>8, Quotient
    <2>2. ASSUME m <= p PROVE m <= Down(p, b)
      <3>1. m \div b <= p \div b
        BY <2>1, <2>2, QuotientIsLargest
      <3> QED BY <1>2, <1>4, <2>1, <3>1, Product
    <2>3. ASSUME p <= m PROVE Up(p, b) <= m
      <3> SUFFICES ASSUME m \div b + 1 <= q \div b PROVE FALSE
        <4>1. q \div b <= m \div b \/ m \div b + 1 <= q \div b
          BY <1>3, <2>1
        <4>2. q \div b <= m \div b => (q \div b) * b <= (m \div b) * b
          BY <1>3, <2>1, Product
        <4> QED BY <1>4, <2>1, <4>1, <4>2
      <3>1. (m \div b + 1) * b <= (q \div b) * b
        BY <1>3, <2>1, Product
      <3>2. (m \div b + 1) * b = m + b
        BY <2>1
      <3>3. (q \div b) * b <= q
        <4> HIDE DEF q
        <4> QED BY <1>1, <1>3
      <3> QED BY <1>3, <2>3, <3>1, <3>2, <3>3
    <2> QED BY <2>2, <2>3
  <1> QED BY <1>5, <1>6, <1>7, <1>8

\* Rounding a price never takes it past the bounds of its tier.
LEMMA StaysInTier ==
  ASSUME NEW p \in Int, NEW t, InTier(p, t)
  PROVE  /\ t > 1 => Up(p, Step(t)) <= Tiers[t - 1][1]
         /\ t <= Len(Tiers) => Tiers[t][1] <= Down(p, Step(t))
  <1>1. t \in 1..(Len(Tiers) + 1) /\ Len(Tiers) \in Nat /\ Step(t) \in Nat \ {0}
    BY TierTypes, TierTick DEF InTier
  <1>2. ASSUME t > 1 PROVE Up(p, Step(t)) <= Tiers[t - 1][1]
    <2>1. Tiers[t - 1][1] \in Int /\ p <= Tiers[t - 1][1]
      BY <1>1, <1>2, TierTypes DEF InTier
    <2>2. Tiers[t - 1][1] % Step(t) = 0
      <3>1. CASE t <= Len(Tiers)
        <4>1. t - 1 \in 1..Len(Tiers) /\ t - 1 < Len(Tiers) /\ (t - 1) + 1 = t
          BY <1>1, <1>2, <3>1
        <4> QED BY <3>1, <4>1, TierTypes DEF Step
      <3>2. CASE t = Len(Tiers) + 1
        <4>1. Step(t) = 1
          BY <1>1, <3>2 DEF Step
        <4> QED BY <2>1, <4>1
      <3> QED BY <1>1, <3>1, <3>2
    <2>3. \A m \in Int : m % Step(t) = 0 => (p <= m => Up(p, Step(t)) <= m)
      BY <1>1, Rounding
    <2> QED BY <2>1, <2>2, <2>3
  <1>3. ASSUME t <= Len(Tiers) PROVE Tiers[t][1] <= Down(p, Step(t))
    <2>1. Tiers[t][1] \in Int /\ Tiers[t][1] <= p /\ Tiers[t][1] % Step(t) = 0
      BY <1>1, <1>3, TierTypes DEF InTier, Step
    <2> QED BY <1>1, <2>1, Rounding
  <1> QED BY <1>2, <1>3

\* PriceTick, with the tier of the price in hand.
LEMMA PriceTickIs ==
  ASSUME NEW p \in Int, p > 0, NEW side \in {"BUY", "SELL"}, NEW t, InTier(p, t)
  PROVE  /\ PriceTick(p, side) = IF side = "SELL" THEN Up(p, Step(t)) ELSE Down(p, Step(t))
         /\ PriceTick(p, side) \in Nat
         /\ side = "SELL" => p <= PriceTick(p, side)
         /\ side = "BUY" => PriceTick(p, side) <= p
  <1>1. TickSize(p) = Step(t) /\ Step(t) \in Nat \ {0}
    BY TierTick
  <1>2. PriceTick(p, side) = IF side = "SELL" THEN Up(p, Step(t)) ELSE Down(p, Step(t))
    BY <1>1 DEF PriceTick
  <1>3. 0 % Step(t) = 0
    <2>1. (0 * Step(t)) % Step(t) = 0
      BY <1>1, Multiple
    <2> QED BY <1>1, <2>1
  <1>4. /\ Up(p, Step(t)) \in Int /\ p <= Up(p, Step(t))
        /\ Down(p, Step(t)) \in Int /\ Down(p, Step(t)) <= p /\ 0 <= Down(p, Step(t))
    <2>1. \A m \in Int : m % Step(t) = 0 => (m <= p => m <= Down(p, Step(t)))
      BY <1>1, Rounding
    <2>2. 0 <= Down(p, Step(t))
      BY <1>3, <2>1
    <2> QED BY <1>1, <2>2, Rounding
  <1> QED BY <1>2, <1>4

LEMMA PriceTickSide ==
  ASSUME NEW p \in Int, NEW side \in {"BUY", "SELL"}
  PROVE  /\ PriceTick(p, side) \in Nat
         /\ side = "SELL" => p <= PriceTick(p, side)
         /\ side = "BUY" /\ p >= 0 => PriceTick(p, side) <= p
         /\ p <= 0 => PriceTick(p, side) = 0
  <1>1. CASE p <= 0
    <2>1. PriceTick(p, side) = 0
      BY <1>1 DEF PriceTick
    <2> QED BY <1>1, <2>1
  <1>2. CASE p > 0
    <2>1. PICK t \in 1..(Len(Tiers) + 1) : InTier(p, t)
      BY TierExists
    <2> QED BY <1>2, <2>1, PriceTickIs
  <1> QED BY <1>1, <1>2

\* A rounded price is on the grid of the tier it ended in.
LEMMA OnGrid ==
  ASSUME NEW p \in Int, NEW side \in {"BUY", "SELL"}, PriceTick(p, side) > 0
  PROVE  PriceTick(p, side) % TickSize(PriceTick(p, side)) = 0
  <1> DEFINE r == PriceTick(p, side)
  <1>1. p > 0 /\ r \in Int
    BY PriceTickSide
  <1>2. PICK t \in 1..(Len(Tiers) + 1) : InTier(p, t)
    BY TierExists
  <1>3. Len(Tiers) \in Nat /\ Step(t) \in Nat \ {0}
    BY <1>2, TierTypes, TierTick
  <1>4. \A u \in 1..(t - 1) : Tiers[u][1] \in Int /\ p < Tiers[u][1]
    BY <1>2, <1>3, TierTypes DEF InTier
  <1>5. CASE side = "BUY"
    <2>1. r = Down(p, Step(t)) /\ r <= p
      BY <1>1, <1>2, <1>5, PriceTickIs
    <2>2. r % Step(t) = 0
      BY <1>3, <2>1, Rounding
    <2>3. InTier(r, t)
      <3>1. t <= Len(Tiers) => r >= Tiers[t][1]
        BY <1>1, <1>2, <1>3, <2>1, StaysInTier, TierTypes
      <3> HIDE DEF r
      <3> QED BY <1>1, <1>2, <1>4, <2>1, <3>1 DEF InTier
    <2> HIDE DEF r
    <2>4. r % TickSize(r) = 0
      BY <1>1, <2>2, <2>3, TierTick
    <2> QED BY <2>4 DEF r
  <1>6. CASE side = "SELL"
    <2>1. r = Up(p, Step(t)) /\ p <= r
      BY <1>1, <1>2, <1>6, PriceTickIs
    <2>2. r % Step(t) = 0
      BY <1>3, <2>1, Rounding
    <2>3. t > 1 => r <= Tiers[t - 1][1] /\ Tiers[t - 1][1] \in Int
      BY <1>2, <1>4, <2>1, StaysInTier
    <2> HIDE DEF r
    <2>4. CASE t > 1 /\ r = Tiers[t - 1][1]
      <3>1. t - 1 \in 1..Len(Tiers)
        BY <1>2, <1>3, <2>4
      <3>2. InTier(r, t - 1)
        <4>1. \A u \in 1..(t - 2) : r < Tiers[u][1]
          BY <2>4, <3>1, TierTypes
        <4> QED BY <1>1, <1>3, <2>4, <3>1, <4>1 DEF InTier
      <3>3. r % TickSize(r) = 0
        <4>1. TickSize(r) = Tiers[t - 1][2]
          BY <1>1, <1>3, <3>1, <3>2, TierTick DEF Step
        <4> QED BY <2>4, <3>1, <4>1, TierTypes
      <3> QED BY <3>3 DEF r
    <2>5. CASE t > 1 => r < Tiers[t - 1][1]
      <3>1. ASSUME NEW u \in 1..(t - 1) PROVE r < Tiers[u][1]
        <4>1. t - 1 \in 1..Len(Tiers) /\ u \in 1..Len(Tiers) /\ u <= t - 1 /\ t > 1
          BY <1>2, <1>3
        <4>2. Tiers[u][1] >= Tiers[t - 1][1] /\ Tiers[u][1] \in Int /\ Tiers[t - 1][1] \in Int
          BY <4>1, TierTypes
        <4> QED BY <1>1, <2>5, <4>1, <4>2
      <3>2. t <= Len(Tiers) => r >= Tiers[t][1]
        <4>1. t <= Len(Tiers) => p >= Tiers[t][1] /\ Tiers[t][1] \in Int
          BY <1>2, TierTypes DEF InTier
        <4> QED BY <1>1, <2>1, <4>1
      <3>3. InTier(r, t)
        BY <1>2, <3>1, <3>2 DEF InTier
      <3>4. r % TickSize(r) = 0
        BY <1>1, <2>2, <3>3, TierTick
      <3> QED BY <3>4 DEF r
    <2> QED BY <1>1, <2>3, <2>4, <2>5
  <1> QED BY <1>5, <1>6

\* Rounding keeps prices in order, from tier to tier.
LEMMA PriceTickMonotone ==
  ASSUME NEW p \in Int, NEW q \in Int, p <= q, NEW side \in {"BUY", "SELL"}
  PROVE  PriceTick(p, side) <= PriceTick(q, side)
  <1>1. CASE p <= 0
    <2>1. PriceTick(p, side) = 0 /\ PriceTick(q, side) \in Nat
      BY <1>1, PriceTickSide
    <2> QED BY <2>1
  <1>2. CASE p > 0
    <2>1. PICK t \in 1..(Len(Tiers) + 1) : InTier(p, t)
      BY TierExists
    <2>2. PICK u \in 1..(Len(Tiers) + 1) : InTier(q, u)
      BY TierExists
    <2>3. /\ Len(Tiers) \in Nat /\ q > 0
          /\ Step(t) \in Nat \ {0} /\ Step(u) \in Nat \ {0}
      BY <1>2, <2>1, <2>2, TierTypes, TierTick
    <2>4. /\ PriceTick(p, side) = IF side = "SELL" THEN Up(p, Step(t)) ELSE Down(p, Step(t))
          /\ PriceTick(q, side) = IF side = "SELL" THEN Up(q, Step(u)) ELSE Down(q, Step(u))
      BY <1>2, <2>1, <2>2, <2>3, PriceTickIs
    <2>5. /\ Up(p, Step(t)) \in Int /\ Down(p, Step(t)) \in Int /\ Down(p, Step(t)) <= p
          /\ Up(q, Step(u)) \in Int /\ Down(q, Step(u)) \in Int /\ q <= Up(q, Step(u))
          /\ Up(q, Step(u)) % Step(u) = 0 /\ Down(p, Step(t)) % Step(t) = 0
      BY <2>3, Rounding
    <2>6. u <= t
      <3> SUFFICES ASSUME t < u PROVE FALSE
        BY <2>1, <2>2, <2>3
      <3>1. t \in 1..Len(Tiers) /\ t \in 1..(u - 1)
        BY <2>1, <2>2, <2>3
      <3>2. p >= Tiers[t][1] /\ q < Tiers[t][1] /\ Tiers[t][1] \in Int
        BY <2>1, <2>2, <3>1, TierTypes DEF InTier
      <3> QED BY <3>2
    <2>7. CASE u = t
      <3>1. p <= Up(q, Step(t)) /\ Down(p, Step(t)) <= q
        BY <2>5, <2>7
      <3>2. Up(p, Step(t)) <= Up(q, Step(t)) /\ Down(p, Step(t)) <= Down(q, Step(t))
        BY <2>3, <2>5, <2>7, <3>1, Rounding
      <3> QED BY <2>4, <2>7, <3>2
    <2>8. CASE u < t
      <3>1. u \in 1..Len(Tiers) /\ t - 1 \in 1..Len(Tiers) /\ u <= t - 1 /\ t > 1
        BY <2>1, <2>2, <2>3, <2>8
      <3>2. /\ Tiers[t - 1][1] <= Tiers[u][1] /\ Tiers[u][1] \in Int /\ Tiers[t - 1][1] \in Int
            /\ Tiers[u][1] <= q /\ p < Tiers[t - 1][1]
        BY <2>1, <2>2, <3>1, TierTypes DEF InTier
      <3>3. Up(p, Step(t)) <= Tiers[t - 1][1] /\ Tiers[u][1] <= Down(q, Step(u))
        BY <2>1, <2>2, <3>1, StaysInTier
      <3>4. Up(p, Step(t)) <= Up(q, Step(u)) /\ Down(p, Step(t)) <= Down(q, Step(u))
        BY <2>5, <3>2, <3>3
      <3> QED BY <2>4, <3>4
    <2> QED BY <2>1, <2>2, <2>3, <2>6, <2>7, <2>8
  <1> QED BY <1>1, <1>2

-----------------------------------------------------------------------------
(* snap.                                                                   *)

\* q lies farther out than p, or as far.
Beyond(side, p, q) == IF side = "SELL" THEN p <= q ELSE q <= p

\* What the first n prices leave on the grid.
Kept(ps, raw, side, n) ==
  /\ ps \in Seq(Nat \ {0}) /\ Len(ps) <= n
  /\ \A i \in 1..Len(ps) : \E m \in 1..n : ps[i] = PriceTick(raw[m], side)
  /\ \A i \in 2..Len(ps) : Beyond(side, ps[i - 1], ps[i]) /\ ps[i - 1] # ps[i]
  /\ n > 0 /\ PriceTick(raw[1], side) > 0 => ps # <<>>

\* The next price is kept if it is a price and not the last one again.
Keep(ps, p) == IF p <= 0 \/ (ps # <<>> /\ ps[Len(ps)] = p) THEN ps ELSE Append(ps, p)

LEMMA KeepOne ==
  ASSUME NEW raw \in Seq(Int), NEW side \in {"BUY", "SELL"}, NEW n \in 0..(Len(raw) - 1),
         NEW ps, Kept(ps, raw, side, n),
         \A i, j \in 1..Len(raw) : i < j => Beyond(side, raw[i], raw[j])
  PROVE  Kept(Keep(ps, PriceTick(raw[n + 1], side)), raw, side, n + 1)
  <1> DEFINE p == PriceTick(raw[n + 1], side)
  <1>1. /\ Len(raw) \in Nat /\ \A m \in 1..Len(raw) : raw[m] \in Int
        /\ n \in Nat /\ n + 1 \in 1..Len(raw) /\ 1..n \subseteq 1..Len(raw)
    OBVIOUS
  <1>2. p \in Nat
    BY <1>1, PriceTickSide
  <1>3. \A m \in 1..n : Beyond(side, PriceTick(raw[m], side), p)
    <2>1. SUFFICES ASSUME NEW m \in 1..n PROVE Beyond(side, PriceTick(raw[m], side), p)
      OBVIOUS
    <2>2. Beyond(side, raw[m], raw[n + 1]) /\ raw[m] \in Int /\ raw[n + 1] \in Int
      BY <1>1
    <2> QED BY <2>2, PriceTickMonotone DEF Beyond
  <1>4. /\ ps \in Seq(Nat \ {0}) /\ Len(ps) \in Nat /\ Len(ps) <= n
        /\ \A i \in 1..Len(ps) : \E m \in 1..n : ps[i] = PriceTick(raw[m], side)
        /\ \A i \in 2..Len(ps) : Beyond(side, ps[i - 1], ps[i]) /\ ps[i - 1] # ps[i]
        /\ n > 0 /\ PriceTick(raw[1], side) > 0 => ps # <<>>
    BY DEF Kept
  <1>5. Keep(ps, p) = IF p <= 0 \/ (ps # <<>> /\ ps[Len(ps)] = p) THEN ps ELSE Append(ps, p)
    BY DEF Keep
  <1>6. n + 1 > 0 /\ PriceTick(raw[1], side) > 0 => n > 0 \/ p > 0
    BY <1>1
  <1>7. p = PriceTick(raw[n + 1], side)
    OBVIOUS
  <1> HIDE DEF p
  <1>8. CASE p <= 0 \/ (ps # <<>> /\ ps[Len(ps)] = p)
    <2>1. Keep(ps, p) = ps
      BY <1>5, <1>8
    <2>2. n + 1 > 0 /\ PriceTick(raw[1], side) > 0 => ps # <<>>
      BY <1>2, <1>4, <1>6, <1>8
    <2>3. \A i \in 1..Len(ps) : \E m \in 1..(n + 1) : ps[i] = PriceTick(raw[m], side)
      BY <1>1, <1>4
    <2>4. Kept(ps, raw, side, n + 1)
      BY <1>1, <1>4, <2>2, <2>3 DEF Kept
    <2> QED BY <1>7, <2>1, <2>4
  <1>9. CASE ~(p <= 0 \/ (ps # <<>> /\ ps[Len(ps)] = p))
    <2> DEFINE h == Append(ps, p)
    <2>1. Keep(ps, p) = h
      BY <1>5, <1>9
    <2>2. /\ h \in Seq(Nat \ {0}) /\ Len(h) = Len(ps) + 1 /\ h # <<>>
          /\ \A i \in 1..Len(ps) : h[i] = ps[i]
          /\ h[Len(ps) + 1] = p
      <3>1. p \in Nat \ {0}
        BY <1>2, <1>9
      <3>2. h \in Seq(Nat \ {0}) /\ Len(h) = Len(ps) + 1
        BY <1>4, <3>1
      <3>3. (\A i \in 1..Len(ps) : h[i] = ps[i]) /\ h[Len(ps) + 1] = p
        BY <1>4, <3>1
      <3>4. h # <<>>
        <4> HIDE DEF h
        <4> QED BY <1>4, <3>2
      <3> QED BY <3>2, <3>3, <3>4
    <2> HIDE DEF h
    <2>3. ASSUME NEW i \in 1..Len(h) PROVE \E m \in 1..(n + 1) : h[i] = PriceTick(raw[m], side)
      <3>1. CASE i = Len(ps) + 1
        BY <1>1, <1>7, <2>2, <3>1
      <3>2. CASE i \in 1..Len(ps)
        BY <1>1, <1>4, <2>2, <3>2
      <3> QED BY <1>4, <2>2, <3>1, <3>2
    <2>4. ASSUME NEW i \in 2..Len(h) PROVE Beyond(side, h[i - 1], h[i]) /\ h[i - 1] # h[i]
      <3>1. CASE i = Len(ps) + 1
        <4>1. Len(ps) \in 1..Len(ps) /\ i - 1 = Len(ps) /\ ps # <<>>
          BY <1>4, <2>2, <3>1
        <4>2. PICK m \in 1..n : ps[Len(ps)] = PriceTick(raw[m], side)
          BY <1>4, <4>1
        <4> QED BY <1>3, <1>9, <2>2, <3>1, <4>1, <4>2
      <3>2. CASE i \in 2..Len(ps)
        <4>1. i - 1 \in 1..Len(ps) /\ i \in 1..Len(ps)
          BY <1>4, <3>2
        <4> QED BY <1>4, <2>2, <3>2, <4>1
      <3> QED BY <1>4, <2>2, <3>1, <3>2
    <2>5. Len(h) <= n + 1
      BY <1>1, <1>4, <2>2
    <2>6. Kept(h, raw, side, n + 1)
      BY <2>2, <2>3, <2>4, <2>5 DEF Kept
    <2> QED BY <1>7, <2>1, <2>6
  <1> QED BY <1>8, <1>9

LEMMA SnapIs ==
  ASSUME NEW raw \in Seq(Int), NEW side \in {"BUY", "SELL"},
         \A i, j \in 1..Len(raw) : i < j => Beyond(side, raw[i], raw[j])
  PROVE  Kept(Snap(raw, side), raw, side, Len(raw))
  <1> DEFINE n == Len(raw)
             V == Seq(Nat \ {0})
             G == [k \in 1..n |-> [ps \in V |-> Keep(ps, PriceTick(raw[k], side))]]
             Fn(g) == [k \in 0..n |-> IF k = 0 THEN <<>>
                        ELSE LET p == PriceTick(raw[k], side)
                             IN IF p <= 0 \/ (g[k - 1] # <<>> /\ g[k - 1][Len(g[k - 1])] = p)
                                THEN g[k - 1] ELSE Append(g[k - 1], p)]
             kept == CHOOSE g : g = Fn(g)
  <1>1. n \in Nat /\ \A k \in 1..n : raw[k] \in Int
    OBVIOUS
  <1>2. PICK s \in [0..n -> V] : s[0] = <<>> /\ Follows(s, G, n)
    <2>1. ASSUME NEW k \in 1..n, NEW ps \in V PROVE Keep(ps, PriceTick(raw[k], side)) \in V
      <3>1. PriceTick(raw[k], side) \in Nat
        BY <1>1, PriceTickSide
      <3>2. CASE PriceTick(raw[k], side) = 0
        BY <3>2 DEF Keep
      <3>3. CASE PriceTick(raw[k], side) # 0
        <4>1. Append(ps, PriceTick(raw[k], side)) \in V
          BY <3>1, <3>3
        <4> QED BY <4>1 DEF Keep
      <3> QED BY <3>2, <3>3
    <2>2. <<>> \in V /\ G \in [1..n -> [V -> V]]
      BY <2>1
    <2> DEFINE v == <<>>
    <2> HIDE DEF G, V, v, n
    <2>3. \E s \in [0..n -> V] : s[0] = v /\ Follows(s, G, n)
      BY <1>1, <2>2, Recursion DEF v
    <2> QED BY <2>3 DEF v
  <1>3. ASSUME NEW k \in 1..n PROVE s[k] = Keep(s[k - 1], PriceTick(raw[k], side))
    <2>1. k - 1 \in 0..n
      BY <1>1
    <2>2. s[k] = G[k][s[k - 1]] /\ s[k - 1] \in V
      <3> HIDE DEF G, V, n
      <3> QED BY <1>2, <2>1 DEF Follows
    <2> QED BY <2>2
  <1>4. s = Fn(s)
    <2>1. \A k \in 0..n : s[k] = IF k = 0 THEN <<>> ELSE Keep(s[k - 1], PriceTick(raw[k], side))
      <3> HIDE DEF G, V, n
      <3> QED BY <1>1, <1>2, <1>3
    <2>2. \A k \in 0..n : s[k] = Fn(s)[k]
      BY <2>1 DEF Keep
    <2>3. s = [k \in 0..n |-> s[k]]
      <3> HIDE DEF V, n
      <3> QED BY <1>2
    <2>4. Fn(s) = [k \in 0..n |-> Fn(s)[k]]
      OBVIOUS
    <2> HIDE DEF Fn
    <2> QED BY <2>2, <2>3, <2>4
  <1>5. kept = Fn(kept)
    <2> HIDE DEF Fn
    <2> QED BY <1>4
  <1>6. \A k \in 0..n : kept[k] = IF k = 0 THEN <<>> ELSE Keep(kept[k - 1], PriceTick(raw[k], side))
    <2> HIDE DEF kept
    <2> QED BY <1>5 DEF Keep
  <1>7. Snap(raw, side) = kept[Len(raw)]
    BY DEF Snap
  <1> HIDE DEF kept, n
  <1> DEFINE T == {k \in 0..n : Kept(kept[k], raw, side, k)}
  <1>8. 0 \in T
    <2>1. kept[0] = <<>>
      BY <1>1, <1>6
    <2>2. Kept(<<>>, raw, side, 0)
      <3>1. <<>> \in Seq(Nat \ {0}) /\ Len(<<>>) = 0
        OBVIOUS
      <3> QED BY <3>1 DEF Kept
    <2> QED BY <1>1, <2>1, <2>2
  <1>9. ASSUME NEW k \in 0..(n - 1), k \in T PROVE k + 1 \in T
    <2>1. kept[k + 1] = Keep(kept[k], PriceTick(raw[k + 1], side))
      BY <1>1, <1>6
    <2>2. Kept(kept[k], raw, side, k)
      BY <1>9
    <2>3. Kept(kept[k + 1], raw, side, k + 1)
      BY <2>1, <2>2, KeepOne DEF n
    <2> QED BY <1>1, <2>3
  <1>10. \A k \in 0..(n - 1) : k \in T => k + 1 \in T
    BY <1>9
  <1>11. 0..n \subseteq T
    <2> HIDE DEF T
    <2> QED BY <1>1, <1>8, <1>10, UpTo
  <1>12. n \in T
    BY <1>1, <1>11
  <1> QED BY <1>7, <1>12 DEF n

-----------------------------------------------------------------------------
(* The inductive invariant.                                                *)

\* The first price of the range, as the venue would take it.
FirstPrice == PriceTick(Bound(spec, spec.start), spec.side)

\* An equal share of what is divided, for each rung.
Share(i) ==
  IF spec.side = "SELL" THEN RoundQuantity(spec.total) \div Len(prices)
                        ELSE QuantityFor(Budget(spec), Len(prices) * prices[i])

\* What the stages have done so far.
Progress ==
  /\ prices # <<>> => Valid(spec)
  /\ qty # <<>> => Len(qty) = Len(prices)
  /\ stage = "new" => prices = <<>>
  /\ stage \in {"new", "priced"} => qty = <<>>
  /\ stage \in {"priced", "spread", "sized", "built"} => prices # <<>>
  /\ stage \in {"spread", "sized", "built"} => qty # <<>>
  /\ stage = "refused" /\ prices # <<>> => qty # <<>>

\* No rung is nearer than the first price.
Outward == \A i \in 1..Len(prices) : Beyond(spec.side, FirstPrice, prices[i])

\* Nothing is lost on the way: what the rungs have and what is left make up the
\* whole, and every rung has its equal share.
Shared ==
  qty # <<>> =>
    /\ \A i \in 1..Len(qty) : qty[i] >= Share(i)
    /\ spec.side = "SELL" => TotalQuantity + left = RoundQuantity(spec.total)
    /\ spec.side = "BUY"  => TotalAmount + left = Budget(spec)

\* Handing out ends when it must: a sell has no more left than rungs to come,
\* and a pass of a buy that has bought nothing could afford none of the rungs
\* behind it.
Handing ==
  qty # <<>> =>
    /\ spec.side = "SELL" => left <= (IF stage = "spread" THEN rung ELSE 0)
    /\ spec.side = "BUY" /\ (stage = "spread" => ~bought) =>
         \A i \in (IF stage = "spread" THEN rung + 1 ELSE 1)..Len(prices) : left < prices[i]

\* Why a request was refused.
Refused ==
  stage = "refused" /\ Valid(spec) =>
    IF prices = <<>> THEN FirstPrice <= 0
    ELSE \E i \in 1..Len(qty) : ~OrderSizeValid(qty[i], prices[i])

PlanInv == PlanOK /\ Progress /\ Outward /\ Shared /\ Handing /\ Refused

-----------------------------------------------------------------------------
(* The request.                                                            *)

LEMMA Requests ==
  ASSUME spec \in Specs
  PROVE  /\ spec.side \in {"BUY", "SELL"} /\ spec.least \in Nat
         /\ spec.base \in Int /\ spec.start \in Int /\ spec.end \in Int
         /\ spec.count \in Int /\ spec.total \in Int /\ spec.fee \in Int
         /\ Whole \in Nat \ {0} /\ Fine \in Nat \ {0} /\ Limit \in Nat \ {0}
  BY ConstantsAssumption DEF Specs

\* The first offset is not past the reference price of a buy.
LEMMA Bounds ==
  ASSUME spec \in Specs, Valid(spec), NEW pct \in Int
  PROVE  /\ Bound(spec, pct) \in Int
         /\ spec.side = "BUY" => Bound(spec, spec.start) >= 0
  <1>1. /\ Whole \in Nat \ {0} /\ spec.base \in Nat /\ spec.start \in Nat
        /\ spec.side = "BUY" => spec.start < Whole
    BY Requests DEF Valid
  <1>2. Bound(spec, pct) \in Int
    <2>1. spec.base * (Whole + pct) + Whole - 1 \in Int /\ spec.base * (Whole - pct) \in Int
      BY <1>1
    <2> QED BY <1>1, <2>1, Quotient DEF Bound
  <1>3. ASSUME spec.side = "BUY" PROVE Bound(spec, spec.start) >= 0
    <2> DEFINE a == spec.base * (Whole - spec.start)
    <2>1. a \in Nat
      <3>1. Whole - spec.start \in Nat
        BY <1>1, <1>3
      <3> QED BY <1>1, <3>1
    <2>2. Bound(spec, spec.start) = a \div Whole
      BY <1>3 DEF Bound
    <2> HIDE DEF a
    <2>3. a \div Whole \in Nat
      BY <1>1, <2>1, QuotientOfNat
    <2> QED BY <2>2, <2>3
  <1> QED BY <1>2, <1>3

\* The budget and its commission fit the cash.
LEMMA Budgets ==
  ASSUME spec \in Specs, Valid(spec)
  PROVE  /\ Budget(spec) \in Nat /\ RoundQuantity(spec.total) \in Nat
         /\ spec.side = "BUY" => Budget(spec) * (Whole + spec.fee) <= spec.total * Whole
  <1>1. /\ Whole \in Nat \ {0} /\ Fine \in Nat \ {0} /\ spec.total \in Nat
        /\ Whole + spec.fee \in Nat \ {0}
    BY Requests DEF Valid
  <1> DEFINE a == spec.total * Whole  b == Whole + spec.fee
  <1>2. a \in Nat /\ b \in Nat \ {0}
    BY <1>1
  <1>3. RoundQuantity(spec.total) \in Nat
    <2>1. spec.total \div Fine \in Nat
      BY <1>1, QuotientOfNat
    <2> QED BY <2>1 DEF RoundQuantity
  <1>4. a \div b \in Nat /\ (a \div b) * b <= a
    <2> HIDE DEF a, b
    <2> QED BY <1>2, QuotientOfNat
  <1>5. Budget(spec) = IF spec.side = "BUY" THEN a \div b ELSE spec.total
    BY DEF Budget
  <1> QED BY <1>1, <1>3, <1>4, <1>5

-----------------------------------------------------------------------------
(* geometric and snap.                                                     *)

LEMMA Priced ==
  ASSUME spec \in Specs, Valid(spec), NEW raw \in Geometric(spec),
         NEW ps, ps = Snap(raw, spec.side)
  PROVE  /\ ps \in Seq(Nat \ {0}) /\ Len(ps) <= spec.count
         /\ ps = <<>> => FirstPrice <= 0
         /\ \A i \in 1..Len(ps) :
              /\ Beyond(spec.side, FirstPrice, ps[i])
              /\ Beyond(spec.side, Bound(spec, spec.start), ps[i])
              /\ ps[i] % TickSize(ps[i]) = 0
              /\ i > 1 => Beyond(spec.side, ps[i - 1], ps[i]) /\ ps[i - 1] # ps[i]
  <1> DEFINE side == spec.side  n == spec.count  first == Bound(spec, spec.start)
  <1>1. side \in {"BUY", "SELL"} /\ n \in Nat \ {0}
    BY Requests DEF Valid
  <1>2. first \in Int /\ Bound(spec, spec.end) \in Int /\ (side = "BUY" => first >= 0)
    BY Bounds, Requests
  <1>3. /\ raw \in [1..n -> Int] /\ raw[1] = first
        /\ \A i, j \in 1..n : i < j => Beyond(side, raw[i], raw[j])
    BY <1>2 DEF Geometric, Beyond
  <1>4. raw \in Seq(Int) /\ Len(raw) = n
    <2> HIDE DEF n
    <2> QED BY <1>1, <1>3
  <1> HIDE DEF side, n, first
  <1>5. Kept(ps, raw, side, n)
    <2>1. Kept(Snap(raw, side), raw, side, Len(raw))
      BY <1>1, <1>3, <1>4, SnapIs
    <2> QED BY <1>4, <2>1 DEF side
  <1>6. /\ ps \in Seq(Nat \ {0}) /\ Len(ps) <= n /\ Len(ps) \in Nat
        /\ \A i \in 1..Len(ps) : \E m \in 1..n : ps[i] = PriceTick(raw[m], side)
        /\ \A i \in 2..Len(ps) : Beyond(side, ps[i - 1], ps[i]) /\ ps[i - 1] # ps[i]
        /\ n > 0 /\ PriceTick(raw[1], side) > 0 => ps # <<>>
    BY <1>5 DEF Kept
  <1>7. FirstPrice = PriceTick(first, side)
    BY DEF FirstPrice, first, side
  <1>8. ASSUME ps = <<>> PROVE FirstPrice <= 0
    <2>1. ~(PriceTick(first, side) > 0)
      BY <1>1, <1>3, <1>6, <1>8
    <2>2. PriceTick(first, side) \in Nat
      BY <1>1, <1>2, PriceTickSide
    <2> QED BY <1>7, <2>1, <2>2
  <1>9. ASSUME NEW i \in 1..Len(ps)
        PROVE  /\ Beyond(side, FirstPrice, ps[i]) /\ Beyond(side, first, ps[i])
               /\ ps[i] % TickSize(ps[i]) = 0
               /\ i > 1 => Beyond(side, ps[i - 1], ps[i]) /\ ps[i - 1] # ps[i]
    <2>1. PICK m \in 1..n : ps[i] = PriceTick(raw[m], side)
      BY <1>6
    <2>2. raw[m] \in Int /\ ps[i] > 0
      BY <1>3, <1>6
    <2>3. Beyond(side, first, raw[m])
      <3>1. CASE m = 1
        BY <1>2, <1>3, <3>1 DEF Beyond
      <3>2. CASE m > 1
        <4>1. 1 \in 1..n
          BY <1>1
        <4> QED BY <1>3, <3>2, <4>1
      <3> QED BY <1>1, <3>1, <3>2
    <2>4. Beyond(side, PriceTick(first, side), PriceTick(raw[m], side))
      BY <1>1, <1>2, <2>2, <2>3, PriceTickMonotone DEF Beyond
    <2>5. Beyond(side, first, ps[i])
      <3>1. /\ ps[i] \in Nat
            /\ side = "SELL" => raw[m] <= ps[i]
            /\ side = "BUY" /\ raw[m] >= 0 => ps[i] <= raw[m]
            /\ raw[m] <= 0 => ps[i] = 0
        <4>1. /\ PriceTick(raw[m], side) \in Nat
              /\ side = "SELL" => raw[m] <= PriceTick(raw[m], side)
              /\ side = "BUY" /\ raw[m] >= 0 => PriceTick(raw[m], side) <= raw[m]
              /\ raw[m] <= 0 => PriceTick(raw[m], side) = 0
          BY <1>1, <2>2, PriceTickSide
        <4> QED BY <2>1, <4>1
      <3> QED BY <1>1, <1>2, <2>2, <2>3, <3>1 DEF Beyond
    <2>6. ps[i] % TickSize(ps[i]) = 0
      BY <1>1, <2>1, <2>2, OnGrid
    <2>7. i > 1 => Beyond(side, ps[i - 1], ps[i]) /\ ps[i - 1] # ps[i]
      BY <1>6
    <2> QED BY <1>7, <2>1, <2>4, <2>5, <2>6, <2>7
  <1> QED BY <1>6, <1>8, <1>9 DEF side, n, first

-----------------------------------------------------------------------------
(* The steps of Build.                                                     *)

LEMMA Starts == Init => PlanInv
  <1> SUFFICES ASSUME Init PROVE PlanInv
    OBVIOUS
  <1>1. prices = <<>> /\ qty = <<>> /\ Len(prices) = 0 /\ DOMAIN prices = {} /\ stage = "new"
    BY DEF Init
  <1>2. prices \in Seq(Nat \ {0}) /\ qty \in Seq(Nat) /\ rung \in 0..Len(prices)
    BY <1>1 DEF Init
  <1>3. TypeOK
    BY <1>1, <1>2 DEF Init, TypeOK
  <1> QED BY <1>1, <1>3 DEF PlanInv, PlanOK, PricesAreOffered, Progress, Outward, Shared,
                            Handing, Refused

\* While the request and the prices stay, so does what was said of them.
LEMMA SamePrices ==
  ASSUME PlanInv, UNCHANGED <<spec, prices>>
  PROVE  PricesAreOffered' /\ Outward' /\ FirstPrice' = FirstPrice /\ spec' \in Specs
  <1>1. spec' = spec /\ prices' = prices
    OBVIOUS
  <1>2. FirstPrice' = FirstPrice
    BY <1>1 DEF FirstPrice
  <1>3. PricesAreOffered'
    BY <1>1 DEF PlanInv, PlanOK, PricesAreOffered
  <1> QED BY <1>1, <1>2, <1>3 DEF PlanInv, PlanOK, TypeOK, Outward

LEMMA RefuseKeeps == PlanInv /\ Refuse => PlanInv'
  <1> SUFFICES ASSUME PlanInv, Refuse PROVE PlanInv'
    OBVIOUS
  <1>1. PricesAreOffered' /\ Outward'
    BY SamePrices DEF Refuse
  <1>2. prices' = <<>> /\ qty' = <<>> /\ stage' = "refused" /\ ~Valid(spec')
    BY DEF Refuse, PlanInv, Progress
  <1>3. TypeOK'
    BY DEF PlanInv, PlanOK, TypeOK, Refuse
  <1> QED BY <1>1, <1>2, <1>3 DEF PlanInv, PlanOK, Progress, Shared, Handing, Refused

LEMMA PriceKeeps == PlanInv /\ Price => PlanInv'
  <1> SUFFICES ASSUME PlanInv, Price PROVE PlanInv'
    OBVIOUS
  <1>1. PICK raw \in Geometric(spec) : prices' = Snap(raw, spec.side)
    BY DEF Price
  <1>2. /\ Valid(spec) /\ spec' = spec /\ spec \in Specs /\ qty' = <<>> /\ prices = <<>>
        /\ left' = left /\ rung' = rung /\ bought' = bought
        /\ stage' = IF prices' = <<>> THEN "refused" ELSE "priced"
        /\ FirstPrice' = FirstPrice
    BY DEF Price, PlanInv, PlanOK, TypeOK, Progress, FirstPrice
  <1>3. /\ prices' \in Seq(Nat \ {0}) /\ Len(prices') <= spec.count
        /\ prices' = <<>> => FirstPrice <= 0
        /\ \A i \in 1..Len(prices') :
             /\ Beyond(spec.side, FirstPrice, prices'[i])
             /\ Beyond(spec.side, Bound(spec, spec.start), prices'[i])
             /\ prices'[i] % TickSize(prices'[i]) = 0
             /\ i > 1 => Beyond(spec.side, prices'[i - 1], prices'[i]) /\ prices'[i - 1] # prices'[i]
    BY <1>1, <1>2, Priced
  <1>4. DOMAIN prices' = 1..Len(prices') /\ Len(prices') \in Nat
    BY <1>3
  <1>5. TypeOK'
    <2>1. rung' \in 0..Len(prices')
      <3>1. rung = 0
        BY <1>2 DEF PlanInv, PlanOK, TypeOK
      <3> QED BY <1>2, <1>4, <3>1
    <2> QED BY <1>2, <1>3, <2>1 DEF PlanInv, PlanOK, TypeOK
  <1>6. PricesAreOffered'
    <2> SUFFICES ASSUME NEW i \in 1..Len(prices')
                 PROVE  /\ prices'[i] % TickSize(prices'[i]) = 0
                        /\ spec.side = "SELL" => /\ prices'[i] >= Bound(spec, spec.start)
                                                 /\ i > 1 => prices'[i] > prices'[i - 1]
                        /\ spec.side = "BUY"  => /\ prices'[i] <= Bound(spec, spec.start)
                                                 /\ i > 1 => prices'[i] < prices'[i - 1]
      BY <1>2, <1>4 DEF PricesAreOffered
    <2>1. Bound(spec, spec.start) \in Int
      BY <1>2, Bounds, Requests
    <2>2. prices'[i] \in Int /\ (i > 1 => prices'[i - 1] \in Int)
      <3>1. i > 1 => i - 1 \in 1..Len(prices')
        BY <1>4
      <3> QED BY <1>3, <3>1
    <2> QED BY <1>3, <2>1, <2>2 DEF Beyond
  <1>7. Outward'
    BY <1>2, <1>3 DEF Outward
  <1>8. Progress' /\ Refused'
    BY <1>2, <1>3 DEF Progress, Refused
  <1>9. Shared' /\ Handing'
    BY <1>2 DEF Shared, Handing
  <1> QED BY <1>5, <1>6, <1>7, <1>8, <1>9 DEF PlanInv, PlanOK

LEMMA DivideQuantityKeeps == PlanInv /\ DivideQuantity => PlanInv'
  <1> SUFFICES ASSUME PlanInv, DivideQuantity PROVE PlanInv'
    OBVIOUS
  <1> DEFINE n == Len(prices)  total == RoundQuantity(spec.total)
  <1>1. /\ spec.side = "SELL" /\ spec' = spec /\ prices' = prices /\ stage' = "spread"
        /\ qty' = [i \in 1..n |-> total \div n] /\ left' = total % n /\ rung' = n
        /\ bought' = bought /\ prices # <<>> /\ Valid(spec) /\ spec \in Specs
        /\ prices \in Seq(Nat \ {0})
    BY DEF DivideQuantity, PlanInv, PlanOK, TypeOK, Progress
  <1>2. n \in Nat \ {0} /\ total \in Nat
    BY <1>1, Budgets
  <1>3. PricesAreOffered' /\ Outward'
    BY <1>1, SamePrices
  <1>4. total \div n \in Nat /\ total % n \in 0..(n - 1) /\ total = (total \div n) * n + (total % n)
    <2> HIDE DEF n, total
    <2>1. total \div n \in Nat
      BY <1>2, QuotientOfNat
    <2>2. total \in Int
      BY <1>2
    <2> QED BY <1>2, <2>1, <2>2, Quotient
  <1>5. qty' \in Seq(Nat) /\ Len(qty') = n /\ qty' # <<>> /\ qty' \in [1..n -> Int]
    <2> HIDE DEF n, total
    <2> QED BY <1>1, <1>2, <1>4
  <1>6. TotalQuantity' = n * (total \div n)
    <2>1. Total(qty', n) = n * (total \div n)
      <3> HIDE DEF n, total
      <3>1. \A k \in 1..n : qty'[k] = total \div n
        BY <1>1
      <3>2. n \in Nat /\ total \div n \in Int
        BY <1>2, <1>4
      <3> QED BY <1>5, <3>1, <3>2, TotalOfEqual
    <2> QED BY <1>5, <2>1 DEF TotalQuantity
  <1>7. TypeOK'
    <2>1. rung' \in 0..Len(prices')
      BY <1>1, <1>2
    <2>2. left' \in Nat
      <3> HIDE DEF n, total
      <3> QED BY <1>1, <1>4
    <2> QED BY <1>1, <1>5, <2>1, <2>2 DEF PlanInv, PlanOK, TypeOK
  <1>8. Shared'
    <2>1. TotalQuantity' + left' = RoundQuantity(spec'.total)
      <3>1. n * (total \div n) + (total % n) = total
        <4> HIDE DEF n, total
        <4> QED BY <1>2, <1>4
      <3> QED BY <1>1, <1>6, <3>1
    <2>2. \A i \in 1..Len(qty') : qty'[i] >= Share(i)'
      <3>1. \A i \in 1..n : qty'[i] = total \div n
        BY <1>1
      <3> QED BY <1>1, <1>4, <1>5, <3>1 DEF Share
    <2> QED BY <1>1, <2>1, <2>2 DEF Shared
  <1>9. Progress' /\ Refused'
    BY <1>1, <1>5 DEF Progress, Refused
  <1>10. Handing'
    <2>1. left' <= rung'
      <3> HIDE DEF n, total
      <3> QED BY <1>1, <1>2, <1>4
    <2> QED BY <1>1, <2>1 DEF Handing
  <1> QED BY <1>3, <1>7, <1>8, <1>9, <1>10 DEF PlanInv, PlanOK

LEMMA Cancel ==
  ASSUME NEW c \in Nat \ {0}, NEW x \in Int, NEW y \in Int, c * x <= c * y
  PROVE  x <= y
  <1> SUFFICES ASSUME y + 1 <= x PROVE FALSE
    OBVIOUS
  <1>1. (y + 1) * c <= x * c
    BY Product
  <1>2. (y + 1) * c = c * y + c /\ x * c = c * x
    OBVIOUS
  <1> QED BY <1>1, <1>2

LEMMA DivideCashKeeps == PlanInv /\ DivideCash => PlanInv'
  <1> SUFFICES ASSUME PlanInv, DivideCash PROVE PlanInv'
    OBVIOUS
  <1> DEFINE n == Len(prices)  cash == Budget(spec)
             amount == [i \in 1..n |-> prices[i] * qty'[i]]
  <1>1. /\ spec.side = "BUY" /\ spec' = spec /\ prices' = prices /\ stage' = "spread"
        /\ qty' = [i \in 1..n |-> cash \div (n * prices[i])]
        /\ left' = cash - Total(amount, n) /\ rung' = n
        /\ bought' = FALSE /\ prices # <<>> /\ Valid(spec) /\ spec \in Specs
        /\ prices \in Seq(Nat \ {0})
    BY DEF DivideCash, QuantityFor, PlanInv, PlanOK, TypeOK, Progress
  <1>2. n \in Nat \ {0} /\ cash \in Nat
    BY <1>1, Budgets
  <1>3. PricesAreOffered' /\ Outward'
    BY <1>1, SamePrices
  <1>4. ASSUME NEW i \in 1..n
        PROVE  /\ prices[i] \in Nat \ {0} /\ qty'[i] \in Nat
               /\ qty'[i] = cash \div (n * prices[i])
               /\ amount[i] = prices[i] * qty'[i] /\ amount[i] \in Int
               /\ n * amount[i] <= cash
    <2>1. prices[i] \in Nat \ {0} /\ qty'[i] = cash \div (n * prices[i])
      BY <1>1
    <2>2. n * prices[i] \in Nat \ {0}
      BY <1>2, <2>1
    <2>3. qty'[i] \in Nat /\ qty'[i] * (n * prices[i]) <= cash
      <3> HIDE DEF n, cash
      <3> QED BY <1>2, <2>1, <2>2, QuotientOfNat
    <2>4. amount[i] = prices[i] * qty'[i]
      OBVIOUS
    <2>5. n * amount[i] = qty'[i] * (n * prices[i]) /\ amount[i] \in Int
      <3> HIDE DEF n, amount
      <3> QED BY <1>2, <2>1, <2>3, <2>4
    <2> HIDE DEF n, amount, cash
    <2> QED BY <2>1, <2>3, <2>4, <2>5
  <1>5. qty' \in Seq(Nat) /\ Len(qty') = n /\ qty' # <<>> /\ DOMAIN qty' = 1..n
    <2>1. qty' \in [1..n -> Nat]
      <3> HIDE DEF n, cash, amount
      <3> QED BY <1>1, <1>4
    <2> HIDE DEF n, cash
    <2> QED BY <1>2, <2>1
  <1>6. amount \in [1..n -> Int]
    <2> HIDE DEF n
    <2> QED BY <1>4
  <1>7. Total(amount, n) \in Int /\ Total(amount, n) <= cash
    <2> HIDE DEF n, amount, cash
    <2>1. n \in Nat /\ cash \in Int /\ \A k \in 1..n : n * amount[k] <= cash
      BY <1>2, <1>4
    <2>2. Total(amount, n) \in Int /\ n * Total(amount, n) <= n * cash
      BY <1>6, <2>1, TotalAtMost
    <2> QED BY <1>2, <2>1, <2>2, Cancel
  <1>8. TotalAmount' = Total(amount, n)
    <2>1. TotalAmount' = Total([i \in DOMAIN qty' |-> prices'[i] * qty'[i]], Len(qty'))
      BY DEF TotalAmount
    <2> QED BY <1>1, <1>5, <2>1
  <1>9. TypeOK'
    <2>1. rung' \in 0..Len(prices')
      BY <1>1, <1>2
    <2>2. left' \in Nat
      <3> HIDE DEF n, amount, cash
      <3> QED BY <1>1, <1>2, <1>7
    <2> QED BY <1>1, <1>5, <2>1, <2>2 DEF PlanInv, PlanOK, TypeOK
  <1>10. Shared'
    <2>1. TotalAmount' + left' = Budget(spec')
      <3>1. TotalAmount' + left' = cash
        <4> HIDE DEF n, amount, cash
        <4> QED BY <1>1, <1>2, <1>7, <1>8
      <3> QED BY <1>1, <3>1
    <2>2. \A i \in 1..Len(qty') : qty'[i] >= Share(i)'
      <3>1. \A i \in 1..n : qty'[i] = Share(i)' /\ qty'[i] \in Nat
        BY <1>1, <1>4 DEF Share, QuantityFor
      <3> QED BY <1>5, <3>1
    <2> QED BY <1>1, <2>1, <2>2 DEF Shared
  <1>11. Progress' /\ Refused'
    BY <1>1, <1>5 DEF Progress, Refused
  <1>12. Handing'
    BY <1>1, <1>2 DEF Handing
  <1> QED BY <1>3, <1>9, <1>10, <1>11, <1>12 DEF PlanInv, PlanOK

LEMMA SpreadQuantityKeeps == PlanInv /\ SpreadQuantity => PlanInv'
  <1> SUFFICES ASSUME PlanInv, SpreadQuantity PROVE PlanInv'
    OBVIOUS
  <1> DEFINE n == Len(prices)
  <1>1. /\ spec.side = "SELL" /\ spec' = spec /\ prices' = prices /\ stage = "spread"
        /\ bought' = bought /\ prices # <<>> /\ Valid(spec) /\ spec \in Specs
        /\ prices \in Seq(Nat \ {0}) /\ qty \in Seq(Nat) /\ Len(qty) = n /\ qty # <<>>
        /\ left \in Nat /\ rung \in 0..n /\ left <= rung
        /\ TotalQuantity + left = RoundQuantity(spec.total)
        /\ \A i \in 1..n : qty[i] >= Share(i)
    BY DEF SpreadQuantity, PlanInv, PlanOK, TypeOK, Progress, Shared, Handing
  <1>2. n \in Nat \ {0} /\ qty \in [1..n -> Int] /\ \A i \in 1..n : qty[i] \in Nat
    <2>1. n \in Nat \ {0}
      BY <1>1
    <2>2. qty \in [1..n -> Nat]
      <3> HIDE DEF n
      <3> QED BY <1>1
    <2> HIDE DEF n
    <2> QED BY <2>1, <2>2
  <1>3. PricesAreOffered' /\ Outward'
    BY <1>1, SamePrices
  <1>4. \A i \in 1..n : Share(i)' = Share(i)
    BY <1>1 DEF Share
  <1>5. CASE rung > 0 /\ left > 0
    <2>1. /\ qty' = [qty EXCEPT ![rung] = @ + 1] /\ left' = left - 1 /\ rung' = rung - 1
          /\ stage' = "spread" /\ rung \in 1..n
      BY <1>1, <1>5 DEF SpreadQuantity
    <2>2. /\ qty' \in [1..n -> Nat] /\ qty' \in [1..n -> Int] /\ qty'[rung] = qty[rung] + 1
          /\ \A i \in 1..n : i # rung => qty'[i] = qty[i]
      <3> HIDE DEF n
      <3> QED BY <1>2, <2>1
    <2>3. qty' \in Seq(Nat) /\ Len(qty') = n /\ qty' # <<>>
      <3> HIDE DEF n
      <3> QED BY <1>2, <2>2
    <2>4. TotalQuantity \in Int /\ TotalQuantity' = TotalQuantity + 1
      <3>1. Total(qty, n) \in Int /\ Total(qty', n) = Total(qty, n) + (qty'[rung] - qty[rung])
        <4> DEFINE g == qty'
        <4>1. /\ n \in Nat /\ g \in [1..n -> Int] /\ rung \in 1..n
              /\ \A k \in 1..n : k # rung => g[k] = qty[k]
          BY <1>2, <2>1, <2>2
        <4> HIDE DEF n, g
        <4>2. Total(qty, n) \in Int /\ Total(g, n) = Total(qty, n) + (g[rung] - qty[rung])
          BY <1>2, <4>1, TotalOfChanged
        <4> QED BY <4>2 DEF g
      <3>2. qty'[rung] - qty[rung] = 1
        BY <1>2, <2>1, <2>2
      <3> QED BY <1>1, <2>3, <3>1, <3>2 DEF TotalQuantity
    <2>5. TypeOK'
      BY <1>1, <1>2, <1>5, <2>1, <2>3 DEF PlanInv, PlanOK, TypeOK
    <2>6. Shared'
      <3>1. \A i \in 1..Len(qty') : qty'[i] >= Share(i)'
        <4> SUFFICES ASSUME NEW i \in 1..n PROVE qty'[i] >= Share(i)
          BY <1>4, <2>3
        <4>1. Share(i) \in Int
          BY <1>1, <1>2, Budgets, QuotientOfNat DEF Share
        <4>2. qty'[i] >= qty[i] /\ qty[i] \in Int /\ qty'[i] \in Int
          BY <1>2, <2>2
        <4> QED BY <1>1, <4>1, <4>2
      <3>2. TotalQuantity' + left' = RoundQuantity(spec'.total)
        BY <1>1, <2>1, <2>4
      <3> QED BY <1>1, <3>1, <3>2 DEF Shared
    <2>7. Progress' /\ Refused'
      BY <1>1, <2>1, <2>3 DEF Progress, Refused
    <2>8. Handing'
      BY <1>1, <2>1 DEF Handing
    <2> QED BY <1>3, <2>5, <2>6, <2>7, <2>8 DEF PlanInv, PlanOK
  <1>6. CASE ~(rung > 0 /\ left > 0)
    <2>1. qty' = qty /\ left' = left /\ rung' = rung /\ stage' = "sized" /\ left = 0
      BY <1>1, <1>2, <1>6 DEF SpreadQuantity
    <2>2. TypeOK' /\ Progress' /\ Refused'
      BY <1>1, <2>1 DEF PlanInv, PlanOK, TypeOK, Progress, Refused
    <2>3. Shared'
      <3>1. TotalQuantity' = TotalQuantity
        BY <2>1 DEF TotalQuantity
      <3> QED BY <1>1, <1>4, <2>1, <3>1 DEF Shared
    <2>4. Handing'
      BY <1>1, <2>1 DEF Handing
    <2> QED BY <1>3, <2>2, <2>3, <2>4 DEF PlanInv, PlanOK
  <1> QED BY <1>5, <1>6

LEMMA SpreadCashKeeps == PlanInv /\ SpreadCash => PlanInv'
  <1> SUFFICES ASSUME PlanInv, SpreadCash PROVE PlanInv'
    OBVIOUS
  <1> DEFINE n == Len(prices)  f == [i \in 1..n |-> prices[i] * qty[i]]
  <1>1. /\ spec.side = "BUY" /\ spec' = spec /\ prices' = prices
        /\ stage = "spread" /\ stage' = "spread" /\ rung' = rung - 1
        /\ prices # <<>> /\ Valid(spec) /\ spec \in Specs
        /\ prices \in Seq(Nat \ {0}) /\ qty \in Seq(Nat) /\ Len(qty) = n /\ qty # <<>>
        /\ left \in Nat /\ rung \in 1..n /\ bought \in BOOLEAN
        /\ TotalAmount + left = Budget(spec)
        /\ \A i \in 1..n : qty[i] >= Share(i)
        /\ ~bought => \A i \in (rung + 1)..n : left < prices[i]
    BY DEF SpreadCash, PlanInv, PlanOK, TypeOK, Progress, Shared, Handing
  <1>2. n \in Nat \ {0} /\ DOMAIN qty = 1..n /\ \A i \in 1..n : qty[i] \in Nat /\ prices[i] \in Nat \ {0}
    BY <1>1
  <1>3. PricesAreOffered' /\ Outward'
    BY <1>1, SamePrices
  <1>4. \A i \in 1..n : Share(i)' = Share(i)
    BY <1>1 DEF Share
  <1>5. CASE prices[rung] <= left
    <2> DEFINE g == [i \in 1..n |-> prices[i] * qty'[i]]
    <2>1. qty' = [qty EXCEPT ![rung] = @ + 1] /\ left' = left - prices[rung] /\ bought' = TRUE
      BY <1>5 DEF SpreadCash
    <2>2. /\ qty' \in [1..n -> Nat] /\ qty'[rung] = qty[rung] + 1
          /\ \A i \in 1..n : i # rung => qty'[i] = qty[i]
      <3>1. qty \in [1..n -> Nat]
        <4> HIDE DEF n, f
        <4> QED BY <1>1, <1>2
      <3> HIDE DEF n, f, g
      <3> QED BY <1>1, <2>1, <3>1
    <2>3. qty' \in Seq(Nat) /\ Len(qty') = n /\ qty' # <<>> /\ DOMAIN qty' = 1..n
      <3> HIDE DEF n, f, g
      <3> QED BY <1>2, <2>2
    <2>4. TotalAmount \in Int /\ TotalAmount' = TotalAmount + prices[rung]
      <3>1. f \in [1..n -> Int] /\ g \in [1..n -> Int]
        <4>1. \A i \in 1..n : prices[i] * qty[i] \in Int /\ prices[i] * qty'[i] \in Int
          <5> HIDE DEF n, f, g
          <5> QED BY <1>2, <2>2
        <4> QED BY <4>1
      <3>2. \A k \in 1..n : k # rung => g[k] = f[k]
        BY <2>2
      <3>3. g[rung] - f[rung] = prices[rung]
        <4>1. g[rung] = prices[rung] * (qty[rung] + 1) /\ f[rung] = prices[rung] * qty[rung]
          BY <1>1, <2>2
        <4>2. \A x, y \in Int : x * (y + 1) - x * y = x
          OBVIOUS
        <4>3. prices[rung] \in Int /\ qty[rung] \in Int
          BY <1>1, <1>2
        <4> QED BY <4>1, <4>2, <4>3
      <3>4. Total(f, n) \in Int /\ Total(g, n) = Total(f, n) + (g[rung] - f[rung])
        <4> HIDE DEF n, f, g
        <4>1. n \in Nat /\ rung \in 1..n
          BY <1>1, <1>2
        <4> QED BY <3>1, <3>2, <4>1, TotalOfChanged
      <3>5. TotalAmount = Total(f, n)
        BY <1>1, <1>2 DEF TotalAmount
      <3>6. TotalAmount' = Total(g, n)
        <4>1. TotalAmount' = Total([i \in DOMAIN qty' |-> prices'[i] * qty'[i]], Len(qty'))
          BY DEF TotalAmount
        <4> QED BY <1>1, <2>3, <4>1
      <3> HIDE DEF n, f, g
      <3> QED BY <3>3, <3>4, <3>5, <3>6
    <2> HIDE DEF f, g
    <2>5. left' \in Nat /\ rung' \in 0..n
      BY <1>1, <1>2, <1>5, <2>1
    <2>6. TypeOK'
      BY <1>1, <2>1, <2>3, <2>5 DEF PlanInv, PlanOK, TypeOK
    <2>7. Shared'
      <3>1. \A i \in 1..Len(qty') : qty'[i] >= Share(i)'
        <4> SUFFICES ASSUME NEW i \in 1..n PROVE qty'[i] >= Share(i)
          BY <1>4, <2>3
        <4>1. Share(i) \in Int
          <5> DEFINE d == n * prices[i]
          <5>1. d \in Nat \ {0} /\ Budget(spec) \in Nat
            BY <1>1, <1>2, Budgets
          <5>2. Share(i) = Budget(spec) \div d
            BY <1>1 DEF Share, QuantityFor
          <5> HIDE DEF d
          <5> QED BY <5>1, <5>2, QuotientOfNat
        <4>2. qty'[i] >= qty[i] /\ qty[i] \in Int /\ qty'[i] \in Int
          BY <1>2, <2>2
        <4> QED BY <1>1, <4>1, <4>2
      <3>2. TotalAmount' + left' = Budget(spec')
        BY <1>1, <1>2, <2>1, <2>4
      <3> QED BY <1>1, <3>1, <3>2 DEF Shared
    <2>8. Progress' /\ Refused'
      BY <1>1, <2>1, <2>3 DEF Progress, Refused
    <2>9. Handing'
      BY <1>1, <2>1 DEF Handing
    <2> QED BY <1>3, <2>6, <2>7, <2>8, <2>9 DEF PlanInv, PlanOK
  <1>6. CASE ~(prices[rung] <= left)
    <2>1. qty' = qty /\ left' = left /\ bought' = bought
      BY <1>6 DEF SpreadCash
    <2>2. TypeOK' /\ Progress' /\ Refused'
      <3>1. rung' \in 0..n
        BY <1>1, <1>2
      <3> QED BY <1>1, <2>1, <3>1 DEF PlanInv, PlanOK, TypeOK, Progress, Refused
    <2>3. Shared'
      <3>1. TotalAmount' = TotalAmount
        BY <1>1, <2>1 DEF TotalAmount
      <3> QED BY <1>1, <1>4, <2>1, <3>1 DEF Shared
    <2>4. Handing'
      <3>1. ASSUME ~bought, NEW i \in rung..n PROVE left < prices[i]
        <4>1. CASE i = rung
          BY <1>1, <1>2, <1>6, <4>1
        <4>2. CASE i \in (rung + 1)..n
          BY <1>1, <3>1, <4>2
        <4> QED BY <1>1, <1>2, <4>1, <4>2
      <3>2. (rung' + 1)..Len(prices') = rung..n
        BY <1>1, <1>2
      <3> QED BY <1>1, <2>1, <3>1, <3>2 DEF Handing
    <2> QED BY <1>3, <2>2, <2>3, <2>4 DEF PlanInv, PlanOK
  <1> QED BY <1>5, <1>6

LEMMA NextPassKeeps == PlanInv /\ NextPass => PlanInv'
  <1> SUFFICES ASSUME PlanInv, NextPass PROVE PlanInv'
    OBVIOUS
  <1>1. /\ spec' = spec /\ prices' = prices /\ qty' = qty /\ left' = left
        /\ stage = "spread" /\ rung = 0 /\ spec.side = "BUY" /\ Len(prices) \in Nat
        /\ qty # <<>> /\ prices # <<>> /\ bought \in BOOLEAN
    BY DEF NextPass, PlanInv, PlanOK, TypeOK, Progress
  <1>2. PricesAreOffered' /\ Outward'
    BY <1>1, SamePrices
  <1>3. Shared'
    <2>1. TotalAmount' = TotalAmount /\ TotalQuantity' = TotalQuantity
      BY <1>1 DEF TotalAmount, TotalQuantity
    <2>2. \A i \in 1..Len(qty) : Share(i)' = Share(i)
      BY <1>1 DEF Share
    <2> QED BY <1>1, <2>1, <2>2 DEF PlanInv, Shared
  <1>4. TypeOK' /\ Progress' /\ Refused'
    <2>1. stage' \in {"spread", "sized"} /\ rung' \in 0..Len(prices) /\ bought' \in BOOLEAN
      <3>1. CASE bought
        <4>1. rung' = Len(prices) /\ stage' = "spread"
          BY <1>1, <3>1 DEF NextPass
        <4>2. bought' \in BOOLEAN
          BY <3>1 DEF NextPass
        <4>3. rung' \in 0..Len(prices)
          BY <1>1, <4>1
        <4> QED BY <4>1, <4>2, <4>3
      <3>2. CASE ~bought
        BY <1>1, <3>2 DEF NextPass
      <3> QED BY <3>1, <3>2
    <2> QED BY <1>1, <2>1 DEF PlanInv, PlanOK, TypeOK, Progress, Refused
  <1>5. Handing'
    <2>1. CASE bought
      <3>1. rung' = Len(prices) /\ stage' = "spread"
        BY <1>1, <2>1 DEF NextPass
      <3>2. (rung' + 1)..Len(prices') = {}
        BY <1>1, <3>1
      <3> QED BY <1>1, <3>1, <3>2 DEF Handing
    <2>2. CASE ~bought
      <3>1. stage' = "sized" /\ \A i \in 1..Len(prices) : left < prices[i]
        BY <1>1, <2>2 DEF NextPass, PlanInv, Handing
      <3> QED BY <1>1, <3>1 DEF Handing
    <2> QED BY <2>1, <2>2
  <1> QED BY <1>2, <1>3, <1>4, <1>5 DEF PlanInv, PlanOK

LEMMA CheckKeeps == PlanInv /\ Check => PlanInv'
  <1> SUFFICES ASSUME PlanInv, Check PROVE PlanInv'
    OBVIOUS
  <1>1. /\ spec' = spec /\ prices' = prices /\ qty' = qty /\ left' = left /\ rung' = rung
        /\ bought' = bought /\ stage = "sized" /\ qty # <<>> /\ prices # <<>>
        /\ stage' \in {"built", "refused"} /\ Len(qty) = Len(prices) /\ qty \in Seq(Nat)
    BY DEF Check, PlanInv, PlanOK, TypeOK, Progress
  <1>2. PricesAreOffered' /\ Outward'
    BY <1>1, SamePrices
  <1>3. Shared'
    <2>1. TotalAmount' = TotalAmount /\ TotalQuantity' = TotalQuantity
      BY <1>1 DEF TotalAmount, TotalQuantity
    <2>2. \A i \in 1..Len(qty) : Share(i)' = Share(i)
      BY <1>1 DEF Share
    <2> QED BY <1>1, <2>1, <2>2 DEF PlanInv, Shared
  <1>4. TypeOK' /\ Progress' /\ Handing'
    BY <1>1 DEF PlanInv, PlanOK, TypeOK, Progress, Handing
  <1>5. Refused'
    <2>1. stage' = "refused" => \E i \in 1..Len(qty) : ~OrderSizeValid(qty[i], prices[i])
      BY <1>1 DEF Check
    <2>2. \A i \in 1..Len(qty) : OrderSizeValid(qty[i], prices[i])' = OrderSizeValid(qty[i], prices[i])
      BY <1>1 DEF OrderSizeValid
    <2> QED BY <1>1, <2>1, <2>2 DEF Refused, OrderSizeValid
  <1> QED BY <1>2, <1>3, <1>4, <1>5 DEF PlanInv, PlanOK

LEMMA PlanInvAlways == Spec => []PlanInv
  <1>1. PlanInv /\ [Next]_vars => PlanInv'
    <2> SUFFICES ASSUME PlanInv, [Next]_vars PROVE PlanInv'
      OBVIOUS
    <2>1. CASE Next
      BY <2>1, RefuseKeeps, PriceKeeps, DivideQuantityKeeps, DivideCashKeeps, SpreadQuantityKeeps,
         SpreadCashKeeps, NextPassKeeps, CheckKeeps DEF Next
    <2>2. CASE UNCHANGED vars
      BY <2>2 DEF vars, PlanInv, PlanOK, TypeOK, PricesAreOffered, Progress, Outward, FirstPrice,
                  Shared, Share, TotalQuantity, TotalAmount, Handing, Refused, OrderSizeValid
    <2> QED BY <2>1, <2>2
  <1> QED BY <1>1, Starts, PTL DEF Spec

-----------------------------------------------------------------------------
(* What follows from it.                                                   *)

\* Every rung Build ever holds lies on the tick grid of its own tier, in order
\* and no nearer than asked, through merging, rounding over the bound of a tier
\* and handing out (snap, PriceTick).
THEOREM PlanOKAlways == Spec => []PlanOK
  <1>1. PlanInv => PlanOK
    BY DEF PlanInv
  <1> QED BY <1>1, PlanInvAlways, PTL

\* What the rungs of a buy cost, commission included, never exceeds the cash
\* (budget, spreadCash).
THEOREM FitsBudgetAlways == Spec => []FitsBudget
  <1>1. PlanInv => FitsBudget
    <2> SUFFICES ASSUME PlanInv, spec.side = "BUY", qty # <<>>
                 PROVE  TotalAmount * (Whole + spec.fee) <= spec.total * Whole
      BY DEF FitsBudget
    <2> DEFINE amount == [i \in 1..Len(qty) |-> prices[i] * qty[i]]
    <2>1. /\ spec \in Specs /\ Valid(spec) /\ left \in Nat /\ TotalAmount + left = Budget(spec)
          /\ prices \in Seq(Nat \ {0}) /\ qty \in Seq(Nat) /\ Len(qty) = Len(prices)
      <3>1. Len(qty) = Len(prices) /\ prices \in Seq(Nat \ {0}) /\ qty \in Seq(Nat)
        BY DEF PlanInv, PlanOK, TypeOK, Progress
      <3>2. prices # <<>>
        BY <3>1
      <3> QED BY <3>1, <3>2 DEF PlanInv, PlanOK, TypeOK, Progress, Shared
    <2>2. /\ Budget(spec) \in Nat /\ Budget(spec) * (Whole + spec.fee) <= spec.total * Whole
          /\ Whole + spec.fee \in Nat /\ spec.total * Whole \in Int
      <3>1. spec.fee \in Nat /\ spec.total \in Nat /\ Whole \in Nat
        BY <2>1, Requests DEF Valid
      <3>2. Whole + spec.fee \in Nat /\ spec.total * Whole \in Int
        BY <3>1
      <3> QED BY <2>1, <3>2, Budgets
    <2>3. TotalAmount \in Int
      <3>1. TotalAmount = Total(amount, Len(qty))
        <4>1. DOMAIN qty = 1..Len(qty)
          BY <2>1
        <4> QED BY <4>1 DEF TotalAmount
      <3>2. amount \in [1..Len(qty) -> Int] /\ Len(qty) \in Nat
        <4>1. \A i \in 1..Len(qty) : prices[i] * qty[i] \in Int
          BY <2>1
        <4> QED BY <2>1, <4>1
      <3> HIDE DEF amount
      <3>3. PICK s \in PartialSums(amount, Len(qty)) : Total(amount, Len(qty)) = s[Len(qty)]
        BY <3>2, TotalIs
      <3> QED BY <3>1, <3>2, <3>3 DEF PartialSums
    <2>4. TotalAmount <= Budget(spec)
      BY <2>1, <2>2, <2>3
    <2>5. TotalAmount * (Whole + spec.fee) <= Budget(spec) * (Whole + spec.fee)
      BY <2>2, <2>3, <2>4, Product
    <2>6. /\ TotalAmount * (Whole + spec.fee) \in Int /\ Budget(spec) * (Whole + spec.fee) \in Int
      BY <2>2, <2>3, Product
    <2> QED BY <2>2, <2>5, <2>6
  <1> QED BY <1>1, PlanInvAlways, PTL

\* When Build is through, a sell offers the whole tradable holding and no rung
\* of a buy could take another unit (spreadQuantity, spreadCash).
THEOREM NothingIsLeftAlways == Spec => []NothingIsLeft
  <1>1. PlanInv => NothingIsLeft
    <2> SUFFICES ASSUME PlanInv, stage \in {"sized", "built", "refused"}, qty # <<>>
                 PROVE  IF spec.side = "SELL" THEN TotalQuantity = RoundQuantity(spec.total)
                        ELSE \A i \in DOMAIN prices : left < prices[i]
      BY DEF NothingIsLeft
    <2>1. /\ stage # "spread" /\ spec.side \in {"BUY", "SELL"} /\ left \in Nat
          /\ DOMAIN prices = 1..Len(prices) /\ Len(qty) = Len(prices) /\ qty \in Seq(Nat)
      BY Requests DEF PlanInv, PlanOK, TypeOK, Progress
    <2>2. CASE spec.side = "SELL"
      <3>1. left = 0 /\ TotalQuantity + left = RoundQuantity(spec.total)
        BY <2>1, <2>2 DEF PlanInv, Handing, Shared
      <3>2. TotalQuantity \in Int
        <4>1. qty \in [1..Len(qty) -> Int] /\ Len(qty) \in Nat
          BY <2>1
        <4>2. PICK s \in PartialSums(qty, Len(qty)) : Total(qty, Len(qty)) = s[Len(qty)]
          BY <4>1, TotalIs
        <4> QED BY <4>1, <4>2 DEF TotalQuantity, PartialSums
      <3> QED BY <2>2, <3>1, <3>2
    <2>3. CASE spec.side = "BUY"
      BY <2>1, <2>3 DEF PlanInv, Handing
    <2> QED BY <2>1, <2>2, <2>3
  <1> QED BY <1>1, PlanInvAlways, PTL

\* A share of at least q for each of n rungs, when the whole carries n times q.
LEMMA EqualShare ==
  ASSUME NEW a \in Nat, NEW n \in Nat \ {0}, NEW m \in Nat, NEW q \in Nat \ {0},
         n <= m, m <= a \div q
  PROVE  q <= a \div n
  <1>1. a \div q \in Nat /\ (a \div q) * q <= a /\ (a \div q) * q \in Nat
    BY QuotientOfNat
  <1>2. n <= a \div q
    BY <1>1
  <1>3. n * q <= (a \div q) * q
    BY <1>1, <1>2, Product
  <1>4. q * n <= a
    <2>1. q * n = n * q /\ n * q \in Int
      OBVIOUS
    <2> QED BY <1>1, <1>3, <2>1
  <1> QED BY <1>4, QuotientIsLargest

\* The smallest quantity at a price makes the smallest amount.
LEMMA MinQuantityIsEnough ==
  ASSUME spec \in Specs, NEW p \in Nat \ {0}
  PROVE  /\ MinQuantity(p) \in Nat \ {0}
         /\ MinQuantity(p) * p >= spec.least
  <1>1. CASE spec.least = 0
    BY <1>1 DEF MinQuantity
  <1>2. CASE spec.least > 0
    <2> DEFINE a == spec.least + p - 1
    <2>1. spec.least \in Nat /\ a \in Int /\ MinQuantity(p) = a \div p
      BY <1>2, Requests DEF MinQuantity
    <2>2. /\ a \div p \in Int /\ a % p \in 0..(p - 1) /\ a = (a \div p) * p + (a % p)
          /\ (a \div p) * p \in Int
      <3>1. a \in Int
        BY <2>1
      <3> HIDE DEF a
      <3> QED BY <3>1, Quotient
    <2>3. (a \div p) * p >= spec.least
      <3>1. a <= (a \div p) * p + (p - 1)
        <4> HIDE DEF a
        <4> QED BY <2>1, <2>2
      <3>2. a - (p - 1) = spec.least
        BY <2>1
      <3> HIDE DEF a
      <3> QED BY <2>1, <2>2, <3>1, <3>2
    <2>4. 1 <= a \div p
      <3>1. 1 * p <= a
        BY <1>2, <2>1
      <3> HIDE DEF a
      <3> QED BY <2>1, <3>1, QuotientIsLargest
    <2> HIDE DEF a
    <2> QED BY <2>1, <2>2, <2>3, <2>4
  <1> QED BY <1>1, <1>2, Requests

\* On a sell, and where a unit is enough, every count up to MaxRungs is built
\* (MaxRungs, Build): the rung nearest the reference price is binding, and every
\* other has at least as much.
THEOREM CarriesMaxRungsAlways == Spec => []CarriesMaxRungs
  <1>1. PlanInv => CarriesMaxRungs
    <2> SUFFICES ASSUME PlanInv, stage = "refused", Valid(spec),
                        spec.side = "SELL" \/ spec.least = 0,
                        ~(spec.count > MaxRungs(spec))
                 PROVE  FALSE
      BY DEF CarriesMaxRungs
    <2> DEFINE p == FirstPrice  n == Len(prices)
    <2>1. /\ spec \in Specs /\ spec.side \in {"BUY", "SELL"} /\ spec.least \in Nat
          /\ spec.count \in Nat \ {0} /\ Limit \in Nat /\ spec.base > 0 /\ spec.total > 0
          /\ spec.base \in Int /\ spec.total \in Int
          /\ prices \in Seq(Nat \ {0}) /\ qty \in Seq(Nat)
      BY Requests DEF PlanInv, PlanOK, TypeOK, Valid
    <2>2. p \in Nat
      BY <2>1, Bounds, Requests, PriceTickSide DEF FirstPrice
    <2>3. MaxRungs(spec) = IF p <= 0 THEN 0
                           ELSE IF spec.side = "BUY" THEN AtMost(Budget(spec) \div (MinQuantity(p) * p))
                           ELSE AtMost(RoundQuantity(spec.total) \div MinQuantity(p))
      BY <2>1 DEF MaxRungs, FirstPrice
    <2>4. p \in Nat \ {0}
      <3>1. CASE p <= 0
        <4>1. MaxRungs(spec) = 0
          BY <2>3, <3>1
        <4> QED BY <2>1, <4>1
      <3> HIDE DEF p
      <3> QED BY <2>2, <3>1
    <2>5. prices # <<>> /\ \E i \in 1..Len(qty) : ~OrderSizeValid(qty[i], prices[i])
      <3>1. ~(p <= 0)
        <4> HIDE DEF p
        <4> QED BY <2>4
      <3> QED BY <3>1 DEF PlanInv, Refused
    <2>6. n \in Nat \ {0} /\ n <= spec.count /\ Len(qty) = n /\ qty # <<>>
      BY <2>1, <2>5 DEF PlanInv, PlanOK, TypeOK, Progress
    <2>7. PICK i \in 1..n : ~OrderSizeValid(qty[i], prices[i])
      BY <2>5, <2>6
    <2>8. /\ qty[i] \in Nat /\ prices[i] \in Nat \ {0} /\ qty[i] >= Share(i)
          /\ Beyond(spec.side, p, prices[i])
      <3>1. qty[i] \in Nat /\ prices[i] \in Nat \ {0}
        BY <2>1, <2>6
      <3> QED BY <2>6, <3>1 DEF PlanInv, Shared, Outward
    <2>9. MinQuantity(p) \in Nat \ {0} /\ MinQuantity(p) * p >= spec.least
      <3> HIDE DEF p
      <3> QED BY <2>1, <2>4, MinQuantityIsEnough
    <2>10. Budget(spec) \in Nat /\ RoundQuantity(spec.total) \in Nat
      BY <2>1, Budgets
    <2>11. ASSUME NEW r \in Nat, ~(spec.count > AtMost(r)) PROVE spec.count <= r
      BY <2>1, <2>11 DEF AtMost
    <2> HIDE DEF p, n
    <2>12. CASE spec.side = "SELL"
      <3> DEFINE total == RoundQuantity(spec.total)  q == MinQuantity(p)
      <3>1. total \div q \in Nat
        <4> HIDE DEF total, q
        <4>1. total \in Nat /\ q \in Nat \ {0}
          BY <2>9, <2>10 DEF total, q
        <4> QED BY <4>1, QuotientOfNat
      <3>2. spec.count <= total \div q
        <4>1. MaxRungs(spec) = AtMost(total \div q)
          BY <2>3, <2>4, <2>12
        <4> QED BY <2>11, <3>1, <4>1
      <3>3. q <= total \div n
        <4>1. total \in Nat /\ q \in Nat \ {0} /\ spec.count \in Nat
          BY <2>1, <2>9, <2>10
        <4> HIDE DEF total, q
        <4> QED BY <2>6, <3>2, <4>1, EqualShare
      <3>4. q <= qty[i] /\ p <= prices[i]
        <4>1. Share(i) = total \div n /\ total \div n \in Nat
          BY <2>6, <2>10, <2>12, QuotientOfNat DEF Share, n
        <4>2. Beyond("SELL", p, prices[i])
          BY <2>8, <2>12
        <4> QED BY <2>8, <2>9, <3>3, <4>1, <4>2 DEF Beyond
      <3>5. qty[i] * prices[i] >= q * p
        <4>1. q \in Nat \ {0}
          BY <2>9
        <4> HIDE DEF q
        <4>2. q * p <= qty[i] * p
          BY <2>4, <2>8, <3>4, <4>1, Product
        <4>3. p * qty[i] <= prices[i] * qty[i]
          BY <2>4, <2>8, <3>4, Product
        <4>4. \A x, y \in Int : x * y = y * x /\ x * y \in Int
          OBVIOUS
        <4>5. q \in Int /\ p \in Int /\ qty[i] \in Int /\ prices[i] \in Int
          BY <2>4, <2>8, <4>1
        <4> QED BY <4>2, <4>3, <4>4, <4>5
      <3>6. qty[i] * prices[i] >= spec.least /\ qty[i] > 0
        <4>1. \A x, y \in Int : x * y \in Int
          OBVIOUS
        <4>2. q * p \in Int /\ qty[i] * prices[i] \in Int
          BY <2>4, <2>8, <2>9, <4>1
        <4>3. q * p >= spec.least /\ q \in Nat \ {0} /\ spec.least \in Int
          BY <2>1, <2>9
        <4>4. qty[i] \in Int
          BY <2>8
        <4> HIDE DEF q
        <4>5. qty[i] > 0
          BY <3>4, <4>3, <4>4
        <4>6. qty[i] * prices[i] >= spec.least
          BY <3>5, <4>2, <4>3
        <4> QED BY <4>5, <4>6
      <3> QED BY <2>7, <2>8, <3>6 DEF OrderSizeValid
    <2>13. CASE spec.side = "BUY"
      <3> DEFINE cash == Budget(spec)
      <3>1. spec.least = 0 /\ MinQuantity(p) = 1
        BY <2>13 DEF MinQuantity
      <3>2. cash \div p \in Nat /\ (cash \div p) * p <= cash /\ (cash \div p) * p \in Nat
        BY <2>4, <2>10, QuotientOfNat
      <3>3. spec.count <= cash \div p
        <4>1. MinQuantity(p) * p = p
          BY <2>4, <3>1
        <4>2. MaxRungs(spec) = AtMost(cash \div p)
          BY <2>3, <2>4, <2>13, <4>1
        <4> QED BY <2>11, <3>2, <4>2
      <3>4. n * prices[i] <= cash /\ n * prices[i] \in Nat \ {0}
        <4>1. prices[i] <= p
          <5>1. Beyond("BUY", p, prices[i])
            BY <2>8, <2>13
          <5> QED BY <5>1 DEF Beyond
        <4>2. prices[i] * n <= p * n
          BY <2>4, <2>6, <2>8, <4>1, Product
        <4>3. n <= cash \div p
          BY <2>1, <2>6, <3>2, <3>3
        <4>4. n * p <= (cash \div p) * p
          BY <2>4, <2>6, <3>2, <4>3, Product
        <4>5. \A x, y \in Int : x * y = y * x /\ x * y \in Int
          OBVIOUS
        <4>6. n \in Int /\ p \in Int /\ prices[i] \in Int
          BY <2>4, <2>6, <2>8
        <4>7. n * prices[i] <= cash
          BY <2>10, <3>2, <4>2, <4>4, <4>5, <4>6
        <4> QED BY <2>6, <2>8, <4>7
      <3>5. 1 <= cash \div (n * prices[i]) /\ cash \div (n * prices[i]) \in Nat
        <4> DEFINE d == n * prices[i]
        <4>1. d \in Nat \ {0} /\ 1 * d <= cash /\ cash \in Nat
          BY <2>10, <3>4
        <4> HIDE DEF d, cash
        <4>2. 1 <= cash \div d /\ cash \div d \in Nat
          BY <4>1, QuotientOfNat, QuotientIsLargest
        <4> QED BY <4>2 DEF d
      <3>6. qty[i] > 0
        <4>1. Share(i) = cash \div (n * prices[i])
          BY <2>13 DEF Share, QuantityFor, n
        <4> QED BY <2>8, <3>5, <4>1
      <3>7. qty[i] * prices[i] >= spec.least
        BY <2>8, <3>1
      <3> QED BY <2>7, <2>8, <3>6, <3>7 DEF OrderSizeValid
    <2> QED BY <2>1, <2>12, <2>13
  <1> QED BY <1>1, PlanInvAlways, PTL

\* Handing out cannot go round for ever and does not stop too early: each of its
\* steps leaves less to do, another pass over the rungs included, or is the last
\* and leaves nothing over (spreadQuantity, spreadCash).
THEOREM HandsOutAllAlways == Spec => HandsOutAll
  <1>1. PlanInv /\ [Next]_vars => [stage = "spread" /\ stage' = "spread" => Work' < Work]_vars
    <2> SUFFICES ASSUME PlanInv, Next, stage = "spread", stage' = "spread" PROVE Work' < Work
      OBVIOUS
    <2> DEFINE m == Len(prices) + 1
    <2>1. /\ left \in Nat /\ rung \in Nat /\ bought \in BOOLEAN /\ m \in Nat \ {0}
          /\ prices \in Seq(Nat \ {0}) /\ rung <= Len(prices) /\ Len(prices) \in Nat
      BY DEF PlanInv, PlanOK, TypeOK
    <2>2. Work = left * m + rung + (IF bought THEN m ELSE 0)
      BY DEF Work
    <2>3. ASSUME prices' = prices PROVE Work' = left' * m + rung' + (IF bought' THEN m ELSE 0)
      BY <2>3 DEF Work
    <2>4. CASE SpreadQuantity
      <3>1. /\ left' = left - 1 /\ rung' = rung - 1 /\ bought' = bought /\ prices' = prices
        BY <2>4 DEF SpreadQuantity
      <3>2. left' * m = left * m - m /\ left * m \in Int
        <4>1. left' * m = (left - 1) * m
          BY <3>1
        <4> HIDE DEF m
        <4>2. \A x, y \in Int : (x - 1) * y = x * y - y /\ x * y \in Int
          OBVIOUS
        <4> QED BY <2>1, <4>1, <4>2
      <3>3. (IF bought' THEN m ELSE 0) = (IF bought THEN m ELSE 0)
        BY <3>1
      <3>4. (IF bought THEN m ELSE 0) \in Int
        BY <2>1
      <3> HIDE DEF m
      <3> QED BY <2>1, <2>2, <2>3, <3>1, <3>2, <3>3, <3>4
    <2>5. CASE SpreadCash
      <3>1. rung' = rung - 1 /\ prices' = prices /\ rung > 0
        BY <2>5 DEF SpreadCash
      <3>2. CASE prices[rung] <= left
        <4>1. left' = left - prices[rung] /\ bought' = TRUE
          BY <2>5, <3>2 DEF SpreadCash
        <4>2. prices[rung] \in Nat \ {0}
          BY <2>1, <3>1
        <4>3. left' + 1 <= left /\ left' \in Int
          BY <2>1, <4>1, <4>2
        <4>4. left' * m + m <= left * m /\ left * m \in Int /\ left' * m \in Int
          <5>1. left' + 1 \in Int /\ left \in Int /\ m \in Nat
            BY <2>1, <4>3
          <5> HIDE DEF m
          <5>2. (left' + 1) * m <= left * m
            BY <4>3, <5>1, Product
          <5>3. (left' + 1) * m = left' * m + m
            <6> DEFINE x == left'
            <6>1. x \in Int /\ m \in Int
              BY <4>3, <5>1
            <6> HIDE DEF x
            <6>2. (x + 1) * m = x * m + m
              BY <6>1
            <6> QED BY <6>2 DEF x
          <5>4. left' * m \in Int /\ left * m \in Int
            BY <4>3, <5>1
          <5> QED BY <5>2, <5>3, <5>4
        <4>5. (IF bought' THEN m ELSE 0) = m
          BY <4>1
        <4>6. (IF bought THEN m ELSE 0) \in Nat
          BY <2>1
        <4> HIDE DEF m
        <4> QED BY <2>1, <2>2, <2>3, <3>1, <4>4, <4>5, <4>6
      <3>3. CASE ~(prices[rung] <= left)
        <4>1. left' = left /\ bought' = bought
          BY <2>5, <3>3 DEF SpreadCash
        <4>2. (IF bought' THEN m ELSE 0) = (IF bought THEN m ELSE 0)
          BY <4>1
        <4>3. (IF bought THEN m ELSE 0) \in Int /\ left * m \in Int
          BY <2>1
        <4> HIDE DEF m
        <4> QED BY <2>1, <2>2, <2>3, <3>1, <4>1, <4>2, <4>3
      <3> QED BY <3>2, <3>3
    <2>6. CASE NextPass
      <3>1. bought /\ bought' = FALSE /\ rung' = Len(prices) /\ rung = 0 /\ left' = left /\ prices' = prices
        BY <2>6 DEF NextPass
      <3>2. (IF bought THEN m ELSE 0) = m /\ (IF bought' THEN m ELSE 0) = 0
        BY <3>1
      <3>3. Work = left * m + m /\ Work' = left * m + Len(prices)
        BY <2>1, <2>2, <2>3, <3>1, <3>2
      <3> QED BY <2>1, <3>3
    <2>7. ~(Refuse \/ Price \/ DivideQuantity \/ DivideCash \/ Check)
      BY DEF Refuse, Price, DivideQuantity, DivideCash, Check
    <2> QED BY <2>4, <2>5, <2>6, <2>7 DEF Next
  <1>2. /\ PlanInv /\ [Next]_vars /\ NothingIsLeft'
        => [stage = "spread" => IF stage' = "spread" THEN Work' < Work ELSE NothingIsLeft']_vars
    <2> HIDE DEF NothingIsLeft, Work
    <2> QED BY <1>1
  <1> QED BY <1>2, PlanInvAlways, NothingIsLeftAlways, PTL DEF Spec, HandsOutAll
=============================================================================
