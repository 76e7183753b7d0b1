-------------------------- MODULE Accounting_proofs --------------------------
(***************************************************************************)
(* Facts about amounts, for every scale, rate, price and quantity: those of *)
(* the cost model have the types the rows give them, and a round trip on    *)
(* one quote returns no more than it cost; and about sums of amounts over   *)
(* finite sets and over the rows of a table.                                *)
(*                                                                          *)
(* SumFunctionOnSet is a fold, that is a recursive function.  That it obeys *)
(* its recursion, and in any order, is proved here by induction over sets   *)
(* of natural numbers (WFMin of WellFoundedInduction).                      *)
(***************************************************************************)
EXTENDS CostModel, Functions, FiniteSets, FiniteSetTheorems, SequenceTheorems,
        WellFoundedInduction, TLAPS

\* The product of two natural numbers is one.
LEMMA ProductNat == \A x, y \in Nat : x * y \in Nat
OBVIOUS

\* Rounding half up keeps a non-negative quotient a natural number.
LEMMA HalfUpNat ==
    ASSUME NEW n \in Nat, NEW d \in Nat \ {0}
    PROVE  HalfUp(n, d) \in Nat
<1>1. 2 * n + d \in Nat /\ 2 * d \in Nat \ {0}
  OBVIOUS
<1>2. (2 * n + d) \div (2 * d) \in Nat
  BY <1>1
<1> QED
  BY <1>2 DEF HalfUp

\* Rounding half up yields an integer.
LEMMA HalfUpInt ==
    ASSUME NEW n \in Int, NEW d \in Nat \ {0}
    PROVE  HalfUp(n, d) \in Int
<1>1. CASE n >= 0
  BY <1>1, HalfUpNat
<1>2. CASE n < 0
  <2>1. 2 * (-n) + d \in Nat /\ 2 * d \in Nat \ {0}
    BY <1>2
  <2>2. (2 * (-n) + d) \div (2 * d) \in Nat
    BY <2>1
  <2> QED
    BY <1>2, <2>2 DEF HalfUp
<1> QED
  BY <1>1, <1>2

\* Integer division is monotone in the dividend.
LEMMA DivMonotone ==
    ASSUME NEW x \in Nat, NEW y \in Nat, NEW d \in Nat \ {0}, x <= y
    PROVE  x \div d <= y \div d
<1> DEFINE p == x \div d
           q == y \div d
<1>1. /\ p \in Nat /\ q \in Nat
      /\ x = d * p + (x % d) /\ x % d \in 0..(d - 1)
      /\ y = d * q + (y % d) /\ y % d \in 0..(d - 1)
  OBVIOUS
<1> HIDE DEF p, q
<1>2. SUFFICES ASSUME q + 1 <= p PROVE FALSE
  BY <1>1 DEF p, q
<1>3. d * (q + 1) <= d * p
  BY <1>1, <1>2
<1>4. d * (q + 1) = d * q + d
  BY <1>1
<1> QED
  BY <1>1, <1>3, <1>4

\* Rounding half up is monotone.
LEMMA HalfUpMonotone ==
    ASSUME NEW x \in Nat, NEW y \in Nat, NEW d \in Nat \ {0}, x <= y
    PROVE  HalfUp(x, d) <= HalfUp(y, d)
<1>1. /\ 2 * x + d \in Nat /\ 2 * y + d \in Nat /\ 2 * d \in Nat \ {0}
      /\ 2 * x + d <= 2 * y + d
  OBVIOUS
<1>2. (2 * x + d) \div (2 * d) <= (2 * y + d) \div (2 * d)
  BY <1>1, DivMonotone
<1> QED
  BY <1>2 DEF HalfUp

\* The amounts of a trade on a quote whose sell price is not below its buy price.
LEMMA CostsType ==
    ASSUME NEW side \in Sides, NEW quantity \in Nat,
           NEW b \in Nat, NEW s \in Nat, b <= s
    PROVE  LET c == Costs(side, quantity, b, s)
           IN  /\ c.gross \in Nat /\ c.fees \in Nat /\ c.taxes \in Nat
               /\ c.spread \in Nat /\ c.net \in Int
               /\ side = "buy" => c.net \in Nat
<1> DEFINE gross == GrossCash(side, quantity, b, s)
<1>1. gross \in Nat
  <2>1. ExecutionPrice(side, b, s) \in Nat
    BY DEF ExecutionPrice
  <2>2. quantity * ExecutionPrice(side, b, s) \in Nat
    BY <2>1, ProductNat
  <2> QED
    BY <2>2, HalfUpNat, CostAssumption DEF GrossCash
<1>2. Fees(gross) \in Nat
  BY <1>1, ProductNat, HalfUpNat, CostAssumption DEF Fees
<1>3. Taxes(gross) \in Nat
  BY <1>1, ProductNat, HalfUpNat, CostAssumption DEF Taxes
<1>4. HalfUp((s - b) * quantity, QuantityScale) \in Nat
  <2>1. s - b \in Nat
    OBVIOUS
  <2>2. (s - b) * quantity \in Nat
    BY <2>1, ProductNat
  <2> QED
    BY <2>2, HalfUpNat, CostAssumption
<1>5. NetCash(side, gross) \in Int /\ (side = "buy" => NetCash(side, gross) \in Nat)
  BY <1>1, <1>2, <1>3 DEF NetCash
<1> HIDE DEF gross
<1> QED
  BY <1>1, <1>2, <1>3, <1>4, <1>5 DEF Costs, gross

\* A buy and a sell of the same quantity at one quote lose at least their two
\* fees (CostModelService.calculate; ROADMAP.md 24.4).
THEOREM RoundTripLoses ==
    ASSUME NEW quantity \in Nat, NEW b \in Nat, NEW s \in Nat, b <= s
    PROVE  LET bought == Costs("buy", quantity, b, s)
               sold   == Costs("sell", quantity, b, s)
           IN  sold.net <= bought.net - bought.fees - sold.fees
<1> DEFINE bought == Costs("buy", quantity, b, s)
           sold   == Costs("sell", quantity, b, s)
<1>1. /\ bought.gross \in Nat /\ bought.fees \in Nat /\ bought.taxes \in Nat
      /\ sold.gross \in Nat /\ sold.fees \in Nat /\ sold.taxes \in Nat
  BY CostsType DEF Sides
<1>2. /\ bought.net = bought.gross + bought.fees + bought.taxes
      /\ sold.net = sold.gross - sold.fees - sold.taxes
  BY DEF Costs, NetCash
<1>3. sold.gross <= bought.gross
  <2>1. /\ quantity * b \in Nat /\ quantity * s \in Nat
        /\ quantity * b <= quantity * s
    <3>1. s - b \in Nat /\ quantity * (s - b) \in Nat
      BY ProductNat
    <3>2. quantity * s = quantity * b + quantity * (s - b)
      OBVIOUS
    <3> QED
      BY <3>1, <3>2, ProductNat
  <2>2. HalfUp(quantity * b, QuantityScale) <= HalfUp(quantity * s, QuantityScale)
    BY <2>1, HalfUpMonotone, CostAssumption
  <2> QED
    BY <2>2 DEF Costs, GrossCash, ExecutionPrice
<1> HIDE DEF bought, sold
<1> QED
  BY <1>1, <1>2, <1>3 DEF bought, sold

\* Costs of up to half the price, as a share of it, stay within it after rounding.
CostsAreMinor == 2 * (FeeRate + TaxRate) <= RateScale

\* Quotient and remainder, for the leaves that compare products.
LEMMA Division ==
    ASSUME NEW x \in Nat, NEW y \in Nat \ {0}
    PROVE  /\ x \div y \in Nat
           /\ x = y * (x \div y) + (x % y) /\ x % y \in 0..(y - 1)
OBVIOUS

\* A rounded share, multiplied out.
LEMMA HalfUpBound ==
    ASSUME NEW n \in Nat, NEW d \in Nat \ {0}
    PROVE  2 * (d * HalfUp(n, d)) <= 2 * n + d
<1> DEFINE x == 2 * n + d
           y == 2 * d
           h == x \div y
<1>1. x \in Nat /\ y \in Nat \ {0}
  OBVIOUS
<1>2. h \in Nat /\ x = y * h + (x % y) /\ x % y \in 0..(y - 1)
  <2> HIDE DEF x, y
  <2> QED
    BY <1>1, Division
<1>3. HalfUp(n, d) = h
  BY DEF HalfUp
<1>4. y * h = 2 * (d * h)
  BY <1>2
<1> HIDE DEF h, x, y
<1>5. y * h <= x
  BY <1>1, <1>2
<1> QED
  BY <1>3, <1>4, <1>5 DEF x

\* Rounding half up loses less than half a unit.
LEMMA HalfUpAtLeast ==
    ASSUME NEW n \in Nat, NEW d \in Nat \ {0}
    PROVE  2 * (d * HalfUp(n, d)) > 2 * n - d
<1> DEFINE x == 2 * n + d
           y == 2 * d
           h == x \div y
<1>1. x \in Nat /\ y \in Nat \ {0}
  OBVIOUS
<1>2. h \in Nat /\ x = y * h + (x % y) /\ x % y \in 0..(y - 1)
  <2> HIDE DEF x, y
  <2> QED
    BY <1>1, Division
<1>3. HalfUp(n, d) = h
  BY DEF HalfUp
<1>4. y * h = 2 * (d * h)
  BY <1>2
<1>5. y * h \in Nat
  BY <1>1, <1>2, ProductNat
<1> HIDE DEF h
<1>6. y * h > x - y
  <2> HIDE DEF x, y
  <2> QED
    BY <1>1, <1>2, <1>5
<1>7. x - y = 2 * n - d
  OBVIOUS
<1> QED
  BY <1>3, <1>4, <1>6, <1>7

\* Rounding half to even is within half a unit, and a tie goes to an even number.
LEMMA HalfEvenParts ==
    ASSUME NEW n \in Int, NEW d \in Nat \ {0}
    PROVE  LET h == HalfEven(n, d)
           IN  /\ h \in Int /\ (n >= 0 => h >= 0) /\ (n <= 0 => h <= 0)
               /\ 2 * (d * h) <= 2 * n + d /\ 2 * (d * h) >= 2 * n - d
               /\ 2 * (d * h) = 2 * n + d \/ 2 * (d * h) = 2 * n - d => h % 2 = 0
<1> DEFINE q == n \div d
           r == n % d
           h == HalfEven(n, d)
<1>1. q \in Int /\ n = d * q + r /\ r \in 0..(d - 1)
  OBVIOUS
<1>2. h = IF 2 * r > d \/ (2 * r = d /\ q % 2 = 1) THEN q + 1 ELSE q
  BY DEF HalfEven
<1> HIDE DEF q, r, h
<1>3. (n >= 0 => q >= 0) /\ (n <= 0 => q <= 0) /\ (n < 0 => q <= -1)
  <2>1. ASSUME q <= -1 PROVE n < 0
    <3>1. d * q <= d * (-1)
      BY <1>1, <2>1
    <3> QED
      BY <1>1, <3>1
  <2>2. ASSUME q >= 1 PROVE n > 0
    <3>1. d * q >= d * 1
      BY <1>1, <2>2
    <3> QED
      BY <1>1, <3>1
  <2>3. n < 0 => q # 0
    BY <1>1
  <2> QED
    BY <1>1, <2>1, <2>2, <2>3
<1>4. d * q \in Int /\ d * (q + 1) = d * q + d
  BY <1>1
<1>5. CASE h = q + 1
  <2>1. 2 * r > d \/ (2 * r = d /\ q % 2 = 1)
    BY <1>1, <1>2, <1>5
  <2>2. n = 0 => r = 0
    BY <1>1, <1>3
  <2>3. q % 2 = 1 => (q + 1) % 2 = 0
    BY <1>1
  <2> QED
    BY <1>1, <1>3, <1>4, <1>5, <2>1, <2>2, <2>3 DEF h
<1>6. CASE h = q
  <2>1. 2 * r <= d /\ ~(2 * r = d /\ q % 2 = 1)
    BY <1>1, <1>2, <1>6
  <2>2. q % 2 # 1 => q % 2 = 0
    BY <1>1
  <2> QED
    BY <1>1, <1>3, <1>4, <1>6, <2>1, <2>2 DEF h
<1> QED
  BY <1>2, <1>5, <1>6

LEMMA HalfEvenInt == \A n \in Int, d \in Nat \ {0} : HalfEven(n, d) \in Int
BY HalfEvenParts

LEMMA HalfEvenNat == \A n \in Nat, d \in Nat \ {0} : HalfEven(n, d) \in Nat
BY HalfEvenParts

LEMMA HalfEvenNear ==
    ASSUME NEW n \in Nat, NEW d \in Nat \ {0}
    PROVE  /\ HalfEven(n, d) \in Nat
           /\ 2 * (d * HalfEven(n, d)) <= 2 * n + d
           /\ 2 * (d * HalfEven(n, d)) >= 2 * n - d
BY HalfEvenParts

\* What is worth half a unit or more is not rounded to nothing.
LEMMA HalfUpPositive ==
    ASSUME NEW n \in Nat, NEW d \in Nat \ {0}, 2 * n >= d
    PROVE  HalfUp(n, d) > 0
<1>1. HalfUp(n, d) \in Nat
  BY HalfUpNat
<1>2. 2 * (d * HalfUp(n, d)) > 2 * n - d
  BY HalfUpAtLeast
<1>3. HalfUp(n, d) # 0
  <2> SUFFICES ASSUME HalfUp(n, d) = 0 PROVE FALSE
    OBVIOUS
  <2>1. d * HalfUp(n, d) = 0
    OBVIOUS
  <2> QED
    BY <1>2, <2>1
<1> QED
  BY <1>1, <1>3

\* The seller never pays to sell.
LEMMA SellNetNat ==
    ASSUME CostsAreMinor, NEW quantity \in Nat, NEW b \in Nat, NEW s \in Nat, b <= s
    PROVE  Costs("sell", quantity, b, s).net \in Nat
<1> DEFINE g == GrossCash("sell", quantity, b, s)
           F == Fees(g)
           T == Taxes(g)
           R == RateScale
           c == Costs("sell", quantity, b, s)
<1>1. g \in Nat /\ F \in Nat /\ T \in Nat
  <2>1. c.gross \in Nat /\ c.fees \in Nat /\ c.taxes \in Nat
    BY CostsType DEF Sides
  <2>2. c.gross = g /\ c.fees = F /\ c.taxes = T
    BY DEF Costs
  <2> QED
    BY <2>1, <2>2
<1>2. c.net = g - F - T
  BY DEF Costs, NetCash
<1> HIDE DEF g, c
<1>3. /\ R \in Nat \ {0} /\ FeeRate \in Nat /\ TaxRate \in Nat
      /\ g * FeeRate \in Nat /\ g * TaxRate \in Nat /\ g * R \in Nat
  BY <1>1, CostAssumption, ProductNat
<1>4. 2 * (R * F) <= 2 * (g * FeeRate) + R /\ 2 * (R * T) <= 2 * (g * TaxRate) + R
  BY <1>1, <1>3, HalfUpBound DEF Fees, Taxes
<1>5. 2 * (g * FeeRate) + 2 * (g * TaxRate) <= g * R
  <2>1. R - 2 * (FeeRate + TaxRate) \in Nat
    BY <1>3 DEF CostsAreMinor
  <2>2. g * (R - 2 * (FeeRate + TaxRate)) \in Nat
    BY <1>1, <2>1, ProductNat
  <2>3. g * (R - 2 * (FeeRate + TaxRate)) = g * R - (2 * (g * FeeRate) + 2 * (g * TaxRate))
    BY <1>1, <1>3
  <2> QED
    BY <1>3, <2>2, <2>3
<1> HIDE DEF F, T, R
<1>6. R * F \in Nat /\ R * T \in Nat
  BY <1>1, <1>3, ProductNat
<1>7. 2 * (R * F) + 2 * (R * T) <= g * R + 2 * R
  BY <1>3, <1>4, <1>5, <1>6
<1>8. 2 * (F + T) <= g + 2
  <2>1. SUFFICES ASSUME 2 * (F + T) >= g + 3 PROVE FALSE
    BY <1>1
  <2>2. R * (2 * (F + T) - (g + 3)) \in Nat
    BY <1>1, <1>3, <2>1, ProductNat
  <2>3. R * (2 * (F + T) - (g + 3)) = 2 * (R * F) + 2 * (R * T) - (g * R + 3 * R)
    BY <1>1, <1>3
  <2> QED
    BY <1>3, <1>6, <1>7, <2>2, <2>3
<1>9. CASE g = 0
  <2>1. g * FeeRate = 0 /\ g * TaxRate = 0
    BY <1>3, <1>9
  <2>2. 2 * (R * F) <= R /\ 2 * (R * T) <= R
    BY <1>3, <1>4, <2>1
  <2>3. \A n \in Nat : 2 * (R * n) <= R => n = 0
    <3>1. SUFFICES ASSUME NEW n \in Nat, 2 * (R * n) <= R, n >= 1 PROVE FALSE
      OBVIOUS
    <3>2. R * (n - 1) \in Nat /\ R * (n - 1) = R * n - R
      BY <1>3, <3>1, ProductNat
    <3> QED
      BY <1>3, <3>1, <3>2
  <2>4. F = 0 /\ T = 0
    BY <1>1, <2>2, <2>3
  <2> QED
    BY <1>2, <1>9, <2>4 DEF c
<1>10. CASE g > 0
  <2>1. F + T <= g
    BY <1>1, <1>8, <1>10
  <2> QED
    BY <1>1, <1>2, <2>1 DEF c
<1> QED
  BY <1>1, <1>9, <1>10

-----------------------------------------------------------------------------
(* Sums over finite sets.                                                   *)

\* Induction, with the property as a set of numbers.
LEMMA NatSetInduction ==
    ASSUME NEW S, 0 \in S, \A n \in Nat : n \in S => n + 1 \in S
    PROVE  Nat \subseteq S
<1> DEFINE T == Nat \ S
           R == OpToRel(<, Nat)
<1>1. SUFFICES ASSUME T # {} PROVE FALSE
  OBVIOUS
<1>2. IsWellFoundedOn(R, Nat)
  BY NatLessThanWellFounded DEF OpToRel
<1>3. T \subseteq Nat
  OBVIOUS
<1>4. \A x, y \in Nat : <<x, y>> \in R <=> x < y
  BY DEF OpToRel
<1> HIDE DEF R
<1>5. \E x \in T : \A y \in T : ~(<<y, x>> \in R)
  <2> HIDE DEF T
  <2> QED
  BY <1>1, <1>2, <1>3, WFMin
<1>6. PICK x \in T : \A y \in T : ~(y < x)
  BY <1>4, <1>5
<1>7. x - 1 \in Nat /\ x - 1 \notin T
  BY <1>6
<1> QED
  BY <1>7

\* Induction over the subsets of a finite set, with the property as a set of sets.
LEMMA SubsetInduction ==
    ASSUME NEW S, IsFiniteSet(S), NEW P,
           {} \in P,
           \A T \in SUBSET S, x \in S : T \in P /\ x \notin T => T \cup {x} \in P
    PROVE  S \in P
<1> DEFINE C == { n \in Nat : \A T \in SUBSET S : Cardinality(T) = n => T \in P }
<1>1. \A T \in SUBSET S : IsFiniteSet(T) /\ Cardinality(T) \in Nat
  BY FS_Subset, FS_CardinalityType
<1>2. 0 \in C
  BY <1>1, FS_EmptySet
<1>3. ASSUME NEW n \in Nat, n \in C PROVE n + 1 \in C
  <2>1. SUFFICES ASSUME NEW T \in SUBSET S, Cardinality(T) = n + 1 PROVE T \in P
    OBVIOUS
  <2>0. \A U \in SUBSET S : Cardinality(U) = n => U \in P
    BY <1>3
  <2> HIDE DEF C
  <2>2. T # {}
    <3>1. SUFFICES ASSUME T = {} PROVE FALSE
      OBVIOUS
    <3> QED
      BY <2>1, <3>1, FS_EmptySet
  <2>3. PICK x \in T : TRUE
    BY <2>2
  <2>4. Cardinality(T \ {x}) = Cardinality(T) - 1
    BY <1>1, FS_RemoveElement
  <2>5. T \ {x} \in P
    BY <2>0, <2>1, <2>4
  <2>6. (T \ {x}) \cup {x} \in P
    BY <2>5
  <2>7. (T \ {x}) \cup {x} = T
    OBVIOUS
  <2> QED
    BY <2>6, <2>7
<1>4. Nat \subseteq C
  <2> HIDE DEF C
  <2> QED
    BY <1>2, <1>3, NatSetInduction
<1> QED
  BY <1>1, <1>4

First(s) == CHOOSE x \in s : TRUE
Adds(g, f, D) == g = [s \in D |-> IF s = {} THEN 0 ELSE f[First(s)] + g[s \ {First(s)}]]

\* What the fold takes out of a set is an element of it.
LEMMA FirstIn == \A s : s # {} => First(s) \in s
BY DEF First

\* SumFunctionOnSet is the choice of a function that adds up, taken at the set.
LEMMA SumIsFold ==
    ASSUME NEW f, NEW S
    PROVE  SumFunctionOnSet(f, S) = (CHOOSE g : Adds(g, f, SUBSET S))[S]
BY DEF SumFunctionOnSet, FoldFunctionOnSet, MapThenFoldSet, Adds, First

\* There is a function that adds up over the subsets of a finite set.
LEMMA SumExists ==
    ASSUME NEW f, NEW S, IsFiniteSet(S)
    PROVE  \E g : Adds(g, f, SUBSET S)
<1> DEFINE L(n) == { s \in SUBSET S : Cardinality(s) <= n }
           C == { n \in Nat : \E g : Adds(g, f, L(n)) }
<1>1. \A T \in SUBSET S : IsFiniteSet(T) /\ Cardinality(T) \in Nat
  BY FS_Subset, FS_CardinalityType
<1>2. 0 \in C
  <2>1. \A s : s \in L(0) <=> s = {}
    BY <1>1, FS_EmptySet
  <2> DEFINE g == [s \in L(0) |-> 0]
  <2>2. Adds(g, f, L(0))
    BY <2>1 DEF Adds
  <2> QED
    BY <2>2
<1>3. ASSUME NEW n \in Nat, n \in C PROVE n + 1 \in C
  <2>1. PICK g : Adds(g, f, L(n))
    BY <1>3
  <2> DEFINE h == [s \in L(n + 1) |-> IF s = {} THEN 0 ELSE f[First(s)] + g[s \ {First(s)}]]
  <2>2. \A s \in L(n + 1) : s # {} => s \ {First(s)} \in L(n) /\ s \ {First(s)} \in L(n + 1)
    <3>1. SUFFICES ASSUME NEW s \in L(n + 1), s # {}
                   PROVE  s \ {First(s)} \in L(n) /\ s \ {First(s)} \in L(n + 1)
      OBVIOUS
    <3>2. First(s) \in s
      BY <3>1, FirstIn
    <3>3. Cardinality(s \ {First(s)}) = Cardinality(s) - 1
      BY <1>1, <3>2, FS_RemoveElement
    <3> QED
      BY <1>1, <3>1, <3>3
  <2>3. \A s \in L(n) : s \in L(n + 1) /\ h[s] = g[s]
    <3>1. \A s \in L(n) : s \in L(n + 1)
      BY <1>1
    <3>2. \A s \in L(n) : g[s] = IF s = {} THEN 0 ELSE f[First(s)] + g[s \ {First(s)}]
      <4> HIDE DEF L
      <4> QED
      BY <2>1 DEF Adds
    <3> HIDE DEF L
    <3> QED
      BY <3>1, <3>2
  <2>4. Adds(h, f, L(n + 1))
    <3> HIDE DEF L
    <3> QED
      BY <2>2, <2>3 DEF Adds
  <2> HIDE DEF L, h
  <2> QED
    BY <2>4
<1>4. Nat \subseteq C
  <2> HIDE DEF C
  <2> QED
    BY <1>2, <1>3, NatSetInduction
<1>5. Cardinality(S) \in C
  BY <1>1, <1>4
<1>6. L(Cardinality(S)) = SUBSET S
  BY <1>1, FS_Subset
<1> HIDE DEF L
<1> QED
  BY <1>5, <1>6

\* Two functions that add up agree, also when one covers fewer subsets.
LEMMA SumUnique ==
    ASSUME NEW f, NEW S, IsFiniteSet(S), NEW T \in SUBSET S,
           NEW g, NEW h, Adds(g, f, SUBSET S) /\ Adds(h, f, SUBSET T)
    PROVE  g[T] = h[T]
<1> DEFINE C == { n \in Nat : \A s \in SUBSET T : Cardinality(s) = n => g[s] = h[s] }
<1>1. \A s \in SUBSET T : IsFiniteSet(s) /\ Cardinality(s) \in Nat /\ s \in SUBSET S
  BY FS_Subset, FS_CardinalityType
<1>0. \A s \in SUBSET T : /\ g[s] = IF s = {} THEN 0 ELSE f[First(s)] + g[s \ {First(s)}]
                          /\ h[s] = IF s = {} THEN 0 ELSE f[First(s)] + h[s \ {First(s)}]
  BY <1>1 DEF Adds
<1>2. 0 \in C
  BY <1>0, <1>1, FS_EmptySet
<1>3. ASSUME NEW n \in Nat, n \in C PROVE n + 1 \in C
  <2>1. SUFFICES ASSUME NEW s \in SUBSET T, Cardinality(s) = n + 1 PROVE g[s] = h[s]
    OBVIOUS
  <2>0. \A t \in SUBSET T : Cardinality(t) = n => g[t] = h[t]
    BY <1>3
  <2> HIDE DEF C
  <2>2. s # {}
    <3>1. SUFFICES ASSUME s = {} PROVE FALSE
      OBVIOUS
    <3> QED
      BY <2>1, <3>1, FS_EmptySet
  <2>5. First(s) \in s
    BY <2>2, FirstIn
  <2>3. Cardinality(s \ {First(s)}) = Cardinality(s) - 1
    BY <1>1, <2>5, FS_RemoveElement
  <2>4. g[s \ {First(s)}] = h[s \ {First(s)}]
    BY <2>0, <2>1, <2>3
  <2> QED
    BY <1>0, <2>2, <2>4
<1>4. Nat \subseteq C
  <2> HIDE DEF C
  <2> QED
    BY <1>2, <1>3, NatSetInduction
<1> QED
  BY <1>1, <1>4

\* A sum is its first element and the sum of the others.
LEMMA SumRec ==
    ASSUME NEW f, NEW S, IsFiniteSet(S)
    PROVE  SumFunctionOnSet(f, S) =
              IF S = {} THEN 0
              ELSE f[First(S)] + SumFunctionOnSet(f, S \ {First(S)})
<1> DEFINE g == CHOOSE x : Adds(x, f, SUBSET S)
           T == S \ {First(S)}
           h == CHOOSE x : Adds(x, f, SUBSET T)
<1>1. Adds(g, f, SUBSET S)
  BY SumExists
<1>2. IsFiniteSet(T)
  BY FS_RemoveElement
<1>3. Adds(h, f, SUBSET T)
  <2> HIDE DEF T
  <2> QED
  BY <1>2, SumExists
<1>4. g[S] = SumFunctionOnSet(f, S) /\ h[T] = SumFunctionOnSet(f, T)
  BY SumIsFold
<1> HIDE DEF g, h
<1>5. g[T] = h[T]
  <2>1. T \in SUBSET S
    OBVIOUS
  <2> HIDE DEF T
  <2> QED
    <3>1. \A x, y : Adds(x, f, SUBSET S) /\ Adds(y, f, SUBSET T) => x[T] = y[T]
      BY <2>1, SumUnique
    <3> QED
      BY <1>1, <1>3, <3>1
<1>6. g[S] = IF S = {} THEN 0 ELSE f[First(S)] + g[T]
  BY <1>1 DEF Adds
<1> QED
  BY <1>4, <1>5, <1>6

\* Nothing adds up to zero.
LEMMA SumEmpty == ASSUME NEW f PROVE SumFunctionOnSet(f, {}) = 0
BY SumRec, FS_EmptySet

\* A sum of integers is an integer.
LEMMA SumInt ==
    ASSUME NEW f, NEW S, IsFiniteSet(S), \A x \in S : f[x] \in Int
    PROVE  SumFunctionOnSet(f, S) \in Int
<1> DEFINE C == { n \in Nat : \A T \in SUBSET S : Cardinality(T) = n =>
                                    SumFunctionOnSet(f, T) \in Int }
<1>1. \A T \in SUBSET S : IsFiniteSet(T) /\ Cardinality(T) \in Nat
  BY FS_Subset, FS_CardinalityType
<1>2. 0 \in C
  BY <1>1, FS_EmptySet, SumEmpty
<1>3. ASSUME NEW n \in Nat, n \in C PROVE n + 1 \in C
  <2>1. SUFFICES ASSUME NEW T \in SUBSET S, Cardinality(T) = n + 1
                 PROVE  SumFunctionOnSet(f, T) \in Int
    OBVIOUS
  <2>2. \A U \in SUBSET S : Cardinality(U) = n => SumFunctionOnSet(f, U) \in Int
    BY <1>3
  <2> HIDE DEF C
  <2>3. T # {}
    <3>1. SUFFICES ASSUME T = {} PROVE FALSE
      OBVIOUS
    <3> QED
      BY <2>1, <3>1, FS_EmptySet
  <2>4. First(T) \in T
    BY <2>3, FirstIn
  <2>5. Cardinality(T \ {First(T)}) = Cardinality(T) - 1
    BY <1>1, <2>4, FS_RemoveElement
  <2>6. SumFunctionOnSet(f, T \ {First(T)}) \in Int
    BY <2>1, <2>2, <2>5
  <2>7. SumFunctionOnSet(f, T) = f[First(T)] + SumFunctionOnSet(f, T \ {First(T)})
    BY <1>1, <2>3, SumRec
  <2> QED
    BY <2>4, <2>6, <2>7
<1>4. Nat \subseteq C
  <2> HIDE DEF C
  <2> QED
    BY <1>2, <1>3, NatSetInduction
<1>5. Cardinality(S) \in C
  BY <1>1, <1>4
<1> QED
  BY <1>5

\* Any element may be taken out of a sum, not only the first.
LEMMA SumRemove ==
    ASSUME NEW f, NEW S, IsFiniteSet(S), \A x \in S : f[x] \in Int, NEW x \in S
    PROVE  SumFunctionOnSet(f, S) = f[x] + SumFunctionOnSet(f, S \ {x})
<1> DEFINE Splits(T) == \A y \in T : SumFunctionOnSet(f, T) = f[y] + SumFunctionOnSet(f, T \ {y})
           C == { n \in Nat : \A T \in SUBSET S : Cardinality(T) = n => Splits(T) }
<1>1. \A T \in SUBSET S : IsFiniteSet(T) /\ Cardinality(T) \in Nat
  BY FS_Subset, FS_CardinalityType
<1>2. 0 \in C
  BY <1>1, FS_EmptySet
<1>3. ASSUME NEW n \in Nat, n \in C PROVE n + 1 \in C
  <2>1. SUFFICES ASSUME NEW T \in SUBSET S, Cardinality(T) = n + 1, NEW y \in T
                 PROVE  SumFunctionOnSet(f, T) = f[y] + SumFunctionOnSet(f, T \ {y})
    OBVIOUS
  <2>2. \A U \in SUBSET S : Cardinality(U) = n => Splits(U)
    BY <1>3
  <2> HIDE DEF C
  <2> DEFINE z == First(T)
             R == (T \ {y}) \ {z}
  <2>3. z \in T
    BY FirstIn
  <2>4. SumFunctionOnSet(f, T) = f[z] + SumFunctionOnSet(f, T \ {z})
    BY <1>1, SumRec
  <2> HIDE DEF z
  <2>5. /\ Cardinality(T \ {y}) = Cardinality(T) - 1
        /\ Cardinality(T \ {z}) = Cardinality(T) - 1
    BY <1>1, <2>3, FS_RemoveElement
  <2>6. CASE y = z
    BY <2>4, <2>6
  <2>7. CASE y # z
    <3>1. Splits(T \ {y}) /\ Splits(T \ {z})
      <4> HIDE DEF Splits
      <4> QED
        BY <2>1, <2>2, <2>5
    <3>2. SumFunctionOnSet(f, T \ {y}) = f[z] + SumFunctionOnSet(f, R)
      BY <2>3, <2>7, <3>1
    <3>3. SumFunctionOnSet(f, T \ {z}) = f[y] + SumFunctionOnSet(f, (T \ {z}) \ {y})
      BY <2>7, <3>1
    <3>4. (T \ {z}) \ {y} = R
      OBVIOUS
    <3>5. SumFunctionOnSet(f, R) \in Int
      <4>1. R \in SUBSET S
        OBVIOUS
      <4>2. IsFiniteSet(R) /\ \A w \in R : f[w] \in Int
        BY <1>1, <4>1
      <4> HIDE DEF R
      <4> QED
        BY <4>2, SumInt
    <3>6. SumFunctionOnSet(f, (T \ {z}) \ {y}) = SumFunctionOnSet(f, R)
      BY <3>4
    <3>7. f[y] \in Int /\ f[z] \in Int
      BY <2>3
    <3> HIDE DEF R
    <3> QED
      BY <2>4, <3>2, <3>3, <3>5, <3>6, <3>7
  <2> QED
    BY <2>6, <2>7
<1>4. Nat \subseteq C
  <2> HIDE DEF C
  <2> QED
    BY <1>2, <1>3, NatSetInduction
<1>5. Cardinality(S) \in C
  BY <1>1, <1>4
<1> QED
  BY <1>5

\* A new element adds its value to the sum.
LEMMA SumAdd ==
    ASSUME NEW f, NEW S, IsFiniteSet(S), NEW x, x \notin S,
           \A y \in S \cup {x} : f[y] \in Int
    PROVE  SumFunctionOnSet(f, S \cup {x}) = SumFunctionOnSet(f, S) + f[x]
<1>1. IsFiniteSet(S \cup {x}) /\ (S \cup {x}) \ {x} = S
  BY FS_AddElement
<1>2. SumFunctionOnSet(f, S \cup {x}) = f[x] + SumFunctionOnSet(f, (S \cup {x}) \ {x})
  BY <1>1, SumRemove
<1>3. SumFunctionOnSet(f, S) \in Int
  BY SumInt
<1>4. SumFunctionOnSet(f, (S \cup {x}) \ {x}) = SumFunctionOnSet(f, S)
  BY <1>1
<1>5. f[x] \in Int
  OBVIOUS
<1> QED
  BY <1>2, <1>3, <1>4, <1>5

\* A sum depends only on the values over its set.
LEMMA SumSame ==
    ASSUME NEW f, NEW g, NEW S, IsFiniteSet(S), \A x \in S : f[x] = g[x]
    PROVE  SumFunctionOnSet(f, S) = SumFunctionOnSet(g, S)
<1> DEFINE C == { n \in Nat : \A T \in SUBSET S : Cardinality(T) = n =>
                                  SumFunctionOnSet(f, T) = SumFunctionOnSet(g, T) }
<1>1. \A T \in SUBSET S : IsFiniteSet(T) /\ Cardinality(T) \in Nat
  BY FS_Subset, FS_CardinalityType
<1>2. 0 \in C
  BY <1>1, FS_EmptySet, SumEmpty
<1>3. ASSUME NEW n \in Nat, n \in C PROVE n + 1 \in C
  <2>1. SUFFICES ASSUME NEW T \in SUBSET S, Cardinality(T) = n + 1
                 PROVE  SumFunctionOnSet(f, T) = SumFunctionOnSet(g, T)
    OBVIOUS
  <2>2. \A U \in SUBSET S : Cardinality(U) = n => SumFunctionOnSet(f, U) = SumFunctionOnSet(g, U)
    BY <1>3
  <2> HIDE DEF C
  <2>3. T # {}
    <3>1. SUFFICES ASSUME T = {} PROVE FALSE
      OBVIOUS
    <3> QED
      BY <2>1, <3>1, FS_EmptySet
  <2>4. First(T) \in T
    BY <2>3, FirstIn
  <2>5. Cardinality(T \ {First(T)}) = Cardinality(T) - 1
    BY <1>1, <2>4, FS_RemoveElement
  <2>6. SumFunctionOnSet(f, T \ {First(T)}) = SumFunctionOnSet(g, T \ {First(T)})
    BY <2>1, <2>2, <2>5
  <2>7. /\ SumFunctionOnSet(f, T) = f[First(T)] + SumFunctionOnSet(f, T \ {First(T)})
        /\ SumFunctionOnSet(g, T) = g[First(T)] + SumFunctionOnSet(g, T \ {First(T)})
    BY <1>1, <2>3, SumRec
  <2> QED
    BY <2>4, <2>6, <2>7
<1>4. Nat \subseteq C
  <2> HIDE DEF C
  <2> QED
    BY <1>2, <1>3, NatSetInduction
<1>5. Cardinality(S) \in C
  BY <1>1, <1>4
<1> QED
  BY <1>5

\* A sum follows the one value of it that changes.
LEMMA SumChange ==
    ASSUME NEW f, NEW g, NEW S, IsFiniteSet(S), NEW x \in S,
           \A y \in S : f[y] \in Int /\ g[y] \in Int,
           \A y \in S \ {x} : f[y] = g[y]
    PROVE  SumFunctionOnSet(g, S) = SumFunctionOnSet(f, S) + (g[x] - f[x])
<1>1. /\ SumFunctionOnSet(f, S) = f[x] + SumFunctionOnSet(f, S \ {x})
      /\ SumFunctionOnSet(g, S) = g[x] + SumFunctionOnSet(g, S \ {x})
  BY SumRemove
<1>2. IsFiniteSet(S \ {x}) /\ \A y \in S \ {x} : f[y] \in Int
  BY FS_RemoveElement
<1>3. SumFunctionOnSet(f, S \ {x}) = SumFunctionOnSet(g, S \ {x})
  BY <1>2, SumSame
<1>4. SumFunctionOnSet(f, S \ {x}) \in Int
  BY <1>2, SumInt
<1>5. f[x] \in Int /\ g[x] \in Int
  OBVIOUS
<1> QED
  BY <1>1, <1>3, <1>4, <1>5

\* A sum of natural numbers is one.
LEMMA SumNat ==
    ASSUME NEW f, NEW S, IsFiniteSet(S), \A x \in S : f[x] \in Nat
    PROVE  SumFunctionOnSet(f, S) \in Nat
<1> DEFINE P == {T \in SUBSET S : SumFunctionOnSet(f, T) \in Nat}
<1>1. {} \in P
  BY SumEmpty
<1>2. ASSUME NEW T \in SUBSET S, NEW x \in S, T \in P, x \notin T PROVE T \cup {x} \in P
  <2>1. IsFiniteSet(T) /\ \A y \in T \cup {x} : f[y] \in Int
    BY FS_Subset
  <2>2. SumFunctionOnSet(f, T \cup {x}) = SumFunctionOnSet(f, T) + f[x]
    BY <1>2, <2>1, SumAdd
  <2>3. SumFunctionOnSet(f, T) \in Nat /\ f[x] \in Nat
    BY <1>2
  <2> QED
    BY <2>2, <2>3
<1> HIDE DEF P
<1>3. S \in P
  BY <1>1, <1>2, SubsetInduction
<1> QED
  BY <1>3 DEF P

\* A sum of zeros is zero.
LEMMA SumZero ==
    ASSUME NEW S, IsFiniteSet(S)
    PROVE  SumFunctionOnSet([x \in S |-> 0], S) = 0
<1> DEFINE f == [x \in S |-> 0]
           P == {T \in SUBSET S : SumFunctionOnSet(f, T) = 0}
<1>1. {} \in P
  BY SumEmpty
<1>2. ASSUME NEW T \in SUBSET S, NEW x \in S, T \in P, x \notin T PROVE T \cup {x} \in P
  <2>1. IsFiniteSet(T) /\ (\A y \in T \cup {x} : f[y] \in Int) /\ f[x] = 0
    BY FS_Subset
  <2> HIDE DEF f
  <2>2. SumFunctionOnSet(f, T \cup {x}) = SumFunctionOnSet(f, T) + f[x]
    BY <1>2, <2>1, SumAdd
  <2>3. SumFunctionOnSet(f, T) = 0
    BY <1>2
  <2> QED
    BY <2>1, <2>2, <2>3
<1> HIDE DEF P, f
<1>3. S \in P
  BY <1>1, <1>2, SubsetInduction
<1> QED
  BY <1>3 DEF P, f

-----------------------------------------------------------------------------
(* Sums over the rows of a table: w weighs a row, K are the rows that count. *)

Tally(s, w, K) ==
    SumFunctionOnSet([n \in DOMAIN s |-> w[s[n]]], {n \in DOMAIN s : s[n] \in K})

\* A tally of integers is an integer.
LEMMA TallyInt ==
    ASSUME NEW R, NEW w \in [R -> Int], NEW K, NEW s \in Seq(R)
    PROVE  Tally(s, w, K) \in Int
<1> DEFINE f == [n \in DOMAIN s |-> w[s[n]]]
           N == {n \in DOMAIN s : s[n] \in K}
<1>1. DOMAIN s = 1..Len(s) /\ Len(s) \in Nat /\ \A n \in DOMAIN s : s[n] \in R
  OBVIOUS
<1>2. N \in SUBSET (1..Len(s)) /\ IsFiniteSet(1..Len(s))
  BY <1>1, FS_Interval
<1>3. IsFiniteSet(N)
  BY <1>2, FS_Subset
<1>4. \A n \in N : f[n] \in Int
  BY <1>1
<1> HIDE DEF f, N
<1>5. SumFunctionOnSet(f, N) \in Int
  BY <1>3, <1>4, SumInt
<1> QED
  BY <1>5 DEF Tally, f, N

\* A row that is appended adds its weight if it counts.
LEMMA TallyAppend ==
    ASSUME NEW R, NEW w \in [R -> Int], NEW K, NEW s \in Seq(R), NEW e \in R
    PROVE  Tally(Append(s, e), w, K) = Tally(s, w, K) + (IF e \in K THEN w[e] ELSE 0)
<1> DEFINE f == [n \in DOMAIN s |-> w[s[n]]]
           N == {n \in DOMAIN s : s[n] \in K}
           t == Append(s, e)
           g == [n \in DOMAIN t |-> w[t[n]]]
           M == {n \in DOMAIN t : t[n] \in K}
           m == Len(s) + 1
<1>1. /\ DOMAIN s = 1..Len(s) /\ Len(s) \in Nat /\ \A n \in DOMAIN s : s[n] \in R
      /\ DOMAIN t = 1..m /\ t[m] = e /\ \A n \in DOMAIN s : t[n] = s[n]
  OBVIOUS
<1>2. N \in SUBSET (1..Len(s)) /\ IsFiniteSet(1..Len(s))
  BY <1>1, FS_Interval
<1>3. IsFiniteSet(N)
  BY <1>2, FS_Subset
<1> HIDE DEF t
<1>4. /\ m \notin N /\ g[m] = w[e] /\ w[e] \in Int
      /\ \A n \in N : f[n] = g[n] /\ f[n] \in Int /\ g[n] \in Int
  BY <1>1
<1>5. M = IF e \in K THEN N \cup {m} ELSE N
  BY <1>1
<1> HIDE DEF f, N, g, M, m
<1>6. SumFunctionOnSet(f, N) = SumFunctionOnSet(g, N) /\ SumFunctionOnSet(g, N) \in Int
  BY <1>3, <1>4, SumSame, SumInt
<1>7. e \in K => SumFunctionOnSet(g, N \cup {m}) = SumFunctionOnSet(g, N) + g[m]
  BY <1>3, <1>4, SumAdd
<1>8. SumFunctionOnSet(g, M) = SumFunctionOnSet(f, N) + (IF e \in K THEN w[e] ELSE 0)
  <2>1. CASE e \in K
    BY <1>4, <1>5, <1>6, <1>7, <2>1
  <2>2. CASE e \notin K
    BY <1>5, <1>6, <2>2
  <2> QED
    BY <2>1, <2>2
<1> QED
  BY <1>8 DEF Tally, f, N, g, M, t

\* Rows that do not count add up to nothing.
LEMMA TallyNone ==
    ASSUME NEW w, NEW K, NEW s, \A n \in DOMAIN s : s[n] \notin K
    PROVE  Tally(s, w, K) = 0
<1>1. {n \in DOMAIN s : s[n] \in K} = {}
  OBVIOUS
<1> QED
  BY <1>1, SumEmpty DEF Tally

=============================================================================
