------------------------ MODULE SignalEngine_proofs ------------------------
(***************************************************************************)
(* What the regime snapshots and the strategy runs of the worker say, for   *)
(* any number of bars, delays, thresholds, confirmations and cooldown, and  *)
(* any order in which bars arrive, are left out or have their values        *)
(* revised.                                                                 *)
(*                                                                          *)
(* The bar of a tick is never before a bar that has a row (RowsInTime), so  *)
(* a tick writes only the last row and what a row says of the rows up to it *)
(* stays true once a later bar has followed.  The invariant therefore says  *)
(* its part of every row (RowSound), in terms of the rows up to it.         *)
(***************************************************************************)
EXTENDS SignalEngine, FiniteSetTheorems, SequenceTheorems, WellFoundedInduction, TLAPS

\* The bars that have a row in a table of snapshots.
Rows(f) == {n \in BarNumbers : f[n] # NoSnapshot}

\* The rows of bars m to n have the regime of row n.
Unbroken(f, m, n) == \A k \in Rows(f) : m <= k /\ k <= n => f[k].regime = f[n].regime

StartAt(f, n) ==
    f[n].regime # "no_trade" =>
        \E m \in Rows(f) :
            /\ BarEnd(m) = f[n].starts /\ m <= n /\ Unbroken(f, m, n)
            /\ Previous(f, m) # NoSnapshot => Previous(f, m).regime # f[n].regime

LastRows(f, n, count) ==
    { m \in Rows(f) : m <= n /\ Cardinality({ k \in Rows(f) : m < k /\ k <= n }) < count }

SwitchAt(f, n) ==
    LET s == f[n]
        p == Previous(f, n)
    IN  p # NoSnapshot /\ "no_trade" \notin {s.regime, p.regime} /\ s.regime # p.regime =>
            /\ Cardinality(LastRows(f, n, ConfirmationBars)) = ConfirmationBars
            /\ \A m \in LastRows(f, n, ConfirmationBars) : f[m].candidate = s.regime
            /\ s.confirmed - p.confirmed >= Cooldown

\* The regime of row n was proposed and kept without a row that proposes no_trade.
LiveAt(f, n) ==
    f[n].regime # "no_trade" =>
        \E m \in Rows(f) :
            /\ m <= n /\ f[m].candidate = f[n].regime /\ Unbroken(f, m, n)
            /\ \A k \in Rows(f) : m <= k /\ k <= n => f[k].candidate # "no_trade"

RowSound(f, n) == StartAt(f, n) /\ SwitchAt(f, n) /\ LiveAt(f, n)

\* What a run saw before instant t, and what the table of snapshots f says since.
RunSound(run, f, t) ==
    LET n   == run.bar
        age == run.at - BarEnd(n)
    IN  /\ run.at < t /\ n \in Rows(f)
        /\ f[n].regime # run.regime => f[n].confirmed > run.at
        /\ age > MaxDataAge => run.regime = "no_trade"
        /\ run.intent => age >= SignalDelay /\ run.regime = "trend_up"

RowsInTime == \A n \in Rows(snapshot) : n \in stored /\ BarEnd(n) + SignalDelay <= now

Names == RegimeInputs \cup {"rsi", "close"}

ReadingsSound ==
    /\ DOMAIN indicator = BarNumbers
    /\ \A n \in BarNumbers : indicator[n] # NoSnapshot =>
          DOMAIN indicator[n] = Names
          /\ \A i \in Names : \E r \in Readings : indicator[n][i] = r[i]

SignalInv ==
    /\ now \in Nat /\ stored \subseteq BarNumbers /\ ReadingsSound
    /\ snapshot \in [BarNumbers -> SnapshotRow \cup {NoSnapshot}] /\ runs \in Seq(RunRow)
    /\ RowsInTime
    /\ \A n \in Rows(snapshot) : RowSound(snapshot, n)
    /\ \A i \in 1..Len(runs) : RunSound(runs[i], snapshot, now)

-----------------------------------------------------------------------------
(* Greatest elements, and the last few elements of a set of numbers         *)

\* A non-empty set of natural numbers has a least element.
LEMMA LeastExists ==
    ASSUME NEW S, S \subseteq Nat, S # {}
    PROVE  \E n \in S : \A m \in S : n <= m
<1> DEFINE R == OpToRel(<, Nat)
<1>1. PICK x \in S : \A y \in S : ~(<<y, x>> \in R)
  <2>1. IsWellFoundedOn(R, Nat)
    BY NatLessThanWellFounded
  <2> HIDE DEF R
  <2> QED
    BY <2>1, WFMin
<1>2. \A y \in S : ~(y < x)
  BY <1>1 DEF OpToRel
<1> QED
  BY <1>2

\* Induction, with the property as a set of numbers.
LEMMA NatSetInduction ==
    ASSUME NEW S, 0 \in S, \A n \in Nat : n \in S => n + 1 \in S
    PROVE  Nat \subseteq S
<1> SUFFICES ASSUME Nat \ S # {} PROVE FALSE
  OBVIOUS
<1> DEFINE T == Nat \ S
<1>1. T \subseteq Nat /\ T # {}
  OBVIOUS
<1> HIDE DEF T
<1>2. PICK x \in T : \A y \in T : x <= y
  BY <1>1, LeastExists
<1>3. x - 1 \in Nat /\ x - 1 \notin T
  BY <1>1, <1>2 DEF T
<1> QED
  BY <1>2, <1>3 DEF T

\* A non-empty set of numbers up to b has a greatest element.
LEMMA GreatestExists ==
    ASSUME NEW b \in Nat, NEW S, S \subseteq 1..b, S # {}
    PROVE  \E n \in S : \A m \in S : m <= n
<1> DEFINE D == {b - x : x \in S}
<1>1. D \subseteq Nat /\ D # {}
  <2>1. \A x \in S : b - x \in Nat
    OBVIOUS
  <2> QED
    BY <2>1
<1> HIDE DEF D
<1>2. PICK d \in D : \A e \in D : d <= e
  BY <1>1, LeastExists
<1>3. PICK n \in S : d = b - n
  BY <1>2 DEF D
<1>4. \A m \in S : b - n <= b - m
  BY <1>2, <1>3 DEF D
<1> QED
  BY <1>3, <1>4

\* The last count elements of W.
Top(W, count) == {m \in W : Cardinality({k \in W : m < k}) < count}

\* There are count of them, if W has as many elements.
LEMMA TopHasThatMany ==
    ASSUME NEW b \in Nat, NEW W, W \subseteq 1..b, NEW c \in Nat, c <= Cardinality(W)
    PROVE  Cardinality(Top(W, c)) = c
<1> DEFINE C == {n \in Nat : n <= Cardinality(W) => Cardinality(Top(W, n)) = n}
           Above(m) == {k \in W : m < k}
<1>1. IsFiniteSet(W) /\ Cardinality(W) \in Nat
  <2>1. IsFiniteSet(1..b)
    BY FS_Interval
  <2> QED
    BY <2>1, FS_Subset, FS_CardinalityType
<1>2. ASSUME NEW V, V \subseteq W PROVE IsFiniteSet(V) /\ Cardinality(V) \in Nat
  BY <1>1, <1>2, FS_Subset, FS_CardinalityType
<1>3. \A n, m : m \in Top(W, n) <=> m \in W /\ Cardinality(Above(m)) < n
  BY DEF Top
<1>4. \A m : Above(m) \subseteq W /\ Cardinality(Above(m)) \in Nat /\ IsFiniteSet(Above(m))
  <2>1. \A m : Above(m) \subseteq W
    OBVIOUS
  <2> HIDE DEF Above
  <2> QED
    BY <1>2, <2>1
<1>8. \A x, t : t \in Above(x) <=> t \in W /\ x < t
  OBVIOUS
<1> HIDE DEF Above
<1>0. ASSUME NEW y \in W, NEW z \in W, y < z
      PROVE  Above(z) \subseteq Above(y) /\ z \in Above(y) /\ z \notin Above(z)
  <2>1. y \in Nat /\ z \in Nat /\ \A k \in W : k \in Nat
    OBVIOUS
  <2>2. ASSUME NEW k \in Above(z) PROVE k \in Above(y)
    <3>1. k \in W /\ z < k
      BY <1>8
    <3>2. y < k
      BY <1>0, <2>1, <3>1
    <3> QED
      BY <1>8, <3>1, <3>2
  <2>3. z \in Above(y) /\ z \notin Above(z)
    BY <1>0, <1>8, <2>1
  <2> QED
    BY <2>2, <2>3
<1>5. 0 \in C
  <2>1. Top(W, 0) = {}
    BY <1>3, <1>4
  <2> QED
    BY <2>1, FS_EmptySet
<1>6. ASSUME NEW n \in Nat, n \in C, n + 1 <= Cardinality(W)
      PROVE  Cardinality(Top(W, n + 1)) = n + 1
  <2> DEFINE T == Top(W, n)
  <2>1. T \subseteq W /\ Cardinality(T) = n /\ IsFiniteSet(T)
    <3>1. T \subseteq W
      BY <1>3
    <3> QED
      BY <1>1, <1>2, <1>6, <3>1
  <2>2. W \ T # {}
    <3>1. T # W
      BY <1>1, <1>6, <2>1
    <3> QED
      BY <2>1, <3>1
  <2> HIDE DEF C
  <2>3. PICK x \in W \ T : \A y \in W \ T : y <= x
    <3>1. W \ T \subseteq 1..b
      OBVIOUS
    <3> HIDE DEF T
    <3> QED
      BY <2>2, <3>1, GreatestExists
  <2>5. ASSUME NEW y \in W, NEW z \in W, y \in T, y < z PROVE z \in T
    <3>1. Cardinality(Above(z)) <= Cardinality(Above(y))
      BY <1>0, <1>4, <2>5, FS_Subset
    <3> QED
      BY <1>3, <1>4, <2>5, <3>1
  <2>6. Above(x) = T
    <3>1. ASSUME NEW t \in T PROVE t \in Above(x)
      <4>1. t \in W /\ t # x /\ ~(t < x)
        BY <2>1, <2>3, <2>5
      <4> QED
        BY <1>8, <2>3, <4>1
    <3>2. ASSUME NEW t \in Above(x) PROVE t \in T
      <4>1. t \in W /\ x < t /\ x \in 1..b /\ t \in 1..b
        BY <1>8, <2>3
      <4> QED
        BY <2>3, <4>1
    <3> QED
      BY <3>1, <3>2
  <2>7. Top(W, n + 1) = T \cup {x}
    <3>1. x \in Top(W, n + 1)
      BY <1>3, <2>1, <2>3, <2>6
    <3>2. T \subseteq Top(W, n + 1)
      BY <1>3, <1>4
    <3>3. ASSUME NEW y \in W, y \notin T, y # x PROVE y \notin Top(W, n + 1)
      <4>1. y < x
        BY <2>3, <3>3
      <4>2. T \cup {x} \subseteq Above(y)
        BY <1>0, <2>3, <2>6, <3>3, <4>1
      <4>3. Cardinality(T \cup {x}) = n + 1
        BY <2>1, <2>3, FS_AddElement
      <4>4. Cardinality(T \cup {x}) <= Cardinality(Above(y))
        BY <1>4, <4>2, FS_Subset
      <4> QED
        BY <1>3, <1>4, <4>3, <4>4
    <3> QED
      BY <1>3, <2>3, <3>1, <3>2, <3>3
  <2> QED
    BY <2>1, <2>3, <2>7, FS_AddElement
<1>7. Nat \subseteq C
  <2>1. ASSUME NEW n \in Nat, n \in C PROVE n + 1 \in C
    <3>1. n + 1 <= Cardinality(W) => Cardinality(Top(W, n + 1)) = n + 1
      BY <1>6, <2>1
    <3> QED
      BY <3>1
  <2> HIDE DEF C
  <2> QED
    BY <1>5, <2>1, NatSetInduction
<1> QED
  BY <1>7

\* Upper parts of W contain its last elements, as many as they have themselves.
LEMMA TopIsInside ==
    ASSUME NEW b \in Nat, NEW W, W \subseteq 1..b, NEW c \in Nat, NEW U, U \subseteq W,
           \A u \in U, w \in W : u <= w => w \in U, c <= Cardinality(U)
    PROVE  Top(W, c) \subseteq U /\ c <= Cardinality(W)
<1>1. IsFiniteSet(W) /\ Cardinality(W) \in Nat
  <2>1. IsFiniteSet(1..b)
    BY FS_Interval
  <2> QED
    BY <2>1, FS_Subset, FS_CardinalityType
<1>2. ASSUME NEW m \in W, m \notin U PROVE m \notin Top(W, c)
  <2> DEFINE A == {k \in W : m < k}
  <2>1. U \subseteq A /\ A \subseteq W
    BY <1>2
  <2>2. IsFiniteSet(A) /\ Cardinality(A) \in Nat
    BY <1>1, <2>1, FS_Subset, FS_CardinalityType
  <2>3. Cardinality(U) <= Cardinality(A) /\ Cardinality(U) \in Nat
    BY <2>1, <2>2, FS_Subset, FS_CardinalityType
  <2> QED
    BY <2>2, <2>3 DEF Top
<1>3. Cardinality(U) <= Cardinality(W) /\ Cardinality(U) \in Nat
  BY <1>1, FS_Subset, FS_CardinalityType
<1>4. Top(W, c) \subseteq W
  BY DEF Top
<1>5. Top(W, c) \subseteq U
  BY <1>2, <1>4
<1> QED
  BY <1>1, <1>3, <1>5

-----------------------------------------------------------------------------
(* Rows and the rows before them                                            *)

\* _latest_previous_snapshot finds the last row before bar n, if there is one.
LEMMA PreviousIs ==
    ASSUME NEW f, DOMAIN f = BarNumbers, NEW n \in BarNumbers
    PROVE  \/ Previous(f, n) = NoSnapshot /\ Earlier(f, n) = {}
           \/ \E p \in Earlier(f, n) : /\ Previous(f, n) = f[p]
                                       /\ \A k \in Earlier(f, n) : k <= p
<1> DEFINE E == Earlier(f, n)
<1>1. E \subseteq 1..Bars /\ Bars \in Nat
  BY SignalAssumption DEF Earlier, BarNumbers
<1> HIDE DEF E
<1>2. CASE E = {}
  BY <1>2 DEF E, Previous
<1>3. CASE E # {}
  <2>1. \E p \in E : \A k \in E : k <= p
    BY <1>1, <1>3, GreatestExists
  <2>2. Previous(f, n) = f[CHOOSE p \in E : \A k \in E : k <= p]
    BY <1>3 DEF E, Previous
  <2> QED
    BY <2>1, <2>2 DEF E
<1> QED
  BY <1>2, <1>3

\* The rows before bar n.
LEMMA EarlierIs ==
    ASSUME NEW f, DOMAIN f = BarNumbers, NEW n \in BarNumbers
    PROVE  \A m : m \in Earlier(f, n) <=> m \in Rows(f) /\ m < n
BY DEF Earlier, Rows

\* The row before bar m is found among the rows before bar m.
LEMMA PreviousIsLocal ==
    ASSUME NEW f, DOMAIN f = BarNumbers, NEW g, DOMAIN g = BarNumbers, NEW m \in BarNumbers,
           \A k \in BarNumbers : k < m => g[k] = f[k]
    PROVE  Previous(g, m) = Previous(f, m)
<1>1. Earlier(g, m) = Earlier(f, m)
  BY DEF Earlier
<1>2. \A k \in Earlier(f, m) : g[k] = f[k] /\ k \in Nat
  BY DEF Earlier, BarNumbers
<1>3. CASE Earlier(f, m) = {}
  BY <1>1, <1>3, PreviousIs
<1>4. CASE Earlier(f, m) # {}
  <2>1. PICK x \in Earlier(f, m) : /\ Previous(f, m) = f[x]
                                  /\ \A k \in Earlier(f, m) : k <= x
    BY <1>4, PreviousIs
  <2>2. PICK y \in Earlier(f, m) : /\ Previous(g, m) = g[y]
                                  /\ \A k \in Earlier(f, m) : k <= y
    BY <1>1, <1>4, PreviousIs
  <2>3. x \in Nat /\ y \in Nat /\ x <= y /\ y <= x
    BY <1>2, <2>1, <2>2
  <2> QED
    BY <1>2, <2>1, <2>2, <2>3
<1> QED
  BY <1>3, <1>4

\* What is said of row n is said of the table up to bar n.
LEMMA RowSoundIsLocal ==
    ASSUME NEW f, DOMAIN f = BarNumbers, NEW g, DOMAIN g = BarNumbers,
           NEW n \in Rows(f), \A m \in BarNumbers : m <= n => g[m] = f[m], RowSound(f, n)
    PROVE  n \in Rows(g) /\ RowSound(g, n)
<1>1. BarNumbers \subseteq Nat /\ n \in BarNumbers /\ n \in Nat
  BY DEF BarNumbers, Rows
<1>2. g[n] = f[n] /\ \A m \in BarNumbers : m <= n => g[m] = f[m]
  BY <1>1
<1>0. ASSUME NEW m \in BarNumbers, m <= n PROVE Previous(g, m) = Previous(f, m)
  <2>1. \A k \in BarNumbers : k < m => k <= n
    BY <1>0, <1>1
  <2> QED
    BY <2>1, PreviousIsLocal
<1>3. /\ \A m : m \in Rows(f) => m \in BarNumbers
      /\ \A m : m \in Rows(g) => m \in BarNumbers
      /\ \A m \in BarNumbers : m <= n => (m \in Rows(f) <=> m \in Rows(g))
      /\ \A m \in BarNumbers : m <= n => Previous(g, m) = Previous(f, m)
  BY <1>0, <1>2 DEF Rows
<1>4. n \in Rows(g)
  BY <1>1, <1>3
<1>5. \A m : Unbroken(f, m, n) <=> Unbroken(g, m, n)
  BY <1>1, <1>2, <1>3 DEF Unbroken
<1>6. StartAt(g, n)
  <2> SUFFICES ASSUME g[n].regime # "no_trade"
               PROVE  \E m \in Rows(g) :
                        /\ BarEnd(m) = g[n].starts /\ m <= n /\ Unbroken(g, m, n)
                        /\ Previous(g, m) # NoSnapshot => Previous(g, m).regime # g[n].regime
    BY DEF StartAt
  <2>1. PICK m \in Rows(f) :
          /\ BarEnd(m) = f[n].starts /\ m <= n /\ Unbroken(f, m, n)
          /\ Previous(f, m) # NoSnapshot => Previous(f, m).regime # f[n].regime
    BY <1>2 DEF RowSound, StartAt
  <2> QED
    BY <1>2, <1>3, <1>5, <2>1
<1>7. LiveAt(g, n)
  <2> SUFFICES ASSUME g[n].regime # "no_trade"
               PROVE  \E m \in Rows(g) :
                        /\ m <= n /\ g[m].candidate = g[n].regime /\ Unbroken(g, m, n)
                        /\ \A k \in Rows(g) : m <= k /\ k <= n => g[k].candidate # "no_trade"
    BY DEF LiveAt
  <2>1. PICK m \in Rows(f) :
          /\ m <= n /\ f[m].candidate = f[n].regime /\ Unbroken(f, m, n)
          /\ \A k \in Rows(f) : m <= k /\ k <= n => f[k].candidate # "no_trade"
    BY <1>2 DEF RowSound, LiveAt
  <2> QED
    BY <1>2, <1>3, <1>5, <2>1
<1>8. \A c : LastRows(g, n, c) = LastRows(f, n, c)
  <2>1. \A m : {k \in Rows(g) : m < k /\ k <= n} = {k \in Rows(f) : m < k /\ k <= n}
    BY <1>1, <1>3
  <2> QED
    BY <1>1, <1>3, <2>1 DEF LastRows
<1>9. \A m \in LastRows(f, n, ConfirmationBars) : g[m] = f[m]
  BY <1>2, <1>3 DEF LastRows
<1>10. SwitchAt(g, n)
  <2> SUFFICES ASSUME Previous(g, n) # NoSnapshot,
                      "no_trade" \notin {g[n].regime, Previous(g, n).regime},
                      g[n].regime # Previous(g, n).regime
               PROVE  /\ Cardinality(LastRows(g, n, ConfirmationBars)) = ConfirmationBars
                      /\ \A m \in LastRows(g, n, ConfirmationBars) :
                            g[m].candidate = g[n].regime
                      /\ g[n].confirmed - Previous(g, n).confirmed >= Cooldown
    BY DEF SwitchAt
  <2>1. Previous(g, n) = Previous(f, n)
    BY <1>1, <1>3
  <2> QED
    BY <1>2, <1>8, <1>9, <2>1 DEF RowSound, SwitchAt
<1> QED
  BY <1>4, <1>6, <1>7, <1>10 DEF RowSound

\* The row a tick writes for the last bar, over the rows before it.
LEMMA NewRowSound ==
    ASSUME NEW f \in [BarNumbers -> SnapshotRow \cup {NoSnapshot}],
           \A m \in Rows(f) : RowSound(f, m),
           NEW n \in BarNumbers, \A m \in Rows(f) : m <= n,
           NEW candidate \in MarketRegime, NEW at \in Nat, NEW t,
           t = Transition(candidate, Previous(f, n), Confirmations(f, n, candidate), BarEnd(n), at),
           NEW row, row = [ regime |-> t.regime, candidate |-> candidate,
                            starts |-> t.starts, confirmed |-> at ],
           NEW g, g = [f EXCEPT ![n] = row]
    PROVE  row \in SnapshotRow /\ RowSound(g, n)
<1>1. BarNumbers \subseteq Nat /\ n \in Nat /\ BarEnd(n) \in Nat
  BY SignalAssumption DEF BarNumbers, BarEnd
<1>2. DOMAIN f = BarNumbers /\ DOMAIN g = BarNumbers /\ g[n] = row
      /\ \A m \in BarNumbers : m # n => g[m] = f[m]
  OBVIOUS
<1>3. /\ row.regime = t.regime /\ row.candidate = candidate
      /\ row.starts = t.starts /\ row.confirmed = at
  OBVIOUS
<1> DEFINE p == Previous(f, n)
           E == Earlier(f, n)
<1>4. /\ \A m : m \in E <=> m \in Rows(f) /\ m < n
      /\ \A m \in Rows(f) : m \in BarNumbers /\ f[m] \in SnapshotRow
  BY <1>2, EarlierIs DEF Rows
<1>5. \/ p = NoSnapshot /\ E = {}
      \/ \E q \in E : p = f[q] /\ p # NoSnapshot /\ \A k \in E : k <= q
  <2>1. \A q \in E : f[q] # NoSnapshot
    BY DEF Earlier
  <2> QED
    BY <1>2, <2>1, PreviousIs
<1>6. p # NoSnapshot => p \in SnapshotRow
  BY <1>4, <1>5
<1> HIDE DEF p, E
<1>7. \/ /\ p = NoSnapshot \/ candidate = "no_trade" \/ p.regime = "no_trade"
         /\ t.regime = candidate /\ t.starts = BarEnd(n)
      \/ /\ p # NoSnapshot /\ candidate # "no_trade" /\ p.regime # "no_trade"
         /\ \/ /\ t.regime = p.regime /\ t.starts = p.starts
            \/ /\ candidate # p.regime /\ ~(at - p.confirmed < Cooldown)
               /\ ~(Confirmations(f, n, candidate) < ConfirmationBars)
               /\ t.regime = candidate /\ t.starts = BarEnd(n)
  BY DEF p, Transition
<1>8. row \in SnapshotRow
  <2>1. p # NoSnapshot => p.regime \in MarketRegime /\ p.starts \in Nat /\ p.confirmed \in Nat
    BY <1>6 DEF SnapshotRow
  <2>2. t.regime \in MarketRegime /\ t.starts \in Nat
    BY <1>1, <1>7, <2>1
  <2> QED
    BY <2>2 DEF SnapshotRow
<1>9. row # NoSnapshot
  BY <1>8, SignalAssumption DEF SnapshotRow
<1>10. /\ \A m : m \in Rows(g) <=> m = n \/ m \in E
       /\ \A m \in E : m \in BarNumbers /\ m \in Nat /\ m < n /\ g[m] = f[m] /\ m \in Rows(f)
       /\ n \in Rows(g)
  <2>1. ASSUME NEW m \in Rows(f) PROVE m = n \/ m < n
    <3>1. m \in Nat /\ m <= n
      BY <1>1, <1>4
    <3> QED
      BY <1>1, <3>1
  <2>2. \A m \in BarNumbers : m \in Rows(g) <=> m = n \/ m \in Rows(f)
    BY <1>2, <1>9 DEF Rows
  <2>3. \A m : m \in Rows(g) => m \in BarNumbers
    BY DEF Rows
  <2>4. \A m \in E : m \in Rows(f) /\ m < n /\ m \in BarNumbers
    BY <1>4
  <2>5. \A m : m \in Rows(g) <=> m = n \/ m \in E
    BY <1>4, <2>1, <2>2, <2>3, <2>4
  <2>6. ASSUME NEW m \in E PROVE m \in Nat /\ m # n /\ g[m] = f[m]
    <3>1. m \in Nat /\ m < n
      BY <1>1, <2>4
    <3> QED
      BY <1>1, <1>2, <2>4, <3>1
  <2> QED
    BY <2>4, <2>5, <2>6
<1>11. \A m \in BarNumbers : m <= n => Previous(g, m) = Previous(f, m)
  <2>1. ASSUME NEW m \in BarNumbers, m <= n PROVE Previous(g, m) = Previous(f, m)
    <3>1. \A k \in BarNumbers : k < m => g[k] = f[k]
      BY <1>1, <1>2, <2>1
    <3>2. DOMAIN f = BarNumbers /\ DOMAIN g = BarNumbers
      BY <1>2
    <3> QED
      BY ONLY m \in BarNumbers, <2>1, <3>1, <3>2, PreviousIsLocal
  <2> QED
    BY <2>1
<1>12. Previous(g, n) = p
  <2>1. n <= n
    BY <1>1
  <2> QED
    BY <1>11, <2>1 DEF p
\* A row that keeps a regime extends the stretch of the row before it.
<1>13. CASE /\ p # NoSnapshot /\ candidate # "no_trade" /\ p.regime # "no_trade"
            /\ t.regime = p.regime /\ t.starts = p.starts
  <2>1. PICK q \in E : p = f[q] /\ \A k \in E : k <= q
    BY <1>5, <1>13
  <2>2. q \in Rows(f) /\ q \in Nat /\ q < n /\ g[q] = f[q]
    BY <1>10
  <2>3. RowSound(f, q) /\ f[q].regime # "no_trade"
    BY <1>13, <2>1, <2>2
  <2>4. ASSUME NEW m, Unbroken(f, m, q) PROVE Unbroken(g, m, n)
    <3>1. ASSUME NEW k \in E, m <= k PROVE g[k].regime = g[n].regime
      BY <1>2, <1>3, <1>10, <1>13, <2>1, <2>4, <3>1 DEF Unbroken
    <3> QED
      BY <1>10, <3>1 DEF Unbroken
  <2>5. StartAt(g, n)
    <3>1. PICK m \in Rows(f) :
            /\ BarEnd(m) = f[q].starts /\ m <= q /\ Unbroken(f, m, q)
            /\ Previous(f, m) # NoSnapshot => Previous(f, m).regime # f[q].regime
      BY <2>3 DEF RowSound, StartAt
    <3>2. m \in Nat /\ m \in BarNumbers /\ m < n /\ m <= n
      BY <1>1, <1>4, <2>2, <3>1
    <3>3. m \in Rows(g) /\ Previous(g, m) = Previous(f, m)
      BY <1>4, <1>10, <1>11, <3>2
    <3>4. Unbroken(g, m, n)
      BY <2>4, <3>1
    <3> QED
      BY <1>2, <1>3, <1>13, <2>1, <3>1, <3>2, <3>3, <3>4 DEF StartAt
  <2>6. LiveAt(g, n)
    <3>1. PICK m \in Rows(f) :
            /\ m <= q /\ f[m].candidate = f[q].regime /\ Unbroken(f, m, q)
            /\ \A k \in Rows(f) : m <= k /\ k <= q => f[k].candidate # "no_trade"
      BY <2>3 DEF RowSound, LiveAt
    <3>2. m \in Nat /\ m \in BarNumbers /\ m < n /\ m <= n
      BY <1>1, <1>4, <2>2, <3>1
    <3>3. m \in Rows(g) /\ m \in E
      BY <1>4, <1>10, <3>2
    <3>4. Unbroken(g, m, n)
      BY <2>4, <3>1
    <3>5. ASSUME NEW k \in Rows(g), m <= k PROVE g[k].candidate # "no_trade"
      BY <1>2, <1>3, <1>10, <1>13, <2>1, <3>1, <3>5
    <3>6. g[m].candidate = g[n].regime
      BY <1>2, <1>3, <1>10, <1>13, <2>1, <3>1, <3>3
    <3> QED
      BY <3>2, <3>3, <3>4, <3>5, <3>6 DEF LiveAt
  <2>7. SwitchAt(g, n)
    BY <1>2, <1>3, <1>12, <1>13 DEF SwitchAt
  <2> QED
    BY <1>8, <2>5, <2>6, <2>7 DEF RowSound
\* A row that takes the regime its bar proposes begins a stretch.
<1>14. CASE t.regime = candidate /\ t.starts = BarEnd(n)
            /\ (p # NoSnapshot /\ candidate # "no_trade" => p.regime # candidate)
  <2>1. Unbroken(g, n, n)
    <3>1. \A k \in Rows(g) : n <= k => k = n
      BY <1>1, <1>10
    <3> QED
      BY <3>1 DEF Unbroken
  <2>2. StartAt(g, n)
    BY <1>1, <1>2, <1>3, <1>10, <1>12, <1>14, <2>1 DEF StartAt
  <2>3. LiveAt(g, n)
    <3>1. \A k \in Rows(g) : n <= k => k = n
      BY <1>1, <1>10
    <3> QED
      BY <1>1, <1>2, <1>3, <1>10, <1>14, <2>1, <3>1 DEF LiveAt
  <2>4. SwitchAt(g, n)
    <3> SUFFICES ASSUME p # NoSnapshot, "no_trade" \notin {row.regime, p.regime},
                        row.regime # p.regime
                 PROVE  /\ Cardinality(LastRows(g, n, ConfirmationBars)) = ConfirmationBars
                        /\ \A m \in LastRows(g, n, ConfirmationBars) :
                              g[m].candidate = row.regime
                        /\ row.confirmed - p.confirmed >= Cooldown
      BY <1>2, <1>12 DEF SwitchAt
    <3>1. /\ candidate # "no_trade" /\ ~(at - p.confirmed < Cooldown)
          /\ ~(Confirmations(f, n, candidate) < ConfirmationBars)
      BY <1>3, <1>7, <1>14
    <3>2. row.confirmed - p.confirmed >= Cooldown
      <4>1. p.confirmed \in Nat /\ Cooldown \in Nat
        BY <1>6, RegimeDetectorConfig DEF SnapshotRow
      <4> QED
        BY <1>3, <3>1, <4>1
    <3> DEFINE S == {m \in E : \A k \in E : k >= m => f[k].candidate = candidate}
               U == S \cup {n}
               W == Rows(g)
    <3>3. /\ W \subseteq 1..Bars /\ Bars \in Nat /\ IsFiniteSet(S) /\ S \subseteq E
      <4>1. W \subseteq 1..Bars /\ Bars \in Nat /\ IsFiniteSet(1..Bars)
        BY SignalAssumption, FS_Interval DEF Rows, BarNumbers
      <4>2. S \subseteq E /\ S \subseteq W
        BY <1>10
      <4> QED
        BY <4>1, <4>2, FS_Subset
    <3>4. Cardinality(U) = Cardinality(S) + 1 /\ Cardinality(S) \in Nat
      <4>1. n \notin S
        BY <1>1, <1>10
      <4> HIDE DEF S
      <4> QED
        BY <3>3, <4>1, FS_AddElement, FS_CardinalityType
    <3>5. ConfirmationBars <= Cardinality(U) /\ ConfirmationBars \in Nat
      <4>1. Confirmations(f, n, candidate) = 1 + Cardinality(S)
        BY DEF Confirmations, E
      <4> QED
        BY <3>1, <3>4, <4>1, RegimeDetectorConfig
    <3>6. U \subseteq W /\ \A u \in U, w \in W : u <= w => w \in U
      <4>1. ASSUME NEW u \in S, NEW w \in E, u <= w PROVE w \in S
        <5>1. \A k \in E : k >= w => k >= u
          BY <1>10, <3>3, <4>1
        <5> QED
          BY <4>1, <5>1
      <4>2. \A w \in W : w = n \/ w \in E
        BY <1>10
      <4>3. \A w \in E : ~(n <= w)
        BY <1>1, <1>10
      <4>4. U \subseteq W /\ n \in U /\ S \subseteq U
        BY <1>10, <3>3
      <4>5. ASSUME NEW u \in U, NEW w \in W, u <= w PROVE w \in U
        <5>1. CASE w = n
          BY <4>4, <5>1
        <5>2. CASE w \in E
          BY <4>1, <4>3, <4>4, <4>5, <5>2
        <5> QED
          BY <4>2, <5>1, <5>2
      <4> QED
        BY <4>4, <4>5
    <3> HIDE DEF S, W
    <3>7. Top(W, ConfirmationBars) \subseteq U /\ ConfirmationBars <= Cardinality(W)
      <4> HIDE DEF U
      <4> QED
        BY <3>3, <3>5, <3>6, TopIsInside
    <3>8. Cardinality(Top(W, ConfirmationBars)) = ConfirmationBars
      BY <3>3, <3>5, <3>7, TopHasThatMany
    <3>9. LastRows(g, n, ConfirmationBars) = Top(W, ConfirmationBars)
      <4>1. \A k \in W : k <= n
        BY <1>1, <1>10 DEF W
      <4>2. \A m : {k \in W : m < k /\ k <= n} = {k \in W : m < k}
        BY <4>1
      <4>3. LastRows(g, n, ConfirmationBars) =
              {m \in W : m <= n /\ Cardinality({k \in W : m < k /\ k <= n}) < ConfirmationBars}
        BY DEF LastRows, W
      <4>4. Top(W, ConfirmationBars) =
              {m \in W : Cardinality({k \in W : m < k}) < ConfirmationBars}
        BY DEF Top
      <4>5. \A m : Cardinality({k \in W : m < k /\ k <= n}) = Cardinality({k \in W : m < k})
        BY <4>2
      <4> QED
        BY <4>1, <4>3, <4>4, <4>5
    <3>10. \A m \in U : g[m].candidate = candidate
      <4>1. \A m \in S : f[m].candidate = candidate
        BY <1>10 DEF S
      <4> QED
        BY <1>2, <1>3, <1>10, <3>3, <4>1
    <3> QED
      BY <1>3, <1>14, <3>2, <3>7, <3>8, <3>9, <3>10
  <2> QED
    BY <1>8, <2>2, <2>3, <2>4 DEF RowSound
<1> QED
  BY <1>7, <1>13, <1>14

-----------------------------------------------------------------------------
(* A tick                                                                   *)

\* _latest_signal_bar finds the last bar that may be used.
LEMMA SignalBarIs ==
    ASSUME NEW bars, bars \subseteq BarNumbers, Usable(bars) # {}
    PROVE  /\ SignalBar(bars) \in Usable(bars) /\ SignalBar(bars) \in BarNumbers
           /\ \A m \in Usable(bars) : m <= SignalBar(bars)
<1> DEFINE U == Usable(bars)
<1>1. U \subseteq 1..Bars /\ Bars \in Nat /\ U \subseteq BarNumbers
  BY SignalAssumption DEF Usable, BarNumbers
<1>2. SignalBar(bars) = CHOOSE n \in U : \A m \in U : m <= n
  BY DEF SignalBar
<1> HIDE DEF U
<1>3. \E n \in U : \A m \in U : m <= n
  BY <1>1, GreatestExists DEF U
<1> QED
  BY <1>1, <1>2, <1>3 DEF U

\* What is cached for a bar is of the readings, be it new or what there was.
LEMMA CachedIs ==
    ASSUME ReadingsSound, NEW n \in BarNumbers, NEW r \in Readings
    PROVE  /\ DOMAIN Cached(n, r) = Names
           /\ \A i \in Names : \E x \in Readings : Cached(n, r)[i] = x[i]
<1>1. DOMAIN r = Names
  BY SignalAssumption DEF Names
<1>2. Cached(n, r) = [i \in Names |-> IF r[i] = Missing /\ indicator[n] # NoSnapshot
                                      THEN indicator[n][i] ELSE r[i]]
  BY <1>1 DEF Cached
<1>3. ASSUME NEW i \in Names PROVE \E x \in Readings : Cached(n, r)[i] = x[i]
  <2>1. CASE r[i] = Missing /\ indicator[n] # NoSnapshot
    BY <1>2, <2>1 DEF ReadingsSound
  <2>2. CASE ~(r[i] = Missing /\ indicator[n] # NoSnapshot)
    BY <1>2, <2>2
  <2> QED
    BY <2>1, <2>2
<1> QED
  BY <1>2, <1>3

\* The rows of bar n are written, the last one of all, and a run may be added that
\* saw just what they say.
Writes(n, row, read) ==
    /\ n \in stored' /\ BarEnd(n) + SignalDelay <= now
    /\ \A m \in Rows(snapshot) : m <= n
    /\ indicator' = [indicator EXCEPT ![n] = read]
    /\ DOMAIN read = Names /\ \A i \in Names : \E x \in Readings : read[i] = x[i]
    /\ snapshot' = [snapshot EXCEPT ![n] = row]
    /\ RowSound(snapshot', n) /\ row.confirmed = now
    /\ now - BarEnd(n) > MaxDataAge => row.regime = "no_trade"
    /\ \/ runs' = runs
       \/ \E run \in RunRow :
            /\ runs' = Append(runs, run)
            /\ run.bar = n /\ run.at = now /\ run.regime = row.regime
            /\ run.intent => row.regime = "trend_up"

\* A tick lets time pass, and writes the rows of a bar if there is one to use.
LEMMA TickIs ==
    ASSUME SignalInv, NEW new, new \subseteq BarNumbers, NEW r \in Readings, Tick(new, r)
    PROVE  /\ now' = now + 1 /\ stored' = stored \cup new
           /\ \/ UNCHANGED <<indicator, snapshot, runs>>
              \/ \E n \in BarNumbers, row \in SnapshotRow : \E read : Writes(n, row, read)
<1> DEFINE bars == stored \cup new
           n    == SignalBar(bars)
           read == Cached(n, r)
           candidate == Candidate(read, PreviousEma(n), now - BarEnd(n))
           t == Transition(candidate, Previous(snapshot, n),
                           Confirmations(snapshot, n, candidate), BarEnd(n), now)
           row == Detected(n, read)
           run == [ bar |-> n, at |-> now, regime |-> row.regime,
                    intent |-> CreatesIntent(row, read, now - BarEnd(n)) ]
<1>1. /\ now' = now + 1 /\ stored' = bars
      /\ IF Usable(bars) = {} THEN UNCHANGED <<indicator, snapshot, runs>>
         ELSE /\ indicator' = [indicator EXCEPT ![n] = read]
              /\ snapshot' = [snapshot EXCEPT ![n] = row]
              /\ runs' = IF DecisionDue(n) THEN Append(runs, run) ELSE runs
  BY DEF Tick
<1>2. bars \subseteq BarNumbers /\ now \in Nat
  BY DEF SignalInv
<1>3. CASE Usable(bars) = {}
  BY <1>1, <1>3
<1>4. CASE Usable(bars) # {}
  <2>1. n \in Usable(bars) /\ n \in BarNumbers /\ \A m \in Usable(bars) : m <= n
    BY <1>2, <1>4, SignalBarIs
  <2>2. n \in bars /\ BarEnd(n) + SignalDelay <= now
    BY <2>1 DEF Usable
  <2>3. \A m \in Rows(snapshot) : m <= n
    <3>1. \A m \in Rows(snapshot) : m \in Usable(bars)
      BY DEF SignalInv, RowsInTime, Usable
    <3> QED
      BY <2>1, <3>1
  <2>4. DOMAIN read = Names /\ \A i \in Names : \E x \in Readings : read[i] = x[i]
    BY <2>1, CachedIs DEF SignalInv
  <2> HIDE DEF n, read
  <2>5. candidate \in MarketRegime /\ (now - BarEnd(n) > MaxDataAge => candidate = "no_trade")
    BY DEF Candidate, MarketRegime
  <2>6. row = [ regime |-> t.regime, candidate |-> candidate,
                starts |-> t.starts, confirmed |-> now ]
    BY DEF Detected
  <2>7. snapshot \in [BarNumbers -> SnapshotRow \cup {NoSnapshot}]
        /\ \A m \in Rows(snapshot) : RowSound(snapshot, m)
    BY DEF SignalInv
  <2>8. row \in SnapshotRow /\ RowSound([snapshot EXCEPT ![n] = row], n)
    <3> HIDE DEF candidate, row
    <3>1. t = t
      OBVIOUS
    <3> HIDE DEF t
    <3> QED
      BY <1>2, <2>1, <2>3, <2>5, <2>6, <2>7, NewRowSound DEF t
  <2>9. row.confirmed = now /\ (candidate = "no_trade" => row.regime = "no_trade")
    BY <2>6 DEF Transition
  <2>10. snapshot' = [snapshot EXCEPT ![n] = row] /\ indicator' = [indicator EXCEPT ![n] = read]
         /\ (runs' = runs \/ runs' = Append(runs, run))
    BY <1>1, <1>4
  <2> HIDE DEF row, candidate, t
  <2>11. run \in RunRow
    <3>1. row.regime \in MarketRegime
      BY <2>8 DEF SnapshotRow
    <3>2. CreatesIntent(row, read, now - BarEnd(n)) \in BOOLEAN
      BY DEF CreatesIntent
    <3> QED
      BY <1>2, <2>1, <3>1, <3>2 DEF RunRow
  <2>12. run.bar = n /\ run.at = now /\ run.regime = row.regime
         /\ (run.intent => row.regime = "trend_up")
    BY DEF CreatesIntent
  <2> HIDE DEF run
  <2>13. RowSound(snapshot', n) /\ n \in stored'
    BY <1>1, <2>2, <2>8, <2>10
  <2>14. \/ runs' = runs
         \/ \E x \in RunRow :
              /\ runs' = Append(runs, x)
              /\ x.bar = n /\ x.at = now /\ x.regime = row.regime
              /\ x.intent => row.regime = "trend_up"
    BY <2>10, <2>11, <2>12
  <2>15. Writes(n, row, read)
    BY <2>2, <2>3, <2>4, <2>8, <2>9, <2>5, <2>10, <2>13, <2>14 DEF Writes
  <2> HIDE DEF bars
  <2> QED
    BY <1>1, <2>1, <2>8, <2>15 DEF bars
<1> QED
  BY <1>3, <1>4

\* The invariant when the last row is written.
LEMMA WriteKeeps ==
    ASSUME SignalInv, now' = now + 1, stored \subseteq stored', stored' \subseteq BarNumbers,
           NEW n \in BarNumbers, NEW row \in SnapshotRow, NEW read, Writes(n, row, read)
    PROVE  SignalInv'
<1>0. /\ now \in Nat /\ stored \subseteq BarNumbers /\ ReadingsSound
      /\ snapshot \in [BarNumbers -> SnapshotRow \cup {NoSnapshot}] /\ runs \in Seq(RunRow)
      /\ RowsInTime /\ BarNumbers \subseteq Nat /\ Len(runs) \in Nat
  BY DEF SignalInv, BarNumbers
<1>a. SignalDelay \in Nat /\ \A m \in BarNumbers : BarEnd(m) \in Nat
  BY SignalAssumption DEF BarNumbers, BarEnd
<1>w. /\ n \in stored' /\ BarEnd(n) + SignalDelay <= now
      /\ \A m \in Rows(snapshot) : m <= n
      /\ indicator' = [indicator EXCEPT ![n] = read]
      /\ DOMAIN read = Names /\ \A i \in Names : \E x \in Readings : read[i] = x[i]
      /\ snapshot' = [snapshot EXCEPT ![n] = row]
      /\ RowSound(snapshot', n) /\ row.confirmed = now
      /\ now - BarEnd(n) > MaxDataAge => row.regime = "no_trade"
      /\ \/ runs' = runs
         \/ \E run \in RunRow :
              /\ runs' = Append(runs, run)
              /\ run.bar = n /\ run.at = now /\ run.regime = row.regime
              /\ run.intent => row.regime = "trend_up"
  BY DEF Writes
<1>1. /\ DOMAIN snapshot = BarNumbers /\ DOMAIN snapshot' = BarNumbers /\ snapshot'[n] = row
      /\ \A m \in BarNumbers : m # n => snapshot'[m] = snapshot[m]
      /\ snapshot' \in [BarNumbers -> SnapshotRow \cup {NoSnapshot}]
  BY <1>0, <1>w
<1>2. row # NoSnapshot
  BY SignalAssumption DEF SnapshotRow
<1>3. \A m \in BarNumbers : m \in Rows(snapshot') <=> m = n \/ m \in Rows(snapshot)
  BY <1>1, <1>2 DEF Rows
<1>4. (\A m \in Rows(snapshot) : m \in BarNumbers) /\ \A m \in Rows(snapshot') : m \in BarNumbers
  BY DEF Rows
<1>5. ReadingsSound'
  <2>1. DOMAIN indicator' = BarNumbers /\ indicator'[n] = read
        /\ \A m \in BarNumbers : m # n => indicator'[m] = indicator[m]
    BY <1>0, <1>w DEF ReadingsSound
  <2>2. ASSUME NEW m \in BarNumbers, indicator'[m] # NoSnapshot
        PROVE  DOMAIN indicator'[m] = Names
               /\ \A i \in Names : \E x \in Readings : indicator'[m][i] = x[i]
    <3>1. CASE m = n
      BY <1>w, <2>1, <3>1
    <3>2. CASE m # n
      BY <1>0, <2>1, <2>2, <3>2 DEF ReadingsSound
    <3> QED
      BY <3>1, <3>2
  <2> QED
    BY <2>1, <2>2 DEF ReadingsSound
<1>6. RowsInTime'
  <2>1. ASSUME NEW m \in Rows(snapshot') PROVE m \in stored' /\ BarEnd(m) + SignalDelay <= now'
    <3>1. m \in stored' /\ BarEnd(m) + SignalDelay <= now
      BY <1>0, <1>w, <1>3, <1>4 DEF RowsInTime
    <3>2. BarEnd(m) + SignalDelay \in Nat
      BY <1>a, <1>4
    <3> QED
      BY <1>0, <1>w, <3>1, <3>2
  <2> QED
    BY <2>1 DEF RowsInTime
<1>7. ASSUME NEW m \in Rows(snapshot') PROVE RowSound(snapshot', m)
  <2>1. CASE m = n
    BY <1>w, <2>1
  <2>2. CASE m # n
    <3>1. m \in Rows(snapshot) /\ m \in BarNumbers /\ m \in Nat /\ n \in Nat /\ m <= n
      BY <1>0, <1>w, <1>3, <1>4, <2>2
    <3>2. \A k \in BarNumbers : k <= m => snapshot'[k] = snapshot[k]
      <4>1. \A k \in BarNumbers : k <= m => k # n
        BY <1>0, <2>2, <3>1
      <4> QED
        BY <1>1, <4>1
    <3> QED
      BY <1>1, <3>1, <3>2, RowSoundIsLocal DEF SignalInv
  <2> QED
    BY <2>1, <2>2
<1>8. ASSUME NEW run \in RunRow, RunSound(run, snapshot, now)
      PROVE  RunSound(run, snapshot', now')
  <2>2. run.at \in Nat /\ run.bar \in BarNumbers
    BY DEF RunRow
  <2>3. run.at < now /\ run.at < now'
    BY <1>0, <1>w, <1>8, <2>2 DEF RunSound
  <2>4. run.bar \in Rows(snapshot')
    BY <1>3, <1>8, <2>2 DEF RunSound
  <2>5. snapshot'[run.bar].regime # run.regime => snapshot'[run.bar].confirmed > run.at
    <3>1. CASE run.bar = n
      BY <1>w, <1>1, <2>3, <3>1
    <3>2. CASE run.bar # n
      BY <1>1, <1>8, <2>2, <3>2 DEF RunSound
    <3> QED
      BY <3>1, <3>2
  <2> QED
    BY <1>8, <2>3, <2>4, <2>5 DEF RunSound
<1>9. runs' \in Seq(RunRow) /\ \A i \in 1..Len(runs') : RunSound(runs'[i], snapshot', now')
  <2>0. \A i \in 1..Len(runs) : runs[i] \in RunRow /\ RunSound(runs[i], snapshot, now)
    BY <1>0 DEF SignalInv
  <2>1. CASE runs' = runs
    BY <1>0, <1>8, <2>0, <2>1
  <2>2. ASSUME NEW run \in RunRow, runs' = Append(runs, run),
               run.bar = n, run.at = now, run.regime = row.regime,
               run.intent => row.regime = "trend_up"
        PROVE  runs' \in Seq(RunRow)
               /\ \A i \in 1..Len(runs') : RunSound(runs'[i], snapshot', now')
    <3>1. /\ runs' \in Seq(RunRow) /\ Len(runs') = Len(runs) + 1
          /\ runs'[Len(runs) + 1] = run /\ \A i \in 1..Len(runs) : runs'[i] = runs[i]
      BY <1>0, <2>2
    <3>2. RunSound(run, snapshot', now')
      <4>1. n \in Rows(snapshot')
        BY <1>3
      <4>2. now < now' /\ now - BarEnd(n) >= SignalDelay
        BY <1>0, <1>w, <1>a
      <4>3. snapshot'[n].regime = run.regime
        BY <1>1, <2>2
      <4> HIDE DEF BarEnd
      <4> QED
        BY <1>w, <2>2, <4>1, <4>2, <4>3 DEF RunSound
    <3>3. ASSUME NEW i \in 1..Len(runs') PROVE RunSound(runs'[i], snapshot', now')
      <4>1. CASE i = Len(runs) + 1
        BY <3>1, <3>2, <4>1
      <4>2. CASE i # Len(runs) + 1
        <5>1. i \in 1..Len(runs)
          BY <1>0, <3>1, <4>2
        <5> QED
          BY <1>8, <2>0, <3>1, <5>1
      <4> QED
        BY <4>1, <4>2
    <3> QED
      BY <3>1, <3>3
  <2> QED
    BY <1>w, <2>1, <2>2
<1>10. now' \in Nat
  BY <1>0, <1>w
<1> QED
  BY <1>w, <1>1, <1>5, <1>6, <1>7, <1>9, <1>10 DEF SignalInv

RowsOfThePastStay ==
    \A n \in BarNumbers :
        snapshot'[n] # snapshot[n] \/ indicator'[n] # indicator[n] =>
            BarEnd(n) + SignalDelay <= now /\ \A m \in Rows(snapshot) : m <= n

\* The invariant over a step; and the rows of the past stay as they are.
LEMMA StepKeeps ==
    ASSUME SignalInv, [Next]_vars
    PROVE  SignalInv' /\ RowsOfThePastStay
<1>0. /\ now \in Nat /\ stored \subseteq BarNumbers /\ ReadingsSound
      /\ snapshot \in [BarNumbers -> SnapshotRow \cup {NoSnapshot}] /\ runs \in Seq(RunRow)
      /\ RowsInTime /\ BarNumbers \subseteq Nat /\ Len(runs) \in Nat
  BY DEF SignalInv, BarNumbers
<1>a. SignalDelay \in Nat /\ \A n \in BarNumbers : BarEnd(n) \in Nat
  BY SignalAssumption DEF BarNumbers, BarEnd
\* Time passes, or not even that, and bars may have come.
<1>1. ASSUME UNCHANGED <<indicator, snapshot, runs>>, now' \in {now, now + 1},
             stored \subseteq stored', stored' \subseteq BarNumbers
      PROVE  SignalInv' /\ RowsOfThePastStay
  <2>1. now' \in Nat /\ now <= now'
    BY <1>0, <1>1
  <2>2. Rows(snapshot') = Rows(snapshot) /\ \A n \in Rows(snapshot) : n \in BarNumbers
    BY <1>1 DEF Rows
  <2>3. RowsInTime'
    <3>1. ASSUME NEW n \in Rows(snapshot) PROVE BarEnd(n) + SignalDelay <= now'
      <4>1. BarEnd(n) + SignalDelay <= now
        BY <1>0, <2>2 DEF RowsInTime
      <4>2. BarEnd(n) \in Nat /\ SignalDelay \in Nat
        BY <1>a, <2>2
      <4> QED
        BY <1>0, <2>1, <4>1, <4>2
    <3> QED
      BY <1>0, <1>1, <2>2, <3>1 DEF RowsInTime
  <2>4. \A i \in 1..Len(runs) : runs[i] \in RunRow /\ RunSound(runs[i], snapshot, now)
    BY <1>0 DEF SignalInv
  <2>5. ASSUME NEW i \in 1..Len(runs') PROVE RunSound(runs'[i], snapshot', now')
    <3> DEFINE run == runs[i]
    <3>1. run \in RunRow /\ RunSound(run, snapshot, now) /\ runs'[i] = run
      BY <1>1, <2>4
    <3> HIDE DEF run
    <3>2. run.at \in Nat
      BY <3>1 DEF RunRow
    <3>3. run.at < now'
      BY <1>0, <2>1, <3>1, <3>2 DEF RunSound
    <3>4. RunSound(run, snapshot, now')
      BY <3>1, <3>3 DEF RunSound
    <3> QED
      BY <1>1, <3>1, <3>4
  <2>6. ReadingsSound'
    BY <1>0, <1>1 DEF ReadingsSound
  <2>8. \A n \in Rows(snapshot') : RowSound(snapshot', n)
    BY <1>1 DEF SignalInv
  <2>7. SignalInv'
    BY <1>0, <1>1, <2>1, <2>2, <2>3, <2>5, <2>6, <2>8 DEF SignalInv
  <2> QED
    BY <1>1, <2>7 DEF RowsOfThePastStay
<1>3. CASE UNCHANGED vars \/ Pass
  <2>1. UNCHANGED <<indicator, snapshot, runs>> /\ now' \in {now, now + 1} /\ stored' = stored
    BY <1>3 DEF vars, Pass
  <2> QED
    BY <1>0, <1>1, <2>1
<1>4. CASE RefreshedTick
  <2>1. PICK new \in SUBSET BarNumbers, r \in Readings : Tick(new, r)
    BY <1>4 DEF RefreshedTick
  <2>2. stored \subseteq stored' /\ stored' \subseteq BarNumbers /\ now' = now + 1
    BY <1>0, <2>1, TickIs
  <2>3. CASE UNCHANGED <<indicator, snapshot, runs>>
    BY <1>1, <2>2, <2>3
  <2>4. ASSUME NEW n \in BarNumbers, NEW row \in SnapshotRow, NEW read, Writes(n, row, read)
        PROVE  SignalInv' /\ RowsOfThePastStay
    <3>1. SignalInv'
      BY <2>2, <2>4, WriteKeeps
    <3>2. \A k \in BarNumbers : k # n => snapshot'[k] = snapshot[k] /\ indicator'[k] = indicator[k]
      BY <1>0, <2>4 DEF ReadingsSound, Writes
    <3>3. BarEnd(n) + SignalDelay <= now /\ \A m \in Rows(snapshot) : m <= n
      BY <2>4 DEF Writes
    <3>4. RowsOfThePastStay
      BY <3>2, <3>3 DEF RowsOfThePastStay
    <3> QED
      BY <3>1, <3>4
  <2>5. UNCHANGED <<indicator, snapshot, runs>>
        \/ \E n \in BarNumbers, row \in SnapshotRow : \E read : Writes(n, row, read)
    BY <2>1, TickIs
  <2> QED
    BY <2>3, <2>4, <2>5
<1> QED
  BY <1>3, <1>4 DEF Next

LEMMA InitSound == Init => SignalInv
<1> SUFFICES ASSUME Init PROVE SignalInv
  OBVIOUS
<1>1. Rows(snapshot) = {}
  BY DEF Init, Rows
<1>2. ReadingsSound /\ RowsInTime
  BY <1>1 DEF Init, ReadingsSound, RowsInTime
<1>3. now \in Nat /\ stored \subseteq BarNumbers /\ runs \in Seq(RunRow) /\ Len(runs) = 0
  BY DEF Init
<1>4. snapshot \in [BarNumbers -> SnapshotRow \cup {NoSnapshot}]
  BY DEF Init
<1> QED
  BY <1>1, <1>2, <1>3, <1>4 DEF SignalInv

LEMMA SignalInvHolds == Spec => []SignalInv
<1>1. SignalInv /\ [Next]_vars => SignalInv'
  BY StepKeeps
<1> QED
  BY InitSound, <1>1, PTL DEF Spec

\* The properties speak of Written, the invariant of Rows.
LEMMA WrittenIsRows == Written = Rows(snapshot)
BY DEF Written, Rows

-----------------------------------------------------------------------------
(* What the snapshots and the runs say                                      *)

\* Rows are written only for a bar whose time has come, and never for one that an
\* evaluated bar has followed (paper_loop.py, _latest_signal_bar).
THEOREM ThePastStays == Spec => PastRowsStay
<1>1. SignalInv /\ [Next]_vars =>
        [\A n \in BarNumbers :
            snapshot'[n] # snapshot[n] \/ indicator'[n] # indicator[n] =>
                /\ BarEnd(n) + SignalDelay <= now
                /\ \A m \in Written : m <= n]_vars
  BY StepKeeps, WrittenIsRows DEF RowsOfThePastStay
<1> QED
  BY SignalInvHolds, <1>1, PTL DEF Spec, PastRowsStay

\* starts_at is the end of the first bar of the unbroken stretch of a regime.
THEOREM StretchesStartRight == Spec => []StartsAtTheFirstBar
<1>1. SignalInv => StartsAtTheFirstBar
  <2> SUFFICES ASSUME SignalInv PROVE StartsAtTheFirstBar
    OBVIOUS
  <2> SUFFICES ASSUME NEW n \in Written, snapshot[n].regime # "no_trade"
               PROVE  \E m \in Written :
                        /\ BarEnd(m) = snapshot[n].starts /\ m <= n
                        /\ \A k \in Written :
                              m <= k /\ k <= n => snapshot[k].regime = snapshot[n].regime
                        /\ Previous(snapshot, m) # NoSnapshot =>
                              Previous(snapshot, m).regime # snapshot[n].regime
    BY DEF StartsAtTheFirstBar
  <2>1. StartAt(snapshot, n)
    BY WrittenIsRows DEF SignalInv, RowSound
  <2> QED
    BY <2>1, WrittenIsRows DEF StartAt, Unbroken
<1> QED
  BY SignalInvHolds, <1>1, PTL

\* A regime gives way to another tradable one only after enough proposals in a row
\* and a cooldown after the last confirmation of the one before.
THEOREM NoSwitchUnconfirmed == Spec => []SwitchesAreConfirmed
<1>1. SignalInv => SwitchesAreConfirmed
  <2> SUFFICES ASSUME SignalInv, NEW n \in Written,
                      Previous(snapshot, n) # NoSnapshot,
                      "no_trade" \notin {snapshot[n].regime, Previous(snapshot, n).regime},
                      snapshot[n].regime # Previous(snapshot, n).regime
               PROVE  /\ ProposedOftenEnough(n, snapshot[n].regime)
                      /\ snapshot[n].confirmed - Previous(snapshot, n).confirmed >= Cooldown
    BY DEF SwitchesAreConfirmed
  <2>1. SwitchAt(snapshot, n)
    BY WrittenIsRows DEF SignalInv, RowSound
  <2>2. LastWritten(n, ConfirmationBars) = LastRows(snapshot, n, ConfirmationBars)
    BY WrittenIsRows DEF LastWritten, LastRows
  <2> QED
    BY <2>1, <2>2 DEF SwitchAt, ProposedOftenEnough
<1> QED
  BY SignalInvHolds, <1>1, PTL

\* What a run saw and what the snapshot it refers to says differ only when the
\* snapshot was written again after the run.
THEOREM RunsTellTheirRegime == Spec => []RunsAgreeWithSnapshots
<1>1. SignalInv => RunsAgreeWithSnapshots
  <2> SUFFICES ASSUME SignalInv PROVE RunsAgreeWithSnapshots
    OBVIOUS
  <2>1. TypeOK
    <3>1. ASSUME NEW n \in BarNumbers, indicator[n] # NoSnapshot, NEW i \in DOMAIN indicator[n]
          PROVE  \E r \in Readings : indicator[n][i] = r[i]
      BY <3>1 DEF SignalInv, ReadingsSound
    <3> QED
      BY <3>1 DEF SignalInv, TypeOK
  <2>2. ASSUME NEW i \in 1..Len(runs)
        PROVE  /\ snapshot[runs[i].bar] # NoSnapshot
               /\ snapshot[runs[i].bar].regime # runs[i].regime =>
                     snapshot[runs[i].bar].confirmed > runs[i].at
    BY DEF SignalInv, RunSound, Rows
  <2> QED
    BY <2>1, <2>2 DEF RunsAgreeWithSnapshots
<1> QED
  BY SignalInvHolds, <1>1, PTL

\* A run that buys acts on a bar whose time had come and on an up-trend that some bar
\* proposed and nothing has broken since; past MaxDataAge a run sees no_trade.
THEOREM IntentsNeedALiveTrend == Spec => []RunsActOnLiveTrends
<1>1. SignalInv => RunsActOnLiveTrends
  <2> SUFFICES ASSUME SignalInv, NEW i \in 1..Len(runs)
               PROVE  LET n   == runs[i].bar
                          age == runs[i].at - BarEnd(n)
                      IN  /\ age > MaxDataAge => runs[i].regime = "no_trade"
                          /\ runs[i].intent => age >= SignalDelay
                          /\ runs[i].intent /\ snapshot[n].confirmed = runs[i].at =>
                               \E m \in Written :
                                 /\ m <= n /\ snapshot[m].candidate = "trend_up"
                                 /\ \A k \in Written : m <= k /\ k <= n =>
                                       /\ snapshot[k].candidate # "no_trade"
                                       /\ snapshot[k].regime = "trend_up"
    BY DEF RunsActOnLiveTrends
  <2> DEFINE n == runs[i].bar
             run == runs[i]
  <2>1. RunSound(run, snapshot, now) /\ run \in RunRow
    BY DEF SignalInv
  <2>2. /\ run.at - BarEnd(n) > MaxDataAge => run.regime = "no_trade"
        /\ run.intent => run.at - BarEnd(n) >= SignalDelay /\ run.regime = "trend_up"
        /\ n \in Rows(snapshot)
        /\ snapshot[n].regime # run.regime => snapshot[n].confirmed > run.at
    BY <2>1 DEF RunSound
  <2>3. LiveAt(snapshot, n)
    BY <2>2 DEF SignalInv, RowSound
  <2>4. run.at \in Nat
    BY <2>1 DEF RunRow
  <2>5. ASSUME run.intent, snapshot[n].confirmed = run.at
        PROVE  \E m \in Written :
                 /\ m <= n /\ snapshot[m].candidate = "trend_up"
                 /\ \A k \in Written : m <= k /\ k <= n =>
                       snapshot[k].candidate # "no_trade" /\ snapshot[k].regime = "trend_up"
    <3>1. snapshot[n].regime = "trend_up"
      BY <2>2, <2>4, <2>5
    <3>2. PICK m \in Rows(snapshot) :
            /\ m <= n /\ snapshot[m].candidate = snapshot[n].regime
            /\ Unbroken(snapshot, m, n)
            /\ \A k \in Rows(snapshot) : m <= k /\ k <= n => snapshot[k].candidate # "no_trade"
      BY <2>3, <3>1 DEF LiveAt
    <3> QED
      BY <3>1, <3>2, WrittenIsRows DEF Unbroken
  <2> QED
    BY <2>2, <2>5
<1> QED
  BY SignalInvHolds, <1>1, PTL

=============================================================================
