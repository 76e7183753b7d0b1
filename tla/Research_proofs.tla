-------------------------- MODULE Research_proofs --------------------------
(***************************************************************************)
(* What runs offline, for every number of bars and rows: a replay keeps its *)
(* limits and its report explains the account, the folds of an experiment   *)
(* do not leak, and the indicators are what their definitions say.          *)
(***************************************************************************)
EXTENDS Backtest, MLExperiments, Indicators, Accounting_proofs

-----------------------------------------------------------------------------
(***************************************************************************)
(* The folds of an experiment do not leak, for any number of rows, splits,  *)
(* embargo and horizon.  Rows are only as many as the bars between them, so *)
(* the invariant says how far apart two rows are (RowsAreSpread); a test row *)
(* follows every training row by more than the embargo, and so by more than *)
(* the horizon, when the embargo is as long.                                *)
(***************************************************************************)

\* Two rows are at least as many bars apart as they are rows apart.
RowsAreSpread ==
    /\ \A i \in 1..Len(rows) : rows[i].bar + (Len(rows) - i) < nextBar
    /\ \A i, j \in 1..Len(rows) : i <= j => rows[j].bar - rows[i].bar >= j - i

MLInv == MLTypeOK /\ RowsAreSpread /\ (status = "dataset" => metrics = {})

\* A non-empty set of natural numbers has a least element.
LEMMA LeastExists ==
  ASSUME NEW S, S \subseteq Nat, S # {}
  PROVE  \E n \in S : \A m \in S : n <= m
<1> DEFINE R == OpToRel(<, Nat)
<1>1. PICK x \in S : \A y \in S : ~(<<y, x>> \in R)
  <2>1. IsWellFoundedOn(R, Nat)
    BY NatLessThanWellFounded
  <2> HIDE DEF R
  <2> QED
    BY <2>1, WFMin
<1>2. \A y \in S : ~(y < x)
  BY <1>1 DEF OpToRel
<1> QED
  BY <1>2

\* The least fold that is left is one of them.
LEMMA NextFold ==
  ASSUME Remaining # {}
  PROVE  Min(Remaining) \in Remaining /\ \A m \in Remaining : Min(Remaining) <= m
<1>1. Remaining \subseteq Nat
  BY DEF Remaining, Folds
<1>2. \E n \in Remaining : \A m \in Remaining : n <= m
  BY <1>1, LeastExists
<1> QED
  BY <1>2 DEF Min

LEMMA SplitTypes ==
  ASSUME NEW n \in Nat, NEW fold \in Nat
  PROVE  /\ TestSize(n) \in Nat \ {0} /\ TrainEnd(n, fold) \in Nat \ {0}
         /\ TestStart(n, fold) = TrainEnd(n, fold) + Embargo
         /\ TestEnd(n, fold) = TestStart(n, fold) + TestSize(n)
         /\ Embargo \in Nat
<1>1. NSplits \in Nat \ {0} /\ MinTestRows \in Nat \ {0} /\ Embargo \in Nat
  BY SplitAssumption
<1>2. n \div (NSplits + 1) \in Nat
  BY <1>1
<1>3. TestSize(n) \in Nat \ {0}
  BY <1>1, <1>2 DEF TestSize
<1>4. TestSize(n) * (fold + 1) \in Nat \ {0}
  BY <1>3
<1> QED
  BY <1>1, <1>3, <1>4 DEF TrainEnd, TestStart, TestEnd

LEMMA BarOfRow ==
  ASSUME NEW S, NEW r \in [bar: S, positive: BOOLEAN] PROVE r.bar \in S
BY Zenon

LEMMA RowsHaveBars == ASSUME MLTypeOK PROVE \A i \in 1..Len(rows) : rows[i].bar \in Nat
<1>1. SUFFICES ASSUME NEW i \in 1..Len(rows) PROVE rows[i].bar \in Nat
  OBVIOUS
<1> DEFINE S == 1..(BarsInRange - Horizon)
<1>2. rows[i] \in [bar: S, positive: BOOLEAN]
  <2> DEFINE X == [bar: S, positive: BOOLEAN]
  <2>1. rows \in Seq(X)
    BY DEF MLTypeOK
  <2>2. rows[i] \in X
    <3> HIDE DEF X
    <3> QED
      BY <2>1
  <2> QED
    BY <2>2
<1>3. rows[i].bar \in S
  BY <1>2, BarOfRow
<1> QED
  BY <1>3, ExperimentAssumption

\* A fold trains on rows before those it is tested on, an embargo apart.
LEMMA TrainingComesFirst ==
  ASSUME NEW n \in Nat, NEW fold \in Folds(n), NEW i \in Train(n, fold), NEW j \in Test(n, fold)
  PROVE  i \in 1..n /\ j \in 1..n /\ j - i > Embargo
<1>1. fold \in Nat /\ TestEnd(n, fold) <= n
  BY SplitAssumption DEF Folds
<1>2. /\ TrainEnd(n, fold) \in Nat \ {0} /\ TestSize(n) \in Nat \ {0} /\ Embargo \in Nat
      /\ TestStart(n, fold) = TrainEnd(n, fold) + Embargo
      /\ TestEnd(n, fold) = TestStart(n, fold) + TestSize(n)
  BY <1>1, SplitTypes
<1>3. i \in 1..TrainEnd(n, fold) /\ j \in (TestStart(n, fold) + 1)..TestEnd(n, fold)
  BY DEF Train, Test
<1> QED
  BY <1>1, <1>2, <1>3

\* The test windows of two folds do not overlap.
LEMMA WindowsAreApart ==
  ASSUME NEW n \in Nat, NEW f \in Folds(n), NEW g \in Folds(n), f < g
  PROVE  Test(n, f) \cap Test(n, g) = {}
<1> DEFINE size == TestSize(n)
<1>1. f \in Nat /\ g \in Nat
  BY DEF Folds
<1>2. size \in Nat \ {0} /\ Embargo \in Nat
  BY <1>1, SplitTypes
<1>3. /\ TestStart(n, g) = size * (g + 1) + Embargo
      /\ TestEnd(n, f) = size * (f + 1) + Embargo + size
  BY DEF TestStart, TestEnd, TrainEnd
<1> HIDE DEF size
<1>4. size * (f + 1) + size <= size * (g + 1)
  <2>1. size * (f + 1) + size = size * (f + 2)
    BY <1>1, <1>2
  <2>2. f + 2 <= g + 1
    BY <1>1
  <2> QED
    BY <1>1, <1>2, <2>1, <2>2
<1>5. /\ TestEnd(n, f) <= TestStart(n, g)
      /\ size * (f + 1) \in Nat /\ size * (g + 1) \in Nat
  BY <1>1, <1>2, <1>3, <1>4
<1> QED
  BY <1>1, <1>2, <1>3, <1>5 DEF Test

LEMMA MLInitial == MLInit => MLInv
<1> SUFFICES ASSUME MLInit PROVE MLInv
  OBVIOUS
<1>1. <<>> \in Seq([bar: 1..(BarsInRange - Horizon), positive: BOOLEAN]) /\ Len(<<>>) = 0
  OBVIOUS
<1>2. 1 \in 1..(BarsInRange + 1)
  BY ExperimentAssumption
<1>3. MLTypeOK
  BY <1>1, <1>2 DEF MLInit, MLTypeOK, Families, Supported
<1> QED
  BY <1>3 DEF MLInit, MLInv, RowsAreSpread

LEMMA AddRowKeeps == ASSUME MLInv, NEW positive \in BOOLEAN, AddRow(positive) PROVE MLInv'
<1> DEFINE new == [bar |-> nextBar, positive |-> positive]
           L   == Len(rows)
           RowSet == [bar: 1..(BarsInRange - Horizon), positive: BOOLEAN]
<1>1. /\ rows \in Seq(RowSet) /\ L \in Nat /\ nextBar \in Nat
      /\ nextBar' = nextBar + 1 /\ nextBar + Horizon <= BarsInRange
      /\ nextBar' \in 1..(BarsInRange + 1) /\ BarsInRange \in Nat /\ Horizon \in Nat
      /\ RowsAreSpread
  BY ExperimentAssumption DEF MLInv, MLTypeOK, AddRow, Labelled
<1>2. new \in RowSet /\ new.bar = nextBar
  BY <1>1 DEF MLInv, MLTypeOK
<1>3. rows' = Append(rows, new)
  BY DEF AddRow
<1> HIDE DEF new
<1>4. /\ rows' \in Seq(RowSet) /\ Len(rows') = L + 1
      /\ \A i \in 1..L : rows'[i] = rows[i]
      /\ rows'[L + 1] = new
  BY <1>1, <1>2, <1>3
<1>5. \A i \in 1..L : rows[i].bar \in Nat
  BY RowsHaveBars DEF MLInv
<1> HIDE DEF RowSet
<1>6. MLTypeOK'
  BY <1>1, <1>4 DEF AddRow, MLInv, MLTypeOK, RowSet
<1>7. RowsAreSpread'
  <2>1. ASSUME NEW i \in 1..(L + 1) PROVE rows'[i].bar + ((L + 1) - i) < nextBar + 1
    <3>1. CASE i = L + 1
      BY <1>1, <1>2, <1>4, <3>1
    <3>2. CASE i # L + 1
      <4>1. i \in 1..L
        BY <1>1, <2>1, <3>2
      <4>2. rows[i].bar + (L - i) < nextBar
        BY <1>1, <4>1 DEF RowsAreSpread
      <4> QED
        BY <1>1, <1>4, <1>5, <4>1, <4>2
    <3> QED
      BY <3>1, <3>2
  <2>2. ASSUME NEW i \in 1..(L + 1), NEW j \in 1..(L + 1), i <= j
        PROVE  rows'[j].bar - rows'[i].bar >= j - i
    <3>1. CASE i = L + 1
      BY <1>1, <1>2, <1>4, <2>2, <3>1
    <3>2. CASE i # L + 1 /\ j = L + 1
      <4>1. i \in 1..L
        BY <1>1, <2>2, <3>2
      <4>2. rows[i].bar + (L - i) < nextBar
        BY <1>1, <4>1 DEF RowsAreSpread
      <4> QED
        BY <1>1, <1>2, <1>4, <1>5, <3>2, <4>1, <4>2
    <3>3. CASE i # L + 1 /\ j # L + 1
      <4>1. i \in 1..L /\ j \in 1..L
        BY <1>1, <2>2, <3>3
      <4>2. rows[j].bar - rows[i].bar >= j - i
        BY <1>1, <2>2, <4>1 DEF RowsAreSpread
      <4>3. rows'[i] = rows[i] /\ rows'[j] = rows[j]
        BY <1>4, <4>1
      <4> QED
        BY <4>2, <4>3
    <3> QED
      BY <3>1, <3>2, <3>3
  <2> QED
    BY <1>1, <1>4, <2>1, <2>2 DEF RowsAreSpread
<1> QED
  BY <1>6, <1>7 DEF AddRow, MLInv

LEMMA MLInvariant == MLSpec => []MLInv
<1>1. ASSUME MLInv, [MLNext]_mlVars PROVE MLInv'
  <2>1. CASE UNCHANGED mlVars
    BY <1>1, <2>1 DEF mlVars, MLInv, MLTypeOK, RowsAreSpread
  <2>2. CASE SkipBar
    <3>1. /\ nextBar \in Nat /\ nextBar' = nextBar + 1 /\ nextBar' \in 1..(BarsInRange + 1)
      BY <1>1, <2>2, ExperimentAssumption DEF SkipBar, MLInv, MLTypeOK
    <3>2. \A i \in 1..Len(rows) : rows[i].bar \in Nat /\ Len(rows) \in Nat
      BY <1>1, RowsHaveBars DEF MLInv, MLTypeOK
    <3>3. RowsAreSpread'
      BY <1>1, <2>2, <3>1, <3>2 DEF SkipBar, MLInv, RowsAreSpread
    <3> QED
      BY <1>1, <2>2, <3>1, <3>3 DEF SkipBar, MLInv, MLTypeOK
  <2>3. CASE \E model \in Families : StartRun(model)
    BY <1>1, <2>3 DEF StartRun, MLInv, MLTypeOK, RowsAreSpread
  <2>4. CASE RunFold
    <3>1. /\ metrics' \subseteq Folds(Len(rows)) /\ status' \in {"running", "failed"}
          /\ error' \in Errors \cup {"none"}
      <4>1. Outcomes(Min(Remaining)) \subseteq Errors \cup {"none"}
        BY DEF Outcomes, Errors
      <4> QED
        BY <1>1, <2>4, <4>1, NextFold DEF RunFold, MLInv, MLTypeOK, Remaining
    <3> QED
      BY <1>1, <2>4, <3>1 DEF RunFold, MLInv, MLTypeOK, RowsAreSpread
  <2>5. CASE EndRun
    BY <1>1, <2>5 DEF EndRun, MLInv, MLTypeOK, RowsAreSpread
  <2> QED
    BY <1>1, <2>1, <2>2, <2>3, <2>4, <2>5, AddRowKeeps DEF MLNext
<1> QED
  BY MLInitial, <1>1, PTL DEF MLSpec

\* Whatever rows a range of bars gives: no row is tested twice or trained on by the fold
\* that tests it, and with an embargo no shorter than the label horizon every label a
\* fold learns from was known before the first row it is tested on
\* (chronological_splits, _candidate_rows).
THEOREM FoldsNeverLeak == MLSpec => []FoldsDoNotLeak
<1>1. MLInv => FoldsDoNotLeak
  <2> SUFFICES ASSUME MLInv PROVE FoldsDoNotLeak
    OBVIOUS
  <2> DEFINE n == Len(rows)
  <2>1. /\ n \in Nat /\ MLTypeOK /\ RowsAreSpread
        /\ \A i \in 1..n : rows[i].bar \in Nat
    BY RowsHaveBars DEF MLInv, MLTypeOK
  <2>2. DOMAIN rows = 1..n
    BY DEF MLInv, MLTypeOK
  <2>3. NoLabelLeaks
    <3>1. SUFFICES ASSUME Embargo >= Horizon, NEW fold \in Folds(n),
                          NEW i \in Train(n, fold), NEW j \in Test(n, fold)
                   PROVE  rows[i].bar + Horizon < rows[j].bar
      BY DEF NoLabelLeaks
    <3> HIDE DEF n
    <3>2. i \in 1..n /\ j \in 1..n /\ j - i > Embargo
      BY <2>1, TrainingComesFirst
    <3>3. rows[j].bar - rows[i].bar >= j - i
      BY <2>1, <3>2, SplitAssumption DEF RowsAreSpread, n
    <3> QED
      BY <2>1, <3>1, <3>2, <3>3, SplitAssumption, ExperimentAssumption
  <2> HIDE DEF n
  <2>4. \A f \in Folds(n) :
          /\ Test(n, f) # {} /\ Train(n, f) # {} /\ Train(n, f) \cup Test(n, f) \subseteq DOMAIN rows
          /\ Train(n, f) \cap Test(n, f) = {}
    <3>1. SUFFICES ASSUME NEW f \in Folds(n)
                   PROVE  /\ Test(n, f) # {} /\ Train(n, f) # {}
                          /\ Train(n, f) \cup Test(n, f) \subseteq 1..n
                          /\ Train(n, f) \cap Test(n, f) = {}
      BY <2>2
    <3>2. f \in Nat /\ TestEnd(n, f) <= n
      BY DEF Folds
    <3>3. /\ TrainEnd(n, f) \in Nat \ {0} /\ TestSize(n) \in Nat \ {0} /\ Embargo \in Nat
          /\ TestStart(n, f) = TrainEnd(n, f) + Embargo
          /\ TestEnd(n, f) = TestStart(n, f) + TestSize(n)
      BY <2>1, <3>2, SplitTypes
    <3>4. 1 \in Train(n, f) /\ TestStart(n, f) + 1 \in Test(n, f)
      BY <3>3 DEF Train, Test
    <3> QED
      BY <2>1, <3>2, <3>3, <3>4 DEF Train, Test
  <2>5. \A f, g \in Folds(n) : f # g => Test(n, f) \cap Test(n, g) = {}
    <3>1. \A f \in Folds(n) : f \in Nat
      BY DEF Folds
    <3>2. \A f, g \in Folds(n) : f < g => Test(n, f) \cap Test(n, g) = {}
      BY <2>1, WindowsAreApart
    <3>3. ASSUME NEW f \in Folds(n), NEW g \in Folds(n), f # g
          PROVE  Test(n, f) \cap Test(n, g) = {}
      <4>1. f < g \/ g < f
        BY <3>1, <3>3
      <4>2. Test(n, f) \cap Test(n, g) = Test(n, g) \cap Test(n, f)
        OBVIOUS
      <4> QED
        BY <3>2, <4>1, <4>2
    <3> QED
      BY <3>3
  <2>6. RowsAreTestedOnce
    BY <2>4, <2>5 DEF RowsAreTestedOnce, n
  <2> QED
    BY <2>1, <2>3, <2>6 DEF FoldsDoNotLeak
<1> QED
  BY MLInvariant, <1>1, PTL

-----------------------------------------------------------------------------
(* The metrics of a run.                                                    *)

\* A running experiment has tested the folds in their order, and could predict on each.
FoldsInOrder ==
    status = "running" => /\ Folds(Len(rows)) # {}
                          /\ \A g \in metrics : "none" \in Outcomes(g)
                          /\ \A g \in metrics, f \in Remaining : g < f

RunInv == MLInv /\ MetricsTellTheRun /\ FoldsInOrder

\* What a fold that could predict says of the run.
LEMMA PredictionsNeed ==
    ASSUME NEW g, "none" \in Outcomes(g)
    PROVE  /\ family \in Supported
           /\ family = "logistic_regression" => library /\ BothClasses(Train(Len(rows), g))
BY DEF Outcomes

\* What an error says of the run and of its fold.
LEMMA ErrorsTell ==
    ASSUME NEW g, NEW e \in Outcomes(g), e # "none"
    PROVE  \/ /\ family = "logistic_regression" /\ family \in Supported
              /\ e = "one_class" <=> ~BothClasses(Train(Len(rows), g))
              /\ e = "no_library" <=> BothClasses(Train(Len(rows), g)) /\ ~library
           \/ family \notin Supported /\ e = "unsupported"
BY DEF Outcomes

\* One fold, or the end of the run at it.
LEMMA RunFoldTells == ASSUME RunInv, RunFold PROVE (MetricsTellTheRun /\ FoldsInOrder)'
<1> DEFINE fold == Min(Remaining)
<1>1. /\ status = "running" /\ UNCHANGED <<nextBar, rows, library, family>> /\ Remaining # {}
      /\ \E outcome \in Outcomes(fold) :
            IF outcome = "none" THEN metrics' = metrics \cup {fold} /\ UNCHANGED <<status, error>>
                                ELSE status' = "failed" /\ error' = outcome /\ UNCHANGED metrics
  BY DEF RunFold
<1>2. fold \in Remaining /\ \A m \in Remaining : fold <= m
  BY <1>1, NextFold
<1> HIDE DEF fold
<1>3. /\ \A g \in metrics : "none" \in Outcomes(g)
      /\ \A g \in metrics, f \in Remaining : g < f
      /\ error = "none"
  BY <1>1 DEF RunInv, FoldsInOrder, MetricsTellTheRun
<1>4. /\ \A f \in Folds(Len(rows)) : f \in Nat
      /\ metrics \subseteq Folds(Len(rows)) /\ Remaining \subseteq Folds(Len(rows))
  BY DEF RunInv, MLInv, MLTypeOK, Remaining, Folds
<1>5. /\ \A g : Outcomes(g)' = Outcomes(g)
      /\ \A g : BothClasses(Train(Len(rows), g))' = BothClasses(Train(Len(rows), g))
  BY <1>1 DEF Outcomes, BothClasses, Classes
<1>6. PICK outcome \in Outcomes(fold) :
        IF outcome = "none" THEN metrics' = metrics \cup {fold} /\ UNCHANGED <<status, error>>
                            ELSE status' = "failed" /\ error' = outcome /\ UNCHANGED metrics
  BY <1>1
<1>7. CASE outcome = "none"
  <2>1. metrics' = metrics \cup {fold} /\ status' = "running" /\ error' = "none"
    BY <1>1, <1>3, <1>6, <1>7
  <2>2. Remaining' = Remaining \ {fold}
    BY <1>1, <2>1 DEF Remaining
  <2>3. \A f \in Remaining' : fold < f
    BY <1>2, <1>4, <2>2
  <2>4. FoldsInOrder'
    <3>1. \A g \in metrics' : "none" \in Outcomes(g)'
      BY <1>3, <1>5, <1>6, <1>7, <2>1
    <3>2. \A g \in metrics', f \in Remaining' : g < f
      BY <1>3, <2>1, <2>2, <2>3
    <3>3. Folds(Len(rows))' # {}
      BY <1>1 DEF RunInv, FoldsInOrder
    <3> QED
      BY <3>1, <3>2, <3>3 DEF FoldsInOrder
  <2> QED
    BY <2>1, <2>4 DEF MetricsTellTheRun
<1>8. CASE outcome # "none"
  <2>1. metrics' = metrics /\ status' = "failed" /\ error' = outcome /\ Remaining' = Remaining
    BY <1>1, <1>6, <1>8 DEF Remaining
  <2>2. metrics = { g \in Folds(Len(rows)) : g < fold }
    <3>1. \A g \in metrics : g < fold
      BY <1>2, <1>3
    <3>2. ASSUME NEW g \in Folds(Len(rows)), g < fold PROVE g \in metrics
      <4>1. g \notin Remaining
        BY <1>2, <1>4, <3>2
      <4> QED
        BY <3>2, <4>1 DEF Remaining
    <3> QED
      BY <1>4, <3>1, <3>2
  <2>3. \A g \in metrics :
          /\ family \in Supported
          /\ family = "logistic_regression" => library /\ BothClasses(Train(Len(rows), g))
    BY <1>3, PredictionsNeed
  <2>4. \/ /\ family = "logistic_regression"
           /\ \A g \in metrics : BothClasses(Train(Len(rows), g))
           /\ outcome = "one_class" <=> ~BothClasses(Train(Len(rows), fold))
           /\ outcome = "no_library" <=> BothClasses(Train(Len(rows), fold)) /\ ~library
           /\ ~library => metrics = {}
        \/ family \notin Supported /\ outcome = "unsupported" /\ metrics = {}
    BY <1>8, <2>3, ErrorsTell
  <2>5. /\ Folds(Len(rows))' = Folds(Len(rows)) /\ library' = library /\ family' = family
    BY <1>1
  <2>6. \E f \in Remaining' :
          /\ metrics' = { g \in Folds(Len(rows))' : g < f }
          /\ \/ /\ family' = "logistic_regression"
                /\ \A g \in metrics' : BothClasses(Train(Len(rows), g))'
                /\ error' = "one_class" <=> ~BothClasses(Train(Len(rows), f))'
                /\ error' = "no_library" <=> BothClasses(Train(Len(rows), f))' /\ ~library'
                /\ ~library' => metrics' = {}
             \/ family' \notin Supported /\ error' = "unsupported" /\ metrics' = {}
    <3>1. fold \in Remaining'
      BY <1>2, <2>1
    <3> QED
      BY <1>5, <2>1, <2>2, <2>4, <2>5, <3>1
  <2> QED
    BY <1>8, <2>1, <2>6 DEF MetricsTellTheRun, FoldsInOrder
<1> QED
  BY <1>7, <1>8

\* What a run leaves behind tells how it went, for any rows, classes and folds and with
\* or without the optional library: all the metrics, each predicted with what it needs,
\* or exactly those of the folds before the one whose error it names (_run_model,
\* _predict).
THEOREM MetricsTold == MLSpec => []MetricsTellTheRun
<1>1. MLInit => MetricsTellTheRun /\ FoldsInOrder
  BY DEF MLInit, MetricsTellTheRun, FoldsInOrder
<1>2. MLInv /\ MetricsTellTheRun /\ FoldsInOrder /\ [MLNext]_mlVars
        => (MetricsTellTheRun /\ FoldsInOrder)'
  <2> SUFFICES ASSUME MLInv, MetricsTellTheRun, FoldsInOrder, [MLNext]_mlVars
               PROVE  (MetricsTellTheRun /\ FoldsInOrder)'
    OBVIOUS
  <2>1. CASE UNCHANGED mlVars
    <3>1. /\ rows' = rows /\ library' = library /\ family' = family /\ status' = status
          /\ error' = error /\ metrics' = metrics
      BY <2>1 DEF mlVars
    <3>2. Remaining' = Remaining /\ Folds(Len(rows))' = Folds(Len(rows))
      BY <3>1 DEF Remaining
    <3>3. \A g : /\ Outcomes(g)' = Outcomes(g)
                 /\ BothClasses(Train(Len(rows), g))' = BothClasses(Train(Len(rows), g))
      BY <3>1 DEF Outcomes, BothClasses, Classes
    <3>4. MetricsTellTheRun'
      BY <3>1, <3>2, <3>3 DEF MetricsTellTheRun
    <3>5. FoldsInOrder'
      BY <3>1, <3>2, <3>3 DEF FoldsInOrder
    <3> QED
      BY <3>4, <3>5
  <2>2. CASE SkipBar \/ \E positive \in BOOLEAN : AddRow(positive)
    <3>1. status = "dataset" /\ status' = "dataset" /\ metrics' = metrics /\ error' = error
      BY <2>2 DEF SkipBar, AddRow
    <3> QED
      BY <3>1 DEF MLInv, MetricsTellTheRun, FoldsInOrder
  <2>3. CASE \E model \in Families : StartRun(model)
    <3>1. /\ status = "dataset" /\ metrics' = {} /\ error' = error
          /\ status' \in {"insufficient_data", "running"}
          /\ status' = "running" => Folds(Len(rows))' # {}
      BY <2>3 DEF StartRun, MLInv
    <3> QED
      BY <3>1 DEF MetricsTellTheRun, FoldsInOrder
  <2>4. CASE RunFold
    BY <2>4, RunFoldTells DEF RunInv
  <2>5. CASE EndRun
    <3>1. /\ status = "running" /\ status' = "completed" /\ Remaining = {}
          /\ UNCHANGED <<nextBar, rows, library, family, error, metrics>>
      BY <2>5 DEF EndRun
    <3>2. metrics = Folds(Len(rows)) /\ error = "none"
      BY <3>1 DEF Remaining, MLInv, MLTypeOK, MetricsTellTheRun
    <3>3. \A g \in metrics : "none" \in Outcomes(g)
      BY <3>1 DEF FoldsInOrder
    <3>4. /\ metrics' = Folds(Len(rows))' /\ error' = "none" /\ status' = "completed"
          /\ family' = family /\ library' = library
      BY <3>1, <3>2
    <3>5. \A g : BothClasses(Train(Len(rows), g))' = BothClasses(Train(Len(rows), g))
      BY <3>1 DEF BothClasses, Classes
    <3>6. \A g \in metrics' : /\ family' \in Supported
                              /\ family' = "logistic_regression" =>
                                    library' /\ BothClasses(Train(Len(rows), g))'
      BY <3>1, <3>3, <3>5, PredictionsNeed
    <3>7. family' \in Supported
      <4>1. metrics' # {}
        BY <3>1, <3>2 DEF FoldsInOrder
      <4> QED
        BY <3>6, <4>1
    <3>8. FoldsInOrder'
      BY <3>4 DEF FoldsInOrder
    <3>9. family' = "logistic_regression" =>
            library' /\ \A g \in metrics' : BothClasses(Train(Len(rows), g))'
      <4>1. metrics' # {}
        BY <3>1, <3>2 DEF FoldsInOrder
      <4> QED
        BY <3>6, <4>1
    <3>10. status' # "failed" /\ status' \notin {"dataset", "insufficient_data"}
      BY <3>4
    <3>11. MetricsTellTheRun'
      BY <3>4, <3>7, <3>9, <3>10, Zenon DEF MetricsTellTheRun
    <3> QED
      BY <3>8, <3>11
  <2> QED
    BY <2>1, <2>2, <2>3, <2>4, <2>5 DEF MLNext
<1> QED
  BY <1>1, <1>2, MLInvariant, PTL DEF MLSpec

-----------------------------------------------------------------------------
(***************************************************************************)
(* The calculators, for every history, period and set of candles.  Each is  *)
(* a loop over the bars, here a recursive function over their positions:    *)
(* that there is one, RecursionExists, is an induction over its length, and *)
(* what it computes is another, over the positions.                         *)
(***************************************************************************)

\* A loop over m positions after a computes each value from the position and the value
\* before.
Loops(V, first, next, a, m) ==
    \E g \in [a..(a + m) -> V] :
        \A n \in a..(a + m) : g[n] = IF n = a THEN first ELSE next[<<n, g[n - 1]>>]

LEMMA RecursionExists ==
    ASSUME NEW V, NEW first \in V, NEW next \in [Nat \X V -> V], NEW a \in Nat, NEW m \in Nat
    PROVE  Loops(V, first, next, a, m)
<1> DEFINE Loop(g, k) == /\ g \in [a..(a + k) -> V]
                         /\ \A n \in a..(a + k) :
                                g[n] = IF n = a THEN first ELSE next[<<n, g[n - 1]>>]
           C == { k \in Nat : \E g : Loop(g, k) }
<1>1. 0 \in C
  <2>1. Loop([n \in a..(a + 0) |-> first], 0)
    OBVIOUS
  <2> QED
    BY <2>1
<1>2. ASSUME NEW k \in Nat, k \in C PROVE k + 1 \in C
  <2>1. PICK g : Loop(g, k)
    BY <1>2
  <2> DEFINE last == next[<<a + k + 1, g[a + k]>>]
             h == [n \in a..(a + k + 1) |-> IF n = a + k + 1 THEN last ELSE g[n]]
  <2>2. last \in V
    <3>1. g[a + k] \in V
      BY <2>1
    <3>2. <<a + k + 1, g[a + k]>> \in Nat \X V
      BY <3>1
    <3> QED
      BY <3>2
  <2>3. h \in [a..(a + k + 1) -> V]
    <3> HIDE DEF last
    <3>1. \A n \in a..(a + k + 1) : n # a + k + 1 => n \in a..(a + k)
      OBVIOUS
    <3> QED
      BY <2>1, <2>2, <3>1
  <2>4. ASSUME NEW n \in a..(a + k + 1)
        PROVE  h[n] = IF n = a THEN first ELSE next[<<n, h[n - 1]>>]
    <3>1. CASE n = a + k + 1
      <4>1. n # a /\ n - 1 = a + k /\ n - 1 \in a..(a + k + 1) /\ n - 1 # a + k + 1
        BY <3>1
      <4> QED
        BY <3>1, <4>1
    <3>2. CASE n # a + k + 1
      <4>1. n \in a..(a + k)
        BY <3>2
      <4>2. n # a => n - 1 \in a..(a + k + 1) /\ n - 1 # a + k + 1
        BY <4>1
      <4>3. h[n] = g[n] /\ (n # a => h[n - 1] = g[n - 1])
        BY <3>2, <4>2
      <4> HIDE DEF h, last
      <4> QED
        BY <2>1, <4>1, <4>3
    <3> QED
      BY <3>1, <3>2
  <2>5. Loop(h, k + 1)
    <3>1. a + (k + 1) = a + k + 1
      OBVIOUS
    <3> HIDE DEF h
    <3> QED
      BY <2>3, <2>4, <3>1
  <2> HIDE DEF Loop, h
  <2> QED
    BY <2>5
<1>3. m \in C
  <2> HIDE DEF C
  <2> QED
    BY <1>1, <1>2, NatSetInduction
<1> QED
  BY <1>3 DEF Loops

\* The least of finitely many and the largest are among them.
LEMMA ExtremesExist ==
    ASSUME NEW m \in Nat \ {0}, NEW f, \A i \in 1..m : f[i] \in Int
    PROVE  \E lo, hi \in 1..m : \A i \in 1..m : f[lo] <= f[i] /\ f[i] <= f[hi]
<1> DEFINE Has(k) == k \in 1..m => \E lo, hi \in 1..k : \A i \in 1..k : f[lo] <= f[i] /\ f[i] <= f[hi]
           C == { k \in Nat : Has(k) }
<1>1. 0 \in C
  OBVIOUS
<1>2. ASSUME NEW k \in Nat, k \in C PROVE k + 1 \in C
  <2>1. SUFFICES ASSUME k + 1 \in 1..m
                 PROVE  \E lo, hi \in 1..(k + 1) : \A i \in 1..(k + 1) : f[lo] <= f[i] /\ f[i] <= f[hi]
    OBVIOUS
  <2>2. CASE k = 0
    BY <2>2
  <2>3. CASE k # 0
    <3>1. PICK lo, hi \in 1..k : \A i \in 1..k : f[lo] <= f[i] /\ f[i] <= f[hi]
      BY <1>2, <2>1, <2>3
    <3> DEFINE less == IF f[k + 1] < f[lo] THEN k + 1 ELSE lo
               more == IF f[k + 1] > f[hi] THEN k + 1 ELSE hi
    <3>2. f[k + 1] \in Int /\ f[lo] \in Int /\ f[hi] \in Int
      BY <2>1, <3>1
    <3>3. less \in 1..(k + 1) /\ more \in 1..(k + 1)
      BY <3>1
    <3>4. ASSUME NEW i \in 1..(k + 1) PROVE f[less] <= f[i] /\ f[i] <= f[more]
      <4>1. f[i] \in Int
        BY <2>1
      <4>2. CASE i = k + 1
        BY <3>2, <4>2
      <4>3. CASE i # k + 1
        <5>1. i \in 1..k
          BY <4>3
        <5>2. f[lo] <= f[i] /\ f[i] <= f[hi]
          BY <3>1, <5>1
        <5> QED
          BY <3>2, <4>1, <5>2
      <4> QED
        BY <4>2, <4>3
    <3> HIDE DEF less, more
    <3> QED
      BY <3>3, <3>4
  <2> QED
    BY <2>2, <2>3
<1>3. m \in C
  <2> HIDE DEF C
  <2> QED
    BY <1>1, <1>2, NatSetInduction
<1> QED
  BY <1>3

-----------------------------------------------------------------------------
(* Sums and powers.                                                         *)

LEMMA SumLoop ==
    ASSUME NEW n \in Nat, NEW v, \A i \in 1..n : v[i] \in Int
    PROVE  \E g \in [0..n -> Int] : /\ g[0] = 0 /\ \A i \in 1..n : g[i] = g[i - 1] + v[i]
                                    /\ SumTo(v, n) = g[n]
<1> DEFINE sum[i \in 0..n] == IF i = 0 THEN 0 ELSE sum[i - 1] + v[i]
           next == [p \in Nat \X Int |-> IF p[1] \in 1..n THEN p[2] + v[p[1]] ELSE 0]
<1>1. SumTo(v, n) = sum[n]
  BY DEF SumTo
<1>2. next \in [Nat \X Int -> Int]
  OBVIOUS
<1>3. PICK g \in [0..(0 + n) -> Int] :
          \A i \in 0..(0 + n) : g[i] = IF i = 0 THEN 0 ELSE next[<<i, g[i - 1]>>]
  <2> HIDE DEF next
  <2>1. Loops(Int, 0, next, 0, n)
    <3>1. 0 \in Nat /\ 0 \in Int
      OBVIOUS
    <3> QED
      BY <1>2, <3>1, RecursionExists, Zenon
  <2> QED
    BY <2>1 DEF Loops
<1>4. g \in [0..n -> Int]
  BY <1>3
<1>5. \A i \in 1..n : g[i] = g[i - 1] + v[i]
  <2>1. SUFFICES ASSUME NEW i \in 1..n PROVE g[i] = g[i - 1] + v[i]
    OBVIOUS
  <2>2. i \in 0..(0 + n) /\ i # 0 /\ i - 1 \in 0..n /\ i \in Nat
    OBVIOUS
  <2>3. g[i - 1] \in Int
    BY <1>4, <2>2
  <2>4. next[<<i, g[i - 1]>>] = g[i - 1] + v[i]
    BY <2>2, <2>3
  <2> QED
    BY <1>3, <2>2, <2>4
<1>6. g[0] = 0
  <2>1. 0 \in 0..(0 + n)
    OBVIOUS
  <2> QED
    BY <1>3, <2>1, Zenon
<1>7. g = [i \in 0..n |-> IF i = 0 THEN 0 ELSE g[i - 1] + v[i]]
  BY <1>4, <1>5, <1>6
<1>8. sum = [i \in 0..n |-> IF i = 0 THEN 0 ELSE sum[i - 1] + v[i]]
  BY <1>7
<1> HIDE DEF sum
<1>9. sum[0] = 0 /\ \A i \in 1..n : sum[i] = sum[i - 1] + v[i]
  BY <1>8
<1> DEFINE C == { k \in Nat : k \in 0..n => sum[k] = g[k] }
<1>10. 0 \in C
  BY <1>6, <1>9
<1>11. ASSUME NEW k \in Nat, k \in C PROVE k + 1 \in C
  <2>1. SUFFICES ASSUME k + 1 \in 0..n PROVE sum[k + 1] = g[k + 1]
    OBVIOUS
  <2>2. k + 1 \in 1..n /\ (k + 1) - 1 = k /\ sum[k] = g[k]
    BY <1>11, <2>1
  <2> QED
    BY <1>5, <1>9, <2>2
<1>12. n \in C
  <2> HIDE DEF C
  <2> QED
    BY <1>10, <1>11, NatSetInduction
<1>13. sum[n] = g[n]
  BY <1>12
<1> HIDE DEF C
<1> QED
  BY <1>1, <1>4, <1>5, <1>6, <1>13

\* SumTo obeys its recursion.
LEMMA SumSteps ==
    ASSUME NEW m \in Nat, NEW v, \A i \in 1..m : v[i] \in Int
    PROVE  /\ SumTo(v, 0) = 0
           /\ \A n \in 0..m : SumTo(v, n) \in Int
           /\ \A n \in 1..m : SumTo(v, n) = SumTo(v, n - 1) + v[n]
<1>1. PICK g \in [0..m -> Int] : /\ g[0] = 0 /\ \A i \in 1..m : g[i] = g[i - 1] + v[i]
                                 /\ SumTo(v, m) = g[m]
  BY SumLoop, Zenon
<1>2. ASSUME NEW n \in 0..m PROVE SumTo(v, n) = g[n]
  <2>1. PICK h \in [0..n -> Int] : /\ h[0] = 0 /\ \A i \in 1..n : h[i] = h[i - 1] + v[i]
                                   /\ SumTo(v, n) = h[n]
    <3>1. n \in Nat /\ \A i \in 1..n : v[i] \in Int
      OBVIOUS
    <3> QED
      BY <3>1, SumLoop
  <2> DEFINE C == { k \in Nat : k \in 0..n => h[k] = g[k] }
  <2>2. 0 \in C
    BY <1>1, <2>1
  <2>3. ASSUME NEW k \in Nat, k \in C PROVE k + 1 \in C
    <3>1. SUFFICES ASSUME k + 1 \in 0..n PROVE h[k + 1] = g[k + 1]
      OBVIOUS
    <3>2. k + 1 \in 1..n /\ k + 1 \in 1..m /\ (k + 1) - 1 = k /\ h[k] = g[k]
      BY <2>3, <3>1
    <3> QED
      BY <1>1, <2>1, <3>2
  <2>4. n \in C
    <3>1. n \in Nat
      OBVIOUS
    <3> HIDE DEF C
    <3> QED
      BY <2>2, <2>3, <3>1, NatSetInduction
  <2> QED
    BY <2>1, <2>4
<1> QED
  <2>1. \A n \in 1..m : n - 1 \in 0..m /\ n \in 0..m
    OBVIOUS
  <2>2. 0 \in 0..m
    OBVIOUS
  <2> QED
    BY <1>1, <1>2, <2>1, <2>2

\* Sums of sums and multiples.
LEMMA SumLinear ==
    ASSUME NEW m \in Nat, NEW u, NEW v, NEW w, NEW x \in Int, NEW y \in Int,
           \A i \in 1..m : u[i] \in Int /\ v[i] \in Int /\ w[i] = x * u[i] + y * v[i]
    PROVE  SumTo(w, m) = x * SumTo(u, m) + y * SumTo(v, m)
<1> DEFINE C == { n \in Nat : n \in 0..m => SumTo(w, n) = x * SumTo(u, n) + y * SumTo(v, n) }
<1>0. \A i \in 1..m : w[i] \in Int
  OBVIOUS
<1>1. /\ SumTo(u, 0) = 0 /\ \A n \in 0..m : SumTo(u, n) \in Int
      /\ \A n \in 1..m : SumTo(u, n) = SumTo(u, n - 1) + u[n]
  BY SumSteps
<1>2. /\ SumTo(v, 0) = 0 /\ \A n \in 0..m : SumTo(v, n) \in Int
      /\ \A n \in 1..m : SumTo(v, n) = SumTo(v, n - 1) + v[n]
  BY SumSteps
<1>3. /\ SumTo(w, 0) = 0
      /\ \A n \in 1..m : SumTo(w, n) = SumTo(w, n - 1) + w[n]
  BY <1>0, SumSteps
<1>4. 0 \in C
  BY <1>1, <1>2, <1>3
<1>5. ASSUME NEW n \in Nat, n \in C PROVE n + 1 \in C
  <2>1. SUFFICES ASSUME n + 1 \in 0..m
                 PROVE  SumTo(w, n + 1) = x * SumTo(u, n + 1) + y * SumTo(v, n + 1)
    OBVIOUS
  <2>2. n + 1 \in 1..m /\ (n + 1) - 1 = n /\ n \in 0..m
    BY <2>1
  <2> DEFINE U == SumTo(u, n)  W == SumTo(v, n)  p == u[n + 1]  q == v[n + 1]
  <2>3. U \in Int /\ W \in Int /\ p \in Int /\ q \in Int
    BY <1>1, <1>2, <2>2
  <2>4. SumTo(w, n) = x * U + y * W
    BY <1>5, <2>2
  <2>5. /\ SumTo(w, n + 1) = SumTo(w, n) + (x * p + y * q)
        /\ SumTo(u, n + 1) = U + p /\ SumTo(v, n + 1) = W + q
    BY <1>1, <1>2, <1>3, <2>2
  <2> HIDE DEF U, W, p, q
  <2>6. x * (U + p) + y * (W + q) = (x * U + y * W) + (x * p + y * q)
    BY <2>3
  <2> QED
    BY <2>4, <2>5, <2>6
<1>6. m \in C
  <2> HIDE DEF C
  <2> QED
    BY <1>4, <1>5, NatSetInduction
<1> QED
  BY <1>6

LEMMA SumScaled ==
    ASSUME NEW m \in Nat, NEW u, NEW w, NEW x \in Int,
           \A i \in 1..m : u[i] \in Int /\ w[i] = x * u[i]
    PROVE  SumTo(u, m) \in Int /\ SumTo(w, m) = x * SumTo(u, m)
<1>1. \A i \in 1..m : u[i] \in Int /\ u[i] \in Int /\ w[i] = x * u[i] + 0 * u[i]
  <2>1. \A y \in Int : x * y = x * y + 0 * y
    OBVIOUS
  <2> QED
    BY <2>1
<1>2. SumTo(w, m) = x * SumTo(u, m) + 0 * SumTo(u, m)
  BY <1>1, SumLinear
<1>3. SumTo(u, m) \in Int /\ 0 \in Int
  BY SumSteps
<1> DEFINE s == SumTo(u, m)
<1>4. s \in Int /\ SumTo(w, m) = x * s + 0 * s
  BY <1>2, <1>3
<1> HIDE DEF s
<1>5. x * s + 0 * s = x * s
  BY <1>4
<1> QED
  BY <1>4, <1>5 DEF s

\* A sum whose terms are no larger is no larger.
LEMMA SumMonotone ==
    ASSUME NEW m \in Nat, NEW u, NEW v, \A i \in 1..m : u[i] \in Int /\ v[i] \in Int /\ u[i] <= v[i]
    PROVE  SumTo(u, m) <= SumTo(v, m)
<1> DEFINE C == { n \in Nat : n \in 0..m => SumTo(u, n) <= SumTo(v, n) }
<1>1. /\ SumTo(u, 0) = 0 /\ \A n \in 0..m : SumTo(u, n) \in Int
      /\ \A n \in 1..m : SumTo(u, n) = SumTo(u, n - 1) + u[n]
  BY SumSteps
<1>2. /\ SumTo(v, 0) = 0 /\ \A n \in 0..m : SumTo(v, n) \in Int
      /\ \A n \in 1..m : SumTo(v, n) = SumTo(v, n - 1) + v[n]
  BY SumSteps
<1>3. 0 \in C
  BY <1>1, <1>2
<1>4. ASSUME NEW n \in Nat, n \in C PROVE n + 1 \in C
  <2>1. SUFFICES ASSUME n + 1 \in 0..m PROVE SumTo(u, n + 1) <= SumTo(v, n + 1)
    OBVIOUS
  <2>2. n + 1 \in 1..m /\ (n + 1) - 1 = n /\ n \in 0..m
    BY <2>1
  <2>3. /\ SumTo(u, n) \in Int /\ SumTo(u, n + 1) = SumTo(u, n) + u[n + 1]
        /\ SumTo(v, n) \in Int /\ SumTo(v, n + 1) = SumTo(v, n) + v[n + 1]
        /\ u[n + 1] \in Int /\ v[n + 1] \in Int /\ u[n + 1] <= v[n + 1]
        /\ SumTo(u, n) <= SumTo(v, n)
    BY <1>1, <1>2, <1>4, <2>2
  <2> QED
    BY <2>3
<1>5. m \in C
  <2> HIDE DEF C
  <2> QED
    BY <1>3, <1>4, NatSetInduction
<1> QED
  BY <1>5

\* The sum of values between two bounds.
LEMMA SumBounds ==
    ASSUME NEW m \in Nat, NEW v, NEW lo \in Int, NEW hi \in Int,
           \A i \in 1..m : v[i] \in Int /\ lo <= v[i] /\ v[i] <= hi
    PROVE  m * lo <= SumTo(v, m) /\ SumTo(v, m) <= m * hi
<1> DEFINE C == { n \in Nat : n \in 0..m => n * lo <= SumTo(v, n) /\ SumTo(v, n) <= n * hi }
<1>1. /\ SumTo(v, 0) = 0 /\ \A n \in 0..m : SumTo(v, n) \in Int
      /\ \A n \in 1..m : SumTo(v, n) = SumTo(v, n - 1) + v[n]
  BY SumSteps
<1>2. 0 \in C
  BY <1>1
<1>3. ASSUME NEW n \in Nat, n \in C PROVE n + 1 \in C
  <2>1. SUFFICES ASSUME n + 1 \in 0..m
                 PROVE  (n + 1) * lo <= SumTo(v, n + 1) /\ SumTo(v, n + 1) <= (n + 1) * hi
    OBVIOUS
  <2>2. n + 1 \in 1..m /\ (n + 1) - 1 = n /\ n \in 0..m
    BY <2>1
  <2>3. /\ SumTo(v, n) \in Int /\ SumTo(v, n + 1) = SumTo(v, n) + v[n + 1]
        /\ v[n + 1] \in Int /\ lo <= v[n + 1] /\ v[n + 1] <= hi
        /\ n * lo <= SumTo(v, n) /\ SumTo(v, n) <= n * hi
    BY <1>1, <1>3, <2>2
  <2>4. (n + 1) * lo = n * lo + lo /\ (n + 1) * hi = n * hi + hi
    OBVIOUS
  <2>5. n * lo \in Int /\ n * hi \in Int
    OBVIOUS
  <2> QED
    BY <2>3, <2>4, <2>5
<1>4. m \in C
  <2> HIDE DEF C
  <2> QED
    BY <1>2, <1>3, NatSetInduction
<1> QED
  BY <1>4

\* A sum of natural numbers is at least any two of them.
LEMMA SumOfTwo ==
    ASSUME NEW m \in Nat, NEW v, \A i \in 1..m : v[i] \in Nat, NEW i \in 1..m, NEW j \in 1..m
    PROVE  /\ SumTo(v, m) \in Nat /\ v[i] <= SumTo(v, m)
           /\ i # j => v[i] + v[j] <= SumTo(v, m)
<1> DEFINE at(n, k) == IF k <= n THEN v[k] ELSE 0
           C == { n \in Nat : n \in 0..m => /\ SumTo(v, n) \in Nat /\ at(n, i) <= SumTo(v, n)
                                            /\ i # j => at(n, i) + at(n, j) <= SumTo(v, n) }
<1>0. \A k \in 1..m : v[k] \in Int
  OBVIOUS
<1>1. /\ SumTo(v, 0) = 0
      /\ \A n \in 1..m : SumTo(v, n) = SumTo(v, n - 1) + v[n]
  BY <1>0, SumSteps
<1>2. 0 \in C
  BY <1>1
<1>3. ASSUME NEW n \in Nat, n \in C PROVE n + 1 \in C
  <2>1. SUFFICES ASSUME n + 1 \in 0..m
                 PROVE  /\ SumTo(v, n + 1) \in Nat /\ at(n + 1, i) <= SumTo(v, n + 1)
                        /\ i # j => at(n + 1, i) + at(n + 1, j) <= SumTo(v, n + 1)
    OBVIOUS
  <2>2. n + 1 \in 1..m /\ (n + 1) - 1 = n /\ n \in 0..m
    BY <2>1
  <2>3. /\ SumTo(v, n) \in Nat /\ SumTo(v, n + 1) = SumTo(v, n) + v[n + 1] /\ v[n + 1] \in Nat
        /\ at(n, i) <= SumTo(v, n) /\ (i # j => at(n, i) + at(n, j) <= SumTo(v, n))
    BY <1>1, <1>3, <2>2
  <2>4. /\ v[i] \in Nat /\ v[j] \in Nat
        /\ at(n + 1, i) = at(n, i) + (IF i = n + 1 THEN v[n + 1] ELSE 0)
        /\ at(n + 1, j) = at(n, j) + (IF j = n + 1 THEN v[n + 1] ELSE 0)
        /\ at(n, i) \in Nat /\ at(n, j) \in Nat
    OBVIOUS
  <2> HIDE DEF at
  <2> QED
    BY <2>3, <2>4
<1>4. m \in C
  <2> HIDE DEF C
  <2> QED
    BY <1>2, <1>3, NatSetInduction
<1>5. at(m, i) = v[i] /\ at(m, j) = v[j]
  OBVIOUS
<1> HIDE DEF at
<1> QED
  BY <1>4, <1>5

LEMMA PowerLoop ==
    ASSUME NEW n \in Nat, NEW b \in Nat
    PROVE  \E g \in [0..n -> Nat] : /\ g[0] = 1 /\ \A i \in 1..n : g[i] = b * g[i - 1]
                                    /\ Power(b, n) = g[n]
<1> DEFINE power[i \in 0..n] == IF i = 0 THEN 1 ELSE b * power[i - 1]
           next == [p \in Nat \X Nat |-> b * p[2]]
<1>1. Power(b, n) = power[n]
  BY DEF Power
<1>2. next \in [Nat \X Nat -> Nat]
  BY ProductNat
<1>3. PICK g \in [0..(0 + n) -> Nat] :
          \A i \in 0..(0 + n) : g[i] = IF i = 0 THEN 1 ELSE next[<<i, g[i - 1]>>]
  <2> HIDE DEF next
  <2>1. Loops(Nat, 1, next, 0, n)
    BY <1>2, RecursionExists
  <2> QED
    BY <2>1 DEF Loops
<1>4. g \in [0..n -> Nat]
  BY <1>3
<1>5. \A i \in 1..n : g[i] = b * g[i - 1]
  <2>1. SUFFICES ASSUME NEW i \in 1..n PROVE g[i] = b * g[i - 1]
    OBVIOUS
  <2>2. i \in 0..(0 + n) /\ i # 0 /\ i - 1 \in 0..n /\ i \in Nat
    OBVIOUS
  <2>3. g[i - 1] \in Nat
    BY <1>4, <2>2
  <2>4. next[<<i, g[i - 1]>>] = b * g[i - 1]
    BY <2>2, <2>3
  <2> QED
    BY <1>3, <2>2, <2>4
<1>6. g[0] = 1
  <2>1. 0 \in 0..(0 + n)
    OBVIOUS
  <2> QED
    BY <1>3, <2>1, Zenon
<1>7. g = [i \in 0..n |-> IF i = 0 THEN 1 ELSE b * g[i - 1]]
  BY <1>4, <1>5, <1>6
<1>8. power = [i \in 0..n |-> IF i = 0 THEN 1 ELSE b * power[i - 1]]
  BY <1>7
<1> HIDE DEF power
<1>9. power[0] = 1 /\ \A i \in 1..n : power[i] = b * power[i - 1]
  BY <1>8
<1> DEFINE C == { k \in Nat : k \in 0..n => power[k] = g[k] }
<1>10. 0 \in C
  BY <1>6, <1>9
<1>11. ASSUME NEW k \in Nat, k \in C PROVE k + 1 \in C
  <2>1. SUFFICES ASSUME k + 1 \in 0..n PROVE power[k + 1] = g[k + 1]
    OBVIOUS
  <2>2. k + 1 \in 1..n /\ (k + 1) - 1 = k /\ power[k] = g[k]
    BY <1>11, <2>1
  <2> QED
    BY <1>5, <1>9, <2>2
<1>12. n \in C
  <2> HIDE DEF C
  <2> QED
    BY <1>10, <1>11, NatSetInduction
<1>13. power[n] = g[n]
  BY <1>12
<1> HIDE DEF C
<1> QED
  BY <1>1, <1>4, <1>5, <1>6, <1>13

\* Power obeys its recursion.
LEMMA PowerSteps ==
    ASSUME NEW b \in Nat
    PROVE  /\ Power(b, 0) = 1
           /\ \A n \in Nat : Power(b, n) \in Nat /\ Power(b, n + 1) = b * Power(b, n)
<1>1. ASSUME NEW n \in Nat PROVE Power(b, n + 1) = b * Power(b, n)
  <2>1. PICK g \in [0..(n + 1) -> Nat] :
            /\ g[0] = 1 /\ \A i \in 1..(n + 1) : g[i] = b * g[i - 1]
            /\ Power(b, n + 1) = g[n + 1]
    <3>1. n + 1 \in Nat
      OBVIOUS
    <3> QED
      BY <3>1, PowerLoop
  <2>2. PICK h \in [0..n -> Nat] : /\ h[0] = 1 /\ \A i \in 1..n : h[i] = b * h[i - 1]
                                   /\ Power(b, n) = h[n]
    BY PowerLoop
  <2> DEFINE C == { k \in Nat : k \in 0..n => h[k] = g[k] }
  <2>3. 0 \in C
    BY <2>1, <2>2
  <2>4. ASSUME NEW k \in Nat, k \in C PROVE k + 1 \in C
    <3>1. SUFFICES ASSUME k + 1 \in 0..n PROVE h[k + 1] = g[k + 1]
      OBVIOUS
    <3>2. k + 1 \in 1..n /\ k + 1 \in 1..(n + 1) /\ (k + 1) - 1 = k /\ h[k] = g[k]
      BY <2>4, <3>1
    <3> QED
      BY <2>1, <2>2, <3>2
  <2>5. n \in C
    <3> HIDE DEF C
    <3> QED
      BY <2>3, <2>4, NatSetInduction
  <2>6. n + 1 \in 1..(n + 1) /\ (n + 1) - 1 = n
    OBVIOUS
  <2> QED
    BY <2>1, <2>2, <2>5, <2>6
<1>2. \A n \in Nat : Power(b, n) \in Nat
  <2>1. SUFFICES ASSUME NEW n \in Nat PROVE Power(b, n) \in Nat
    OBVIOUS
  <2>2. PICK h \in [0..n -> Nat] : Power(b, n) = h[n]
    BY PowerLoop
  <2> QED
    BY <2>2
<1>3. Power(b, 0) = 1
  <2>1. PICK h \in [0..0 -> Nat] : h[0] = 1 /\ Power(b, 0) = h[0]
    BY PowerLoop
  <2> QED
    BY <2>1
<1> QED
  BY <1>1, <1>2, <1>3

LEMMA PowerPositive ==
    ASSUME NEW b \in Nat \ {0}, NEW n \in Nat
    PROVE  Power(b, n) \in Nat \ {0}
<1> DEFINE C == { k \in Nat : Power(b, k) \in Nat \ {0} }
<1>1. 0 \in C
  BY PowerSteps
<1>2. ASSUME NEW k \in Nat, k \in C PROVE k + 1 \in C
  <2> DEFINE p == Power(b, k)
  <2>1. p \in Nat \ {0} /\ Power(b, k + 1) = b * p
    BY <1>2, PowerSteps
  <2> HIDE DEF p
  <2>2. b * p \in Nat /\ b * p >= p
    <3>1. b * p = p + (b - 1) * p /\ (b - 1) * p \in Nat
      BY <2>1, ProductNat
    <3> QED
      BY <2>1, <3>1
  <2> QED
    BY <2>1, <2>2
<1>3. n \in C
  <2> HIDE DEF C
  <2> QED
    BY <1>1, <1>2, NatSetInduction
<1> QED
  BY <1>3

\* What a power of b divides, each smaller power of b divides too.
LEMMA PowersDivide ==
    ASSUME NEW b \in Nat \ {0}, NEW x \in Nat \ {0}, NEW m \in Nat, NEW q \in Nat,
           x = q * Power(b, m), NEW j \in 0..m
    PROVE  \E u \in Nat \ {0} : x = u * Power(b, j)
<1> DEFINE C == { k \in Nat : k \in 0..m => \E u \in Nat : x = u * Power(b, m - k) }
<1>1. 0 \in C
  OBVIOUS
<1>2. ASSUME NEW k \in Nat, k \in C PROVE k + 1 \in C
  <2>1. SUFFICES ASSUME k + 1 \in 0..m PROVE \E u \in Nat : x = u * Power(b, m - (k + 1))
    OBVIOUS
  <2>2. k \in 0..m
    BY <2>1
  <2>3. PICK u \in Nat : x = u * Power(b, m - k)
    BY <1>2, <2>2
  <2> DEFINE e == m - (k + 1)
             p == Power(b, e)
  <2>4. e \in Nat /\ m - k = e + 1
    BY <2>1
  <2>5. p \in Nat /\ Power(b, m - k) = b * p
    <3> HIDE DEF e
    <3>1. b \in Nat
      OBVIOUS
    <3>2. p \in Nat /\ Power(b, e + 1) = b * p
      BY <2>4, <3>1, PowerSteps
    <3> QED
      BY <2>4, <3>2
  <2> HIDE DEF p, e
  <2>6. u * (b * p) = (u * b) * p /\ u * b \in Nat
    BY <2>5, ProductNat
  <2>7. x = (u * b) * p
    BY <2>3, <2>5, <2>6
  <2> QED
    BY <2>6, <2>7 DEF p, e
<1>3. m - j \in C
  <2>1. m - j \in Nat
    OBVIOUS
  <2> HIDE DEF C
  <2> QED
    BY <1>1, <1>2, <2>1, NatSetInduction
<1>4. m - (m - j) = j /\ m - j \in 0..m
  OBVIOUS
<1>5. PICK u \in Nat : x = u * Power(b, j)
  BY <1>3, <1>4
<1>6. u # 0
  <2>1. Power(b, j) \in Nat
    <3>1. b \in Nat /\ j \in Nat
      OBVIOUS
    <3> QED
      BY <3>1, PowerSteps
  <2> QED
    BY <1>5, <2>1
<1> QED
  BY <1>5, <1>6

LEMMA ExactDivision ==
    ASSUME NEW d \in Nat \ {0}, NEW y \in Int
    PROVE  (d * y) \div d = y
<1> DEFINE x == d * y
           q == x \div d
           r == x % d
<1>1. x \in Int /\ q \in Int /\ x = d * q + r /\ r \in 0..(d - 1)
  OBVIOUS
<1>2. x = d * y
  OBVIOUS
<1> HIDE DEF x, q, r
<1>3. d * (y - q) = r
  <2>1. d * (y - q) = d * y - d * q
    BY <1>1
  <2> QED
    BY <1>1, <1>2, <2>1
<1>4. CASE y - q >= 1
  <2>1. d * (y - q) = d + d * (y - q - 1)
    BY <1>1
  <2>2. d * (y - q - 1) \in Nat
    BY <1>1, <1>4, ProductNat
  <2> QED
    BY <1>1, <1>3, <2>1, <2>2
<1>5. CASE y - q <= -1
  <2>1. d * (y - q) = -d - d * (q - y - 1)
    BY <1>1
  <2>2. d * (q - y - 1) \in Nat
    BY <1>1, <1>5, ProductNat
  <2> QED
    BY <1>1, <1>3, <2>1, <2>2
<1>6. CASE y - q = 0
  BY <1>1, <1>6 DEF q, x
<1> QED
  BY <1>1, <1>4, <1>5, <1>6

\* A quotient is at least what d goes into, and at most what it stays within.
LEMMA DivBetween ==
    ASSUME NEW x \in Int, NEW d \in Nat \ {0}, NEW lo \in Int, NEW hi \in Int,
           d * lo <= x, x <= d * hi
    PROVE  x \div d \in lo..hi
<1> DEFINE q == x \div d
           r == x % d
<1>1. q \in Int /\ x = d * q + r /\ r \in 0..(d - 1)
  OBVIOUS
<1> HIDE DEF q, r
<1>2. q >= lo
  <2>1. SUFFICES ASSUME q + 1 <= lo PROVE FALSE
    BY <1>1
  <2>2. d * lo = d * q + d + d * (lo - q - 1)
    BY <1>1
  <2>3. d * (lo - q - 1) \in Nat
    BY <1>1, <2>1, ProductNat
  <2>4. d * q \in Int /\ d * lo \in Int
    BY <1>1
  <2> QED
    BY <1>1, <2>2, <2>3, <2>4
<1>3. q <= hi
  <2>1. SUFFICES ASSUME hi + 1 <= q PROVE FALSE
    BY <1>1
  <2>2. d * q = d * hi + d + d * (q - hi - 1)
    BY <1>1
  <2>3. d * (q - hi - 1) \in Nat
    BY <1>1, <2>1, ProductNat
  <2>4. d * q \in Int /\ d * hi \in Int
    BY <1>1
  <2> QED
    BY <1>1, <2>2, <2>3, <2>4
<1> QED
  BY <1>1, <1>2, <1>3 DEF q

-----------------------------------------------------------------------------
(* The running average of values of which the first may be missing.         *)

Readings == Int \cup {Undefined}

Averages(a, v, n) ==
    a[n] = IF v[n] = Undefined THEN a[n - 1]
           ELSE IF a[n - 1] = Undefined THEN v[n]
           ELSE (v[n] + (Period - 1) * a[n - 1]) \div Period

LEMMA LenIs ==
    ASSUME NEW S, NEW m \in Nat, NEW f \in [1..m -> S]
    PROVE  f \in Seq(S) /\ Len(f) = m
<1>1. f \in Seq(S)
  BY SeqDef
<1>2. Len(f) \in Nat /\ 1..Len(f) = 1..m
  BY <1>1
<1>3. \A k \in Nat : k \in 1..Len(f) <=> k \in 1..m
  BY <1>2
<1> QED
  BY <1>1, <1>2, <1>3

LEMMA PeriodFacts == Period \in Nat /\ Period > 1 /\ Period - 1 \in Nat \ {0} /\ Undefined \notin Int
BY IndicatorAssumption

LEMMA AverageIsInt ==
    ASSUME NEW x \in Int, NEW y \in Int
    PROVE  (x + (Period - 1) * y) \div Period \in Int
<1>1. (Period - 1) * y \in Int
  BY PeriodFacts
<1> DEFINE z == (Period - 1) * y
<1> HIDE DEF z
<1>2. (x + z) \div Period \in Int
  BY <1>1, PeriodFacts DEF z
<1> QED
  BY <1>2 DEF z

LEMMA RmaLoop ==
    ASSUME NEW m \in Nat, NEW v \in [1..m -> Readings]
    PROVE  \E a \in [0..m -> Readings] :
               /\ a[0] = Undefined /\ \A n \in 1..m : Averages(a, v, n)
               /\ Rma(v) = [n \in 1..m |-> IF v[n] = Undefined THEN Undefined ELSE a[n]]
<1> DEFINE average[n \in 0..Len(v)] ==
               IF n = 0 THEN Undefined
               ELSE IF v[n] = Undefined THEN average[n - 1]
               ELSE IF average[n - 1] = Undefined THEN v[n]
               ELSE (v[n] + (Period - 1) * average[n - 1]) \div Period
           mean(x, y) == (x + (Period - 1) * y) \div Period
           blend(x, y) == IF x = Undefined THEN y ELSE IF y = Undefined THEN x ELSE mean(x, y)
           next == [p \in Nat \X Readings |-> IF p[1] \in 1..m THEN blend(v[p[1]], p[2]) ELSE Undefined]
<1>1. Rma(v) = [n \in 1..Len(v) |-> IF v[n] = Undefined THEN Undefined ELSE average[n]]
  BY DEF Rma
<1>2. Len(v) = m
  BY LenIs
<1>3. \A x, y \in Readings : blend(x, y) \in Readings
  <2>1. \A x, y \in Int : mean(x, y) \in Int
    BY AverageIsInt
  <2> HIDE DEF mean
  <2> QED
    BY <2>1 DEF Readings
<1>4. next \in [Nat \X Readings -> Readings]
  <2> HIDE DEF blend
  <2>1. \A p \in Nat \X Readings : p[1] \in Nat /\ p[2] \in Readings
    OBVIOUS
  <2>2. Undefined \in Readings
    BY DEF Readings
  <2> QED
    BY <1>3, <2>1, <2>2
<1>5. PICK g \in [0..(0 + m) -> Readings] :
          \A i \in 0..(0 + m) : g[i] = IF i = 0 THEN Undefined ELSE next[<<i, g[i - 1]>>]
  <2>1. Undefined \in Readings
    BY DEF Readings
  <2> HIDE DEF next
  <2>2. Loops(Readings, Undefined, next, 0, m)
    BY <1>4, <2>1, RecursionExists
  <2> QED
    BY <2>2 DEF Loops
<1>6. g \in [0..m -> Readings] /\ g[0] = Undefined
  <2>1. 0 \in 0..(0 + m) /\ 0 + m = m
    OBVIOUS
  <2>2. g[0] = Undefined
    BY <1>5, <2>1, Zenon
  <2> QED
    BY <1>5, <2>1, <2>2
<1>7. \A i \in 1..m : Averages(g, v, i)
  <2>1. SUFFICES ASSUME NEW i \in 1..m PROVE Averages(g, v, i)
    OBVIOUS
  <2>2. i \in 0..(0 + m) /\ i # 0 /\ i - 1 \in 0..m /\ i \in Nat
    OBVIOUS
  <2>3. g[i - 1] \in Readings
    BY <1>6, <2>2
  <2>4. next[<<i, g[i - 1]>>] = blend(v[i], g[i - 1])
    <3> HIDE DEF blend
    <3> QED
      BY <2>2, <2>3
  <2>5. g[i] = blend(v[i], g[i - 1])
    <3> HIDE DEF blend, next
    <3> QED
      BY <1>5, <2>2, <2>4
  <2> HIDE DEF next
  <2> QED
    BY <2>5 DEF Averages
<1> HIDE DEF next
<1>8. g = [n \in 0..Len(v) |-> IF n = 0 THEN Undefined
                               ELSE IF v[n] = Undefined THEN g[n - 1]
                               ELSE IF g[n - 1] = Undefined THEN v[n]
                               ELSE (v[n] + (Period - 1) * g[n - 1]) \div Period]
  BY <1>2, <1>6, <1>7 DEF Averages
<1>9. average = [n \in 0..Len(v) |-> IF n = 0 THEN Undefined
                               ELSE IF v[n] = Undefined THEN average[n - 1]
                               ELSE IF average[n - 1] = Undefined THEN v[n]
                               ELSE (v[n] + (Period - 1) * average[n - 1]) \div Period]
  BY <1>8
<1> HIDE DEF average
<1>10. average[0] = Undefined /\ \A n \in 1..m : Averages(average, v, n)
  BY <1>2, <1>9 DEF Averages
<1> DEFINE C == { k \in Nat : k \in 0..m => average[k] = g[k] }
<1>11. 0 \in C
  BY <1>6, <1>10
<1>12. ASSUME NEW k \in Nat, k \in C PROVE k + 1 \in C
  <2>1. SUFFICES ASSUME k + 1 \in 0..m PROVE average[k + 1] = g[k + 1]
    OBVIOUS
  <2>2. k + 1 \in 1..m /\ (k + 1) - 1 = k /\ average[k] = g[k]
    BY <1>12, <2>1
  <2>3. Averages(average, v, k + 1) /\ Averages(g, v, k + 1)
    BY <1>7, <1>10, <2>2
  <2> QED
    BY <2>2, <2>3 DEF Averages
<1>13. Nat \subseteq C
  <2> HIDE DEF C
  <2> QED
    BY <1>11, <1>12, NatSetInduction
<1>14. \A n \in 1..m : average[n] = g[n]
  BY <1>13
<1>15. Rma(v) = [n \in 1..m |-> IF v[n] = Undefined THEN Undefined ELSE g[n]]
  BY <1>1, <1>2, <1>14
<1> QED
  BY <1>6, <1>7, <1>15

\* The running average stays in every set of numbers that averaging does not leave, and is
\* missing where the value is.
LEMMA RmaStays ==
    ASSUME NEW m \in Nat, NEW v \in [1..m -> Readings], NEW K, K \subseteq Int,
           \A n \in 1..m : v[n] \in K \cup {Undefined},
           \A x, y \in K : (x + (Period - 1) * y) \div Period \in K
    PROVE  /\ Rma(v) \in [1..m -> Readings] /\ Len(Rma(v)) = m
           /\ \A n \in 1..m : IF v[n] = Undefined THEN Rma(v)[n] = Undefined ELSE Rma(v)[n] \in K
<1>1. PICK a \in [0..m -> Readings] :
          /\ a[0] = Undefined /\ \A n \in 1..m : Averages(a, v, n)
          /\ Rma(v) = [n \in 1..m |-> IF v[n] = Undefined THEN Undefined ELSE a[n]]
  BY RmaLoop
<1> DEFINE C == { n \in Nat : n \in 0..m => /\ a[n] \in K \cup {Undefined}
                                            /\ n > 0 /\ v[n] # Undefined => a[n] \in K }
           mean(x, y) == (x + (Period - 1) * y) \div Period
<1>2. 0 \in C
  BY <1>1
<1>3. ASSUME NEW n \in Nat, n \in C PROVE n + 1 \in C
  <2>1. SUFFICES ASSUME n + 1 \in 0..m
                 PROVE  /\ a[n + 1] \in K \cup {Undefined}
                        /\ v[n + 1] # Undefined => a[n + 1] \in K
    BY DEF C
  <2>2. n + 1 \in 1..m /\ (n + 1) - 1 = n /\ n \in 0..m
    BY <2>1
  <2>3. a[n] \in K \cup {Undefined} /\ v[n + 1] \in K \cup {Undefined}
    BY <1>3, <2>2
  <2>4. Averages(a, v, n + 1)
    BY <1>1, <2>2
  <2>5. \A x, y \in K : mean(x, y) \in K
    OBVIOUS
  <2>6. a[n + 1] = IF v[n + 1] = Undefined THEN a[n]
                   ELSE IF a[n] = Undefined THEN v[n + 1] ELSE mean(v[n + 1], a[n])
    BY <2>2, <2>4 DEF Averages
  <2> HIDE DEF mean
  <2> QED
    BY <2>3, <2>5, <2>6
<1>4. Nat \subseteq C
  <2> HIDE DEF C
  <2> QED
    BY <1>2, <1>3, NatSetInduction
<1>5. \A n \in 1..m : v[n] # Undefined => a[n] \in K
  BY <1>4
<1>6. Rma(v) \in [1..m -> Readings]
  BY <1>1 DEF Readings
<1>7. Len(Rma(v)) = m
  BY <1>6, LenIs
<1> HIDE DEF C, mean
<1> QED
  BY <1>1, <1>5, <1>6, <1>7

LEMMA MeanWithin ==
    ASSUME NEW lo \in Int, NEW hi \in Int, NEW x \in lo..hi, NEW y \in lo..hi
    PROVE  (x + (Period - 1) * y) \div Period \in lo..hi
<1> DEFINE p == Period - 1
           z == p * y
<1>1. p \in Nat /\ Period = p + 1
  BY PeriodFacts
<1> HIDE DEF p
<1>2. z \in Int /\ p * lo <= z /\ z <= p * hi /\ p * lo \in Int /\ p * hi \in Int
  <2>1. p * (y - lo) \in Nat /\ p * (hi - y) \in Nat
    BY <1>1, ProductNat
  <2>2. p * (y - lo) = z - p * lo /\ p * (hi - y) = p * hi - z /\ z \in Int
    BY <1>1
  <2>3. p * lo \in Int /\ p * hi \in Int
    BY <1>1
  <2> HIDE DEF z
  <2> QED
    BY <2>1, <2>2, <2>3
<1>3. (p + 1) * lo = p * lo + lo /\ (p + 1) * hi = p * hi + hi
  BY <1>1
<1> HIDE DEF z
<1>4. Period * lo <= x + z /\ x + z <= Period * hi
  BY <1>1, <1>2, <1>3
<1>5. Period \in Nat \ {0} /\ x + z \in Int
  BY <1>1, <1>2
<1>6. (x + z) \div Period \in lo..hi
  BY <1>4, <1>5, DivBetween
<1> QED
  BY <1>6 DEF z, p

LEMMA MeanIsNat ==
    ASSUME NEW x \in Nat, NEW y \in Nat
    PROVE  (x + (Period - 1) * y) \div Period \in Nat
<1>1. x \in 0..(x + y) /\ y \in 0..(x + y) /\ 0 \in Int /\ x + y \in Int
  OBVIOUS
<1>2. (x + (Period - 1) * y) \div Period \in 0..(x + y)
  BY <1>1, MeanWithin
<1> DEFINE z == (x + (Period - 1) * y) \div Period
<1>3. z \in 0..(x + y)
  BY <1>2
<1> HIDE DEF z
<1>4. z \in Nat
  BY <1>3
<1> QED
  BY <1>4 DEF z

\* A large value is large in the average for as long as the history goes on.
LEMMA MeanVanishes ==
    ASSUME NEW x \in Nat, NEW y \in Nat, NEW p \in Nat \ {0}
    PROVE  /\ x = 0 /\ y = 0 => (x + (Period - 1) * y) \div Period = 0
           /\ Period * p <= x \/ Period * p <= y => p <= (x + (Period - 1) * y) \div Period
<1> DEFINE z == x + (Period - 1) * y
           q == z \div Period
<1>1. Period \in Nat \ {0} /\ Period > 1
  BY PeriodFacts
<1>2. (Period - 1) * y \in Nat /\ y <= (Period - 1) * y
  <2>1. Period - 2 \in Nat
    BY <1>1
  <2>2. (Period - 2) * y \in Nat
    BY <2>1, ProductNat
  <2>3. (Period - 1) * y = (Period - 2) * y + y
    BY <1>1
  <2> QED
    BY <2>2, <2>3
<1>3. z \in Nat /\ x <= z /\ y <= z
  <2> DEFINE t == (Period - 1) * y
  <2>1. t \in Nat /\ y <= t /\ z = x + t
    BY <1>2
  <2> HIDE DEF t, z
  <2> QED
    BY <2>1
<1>4. x = 0 /\ y = 0 => q = 0
  <2>1. SUFFICES ASSUME x = 0, y = 0 PROVE q = 0
    OBVIOUS
  <2>2. (Period - 1) * y = 0
    BY <1>1, <2>1
  <2>3. z = 0
    BY <2>1, <2>2
  <2> HIDE DEF z
  <2> QED
    BY <1>1, <2>3
<1>5. Period * p <= x \/ Period * p <= y => p <= q
  <2>1. SUFFICES ASSUME Period * p <= z PROVE p <= q
    <3>1. Period * p \in Nat
      BY <1>1, ProductNat
    <3> HIDE DEF z, q
    <3> QED
      BY <1>3, <3>1
  <2>2. z <= Period * z
    <3> HIDE DEF z
    <3>1. Period * z = z + (Period - 1) * z /\ (Period - 1) * z \in Nat
      BY <1>1, <1>3, ProductNat
    <3> QED
      BY <1>3, <3>1
  <2>3. q \in p..z
    <3>1. z \in Int /\ p \in Int
      BY <1>3
    <3> HIDE DEF z
    <3> QED
      BY <1>1, <2>1, <2>2, <3>1, DivBetween
  <2>4. z \in Int
    BY <1>3
  <2> HIDE DEF z, q
  <2> QED
    BY <2>3, <2>4
<1> QED
  BY <1>4, <1>5 DEF z, q

LEMMA PowersGrow ==
    ASSUME NEW b \in Nat \ {0}, NEW m \in Nat, NEW j \in 0..m
    PROVE  Power(b, j) \in Nat \ {0} /\ Power(b, j) <= Power(b, m)
<1>1. Power(b, m) \in Nat \ {0} /\ Power(b, j) \in Nat \ {0} /\ 1 \in Nat
  BY PowerPositive
<1>2. Power(b, m) = 1 * Power(b, m)
  BY <1>1
<1>3. PICK u \in Nat \ {0} : Power(b, m) = u * Power(b, j)
  BY <1>1, <1>2, PowersDivide
<1> DEFINE p == Power(b, j)
<1>4. p \in Nat \ {0}
  BY <1>1
<1> HIDE DEF p
<1>5. u * p = p + (u - 1) * p /\ (u - 1) * p \in Nat
  BY <1>4, ProductNat
<1>6. p <= u * p
  BY <1>4, <1>5
<1> QED
  BY <1>1, <1>3, <1>6 DEF p

\* Values that are zero or large have a running average of zero only if they are all zero.
LEMMA RmaVanishes ==
    ASSUME NEW m \in Nat, m <= MaxHistory, NEW v \in [1..m -> Readings],
           \A n \in 1..m : v[n] \notin {0, Undefined} =>
                               v[n] \in Nat /\ Power(Period, MaxHistory - 1) <= v[n],
           NEW n \in 1..m, v[n] # Undefined
    PROVE  Rma(v)[n] = 0 <=> \A i \in 1..n : v[i] \in {0, Undefined}
<1>1. PICK a \in [0..m -> Readings] :
          /\ a[0] = Undefined /\ \A k \in 1..m : Averages(a, v, k)
          /\ Rma(v) = [k \in 1..m |-> IF v[k] = Undefined THEN Undefined ELSE a[k]]
  BY RmaLoop
<1>0. MaxHistory \in Nat /\ Period \in Nat \ {0} /\ Undefined # 0 /\ Undefined \notin Nat
  BY IndicatorAssumption
<1> DEFINE Floor(k) == Power(Period, MaxHistory - k)
           Flat(k) == \A i \in 1..k : v[i] \in {0, Undefined}
           mean(x, y) == (x + (Period - 1) * y) \div Period
           Known(k) == \/ a[k] = Undefined /\ \A i \in 1..k : v[i] = Undefined
                       \/ k > 0 /\ a[k] = 0 /\ Flat(k)
                       \/ k > 0 /\ a[k] \in Nat /\ Floor(k) <= a[k] /\ ~Flat(k)
           C == { k \in Nat : k \in 0..m => Known(k) }
<1>2. 0 \in C
  BY <1>1
<1>3. ASSUME NEW k \in Nat, k \in C PROVE k + 1 \in C
  <2>1. SUFFICES ASSUME k + 1 \in 0..m PROVE Known(k + 1)
    OBVIOUS
  <2>2. k + 1 \in 1..m /\ (k + 1) - 1 = k /\ k \in 0..m
    BY <2>1
  <2>3. Known(k)
    BY <1>3, <2>2
  <2> DEFINE p == Floor(k + 1)
             x == v[k + 1]
             y == a[k]
             big == Power(Period, MaxHistory - 1)
  <2>4. /\ p \in Nat \ {0} /\ p <= big /\ big \in Nat
        /\ Floor(k) = Period * p /\ (k > 0 => Period * p <= big)
    <3>1. /\ MaxHistory - 1 \in Nat /\ MaxHistory - (k + 1) \in 0..(MaxHistory - 1)
          /\ (k > 0 => MaxHistory - k \in 0..(MaxHistory - 1))
          /\ MaxHistory - k = (MaxHistory - (k + 1)) + 1 /\ MaxHistory - (k + 1) \in Nat
      BY <1>0, <2>1
    <3>2. p \in Nat \ {0} /\ p <= big
      BY <1>0, <3>1, PowersGrow
    <3>3. big \in Nat
      BY <1>0, <3>1, PowerPositive
    <3>4. Floor(k) = Period * p
      <4> DEFINE e == MaxHistory - (k + 1)
      <4>1. e \in Nat /\ MaxHistory - k = e + 1
        BY <3>1
      <4> HIDE DEF e
      <4>2. Power(Period, e + 1) = Period * Power(Period, e)
        BY <1>0, <4>1, PowerSteps
      <4> QED
        BY <4>1, <4>2 DEF e
    <3>5. k > 0 => Floor(k) <= big
      BY <1>0, <3>1, PowersGrow
    <3> HIDE DEF p, big, Floor
    <3> QED
      BY <3>2, <3>3, <3>4, <3>5
  <2>5. /\ x \in Readings
        /\ x \notin {0, Undefined} => x \in Nat /\ big <= x
    BY <2>2
  <2>6. a[k + 1] = IF x = Undefined THEN y ELSE IF y = Undefined THEN x ELSE mean(x, y)
    <3>1. Averages(a, v, k + 1)
      BY <1>1, <2>2
    <3> QED
      BY <2>2, <3>1 DEF Averages
  <2>7. Flat(k + 1) <=> Flat(k) /\ x \in {0, Undefined}
    <3>1. \A i \in 1..(k + 1) : i \in 1..k \/ i = k + 1
      OBVIOUS
    <3>2. k + 1 \in 1..(k + 1) /\ \A i \in 1..k : i \in 1..(k + 1)
      OBVIOUS
    <3> QED
      BY <3>1, <3>2
  <2>8. \A s, t \in Nat : /\ s = 0 /\ t = 0 => mean(s, t) = 0
                          /\ Period * p <= s \/ Period * p <= t => p <= mean(s, t)
                          /\ mean(s, t) \in Nat
    <3> HIDE DEF p
    <3> QED
      BY <2>4, MeanVanishes, MeanIsNat
  <2>9. Floor(k + 1) = p
    OBVIOUS
  <2>10. (\A i \in 1..k : v[i] = Undefined) /\ x = Undefined => \A i \in 1..(k + 1) : v[i] = Undefined
    <3>1. \A i \in 1..(k + 1) : i \in 1..k \/ i = k + 1
      OBVIOUS
    <3> QED
      BY <3>1
  <2>11. (\A i \in 1..k : v[i] = Undefined) => Flat(k)
    OBVIOUS
  <2>12. Period * p \in Nat /\ p <= Period * p
    <3> HIDE DEF p
    <3>1. Period * p = p + (Period - 1) * p /\ (Period - 1) * p \in Nat
      BY <1>0, <2>4, ProductNat
    <3> QED
      BY <2>4, <3>1
  <2> HIDE DEF p, x, big, mean, Floor, Flat
  <2>13. CASE x = Undefined
    <3>1. a[k + 1] = y
      BY <2>6, <2>13
    <3>2. k + 1 > 0
      OBVIOUS
    <3>3. CASE y = Undefined /\ \A i \in 1..k : v[i] = Undefined
      BY <2>10, <2>13, <3>1, <3>3
    <3>4. CASE k > 0 /\ y = 0 /\ Flat(k)
      BY <2>7, <2>13, <3>1, <3>2, <3>4
    <3>5. CASE k > 0 /\ y \in Nat /\ Floor(k) <= y /\ ~Flat(k)
      <4>1. p <= y
        BY <2>4, <2>12, <3>5
      <4> QED
        BY <2>7, <2>9, <3>1, <3>2, <3>5, <4>1
    <3> QED
      BY <2>3, <3>3, <3>4, <3>5
  <2>14. CASE x # Undefined /\ y = Undefined
    <3>1. a[k + 1] = x /\ k + 1 > 0
      BY <2>6, <2>14
    <3>2. Flat(k)
      BY <1>0, <2>3, <2>11, <2>14
    <3>3. CASE x = 0
      BY <2>7, <3>1, <3>2, <3>3
    <3>4. CASE x # 0
      <4>1. x \in Nat /\ p <= x
        BY <2>4, <2>5, <2>14, <3>4
      <4> QED
        BY <2>7, <2>9, <2>14, <3>1, <3>4, <4>1
    <3> QED
      BY <3>3, <3>4
  <2>15. CASE x # Undefined /\ y # Undefined
    <3>1. a[k + 1] = mean(x, y) /\ k + 1 > 0 /\ k > 0 /\ y \in Nat
      BY <2>3, <2>6, <2>15
    <3>2. x \in Nat
      BY <2>5, <2>15
    <3>3. CASE y = 0 /\ Flat(k) /\ x = 0
      BY <2>7, <2>8, <3>1, <3>2, <3>3
    <3>4. CASE y = 0 /\ Flat(k) /\ x # 0
      <4>1. Period * p <= x
        BY <2>4, <2>5, <2>12, <2>15, <3>1, <3>4
      <4> QED
        BY <2>7, <2>8, <2>9, <2>15, <3>1, <3>2, <3>4, <4>1
    <3>5. CASE Floor(k) <= y /\ ~Flat(k)
      <4>1. Period * p <= y
        BY <2>4, <3>5
      <4> QED
        BY <2>7, <2>8, <2>9, <3>1, <3>2, <3>5, <4>1
    <3> QED
      BY <2>3, <2>15, <3>3, <3>4, <3>5
  <2> QED
    BY <2>13, <2>14, <2>15
<1>4. n \in C
  <2>1. n \in Nat
    OBVIOUS
  <2> HIDE DEF C
  <2> QED
    BY <1>2, <1>3, <2>1, NatSetInduction
<1>5. Known(n)
  BY <1>4
<1>6. Rma(v)[n] = a[n]
  BY <1>1
<1>7. ~\A i \in 1..n : v[i] = Undefined
  OBVIOUS
<1>8. Floor(n) \in Nat \ {0}
  <2>1. MaxHistory - n \in Nat
    BY <1>0
  <2> QED
    BY <1>0, <2>1, PowerPositive
<1> HIDE DEF Floor
<1> QED
  BY <1>5, <1>6, <1>7, <1>8

\* Unit is a multiple of what the averages are divided by.
LEMMA UnitFacts ==
    /\ Unit \in Nat \ {0} /\ MaxHistory \in Nat
    /\ \A j \in 0..MaxHistory : \E u \in Nat \ {0} : Unit = u * Power(Period, j)
<1>1. /\ Unit \in Nat \ {0} /\ MaxHistory \in Nat /\ Period \in Nat \ {0}
      /\ Unit % Power(Period, MaxHistory) = 0
  BY IndicatorAssumption
<1> DEFINE p == Power(Period, MaxHistory)
<1>2. p \in Nat \ {0}
  BY <1>1, PowerPositive
<1>3. \E q \in Nat : Unit = q * p
  <2> HIDE DEF p
  <2>1. Unit \div p \in Nat /\ Unit = p * (Unit \div p) + (Unit % p)
    BY <1>1, <1>2, Division
  <2>2. Unit % p = 0
    BY <1>1 DEF p
  <2> DEFINE q == Unit \div p
  <2>3. q \in Nat /\ Unit = p * q + 0
    BY <2>1, <2>2
  <2> HIDE DEF q
  <2>4. p * q = q * p /\ p * q + 0 = p * q
    BY <1>2, <2>3
  <2>5. Unit = q * p
    BY <2>3, <2>4
  <2> QED
    BY <2>3, <2>5
<1>4. PICK q \in Nat : Unit = q * p
  BY <1>3
<1>5. \A j \in 0..MaxHistory : \E u \in Nat \ {0} : Unit = u * Power(Period, j)
  BY <1>1, <1>4, PowersDivide
<1> QED
  BY <1>1, <1>5

\* The averages are exact, so that the average of the opposites is the opposite.
LEMMA RmaMirrors ==
    ASSUME NEW m \in Nat, m <= MaxHistory, NEW v \in [1..m -> Int], NEW w \in [1..m -> Int],
           \A n \in 1..m : w[n] = -v[n] /\ \E c \in Int : v[n] = Unit * c
    PROVE  \A n \in 1..m : Rma(v)[n] \in Int /\ Rma(w)[n] = -Rma(v)[n]
<1>0. /\ MaxHistory \in Nat /\ Period \in Nat \ {0} /\ Undefined \notin Int
      /\ v \in [1..m -> Readings] /\ w \in [1..m -> Readings]
  BY IndicatorAssumption DEF Readings
<1>1. PICK a \in [0..m -> Readings] :
          /\ a[0] = Undefined /\ \A k \in 1..m : Averages(a, v, k)
          /\ Rma(v) = [k \in 1..m |-> IF v[k] = Undefined THEN Undefined ELSE a[k]]
  BY <1>0, RmaLoop
<1>2. PICK b \in [0..m -> Readings] :
          /\ b[0] = Undefined /\ \A k \in 1..m : Averages(b, w, k)
          /\ Rma(w) = [k \in 1..m |-> IF w[k] = Undefined THEN Undefined ELSE b[k]]
  BY <1>0, RmaLoop
<1> DEFINE Whole(k) == Power(Period, MaxHistory - k + 1)
           Known(k) == a[k] \in Int /\ b[k] = -a[k] /\ \E z \in Int : a[k] = z * Whole(k)
           C == { k \in Nat : k \in 1..m => Known(k) }
<1>3. 0 \in C
  OBVIOUS
<1>4. ASSUME NEW k \in Nat, k \in C PROVE k + 1 \in C
  <2>1. SUFFICES ASSUME k + 1 \in 1..m PROVE Known(k + 1)
    OBVIOUS
  <2>2. (k + 1) - 1 = k
    OBVIOUS
  <2>3. /\ v[k + 1] \in Int /\ w[k + 1] = -v[k + 1] /\ v[k + 1] # Undefined /\ w[k + 1] # Undefined
    BY <1>0, <2>1
  <2>4. PICK c \in Int : v[k + 1] = Unit * c
    BY <2>1
  <2>5. Averages(a, v, k + 1) /\ Averages(b, w, k + 1)
    BY <1>1, <1>2, <2>1
  <2> DEFINE e == MaxHistory - (k + 1) + 1
             p == Power(Period, e)
  <2>6. e \in 0..MaxHistory /\ e \in Nat
    BY <1>0, <2>1
  <2>7. p \in Nat \ {0}
    <3> HIDE DEF e
    <3> QED
      BY <1>0, <2>6, PowerPositive
  <2>8. CASE k = 0
    <3>1. a[k + 1] = v[k + 1] /\ b[k + 1] = w[k + 1]
      BY <1>1, <1>2, <2>2, <2>3, <2>5, <2>8 DEF Averages
    <3>2. PICK u \in Nat \ {0} : Unit = u * p
      <4> HIDE DEF e
      <4> QED
        BY <2>6, UnitFacts
    <3> HIDE DEF p
    <3>3. (u * p) * c = (u * c) * p /\ u * c \in Int
      BY <2>7
    <3>4. v[k + 1] = (u * c) * p
      BY <2>4, <3>2, <3>3
    <3>5. \E z \in Int : a[k + 1] = z * p
      BY <3>1, <3>3, <3>4
    <3> QED
      BY <2>3, <3>1, <3>5 DEF p
  <2>9. CASE k # 0
    <3>1. k \in 1..m
      BY <2>1, <2>9
    <3>2. Known(k)
      BY <1>4, <3>1
    <3>3. PICK z \in Int : a[k] = z * Whole(k)
      BY <3>2
    <3>4. Whole(k) = Period * p
      <4>1. MaxHistory - k + 1 = e + 1
        BY <1>0
      <4> HIDE DEF e
      <4>2. Power(Period, e + 1) = Period * Power(Period, e)
        BY <1>0, <2>6, PowerSteps
      <4> QED
        BY <4>1, <4>2
    <3>5. PICK u \in Nat \ {0} : Unit = u * (Period * p)
      <4>1. MaxHistory - k + 1 \in 0..MaxHistory
        BY <1>0, <3>1
      <4>2. \E u \in Nat \ {0} : Unit = u * Whole(k)
        BY <4>1, UnitFacts
      <4> QED
        BY <3>4, <4>2
    <3> DEFINE t == u * c + (Period - 1) * z
               y == t * p
    <3>6. t \in Int /\ y \in Int
      <4>1. (Period - 1) * z \in Int /\ u * c \in Int
        BY <1>0
      <4>2. t \in Int
        BY <4>1
      <4> HIDE DEF t
      <4> QED
        BY <2>7, <4>2
    <3>7. v[k + 1] + (Period - 1) * a[k] = Period * y
      <4> HIDE DEF p
      <4>1. v[k + 1] = (Period * p) * (u * c)
        <5>1. (u * (Period * p)) * c = (Period * p) * (u * c)
          BY <1>0, <2>7
        <5> QED
          BY <2>4, <3>5, <5>1
      <4>2. (Period - 1) * a[k] = (Period * p) * ((Period - 1) * z)
        <5>1. (Period - 1) * (z * (Period * p)) = (Period * p) * ((Period - 1) * z)
          BY <1>0, <2>7
        <5> QED
          BY <3>3, <3>4, <5>1
      <4> DEFINE g == u * c
                 h == (Period - 1) * z
      <4>3. g \in Int /\ h \in Int
        BY <1>0
      <4>4. v[k + 1] = (Period * p) * g /\ (Period - 1) * a[k] = (Period * p) * h /\ y = (g + h) * p
        BY <4>1, <4>2
      <4> HIDE DEF g, h, y
      <4>5. (Period * p) * g + (Period * p) * h = Period * ((g + h) * p)
        BY <1>0, <2>7, <4>3
      <4> QED
        BY <4>4, <4>5
    <3>8. w[k + 1] + (Period - 1) * b[k] = Period * (-y)
      <4>1. a[k] \in Int /\ b[k] = -a[k]
        BY <3>2
      <4>2. (Period - 1) * (-a[k]) = -((Period - 1) * a[k]) /\ (Period - 1) * a[k] \in Int
        <5> DEFINE s == a[k]
        <5>1. s \in Int
          BY <4>1
        <5> HIDE DEF s
        <5>2. (Period - 1) * (-s) = -((Period - 1) * s) /\ (Period - 1) * s \in Int
          BY <1>0, <5>1
        <5> QED
          BY <5>2 DEF s
      <4>3. Period * (-y) = -(Period * y) /\ Period * y \in Int
        <5> HIDE DEF y
        <5> QED
          BY <1>0, <3>6
      <4> HIDE DEF y
      <4> QED
        BY <2>3, <3>7, <4>1, <4>2, <4>3
    <3>9. a[k] # Undefined /\ b[k] # Undefined
      BY <1>0, <3>2
    <3>10. /\ a[k + 1] = (v[k + 1] + (Period - 1) * a[k]) \div Period
           /\ b[k + 1] = (w[k + 1] + (Period - 1) * b[k]) \div Period
      BY <2>2, <2>3, <2>5, <3>9 DEF Averages
    <3>11. a[k + 1] = y /\ b[k + 1] = -y
      <4> HIDE DEF y
      <4>1. -y \in Int
        BY <3>6
      <4> QED
        BY <1>0, <3>6, <3>7, <3>8, <3>10, <4>1, ExactDivision
    <3> HIDE DEF t
    <3>12. \E s \in Int : a[k + 1] = s * p
      BY <3>6, <3>11
    <3> QED
      BY <3>6, <3>11, <3>12 DEF p
  <2> QED
    BY <2>8, <2>9
<1>5. Nat \subseteq C
  <2> HIDE DEF C
  <2> QED
    BY <1>3, <1>4, NatSetInduction
<1>6. \A n \in 1..m : a[n] \in Int /\ b[n] = -a[n]
  BY <1>5
<1>7. \A n \in 1..m : v[n] # Undefined /\ w[n] # Undefined
  BY <1>0
<1> HIDE DEF C
<1> QED
  BY <1>1, <1>2, <1>6, <1>7

-----------------------------------------------------------------------------
(* The strength index: gains and losses.                                    *)

LEMMA BarFacts ==
    ASSUME NEW bars \in Seq(Candles), NEW n \in 1..Len(bars)
    PROVE  /\ bars[n].high \in Nat /\ bars[n].low \in Nat /\ bars[n].close \in Nat
           /\ bars[n].low <= bars[n].close /\ bars[n].close <= bars[n].high
<1>1. bars[n] \in Candles
  OBVIOUS
<1>2. bars[n] \in { c \in [high: Nat, low: Nat, close: Nat] : c.close \in c.low..c.high }
  BY <1>1, IndicatorAssumption
<1> QED
  BY <1>2

Gains(bars)  == [n \in DOMAIN Changes(bars) |-> Larger(Changes(bars)[n], 0)]
Losses(bars) == [n \in DOMAIN Changes(bars) |-> -Larger(-Changes(bars)[n], 0)]

\* How far the close is up, or down, at bar n + 1.
Step(bars, n) == bars[n + 1].close - bars[n].close

LEMMA GainsAre ==
    ASSUME NEW bars, NEW m \in Nat, Len(bars) = m + 1, \A n \in 1..(m + 1) : bars[n].close \in Int
    PROVE  /\ Gains(bars) \in [1..m -> Int] /\ Losses(bars) \in [1..m -> Int]
           /\ \A n \in 1..m : /\ Step(bars, n) \in Int
                              /\ Gains(bars)[n] = Unit * Larger(Step(bars, n), 0)
                              /\ Losses(bars)[n] = -(Unit * Larger(-Step(bars, n), 0))
<1>0. Unit \in Nat \ {0} /\ Len(bars) - 1 = m
  BY IndicatorAssumption
<1>1. Changes(bars) = [n \in 1..m |-> Unit * (bars[n + 1].close - bars[n].close)]
  BY <1>0 DEF Changes
<1>2. DOMAIN Changes(bars) = 1..m
  BY <1>1
<1>3. ASSUME NEW n \in 1..m
      PROVE  /\ Step(bars, n) \in Int /\ Changes(bars)[n] = Unit * Step(bars, n)
             /\ Larger(Changes(bars)[n], 0) = Unit * Larger(Step(bars, n), 0)
             /\ Larger(-Changes(bars)[n], 0) = Unit * Larger(-Step(bars, n), 0)
             /\ Larger(Changes(bars)[n], 0) \in Int /\ Larger(-Changes(bars)[n], 0) \in Int
  <2> DEFINE s == Step(bars, n)
             c == Changes(bars)[n]
  <2>1. n \in 1..(m + 1) /\ n + 1 \in 1..(m + 1)
    OBVIOUS
  <2>2. s \in Int /\ c = Unit * s
    BY <1>1, <2>1 DEF Step
  <2> HIDE DEF s, c
  <2>3. CASE s >= 0
    <3>1. Unit * s \in Nat /\ -(Unit * s) <= 0 /\ Unit * 0 = 0
      BY <1>0, <2>2, <2>3, ProductNat
    <3> QED
      BY <2>2, <2>3, <3>1 DEF Larger, s, c
  <2>4. CASE s < 0
    <3>1. -s \in Nat /\ -s > 0
      BY <2>2, <2>4
    <3>2. Unit * (-s) \in Nat \ {0}
      BY <1>0, <3>1
    <3>3. Unit * (-s) = -(Unit * s) /\ Unit * s \in Int /\ Unit * 0 = 0
      BY <1>0, <2>2
    <3>4. Larger(c, 0) = 0 /\ Larger(-c, 0) = -c /\ Larger(s, 0) = 0 /\ Larger(-s, 0) = -s
      BY <2>2, <2>4, <3>1, <3>2, <3>3 DEF Larger
    <3> QED
      BY <2>2, <3>2, <3>3, <3>4 DEF s, c
  <2> QED
    BY <2>2, <2>3, <2>4
<1>4. \A n \in 1..m : /\ Gains(bars)[n] = Larger(Changes(bars)[n], 0)
                      /\ Losses(bars)[n] = -Larger(-Changes(bars)[n], 0)
  BY <1>2 DEF Gains, Losses
<1>5. Gains(bars) \in [1..m -> Int] /\ Losses(bars) \in [1..m -> Int]
  BY <1>2, <1>3 DEF Gains, Losses
<1> QED
  BY <1>3, <1>4, <1>5

LEMMA LargerFacts ==
    ASSUME NEW x \in Int
    PROVE  /\ Larger(x, 0) \in Nat /\ Unit * Larger(x, 0) \in Nat
           /\ Unit * Larger(x, 0) = 0 <=> x <= 0
<1>1. Unit \in Nat \ {0}
  BY IndicatorAssumption
<1>2. Larger(x, 0) \in Nat /\ (Larger(x, 0) = 0 <=> x <= 0)
  BY DEF Larger
<1> DEFINE l == Larger(x, 0)
<1>3. l \in Nat /\ (l = 0 <=> x <= 0)
  BY <1>2
<1> HIDE DEF l
<1>4. Unit * l \in Nat /\ (l = 0 => Unit * l = 0) /\ (l # 0 => Unit * l # 0)
  BY <1>1, <1>3
<1> QED
  BY <1>3, <1>4 DEF l

LEMMA RsiParts ==
    ASSUME NEW bars, NEW m \in Nat \ {0}, Len(bars) = m + 1,
           \A n \in 1..(m + 1) : bars[n].close \in Int
    PROVE  /\ Rsi(bars) = Ratio(Rma(Gains(bars))[m], Rma(Losses(bars))[m])
           /\ Rma(Gains(bars))[m] \in Nat /\ -Rma(Losses(bars))[m] \in Nat
           /\ Rma(Losses(bars))[m] \in Int
<1>0. /\ Gains(bars) \in [1..m -> Int] /\ Losses(bars) \in [1..m -> Int]
      /\ \A n \in 1..m : /\ Step(bars, n) \in Int
                         /\ Gains(bars)[n] = Unit * Larger(Step(bars, n), 0)
                         /\ Losses(bars)[n] = -(Unit * Larger(-Step(bars, n), 0))
  BY GainsAre
<1> DEFINE K == { x \in Int : x <= 0 }
<1>1. Gains(bars) \in [1..m -> Readings] /\ Losses(bars) \in [1..m -> Readings]
  BY <1>0 DEF Readings
<1>2. \A n \in 1..m : Gains(bars)[n] \in Nat /\ Losses(bars)[n] \in K
  <2>1. SUFFICES ASSUME NEW n \in 1..m PROVE Gains(bars)[n] \in Nat /\ Losses(bars)[n] \in K
    OBVIOUS
  <2>2. Step(bars, n) \in Int /\ -Step(bars, n) \in Int
    BY <1>0
  <2>3. Unit * Larger(Step(bars, n), 0) \in Nat /\ Unit * Larger(-Step(bars, n), 0) \in Nat
    BY <2>2, LargerFacts
  <2> DEFINE g == Unit * Larger(Step(bars, n), 0)
             l == Unit * Larger(-Step(bars, n), 0)
  <2>4. g \in Nat /\ l \in Nat /\ Gains(bars)[n] = g /\ Losses(bars)[n] = -l
    BY <1>0, <2>3
  <2> HIDE DEF g, l
  <2> QED
    BY <2>4
<1>3. \A x, y \in Nat : (x + (Period - 1) * y) \div Period \in Nat
  BY MeanIsNat
<1>4. \A x, y \in K : (x + (Period - 1) * y) \div Period \in K
  <2>1. SUFFICES ASSUME NEW x \in K, NEW y \in K PROVE (x + (Period - 1) * y) \div Period \in K
    OBVIOUS
  <2>2. x \in (x + y)..0 /\ y \in (x + y)..0 /\ x + y \in Int /\ 0 \in Int
    OBVIOUS
  <2> DEFINE z == (x + (Period - 1) * y) \div Period
  <2>3. z \in (x + y)..0
    BY <2>2, MeanWithin
  <2> HIDE DEF z
  <2>4. z \in K
    BY <2>2, <2>3
  <2> QED
    BY <2>4 DEF z
<1>5. \A n \in 1..m : Gains(bars)[n] # Undefined /\ Losses(bars)[n] # Undefined
  BY <1>0, PeriodFacts
<1>6. /\ Len(Rma(Gains(bars))) = m /\ Rma(Gains(bars))[m] \in Nat
  <2>1. /\ Rma(Gains(bars)) \in [1..m -> Readings] /\ Len(Rma(Gains(bars))) = m
        /\ \A n \in 1..m : IF Gains(bars)[n] = Undefined THEN Rma(Gains(bars))[n] = Undefined
                           ELSE Rma(Gains(bars))[n] \in Nat
    <3>1. Nat \subseteq Int /\ \A n \in 1..m : Gains(bars)[n] \in Nat \cup {Undefined}
      BY <1>2
    <3> QED
      BY <1>1, <1>3, <3>1, RmaStays
  <2> QED
    BY <1>5, <2>1
<1>7. /\ Len(Rma(Losses(bars))) = m /\ Rma(Losses(bars))[m] \in K
  <2>1. /\ Rma(Losses(bars)) \in [1..m -> Readings] /\ Len(Rma(Losses(bars))) = m
        /\ \A n \in 1..m : IF Losses(bars)[n] = Undefined THEN Rma(Losses(bars))[n] = Undefined
                           ELSE Rma(Losses(bars))[n] \in K
    <3>1. K \subseteq Int /\ \A n \in 1..m : Losses(bars)[n] \in K \cup {Undefined}
      BY <1>2
    <3> HIDE DEF K
    <3> QED
      BY <1>1, <1>4, <3>1, RmaStays
  <2> QED
    BY <1>5, <2>1
<1>8. Rsi(bars) = Ratio(Rma(Gains(bars))[m], Rma(Losses(bars))[m])
  BY <1>6, <1>7 DEF Rsi, Last, Gains, Losses
<1> QED
  BY <1>6, <1>7, <1>8

LEMMA UnitPercent ==
    ASSUME NEW x \in Nat, NEW y \in Nat \ {0}, x <= y
    PROVE  (100 * Unit * x) \div y \in 0..(100 * Unit)
<1> DEFINE c == 100 * Unit
<1>1. c \in Nat
  BY IndicatorAssumption
<1> HIDE DEF c
<1>2. c * x \in Nat /\ c * (y - x) \in Nat /\ c * (y - x) = c * y - c * x /\ c * y \in Nat
  <2>1. y - x \in Nat
    OBVIOUS
  <2> QED
    BY <1>1, <2>1, ProductNat
<1>3. y * 0 <= c * x /\ c * x <= y * c
  <2>1. y * c = c * y /\ y * 0 = 0
    BY <1>1
  <2> QED
    BY <1>2, <2>1
<1>4. (c * x) \div y \in 0..c
  <2>1. c * x \in Int /\ 0 \in Int /\ c \in Int
    BY <1>1, <1>2
  <2> QED
    BY <1>3, <2>1, DivBetween
<1> QED
  BY <1>4 DEF c

LEMMA RatioRange ==
    ASSUME NEW g \in Nat, NEW l \in Int, -l \in Nat
    PROVE  Ratio(g, l) \in 0..(100 * Unit)
<1>1. Abs(l) = -l
  BY DEF Abs
<1>2. CASE g = 0 /\ l = 0
  <2>1. 100 * Unit \in Nat
    BY IndicatorAssumption
  <2> QED
    BY <1>2, <2>1 DEF Ratio
<1>3. CASE ~(g = 0 /\ l = 0)
  <2>1. g + Abs(l) \in Nat \ {0} /\ g <= g + Abs(l)
    BY <1>1, <1>3
  <2>2. (100 * Unit * g) \div (g + Abs(l)) \in 0..(100 * Unit)
    BY <2>1, UnitPercent
  <2> QED
    BY <1>3, <2>2 DEF Ratio
<1> QED
  BY <1>2, <1>3

\* In a mirror, gains are losses.
LEMMA MirrorExchanges ==
    ASSUME NEW bars, NEW mirror, NEW m \in Nat \ {0}, m + 1 <= MaxHistory, NEW top \in Int,
           Len(bars) = m + 1, Len(mirror) = m + 1,
           \A n \in 1..(m + 1) : bars[n].close \in Int /\ mirror[n].close = top - bars[n].close
    PROVE  /\ Rma(Gains(mirror))[m] = -Rma(Losses(bars))[m]
           /\ Rma(Losses(mirror))[m] = -Rma(Gains(bars))[m]
           /\ \A n \in 1..m : Gains(mirror)[n] = -Losses(bars)[n]
<1>1. /\ Gains(bars) \in [1..m -> Int] /\ Losses(bars) \in [1..m -> Int]
      /\ \A n \in 1..m : /\ Step(bars, n) \in Int
                         /\ Gains(bars)[n] = Unit * Larger(Step(bars, n), 0)
                         /\ Losses(bars)[n] = -(Unit * Larger(-Step(bars, n), 0))
  BY GainsAre
<1>2. \A n \in 1..(m + 1) : mirror[n].close \in Int
  OBVIOUS
<1>3. /\ Gains(mirror) \in [1..m -> Int] /\ Losses(mirror) \in [1..m -> Int]
      /\ \A n \in 1..m : /\ Step(mirror, n) \in Int
                         /\ Gains(mirror)[n] = Unit * Larger(Step(mirror, n), 0)
                         /\ Losses(mirror)[n] = -(Unit * Larger(-Step(mirror, n), 0))
  BY <1>2, GainsAre
<1>4. \A n \in 1..m : Step(mirror, n) = -Step(bars, n)
  <2>1. SUFFICES ASSUME NEW n \in 1..m PROVE Step(mirror, n) = -Step(bars, n)
    OBVIOUS
  <2>2. n \in 1..(m + 1) /\ n + 1 \in 1..(m + 1)
    OBVIOUS
  <2> QED
    BY <2>2 DEF Step
<1>5. ASSUME NEW n \in 1..m
      PROVE  /\ Gains(mirror)[n] = -Losses(bars)[n]
             /\ Losses(mirror)[n] = -Gains(bars)[n]
             /\ \E c \in Int : Losses(bars)[n] = Unit * c
             /\ \E c \in Int : Gains(bars)[n] = Unit * c
  <2> DEFINE s == Step(bars, n)
             up == Larger(s, 0)
             down == Larger(-s, 0)
  <2>1. s \in Int /\ Step(mirror, n) = -s /\ -(-s) = s
    BY <1>1, <1>4
  <2>2. up \in Nat /\ down \in Nat
    BY <2>1 DEF Larger
  <2>3. /\ Gains(bars)[n] = Unit * up /\ Losses(bars)[n] = -(Unit * down)
        /\ Gains(mirror)[n] = Unit * down /\ Losses(mirror)[n] = -(Unit * up)
    BY <1>1, <1>3, <2>1
  <2> HIDE DEF up, down
  <2>4. /\ -(Unit * down) = Unit * (-down) /\ Unit * up \in Int /\ Unit * down \in Int
        /\ -(-(Unit * down)) = Unit * down /\ -down \in Int
    <3>1. Unit \in Nat
      BY IndicatorAssumption
    <3> QED
      BY <2>2, <3>1
  <2>5. Losses(bars)[n] = Unit * (-down)
    BY <2>3, <2>4
  <2> QED
    BY <2>2, <2>3, <2>4, <2>5
<1>6. m <= MaxHistory /\ m \in 1..m
  BY IndicatorAssumption
<1>7. Rma(Gains(mirror))[m] = -Rma(Losses(bars))[m]
  BY <1>1, <1>3, <1>5, <1>6, RmaMirrors
<1>8. Rma(Losses(mirror))[m] = -Rma(Gains(bars))[m]
  BY <1>1, <1>3, <1>5, <1>6, RmaMirrors
<1> QED
  BY <1>5, <1>7, <1>8

LEMMA MultiplesAreLarge ==
    ASSUME NEW c \in Nat \ {0}, MaxHistory # 0
    PROVE  Unit * c \in Nat \ {0} /\ Power(Period, MaxHistory - 1) <= Unit * c
           /\ Power(Period, MaxHistory) <= Unit * c
<1>1. MaxHistory - 1 \in 0..MaxHistory /\ MaxHistory \in 0..MaxHistory
      /\ Period \in Nat \ {0} /\ Unit \in Nat \ {0} /\ MaxHistory \in Nat
  BY IndicatorAssumption
<1>2. PICK u \in Nat \ {0} : Unit = u * Power(Period, MaxHistory)
  BY <1>1, UnitFacts
<1> DEFINE p == Power(Period, MaxHistory)
           q == Power(Period, MaxHistory - 1)
<1>3. p \in Nat \ {0} /\ q \in Nat /\ q <= p
  BY <1>1, PowersGrow
<1> HIDE DEF p, q
<1>4. Unit = p + (u - 1) * p /\ (u - 1) * p \in Nat
  <2>1. Unit = u * p
    BY <1>2 DEF p
  <2> QED
    BY <1>3, <2>1, ProductNat
<1>5. Unit * c = Unit + (c - 1) * Unit /\ (c - 1) * Unit \in Nat
  BY <1>1, ProductNat
<1>6. p <= Unit /\ Unit <= Unit * c /\ Unit * c \in Nat \ {0}
  BY <1>1, <1>3, <1>4, <1>5
<1>7. q <= Unit * c /\ p <= Unit * c
  BY <1>1, <1>3, <1>6
<1> QED
  BY <1>6, <1>7 DEF p, q

\* The average gain is zero only if the close never rose.
LEMMA NoGains ==
    ASSUME NEW bars, NEW m \in Nat \ {0}, m + 1 <= MaxHistory, Len(bars) = m + 1,
           \A n \in 1..(m + 1) : bars[n].close \in Int
    PROVE  Rma(Gains(bars))[m] = 0 <=> \A n \in 1..m : Step(bars, n) <= 0
<1>1. /\ Gains(bars) \in [1..m -> Int]
      /\ \A n \in 1..m : /\ Step(bars, n) \in Int
                         /\ Gains(bars)[n] = Unit * Larger(Step(bars, n), 0)
  BY GainsAre
<1>2. Gains(bars) \in [1..m -> Readings] /\ MaxHistory \in Nat /\ MaxHistory # 0 /\ m <= MaxHistory
  BY <1>1, IndicatorAssumption DEF Readings
<1>3. \A n \in 1..m : Gains(bars)[n] \notin {0, Undefined} =>
                 Gains(bars)[n] \in Nat /\ Power(Period, MaxHistory - 1) <= Gains(bars)[n]
  <2>1. SUFFICES ASSUME NEW n \in 1..m, Gains(bars)[n] \notin {0, Undefined}
                 PROVE  Gains(bars)[n] \in Nat /\ Power(Period, MaxHistory - 1) <= Gains(bars)[n]
    OBVIOUS
  <2> DEFINE c == Larger(Step(bars, n), 0)
  <2>2. c \in Nat /\ Gains(bars)[n] = Unit * c
    BY <1>1, LargerFacts
  <2> HIDE DEF c
  <2>3. c # 0
    <3>1. SUFFICES ASSUME c = 0 PROVE FALSE
      OBVIOUS
    <3>2. Unit * 0 = 0
      BY IndicatorAssumption
    <3> QED
      BY <2>1, <2>2, <3>1, <3>2
  <2> QED
    BY <1>2, <2>2, <2>3, MultiplesAreLarge
<1>4. Gains(bars)[m] # Undefined /\ m \in 1..m
  BY <1>1, PeriodFacts
<1>5. Rma(Gains(bars))[m] = 0 <=> \A i \in 1..m : Gains(bars)[i] \in {0, Undefined}
  BY <1>2, <1>3, <1>4, RmaVanishes
<1>6. \A i \in 1..m : Gains(bars)[i] \in {0, Undefined} <=> Step(bars, i) <= 0
  <2>1. SUFFICES ASSUME NEW i \in 1..m
                 PROVE  Gains(bars)[i] \in {0, Undefined} <=> Step(bars, i) <= 0
    OBVIOUS
  <2>2. Gains(bars)[i] # Undefined
    BY <1>1, PeriodFacts
  <2>3. Gains(bars)[i] = 0 <=> Step(bars, i) <= 0
    BY <1>1, LargerFacts
  <2> QED
    BY <2>2, <2>3
<1> QED
  BY <1>5, <1>6

\* Only a market that stood still has neither gains nor losses.
LEMMA FlatIsFlat ==
    ASSUME NEW bars, NEW m \in Nat, \A n \in 1..(m + 1) : bars[n].close \in Int
    PROVE  (\A n \in 1..m : Step(bars, n) = 0) <=> \A n \in 1..(m + 1) : bars[n].close = bars[1].close
<1>1. ASSUME \A n \in 1..m : Step(bars, n) = 0
      PROVE  \A n \in 1..(m + 1) : bars[n].close = bars[1].close
  <2> DEFINE C == { k \in Nat : k + 1 \in 1..(m + 1) => bars[k + 1].close = bars[1].close }
  <2>1. 0 \in C
    OBVIOUS
  <2>2. ASSUME NEW k \in Nat, k \in C PROVE k + 1 \in C
    <3>1. SUFFICES ASSUME (k + 1) + 1 \in 1..(m + 1) PROVE bars[(k + 1) + 1].close = bars[1].close
      OBVIOUS
    <3>2. k + 1 \in 1..m /\ k + 1 \in 1..(m + 1)
      BY <3>1
    <3>3. bars[k + 1].close = bars[1].close /\ bars[k + 1].close \in Int
      BY <2>2, <3>2
    <3>4. bars[(k + 1) + 1].close - bars[k + 1].close = 0 /\ bars[(k + 1) + 1].close \in Int
      BY <1>1, <3>1, <3>2 DEF Step
    <3> QED
      BY <3>3, <3>4
  <2>3. Nat \subseteq C
    <3> HIDE DEF C
    <3> QED
      BY <2>1, <2>2, NatSetInduction
  <2>4. SUFFICES ASSUME NEW n \in 1..(m + 1) PROVE bars[n].close = bars[1].close
    OBVIOUS
  <2>5. n - 1 \in Nat /\ (n - 1) + 1 = n
    OBVIOUS
  <2>6. n - 1 \in C
    BY <2>3, <2>5
  <2> QED
    BY <2>5, <2>6
<1>2. ASSUME \A n \in 1..(m + 1) : bars[n].close = bars[1].close
      PROVE  \A n \in 1..m : Step(bars, n) = 0
  <2>1. SUFFICES ASSUME NEW n \in 1..m PROVE Step(bars, n) = 0
    OBVIOUS
  <2>2. n \in 1..(m + 1) /\ n + 1 \in 1..(m + 1)
    OBVIOUS
  <2>3. bars[n].close = bars[1].close /\ bars[n + 1].close = bars[1].close /\ bars[n].close \in Int
    BY <1>2, <2>2
  <2> QED
    BY <2>3 DEF Step
<1> QED
  BY <1>1, <1>2

\* Two shares of 100, each rounded down, lose at most one.
LEMMA SharesAddUp ==
    ASSUME NEW g \in Nat, NEW l \in Nat, g + l # 0
    PROVE  (100 * Unit * g) \div (g + l) + (100 * Unit * l) \div (g + l)
                \in {100 * Unit - 1, 100 * Unit}
<1> DEFINE c == 100 * Unit
           d == g + l
           x == (c * g) \div d
           y == (c * l) \div d
           r == (c * g) % d
           s == (c * l) % d
<1>1. c \in Nat
  BY IndicatorAssumption
<1> HIDE DEF c
<1>2. d \in Nat \ {0} /\ c * g \in Nat /\ c * l \in Nat /\ c * g + c * l = d * c
  BY <1>1, ProductNat
<1>3. /\ x \in Nat /\ y \in Nat
      /\ c * g = d * x + r /\ r \in 0..(d - 1)
      /\ c * l = d * y + s /\ s \in 0..(d - 1)
  <2> DEFINE p == c * g
             q == c * l
  <2>1. p \in Nat /\ q \in Nat
    BY <1>2
  <2> HIDE DEF d, p, q
  <2>2. /\ p \div d \in Nat /\ p = d * (p \div d) + (p % d) /\ p % d \in 0..(d - 1)
        /\ q \div d \in Nat /\ q = d * (q \div d) + (q % d) /\ q % d \in 0..(d - 1)
    BY <1>2, <2>1, Division
  <2> QED
    BY <2>2 DEF p, q
<1> HIDE DEF d, x, y, r, s
<1>4. d * (c - x - y) = r + s /\ c - x - y \in Int
  <2>1. d * (c - x - y) = d * c - d * x - d * y
    BY <1>1, <1>2, <1>3
  <2>2. d * c \in Int /\ d * x \in Int /\ d * y \in Int
    BY <1>1, <1>2, <1>3
  <2> QED
    BY <1>1, <1>2, <1>3, <2>1, <2>2
<1> DEFINE z == c - x - y
<1>5. z \in Int /\ d * z = r + s
  BY <1>4
<1> HIDE DEF z
<1>6. z >= 0
  <2>1. SUFFICES ASSUME z <= -1 PROVE FALSE
    BY <1>5
  <2>2. d * z = -d - d * (-1 - z) /\ -1 - z \in Nat
    BY <1>2, <1>5, <2>1
  <2>3. d * (-1 - z) \in Nat
    BY <1>2, <2>2, ProductNat
  <2> QED
    BY <1>2, <1>3, <1>5, <2>2, <2>3
<1>7. z <= 1
  <2>1. SUFFICES ASSUME z >= 2 PROVE FALSE
    BY <1>5
  <2>2. d * z = 2 * d + d * (z - 2) /\ z - 2 \in Nat
    BY <1>2, <1>5, <2>1
  <2>3. d * (z - 2) \in Nat
    BY <1>2, <2>2, ProductNat
  <2> QED
    BY <1>2, <1>3, <1>5, <2>2, <2>3
<1>8. x + y \in {c - 1, c}
  BY <1>1, <1>3, <1>5, <1>6, <1>7 DEF z
<1> QED
  BY <1>8 DEF c, d, x, y

\* The index of a history and of its mirror.
LEMMA RsiOfMirror ==
    ASSUME NEW bars, NEW mirror, NEW m \in Nat \ {0}, m + 1 <= MaxHistory, NEW top \in Int,
           Len(bars) = m + 1, Len(mirror) = m + 1,
           \A n \in 1..(m + 1) : bars[n].close \in Int /\ mirror[n].close = top - bars[n].close
    PROVE  Rsi(bars) + Rsi(mirror) \in
               IF \A n \in 1..(m + 1) : bars[n].close = bars[1].close THEN {0}
               ELSE {100 * Unit - 1, 100 * Unit}
<1> DEFINE g == Rma(Gains(bars))[m]
           l == -Rma(Losses(bars))[m]
           flat == \A n \in 1..(m + 1) : bars[n].close = bars[1].close
<1>0. (\A n \in 1..(m + 1) : bars[n].close \in Int) /\ \A n \in 1..(m + 1) : mirror[n].close \in Int
  OBVIOUS
<1>1. Rsi(bars) = Ratio(g, -l) /\ g \in Nat /\ l \in Nat
  <2>1. /\ Rsi(bars) = Ratio(Rma(Gains(bars))[m], Rma(Losses(bars))[m])
        /\ Rma(Gains(bars))[m] \in Nat /\ -Rma(Losses(bars))[m] \in Nat
        /\ Rma(Losses(bars))[m] \in Int
    BY <1>0, RsiParts
  <2>2. -(-Rma(Losses(bars))[m]) = Rma(Losses(bars))[m]
    BY <2>1
  <2> QED
    BY <2>1, <2>2
<1>2. Rsi(mirror) = Ratio(l, -g)
  <2>1. Rsi(mirror) = Ratio(Rma(Gains(mirror))[m], Rma(Losses(mirror))[m])
    BY <1>0, RsiParts
  <2>2. Rma(Gains(mirror))[m] = l /\ Rma(Losses(mirror))[m] = -g
    BY MirrorExchanges
  <2> QED
    BY <2>1, <2>2
<1>3. g = 0 <=> \A n \in 1..m : Step(bars, n) <= 0
  BY <1>0, NoGains
<1>4. l = 0 <=> \A n \in 1..m : Step(mirror, n) <= 0
  <2>1. Rma(Gains(mirror))[m] = l
    BY MirrorExchanges
  <2>2. Rma(Gains(mirror))[m] = 0 <=> \A n \in 1..m : Step(mirror, n) <= 0
    BY <1>0, NoGains
  <2> QED
    BY <2>1, <2>2
<1>5. \A n \in 1..m : Step(bars, n) \in Int /\ Step(mirror, n) = -Step(bars, n)
  <2>1. SUFFICES ASSUME NEW n \in 1..m PROVE Step(bars, n) \in Int /\ Step(mirror, n) = -Step(bars, n)
    OBVIOUS
  <2>2. n \in 1..(m + 1) /\ n + 1 \in 1..(m + 1)
    OBVIOUS
  <2> QED
    BY <2>2 DEF Step
<1>6. g = 0 /\ l = 0 <=> flat
  <2>1. (\A n \in 1..m : Step(bars, n) = 0) <=> flat
    BY <1>0, FlatIsFlat
  <2>2. (\A n \in 1..m : Step(bars, n) = 0) <=>
            (\A n \in 1..m : Step(bars, n) <= 0) /\ (\A n \in 1..m : Step(mirror, n) <= 0)
    BY <1>5
  <2> HIDE DEF g, l, flat
  <2> QED
    BY <1>3, <1>4, <2>1, <2>2
<1> HIDE DEF g, l, flat
<1>7. Abs(-g) = g /\ Abs(-l) = l /\ (-g = 0 <=> g = 0) /\ (-l = 0 <=> l = 0)
  BY <1>1 DEF Abs
<1>8. CASE flat
  <2>1. g = 0 /\ l = 0
    BY <1>6, <1>8
  <2>2. Rsi(bars) = 0 /\ Rsi(mirror) = 0
    BY <1>1, <1>2, <1>7, <2>1 DEF Ratio
  <2> QED
    BY <1>8, <2>2 DEF flat
<1>9. CASE ~flat
  <2>1. ~(g = 0 /\ l = 0) /\ g + l # 0 /\ l + g = g + l
    BY <1>1, <1>6, <1>9
  <2>2. /\ Rsi(bars) = (100 * Unit * g) \div (g + l)
        /\ Rsi(mirror) = (100 * Unit * l) \div (g + l)
    BY <1>1, <1>2, <1>7, <2>1 DEF Ratio
  <2>3. (100 * Unit * g) \div (g + l) + (100 * Unit * l) \div (g + l)
            \in {100 * Unit - 1, 100 * Unit}
    BY <1>1, <2>1, SharesAddUp
  <2> QED
    BY <1>9, <2>2, <2>3 DEF flat
<1> QED
  BY <1>8, <1>9

-----------------------------------------------------------------------------
(* The average true range and the directional index.                        *)

\* The largest of some whole numbers.
LEMMA MaxIs ==
    ASSUME NEW S, S \subseteq Int, NEW m \in S, \A x \in S : x <= m
    PROVE  Max(S) = m
<1>1. m \in S /\ \A y \in S : m >= y
  OBVIOUS
<1>2. \A x \in S : (\A y \in S : x >= y) => x = m
  OBVIOUS
<1> QED
  BY <1>1, <1>2 DEF Max

LEMMA MinIs ==
    ASSUME NEW S, S \subseteq Int, NEW x \in S, \A y \in S : x <= y
    PROVE  Min(S) = x
<1>1. Min(S) \in S /\ \A y \in S : Min(S) <= y
  BY DEF Min
<1>2. Min(S) \in Int /\ x \in Int /\ Min(S) <= x /\ Min(S) >= x
  BY <1>1
<1> QED
  BY <1>2

\* The lowest and the highest price from the close of the bar before to the end of bar n.
MoveLow(bars, n)  == IF n = 1 THEN bars[1].low ELSE Min({bars[n].low, bars[n - 1].close})
MoveHigh(bars, n) == IF n = 1 THEN bars[1].high ELSE Max({bars[n].high, bars[n - 1].close})

LEMMA TrueRangeIsMove ==
    ASSUME NEW bars \in Seq(Candles), NEW n \in 1..Len(bars)
    PROVE  /\ MoveHigh(bars, n) - MoveLow(bars, n) \in Nat
           /\ TrueRange(bars, n) = Unit * (MoveHigh(bars, n) - MoveLow(bars, n))
<1>1. /\ bars[n].high \in Nat /\ bars[n].low \in Nat /\ bars[n].low <= bars[n].high
  BY BarFacts
<1>2. CASE n = 1
  <2>1. MoveHigh(bars, n) - MoveLow(bars, n) = bars[n].high - bars[n].low
    BY <1>2 DEF MoveHigh, MoveLow
  <2> QED
    BY <1>1, <1>2, <2>1 DEF TrueRange
<1>3. CASE n # 1
  <2>1. n - 1 \in 1..Len(bars)
    BY <1>3
  <2>2. bars[n - 1].close \in Nat
    BY <2>1, BarFacts
  <2> DEFINE h == bars[n].high
             l == bars[n].low
             c == bars[n - 1].close
             hi == IF h >= c THEN h ELSE c
             lo == IF l <= c THEN l ELSE c
  <2>3. h \in Nat /\ l \in Nat /\ c \in Nat /\ l <= h
    BY <1>1, <2>2
  <2> HIDE DEF h, l, c
  <2>4. Max({h, c}) = hi
    <3>1. {h, c} \subseteq Int /\ hi \in {h, c} /\ \A y \in {h, c} : y <= hi
      BY <2>3
    <3> HIDE DEF hi
    <3> QED
      BY <3>1, MaxIs
  <2>5. Min({l, c}) = lo
    <3>1. {l, c} \subseteq Int /\ lo \in {l, c} /\ \A y \in {l, c} : lo <= y
      BY <2>3
    <3> HIDE DEF lo
    <3> QED
      BY <3>1, MinIs
  <2>6. Max({h - l, Abs(h - c), Abs(l - c)}) = hi - lo
    <3>1. /\ {h - l, Abs(h - c), Abs(l - c)} \subseteq Int
          /\ hi - lo \in {h - l, Abs(h - c), Abs(l - c)}
          /\ \A y \in {h - l, Abs(h - c), Abs(l - c)} : y <= hi - lo
      BY <2>3 DEF Abs
    <3> HIDE DEF hi, lo
    <3> QED
      BY <3>1, MaxIs
  <2>7. hi - lo \in Nat
    BY <2>3
  <2>8. MoveHigh(bars, n) = Max({h, c}) /\ MoveLow(bars, n) = Min({l, c})
    BY <1>3 DEF MoveHigh, MoveLow, h, l, c
  <2>9. TrueRange(bars, n) = Unit * Max({h - l, Abs(h - c), Abs(l - c)})
    BY <1>3 DEF TrueRange, h, l, c
  <2> HIDE DEF hi, lo
  <2> QED
    BY <2>4, <2>5, <2>6, <2>7, <2>8, <2>9
<1> QED
  BY <1>2, <1>3

LEMMA TrueRangeNat ==
    ASSUME NEW bars \in Seq(Candles), NEW n \in 1..Len(bars)
    PROVE  TrueRange(bars, n) \in Nat /\ \E c \in Nat : TrueRange(bars, n) = Unit * c
<1> DEFINE c == MoveHigh(bars, n) - MoveLow(bars, n)
<1>1. c \in Nat /\ TrueRange(bars, n) = Unit * c
  BY TrueRangeIsMove
<1> HIDE DEF c
<1>2. Unit * c \in Nat
  <2>1. Unit \in Nat
    BY IndicatorAssumption
  <2> QED
    BY <1>1, <2>1, ProductNat
<1> QED
  BY <1>1, <1>2

\* The ranges that the average starts from.
Starting(bars, first) == [m \in 1..(Period - first + 1) |-> TrueRange(bars, first + m - 1)]

LEMMA PresmoothedIs ==
    ASSUME NEW bars \in Seq(Candles), NEW first \in {1, 2}, Period <= Len(bars),
           NEW lo \in Int, NEW hi \in Int,
           \A n \in first..Len(bars) : lo <= TrueRange(bars, n) /\ TrueRange(bars, n) <= hi
    PROVE  LET v == Presmoothed(bars, first, Period, Period)
               c == Period - first + 1
           IN  /\ v \in [1..Len(bars) -> Readings]
               /\ \A n \in 1..Len(bars) : IF n < Period THEN v[n] = Undefined ELSE v[n] \in lo..hi
               /\ \A n \in (Period + 1)..Len(bars) : v[n] = TrueRange(bars, n)
               /\ v[Period] = SumTo(Starting(bars, first), c) \div c
               /\ c \in Nat \ {0} /\ \A m \in 1..c : Starting(bars, first)[m] \in Nat
<1> DEFINE v == Presmoothed(bars, first, Period, Period)
           c == Period - first + 1
           s == Starting(bars, first)
           mean == SumTo(s, c) \div c
<1>0. Period \in Nat /\ Period > 1 /\ Len(bars) \in Nat
  BY PeriodFacts
<1>1. c \in Nat \ {0}
  BY <1>0
<1>2. \A m \in 1..c : s[m] \in Nat /\ lo <= s[m] /\ s[m] <= hi
  <2>1. SUFFICES ASSUME NEW m \in 1..c PROVE s[m] \in Nat /\ lo <= s[m] /\ s[m] <= hi
    OBVIOUS
  <2>2. first + m - 1 \in first..Len(bars) /\ first + m - 1 \in 1..Len(bars)
    BY <1>0
  <2>3. s[m] = TrueRange(bars, first + m - 1)
    BY DEF Starting
  <2>4. TrueRange(bars, first + m - 1) \in Nat
    BY <2>2, TrueRangeNat
  <2> QED
    BY <2>2, <2>3, <2>4
<1>3. v = [n \in 1..Len(bars) |-> IF n < Period THEN Undefined
                                  ELSE IF n > Period THEN TrueRange(bars, n) ELSE mean]
  BY DEF Presmoothed, Starting
<1> HIDE DEF v, s, c
<1>4. mean \in lo..hi
  <2>1. c * lo <= SumTo(s, c) /\ SumTo(s, c) <= c * hi
    <3>1. c \in Nat /\ \A i \in 1..c : s[i] \in Int /\ lo <= s[i] /\ s[i] <= hi
      BY <1>1, <1>2
    <3> QED
      BY <3>1, SumBounds
  <2>2. SumTo(s, c) \in Int
    <3>1. c \in Nat /\ (\A i \in 1..c : s[i] \in Int) /\ c \in 0..c
      BY <1>1, <1>2
    <3> QED
      BY <3>1, SumSteps
  <2> QED
    BY <1>1, <2>1, <2>2, DivBetween
<1> HIDE DEF mean
<1>5. \A n \in Period..Len(bars) : TrueRange(bars, n) \in lo..hi
  <2>1. SUFFICES ASSUME NEW n \in Period..Len(bars) PROVE TrueRange(bars, n) \in lo..hi
    OBVIOUS
  <2>2. n \in first..Len(bars) /\ n \in 1..Len(bars)
    BY <1>0
  <2>3. TrueRange(bars, n) \in Nat
    BY <2>2, TrueRangeNat
  <2> QED
    BY <2>2, <2>3
<1>6. \A n \in 1..Len(bars) : IF n < Period THEN v[n] = Undefined ELSE v[n] \in lo..hi
  <2>1. \A n \in 1..Len(bars) : n >= Period => n \in Period..Len(bars)
    BY <1>0
  <2> QED
    BY <1>0, <1>3, <1>4, <1>5, <2>1
<1>7. v \in [1..Len(bars) -> Readings]
  <2>1. \A n \in 1..Len(bars) : v[n] \in Readings
    BY <1>6 DEF Readings
  <2> QED
    BY <1>3, <2>1
<1>8. \A n \in (Period + 1)..Len(bars) : v[n] = TrueRange(bars, n)
  <2>1. \A n \in (Period + 1)..Len(bars) : n \in 1..Len(bars) /\ n > Period /\ ~(n < Period)
    BY <1>0
  <2> QED
    BY <1>3, <2>1
<1>9. v[Period] = mean
  BY <1>0, <1>3
<1> QED
  BY <1>1, <1>2, <1>6, <1>7, <1>8, <1>9 DEF v, c, s, mean

\* The average true range is between the bounds of the true ranges.
LEMMA AtrBetween ==
    ASSUME NEW bars \in Seq(Candles), Period <= Len(bars), NEW lo \in Int, NEW hi \in Int,
           \A n \in 1..Len(bars) : lo <= TrueRange(bars, n) /\ TrueRange(bars, n) <= hi
    PROVE  Atr(bars) \in lo..hi
<1> DEFINE v == Presmoothed(bars, 1, Period, Period)
           m == Len(bars)
<1>0. m \in Nat /\ m \in 1..m /\ ~(m < Period) /\ 1 \in {1, 2}
  BY PeriodFacts
<1>1. v \in [1..m -> Readings] /\ \A n \in 1..m : IF n < Period THEN v[n] = Undefined ELSE v[n] \in lo..hi
  BY <1>0, PresmoothedIs
<1> HIDE DEF v, m
<1>2. \A x, y \in lo..hi : (x + (Period - 1) * y) \div Period \in lo..hi
  BY MeanWithin
<1>3. /\ Len(Rma(v)) = m
      /\ \A n \in 1..m : IF v[n] = Undefined THEN Rma(v)[n] = Undefined ELSE Rma(v)[n] \in lo..hi
  <2>1. lo..hi \subseteq Int /\ \A n \in 1..m : v[n] \in (lo..hi) \cup {Undefined}
    BY <1>1
  <2> QED
    BY <1>0, <1>1, <1>2, <2>1, RmaStays
<1>4. v[m] # Undefined
  BY <1>0, <1>1, PeriodFacts
<1>5. Atr(bars) = Rma(v)[m]
  BY <1>3 DEF Atr, Last, v
<1> QED
  BY <1>0, <1>3, <1>4, <1>5

LEMMA TrueRangesBetween ==
    ASSUME NEW bars \in Seq(Candles), Len(bars) # 0
    PROVE  \E i, j \in 1..Len(bars) : \A n \in 1..Len(bars) :
               TrueRange(bars, i) <= TrueRange(bars, n) /\ TrueRange(bars, n) <= TrueRange(bars, j)
<1> DEFINE m == Len(bars)
           f == [n \in 1..m |-> TrueRange(bars, n)]
<1>1. m \in Nat \ {0} /\ \A n \in 1..m : f[n] \in Int
  BY TrueRangeNat
<1> HIDE DEF f
<1>2. PICK i, j \in 1..m : \A n \in 1..m : f[i] <= f[n] /\ f[n] <= f[j]
  BY <1>1, ExtremesExist
<1>3. \A n \in 1..m : f[n] = TrueRange(bars, n)
  BY DEF f
<1> QED
  BY <1>2, <1>3

\* Up and down movements are natural numbers from the second bar on.
LEMMA MovesAre ==
    ASSUME NEW m \in Nat, NEW move, \A n \in 2..m : move[n] \in Nat
    PROVE  /\ Moves(move, m) \in [1..m -> Readings]
           /\ \A n \in 1..m : IF n = 1 THEN Moves(move, m)[n] = Undefined ELSE Moves(move, m)[n] \in Nat
<1> DEFINE v == [n \in 1..m |-> IF n = 1 THEN Undefined ELSE move[n]]
<1>1. \A n \in 1..m : IF n = 1 THEN v[n] = Undefined ELSE v[n] \in Nat
  OBVIOUS
<1>2. v \in [1..m -> Readings]
  <2>1. \A n \in 1..m : v[n] \in Readings
    <3> HIDE DEF v
    <3> QED
      BY <1>1 DEF Readings
  <2> QED
    BY <2>1
<1>3. Moves(move, m) = Rma(v)
  BY DEF Moves
<1> HIDE DEF v
<1>4. \A x, y \in Nat : (x + (Period - 1) * y) \div Period \in Nat
  BY MeanIsNat
<1>5. /\ Rma(v) \in [1..m -> Readings]
      /\ \A n \in 1..m : IF v[n] = Undefined THEN Rma(v)[n] = Undefined ELSE Rma(v)[n] \in Nat
  <2>1. Nat \subseteq Int /\ \A n \in 1..m : v[n] \in Nat \cup {Undefined}
    BY <1>1
  <2> QED
    BY <1>2, <1>4, <2>1, RmaStays
<1>6. Undefined \notin Nat
  BY PeriodFacts
<1> QED
  BY <1>1, <1>3, <1>5, <1>6

LEMMA DirectionalIndexIs ==
    ASSUME NEW atr \in Nat, NEW plus \in Nat, NEW minus \in Nat
    PROVE  /\ DirectionalIndex(atr, plus, minus) \in 0..(100 * Unit) \cup {Undefined}
           /\ DirectionalIndex(atr, plus, minus) = Undefined <=> atr = 0
<1>1. Undefined \notin Int /\ Undefined \notin {atr, plus, minus}
  BY PeriodFacts
<1>2. 100 * Unit \in Nat
  BY IndicatorAssumption
<1>3. CASE atr = 0
  BY <1>1, <1>3 DEF DirectionalIndex
<1>4. CASE atr # 0 /\ plus + minus = 0
  <2>1. DirectionalIndex(atr, plus, minus) = 0
    BY <1>1, <1>4 DEF DirectionalIndex
  <2> QED
    BY <1>1, <1>2, <1>4, <2>1
<1>5. CASE atr # 0 /\ plus + minus # 0
  <2>1. DirectionalIndex(atr, plus, minus) = (100 * Unit * Abs(plus - minus)) \div (plus + minus)
    BY <1>1, <1>5 DEF DirectionalIndex
  <2>2. /\ Abs(plus - minus) \in Nat /\ plus + minus \in Nat \ {0}
        /\ Abs(plus - minus) <= plus + minus
    BY <1>5 DEF Abs
  <2>3. (100 * Unit * Abs(plus - minus)) \div (plus + minus) \in 0..(100 * Unit)
    BY <2>2, UnitPercent
  <2>4. (100 * Unit * Abs(plus - minus)) \div (plus + minus) # Undefined
    BY <1>1, <2>3
  <2> QED
    BY <1>5, <2>1, <2>3, <2>4
<1> QED
  BY <1>3, <1>4, <1>5

LEMMA MovementsNat ==
    ASSUME NEW bars \in Seq(Candles), NEW n \in 2..Len(bars)
    PROVE  PlusMove(bars, n) \in Nat /\ MinusMove(bars, n) \in Nat
<1>1. n \in 1..Len(bars) /\ n - 1 \in 1..Len(bars)
  OBVIOUS
<1>2. /\ bars[n].high \in Nat /\ bars[n].low \in Nat
      /\ bars[n - 1].high \in Nat /\ bars[n - 1].low \in Nat
  BY <1>1, BarFacts
<1> DEFINE up == bars[n].high - bars[n - 1].high
           down == bars[n - 1].low - bars[n].low
<1>3. up \in Int /\ down \in Int
  BY <1>2
<1>4. /\ PlusMove(bars, n) = (IF up > down /\ up > 0 THEN up * Unit ELSE 0)
      /\ MinusMove(bars, n) = (IF down > up /\ down > 0 THEN down * Unit ELSE 0)
  BY DEF PlusMove, MinusMove
<1> HIDE DEF up, down
<1>5. (up > 0 => up * Unit \in Nat) /\ (down > 0 => down * Unit \in Nat)
  <2>1. Unit \in Nat
    BY IndicatorAssumption
  <2>2. (up > 0 => up \in Nat) /\ (down > 0 => down \in Nat)
    BY <1>3
  <2> QED
    BY <2>1, <2>2, ProductNat
<1> QED
  BY <1>3, <1>4, <1>5

\* The average range that the index divides by, and when it is zero.
LEMMA AtrSeriesIs ==
    ASSUME NEW bars \in Seq(Candles), Len(bars) <= MaxHistory, NEW at \in Period..Len(bars)
    PROVE  /\ AtrSeries(bars) \in [1..Len(bars) -> Readings]
           /\ \A n \in 1..Len(bars) : IF n < Period THEN AtrSeries(bars)[n] = Undefined
                                      ELSE AtrSeries(bars)[n] \in Nat
           /\ AtrSeries(bars)[at] = 0 <=> \A n \in 2..at : TrueRange(bars, n) = 0
<1> DEFINE v == Presmoothed(bars, 2, Period, Period)
           m == Len(bars)
           s == Starting(bars, 2)
           c == Period - 2 + 1
           big == Power(Period, MaxHistory - 1)
<1>0. /\ m \in Nat /\ at \in Nat /\ at \in 1..m /\ ~(at < Period) /\ m <= MaxHistory
      /\ Period \in Nat /\ Period > 1 /\ Period <= m /\ MaxHistory \in Nat /\ MaxHistory # 0
      /\ Undefined \notin Int /\ m # 0 /\ 2 \in {1, 2}
  <2>1. /\ m \in Nat /\ m <= MaxHistory /\ MaxHistory \in Nat /\ Undefined \notin Int
        /\ Period \in Nat /\ Period > 1 /\ at \in Period..m
    BY IndicatorAssumption
  <2> HIDE DEF m
  <2> QED
    BY <2>1
<1>1. PICK i, j \in 1..m : \A n \in 1..m :
          TrueRange(bars, i) <= TrueRange(bars, n) /\ TrueRange(bars, n) <= TrueRange(bars, j)
  BY <1>0, TrueRangesBetween
<1> DEFINE hi == TrueRange(bars, j)
<1>2. hi \in Nat /\ \A n \in 1..m : TrueRange(bars, n) \in Nat /\ TrueRange(bars, n) <= hi
  BY <1>1, TrueRangeNat
<1>3. /\ v \in [1..m -> Readings]
      /\ \A n \in 1..m : IF n < Period THEN v[n] = Undefined ELSE v[n] \in 0..hi
      /\ \A n \in (Period + 1)..m : v[n] = TrueRange(bars, n)
      /\ v[Period] = SumTo(s, c) \div c
      /\ c \in Nat \ {0} /\ \A k \in 1..c : s[k] \in Nat
  <2>1. \A n \in 2..m : 0 <= TrueRange(bars, n) /\ TrueRange(bars, n) <= hi
    BY <1>2
  <2>2. 0 \in Int /\ hi \in Int
    BY <1>2
  <2> HIDE DEF hi
  <2> QED
    BY <1>0, <2>1, <2>2, PresmoothedIs
<1>4. \A k \in 1..c : s[k] = TrueRange(bars, k + 1) /\ k + 1 \in 2..Period
  BY <1>0 DEF Starting
<1> HIDE DEF v, m, s, hi
<1>5. /\ Rma(v) \in [1..m -> Readings]
      /\ \A n \in 1..m : IF v[n] = Undefined THEN Rma(v)[n] = Undefined ELSE Rma(v)[n] \in Nat
  <2>1. Nat \subseteq Int /\ \A n \in 1..m : v[n] \in Nat \cup {Undefined}
    BY <1>2, <1>3
  <2>2. \A x, y \in Nat : (x + (Period - 1) * y) \div Period \in Nat
    BY MeanIsNat
  <2> QED
    BY <1>0, <1>3, <2>1, <2>2, RmaStays
<1>6. AtrSeries(bars) = Rma(v)
  BY DEF AtrSeries, v
<1>7. \A n \in 1..m : v[n] = Undefined <=> n < Period
  <2>1. Undefined \notin 0..hi
    BY <1>0, <1>2
  <2> QED
    BY <1>3, <2>1
<1>8. ASSUME NEW n \in 1..m, TrueRange(bars, n) # 0
      PROVE  /\ TrueRange(bars, n) \in Nat /\ big <= TrueRange(bars, n)
             /\ Power(Period, MaxHistory) <= TrueRange(bars, n)
  <2>1. PICK q \in Nat : TrueRange(bars, n) = Unit * q
    BY TrueRangeNat DEF m
  <2>2. q # 0
    <3>1. Unit * 0 = 0
      BY IndicatorAssumption
    <3> QED
      BY <1>8, <2>1, <3>1
  <2> QED
    BY <1>0, <2>1, <2>2, MultiplesAreLarge
<1>9. big \in Nat \ {0} /\ Power(Period, MaxHistory) = Period * big
  <2> DEFINE e == MaxHistory - 1
  <2>1. e \in Nat /\ MaxHistory = e + 1
    BY <1>0
  <2> HIDE DEF e
  <2>2. Power(Period, e + 1) = Period * Power(Period, e) /\ Power(Period, e) \in Nat \ {0}
    <3>1. Period \in Nat \ {0}
      BY <1>0
    <3> QED
      BY <2>1, <3>1, PowerSteps, PowerPositive
  <2> QED
    BY <2>1, <2>2 DEF e
<1> HIDE DEF big
<1>10. SumTo(s, c) \in Nat /\ \A k \in 1..c : s[k] <= SumTo(s, c)
  <2>1. \A k \in 1..c : SumTo(s, c) \in Nat /\ s[k] <= SumTo(s, c)
    <3> HIDE DEF c
    <3>1. c \in Nat
      BY <1>3
    <3> QED
      BY <1>3, <3>1, SumOfTwo
  <2>2. 1 \in 1..c
    BY <1>3
  <2> QED
    BY <2>1, <2>2
<1>11. CASE \A k \in 1..c : s[k] = 0
  <2>1. SumTo(s, c) = 0
    <3>1. c \in Nat /\ 0 \in Int /\ \A k \in 1..c : s[k] \in Int /\ 0 <= s[k] /\ s[k] <= 0
      BY <1>3, <1>11
    <3>2. c * 0 <= SumTo(s, c) /\ SumTo(s, c) <= c * 0
      <4> HIDE DEF c
      <4> QED
        BY <3>1, SumBounds
    <3>3. c * 0 = 0
      BY <3>1
    <3> QED
      BY <1>10, <3>2, <3>3
  <2>2. v[Period] = 0
    BY <1>3, <2>1
  <2>3. \A n \in 1..m : v[n] \notin {0, Undefined} => v[n] \in Nat /\ big <= v[n]
    <3>1. SUFFICES ASSUME NEW n \in 1..m, v[n] \notin {0, Undefined} PROVE v[n] \in Nat /\ big <= v[n]
      OBVIOUS
    <3>2. n \in (Period + 1)..m
      BY <1>0, <1>7, <2>2, <3>1
    <3>3. v[n] = TrueRange(bars, n)
      BY <1>3, <3>2
    <3> QED
      BY <1>8, <3>1, <3>3
  <2>4. Rma(v)[at] = 0 <=> \A n \in 1..at : v[n] \in {0, Undefined}
    <3>1. v[at] # Undefined
      BY <1>0, <1>7
    <3> QED
      BY <1>0, <1>3, <2>3, <3>1, RmaVanishes DEF big
  <2>5. (\A n \in 1..at : v[n] \in {0, Undefined}) <=> \A n \in (Period + 1)..at : TrueRange(bars, n) = 0
    <3>1. \A n \in 1..at : n \in 1..m /\ (n < Period \/ n = Period \/ n \in (Period + 1)..at)
      BY <1>0
    <3>2. \A n \in (Period + 1)..at : n \in 1..at /\ n \in 1..m /\ ~(n < Period) /\ v[n] = TrueRange(bars, n)
      <4>1. \A n \in (Period + 1)..at : n \in (Period + 1)..m /\ n \in 1..at
        BY <1>0
      <4> QED
        BY <1>0, <1>3, <4>1
    <3>3. \A n \in (Period + 1)..at : v[n] # Undefined
      BY <1>7, <3>2
    <3> QED
      BY <1>7, <2>2, <3>1, <3>2, <3>3
  <2>6. \A n \in 2..at : n \in (Period + 1)..at \/ TrueRange(bars, n) = 0
    <3>1. SUFFICES ASSUME NEW n \in 2..at, n \notin (Period + 1)..at PROVE TrueRange(bars, n) = 0
      OBVIOUS
    <3>2. n - 1 \in 1..c /\ (n - 1) + 1 = n
      BY <1>0, <3>1
    <3> QED
      BY <1>4, <1>11, <3>2
  <2>7. \A n \in (Period + 1)..at : n \in 2..at
    BY <1>0
  <2> QED
    BY <1>3, <1>5, <1>6, <1>7, <2>4, <2>5, <2>6, <2>7 DEF m
<1>12. CASE ~\A k \in 1..c : s[k] = 0
  <2>1. PICK k \in 1..c : s[k] # 0
    BY <1>12
  <2>2. s[k] = TrueRange(bars, k + 1) /\ k + 1 \in 2..at /\ k + 1 \in 2..m
    BY <1>0, <1>4
  <2>3. Period * big <= SumTo(s, c)
    <3>1. k + 1 \in 1..m
      BY <2>2
    <3>2. Period * big <= TrueRange(bars, k + 1) /\ TrueRange(bars, k + 1) \in Nat
      BY <1>8, <1>9, <2>1, <2>2, <3>1
    <3>3. TrueRange(bars, k + 1) <= SumTo(s, c)
      BY <1>10, <2>2
    <3>4. Period * big \in Nat
      BY <1>0, <1>9, ProductNat
    <3> QED
      BY <1>10, <3>2, <3>3, <3>4
  <2>4. v[Period] \in Nat /\ big <= v[Period] /\ v[Period] # 0
    <3> DEFINE t == SumTo(s, c)
    <3>1. t \in Nat /\ c \in Nat \ {0} /\ Period * big <= t /\ c <= Period
      BY <1>0, <1>3, <1>10, <2>3
    <3>2. c * big <= t /\ t <= c * t
      <4>1. c * big = Period * big - (Period - c) * big /\ (Period - c) * big \in Nat
        <5>1. Period - c \in Nat
          BY <1>0, <3>1
        <5>2. (Period - c) * big \in Nat
          BY <1>9, <5>1, ProductNat
        <5>3. (Period - c) * big = Period * big - c * big
          BY <1>0, <1>9, <3>1
        <5>4. Period * big \in Nat /\ c * big \in Nat
          BY <1>0, <1>9, <3>1, ProductNat
        <5> HIDE DEF c
        <5> QED
          BY <5>2, <5>3, <5>4
      <4>2. c * t = t + (c - 1) * t /\ (c - 1) * t \in Nat
        <5> HIDE DEF c, t
        <5>1. c - 1 \in Nat
          BY <3>1
        <5> QED
          BY <3>1, <5>1, ProductNat
      <4>3. Period * big \in Nat
        BY <1>0, <1>9, ProductNat
      <4> DEFINE x == c * big
                 y == Period * big
                 z == (Period - c) * big
                 w == c * t
                 u == (c - 1) * t
      <4>4. x = y - z /\ z \in Nat /\ w = t + u /\ u \in Nat /\ y \in Nat /\ y <= t
        BY <3>1, <4>1, <4>2, <4>3
      <4> HIDE DEF x, y, z, w, u, t
      <4>5. x <= t /\ t <= w
        BY <3>1, <4>4
      <4> QED
        BY <4>5 DEF x, w
    <3>3. t \div c \in big..t
      <4>1. t \in Int /\ big \in Int
        BY <1>9, <3>1
      <4> HIDE DEF t, c
      <4> QED
        BY <3>1, <3>2, <4>1, DivBetween
    <3>4. v[Period] = t \div c
      BY <1>3
    <3> DEFINE q == t \div c
    <3>5. q \in big..t
      BY <3>3
    <3> HIDE DEF q
    <3>6. q \in Nat /\ big <= q /\ q # 0
      BY <1>9, <3>1, <3>5
    <3> QED
      BY <3>4, <3>6 DEF q
  <2>5. \A n \in 1..m : v[n] \notin {0, Undefined} => v[n] \in Nat /\ big <= v[n]
    <3>1. SUFFICES ASSUME NEW n \in 1..m, v[n] \notin {0, Undefined} PROVE v[n] \in Nat /\ big <= v[n]
      OBVIOUS
    <3>2. CASE n = Period
      BY <2>4, <3>2
    <3>3. CASE n # Period
      <4>1. n \in (Period + 1)..m
        BY <1>0, <1>7, <3>1, <3>3
      <4>2. v[n] = TrueRange(bars, n)
        BY <1>3, <4>1
      <4> QED
        BY <1>8, <3>1, <4>2
    <3> QED
      BY <3>2, <3>3
  <2>6. Rma(v)[at] = 0 <=> \A n \in 1..at : v[n] \in {0, Undefined}
    <3>1. v[at] # Undefined
      BY <1>0, <1>7
    <3> QED
      BY <1>0, <1>3, <2>5, <3>1, RmaVanishes DEF big
  <2>7. ~\A n \in 1..at : v[n] \in {0, Undefined}
    <3>1. Period \in 1..at /\ Period \in 1..m /\ v[Period] # Undefined
      BY <1>0, <1>7
    <3> QED
      BY <2>4, <3>1
  <2>8. ~\A n \in 2..at : TrueRange(bars, n) = 0
    BY <2>1, <2>2
  <2> QED
    BY <1>3, <1>5, <1>6, <1>7, <2>6, <2>7, <2>8 DEF m
<1> QED
  BY <1>11, <1>12

\* The directional index is a percentage, and missing only where every range after the
\* first bar is zero.
LEMMA AdxIs ==
    ASSUME NEW bars \in Seq(Candles), 2 * Period <= Len(bars), Len(bars) <= MaxHistory
    PROVE  /\ Adx(bars) \in 0..(100 * Unit) \cup {Undefined}
           /\ Adx(bars) = Undefined <=> \A n \in 2..Len(bars) : TrueRange(bars, n) = 0
<1> DEFINE m == Len(bars)
           atr == AtrSeries(bars)
           plus == Moves([n \in 2..m |-> PlusMove(bars, n)], m)
           minus == Moves([n \in 2..m |-> MinusMove(bars, n)], m)
           v == [n \in 1..m |-> DirectionalIndex(atr[n], plus[n], minus[n])]
           K == 0..(100 * Unit)
<1>0. /\ m \in Nat /\ m \in 1..m /\ Period \in Nat /\ Period > 1 /\ Period <= m /\ ~(m < Period)
      /\ m # 1 /\ Undefined \notin Int /\ 100 * Unit \in Nat
  <2>1. m \in Nat /\ 2 * Period <= m /\ Unit \in Nat
    BY IndicatorAssumption
  <2> HIDE DEF m
  <2> QED
    BY <2>1, PeriodFacts
<1>1. /\ atr \in [1..m -> Readings]
      /\ \A n \in 1..m : IF n < Period THEN atr[n] = Undefined ELSE atr[n] \in Nat
      /\ atr[m] = 0 <=> \A n \in 2..m : TrueRange(bars, n) = 0
  <2>1. m \in Period..m
    BY <1>0
  <2> HIDE DEF atr
  <2> QED
    BY <2>1, AtrSeriesIs DEF atr
<1>2. /\ \A n \in 1..m : IF n = 1 THEN plus[n] = Undefined ELSE plus[n] \in Nat
      /\ \A n \in 1..m : IF n = 1 THEN minus[n] = Undefined ELSE minus[n] \in Nat
  <2> DEFINE up == [n \in 2..m |-> PlusMove(bars, n)]
             down == [n \in 2..m |-> MinusMove(bars, n)]
  <2>1. \A n \in 2..m : up[n] \in Nat /\ down[n] \in Nat
    BY MovementsNat
  <2> HIDE DEF up, down, m
  <2>2. /\ \A n \in 1..m : IF n = 1 THEN Moves(up, m)[n] = Undefined ELSE Moves(up, m)[n] \in Nat
        /\ \A n \in 1..m : IF n = 1 THEN Moves(down, m)[n] = Undefined ELSE Moves(down, m)[n] \in Nat
    BY <1>0, <2>1, MovesAre
  <2> QED
    BY <2>2 DEF up, down
<1>3. Adx(bars) = Last(Rma(v))
  BY DEF Adx
<1>4. \A n \in 1..m : v[n] = DirectionalIndex(atr[n], plus[n], minus[n]) /\ v \in [1..m -> {v[k] : k \in 1..m}]
  <2> HIDE DEF atr, plus, minus
  <2> QED
    OBVIOUS
<1> HIDE DEF m, atr, plus, minus
<1>5. ASSUME NEW n \in 1..m
      PROVE  v[n] \in K \cup {Undefined} /\ (n = m => (v[n] = Undefined <=> atr[m] = 0))
  <2>1. CASE n < Period \/ n = 1
    <3>1. Undefined \in {atr[n], plus[n], minus[n]} /\ n # m
      BY <1>0, <1>1, <1>2, <2>1
    <3>2. v[n] = Undefined
      BY <3>1 DEF DirectionalIndex
    <3> QED
      BY <3>1, <3>2
  <2>2. CASE ~(n < Period \/ n = 1)
    <3>1. atr[n] \in Nat /\ plus[n] \in Nat /\ minus[n] \in Nat
      BY <1>1, <1>2, <2>2
    <3>2. /\ DirectionalIndex(atr[n], plus[n], minus[n]) \in 0..(100 * Unit) \cup {Undefined}
          /\ DirectionalIndex(atr[n], plus[n], minus[n]) = Undefined <=> atr[n] = 0
      BY <3>1, DirectionalIndexIs
    <3> QED
      BY <3>2
  <2> QED
    BY <2>1, <2>2
<1>6. v \in [1..m -> Readings]
  <2>1. \A n \in 1..m : v[n] \in Readings
    <3> HIDE DEF v
    <3> QED
      BY <1>5 DEF Readings
  <2> QED
    BY <2>1
<1> HIDE DEF v
<1>7. /\ Len(Rma(v)) = m
      /\ \A n \in 1..m : IF v[n] = Undefined THEN Rma(v)[n] = Undefined ELSE Rma(v)[n] \in K
  <2> DEFINE top == 100 * Unit
  <2>1. \A x, y \in 0..top : (x + (Period - 1) * y) \div Period \in 0..top
    <3>1. top \in Int /\ 0 \in Int
      BY <1>0
    <3> HIDE DEF top
    <3> QED
      BY <3>1, MeanWithin
  <2>2. K \subseteq Int /\ \A n \in 1..m : v[n] \in K \cup {Undefined}
    BY <1>5
  <2>3. \A x, y \in K : (x + (Period - 1) * y) \div Period \in K
    BY <2>1
  <2> HIDE DEF K, top
  <2> QED
    BY <1>0, <1>6, <2>2, <2>3, RmaStays
<1>8. Adx(bars) = Rma(v)[m]
  BY <1>3, <1>7 DEF Last
<1>9. Undefined \notin K
  BY <1>0
<1> HIDE DEF K
<1>10. Adx(bars) \in K \cup {Undefined} /\ (Adx(bars) = Undefined <=> atr[m] = 0)
  BY <1>0, <1>5, <1>7, <1>8, <1>9
<1> QED
  BY <1>1, <1>10 DEF K, m

-----------------------------------------------------------------------------
(* The exponential average.                                                 *)

LEMMA ClosesAre ==
    ASSUME NEW bars \in Seq(Candles)
    PROVE  \A n \in 1..Len(bars) : /\ bars[n].close \in Nat
                                   /\ Closes(bars)[n] = Unit * bars[n].close
                                   /\ Closes(bars)[n] \in Int
<1>1. SUFFICES ASSUME NEW n \in 1..Len(bars)
               PROVE  /\ bars[n].close \in Nat /\ Closes(bars)[n] = Unit * bars[n].close
                      /\ Closes(bars)[n] \in Int
  OBVIOUS
<1>2. bars[n].close \in Nat /\ n \in DOMAIN bars
  BY BarFacts
<1>3. Closes(bars)[n] = bars[n].close * Unit
  BY <1>2 DEF Closes
<1> DEFINE c == bars[n].close
<1>4. c \in Nat /\ Unit \in Nat
  BY <1>2, IndicatorAssumption
<1> HIDE DEF c
<1>5. c * Unit = Unit * c /\ c * Unit \in Int
  BY <1>4
<1> QED
  BY <1>2, <1>3, <1>5 DEF c

LEMMA EmaFacts ==
    /\ EmaPeriod \in Nat \ {0} /\ MaxHistory \in Nat
    /\ \E q \in Nat : Unit = q * (EmaPeriod * Power(EmaPeriod + 1, MaxHistory))
<1> DEFINE x == EmaPeriod * Power(EmaPeriod + 1, MaxHistory)
<1>1. EmaPeriod \in Nat \ {0} /\ MaxHistory \in Nat /\ Unit \in Nat /\ Unit % x = 0
  BY IndicatorAssumption
<1>2. Power(EmaPeriod + 1, MaxHistory) \in Nat \ {0}
  <2>1. EmaPeriod + 1 \in Nat \ {0}
    BY <1>1
  <2> QED
    BY <1>1, <2>1, PowerPositive
<1>3. x \in Nat \ {0}
  <2> DEFINE p == Power(EmaPeriod + 1, MaxHistory)
  <2>1. p \in Nat \ {0} /\ x = EmaPeriod * p
    BY <1>2
  <2> HIDE DEF p
  <2>2. EmaPeriod * p = p + (EmaPeriod - 1) * p /\ (EmaPeriod - 1) * p \in Nat
    BY <1>1, <2>1, ProductNat
  <2> HIDE DEF x
  <2> QED
    BY <2>1, <2>2
<1> HIDE DEF x
<1> DEFINE q == Unit \div x
<1>4. q \in Nat /\ Unit = x * q + 0
  BY <1>1, <1>3, Division
<1> HIDE DEF q
<1>5. x * q + 0 = q * x
  BY <1>3, <1>4
<1>6. Unit = q * x
  BY <1>4, <1>5
<1> QED
  BY <1>1, <1>4, <1>6 DEF x

Smooths(g, bars, n) == g[n] = g[n - 1] + (2 * (Closes(bars)[n] - g[n - 1])) \div (EmaPeriod + 1)

LEMMA EmaLoop ==
    ASSUME NEW bars \in Seq(Candles), EmaPeriod <= Len(bars)
    PROVE  \E g \in [EmaPeriod..Len(bars) -> Int] :
               /\ g[EmaPeriod] = SumTo(Closes(bars), EmaPeriod) \div EmaPeriod
               /\ \A n \in (EmaPeriod + 1)..Len(bars) : Smooths(g, bars, n)
               /\ Ema(bars) = g[Len(bars)]
<1> DEFINE p == EmaPeriod
           m == Len(bars)
           close == Closes(bars)
           first == SumTo(close, p) \div p
           ema[n \in EmaPeriod..Len(bars)] ==
               IF n = EmaPeriod THEN SumTo(Closes(bars), EmaPeriod) \div EmaPeriod
               ELSE ema[n - 1] + (2 * (Closes(bars)[n] - ema[n - 1])) \div (EmaPeriod + 1)
           smooth(x, y) == y + (2 * (x - y)) \div (p + 1)
           next == [z \in Nat \X Int |-> IF z[1] \in 1..m THEN smooth(close[z[1]], z[2]) ELSE 0]
<1>0. p \in Nat \ {0} /\ m \in Nat /\ p <= m /\ p + (m - p) = m /\ m - p \in Nat /\ p \in 0..p
  BY EmaFacts
<1>1. \A n \in 1..m : close[n] \in Int
  BY ClosesAre
<1>2. Ema(bars) = ema[Len(bars)]
  BY DEF Ema
<1> HIDE DEF close
<1>3. first \in Int
  <2>1. \A i \in 1..p : close[i] \in Int
    BY <1>0, <1>1
  <2> HIDE DEF p
  <2>2. SumTo(close, p) \in Int
    BY <1>0, <2>1, SumSteps
  <2> QED
    BY <1>0, <2>2
<1>4. \A x, y \in Int : smooth(x, y) \in Int
  BY <1>0
<1>5. next \in [Nat \X Int -> Int]
  <2> HIDE DEF smooth, m
  <2>1. \A z \in Nat \X Int : z[1] \in Nat /\ z[2] \in Int
    OBVIOUS
  <2>2. 0 \in Int
    OBVIOUS
  <2> QED
    BY <1>1, <1>4, <2>1, <2>2
<1>6. PICK g \in [p..(p + (m - p)) -> Int] :
          \A n \in p..(p + (m - p)) : g[n] = IF n = p THEN first ELSE next[<<n, g[n - 1]>>]
  <2>1. p \in Nat
    BY <1>0
  <2> HIDE DEF next, first, p, m
  <2>2. Loops(Int, first, next, p, m - p)
    BY <1>0, <1>3, <1>5, <2>1, RecursionExists
  <2> QED
    BY <2>2 DEF Loops
<1>7. g \in [p..m -> Int] /\ g[p] = first
  <2> HIDE DEF next, first, p, m
  <2>1. p \in p..(p + (m - p))
    BY <1>0
  <2>2. g[p] = first
    BY <1>6, <2>1, Zenon
  <2> QED
    BY <1>0, <1>6, <2>2
<1>8. \A n \in (p + 1)..m : Smooths(g, bars, n)
  <2>1. SUFFICES ASSUME NEW n \in (p + 1)..m PROVE Smooths(g, bars, n)
    OBVIOUS
  <2>2. n \in p..(p + (m - p)) /\ n # p /\ n - 1 \in p..m /\ n \in 1..m /\ n \in Nat
    BY <1>0
  <2>3. g[n - 1] \in Int
    BY <1>7, <2>2
  <2>4. next[<<n, g[n - 1]>>] = smooth(close[n], g[n - 1])
    <3> HIDE DEF smooth, m
    <3> QED
      BY <2>2, <2>3
  <2>5. g[n] = smooth(close[n], g[n - 1])
    <3> HIDE DEF next, smooth, first, p, m
    <3> QED
      BY <1>6, <2>2, <2>4
  <2> HIDE DEF next
  <2> QED
    BY <2>5 DEF Smooths, close
<1> HIDE DEF next, first, p, m
<1>9. g = [n \in EmaPeriod..Len(bars) |->
               IF n = EmaPeriod THEN SumTo(Closes(bars), EmaPeriod) \div EmaPeriod
               ELSE g[n - 1] + (2 * (Closes(bars)[n] - g[n - 1])) \div (EmaPeriod + 1)]
  <2>1. \A n \in p..m : n = p \/ n \in (p + 1)..m
    BY <1>0
  <2>2. \A n \in p..m : n # p => Smooths(g, bars, n)
    BY <1>8, <2>1
  <2>3. g[p] = SumTo(Closes(bars), EmaPeriod) \div EmaPeriod
    BY <1>7 DEF first, close, p
  <2> QED
    BY <1>7, <2>2, <2>3 DEF Smooths, p, m
<1>10. ema = [n \in EmaPeriod..Len(bars) |->
               IF n = EmaPeriod THEN SumTo(Closes(bars), EmaPeriod) \div EmaPeriod
               ELSE ema[n - 1] + (2 * (Closes(bars)[n] - ema[n - 1])) \div (EmaPeriod + 1)]
  BY <1>9
<1> HIDE DEF ema
<1>11. ema[p] = first /\ \A n \in (p + 1)..m : Smooths(ema, bars, n)
  <2>1. p \in p..m /\ \A n \in (p + 1)..m : n \in p..m /\ n # p
    BY <1>0
  <2>2. ema[p] = SumTo(Closes(bars), EmaPeriod) \div EmaPeriod
    BY <1>10, <2>1 DEF p, m
  <2> QED
    BY <1>10, <2>1, <2>2 DEF Smooths, p, m, first, close
<1> DEFINE C == { k \in Nat : p + k \in p..m => ema[p + k] = g[p + k] }
<1>12. 0 \in C
  <2>1. p + 0 = p
    BY <1>0
  <2> QED
    BY <1>7, <1>11, <2>1
<1>13. ASSUME NEW k \in Nat, k \in C PROVE k + 1 \in C
  <2>1. SUFFICES ASSUME p + (k + 1) \in p..m PROVE ema[p + (k + 1)] = g[p + (k + 1)]
    OBVIOUS
  <2>2. p + (k + 1) \in (p + 1)..m /\ p + (k + 1) - 1 = p + k /\ p + k \in p..m
    BY <1>0, <2>1
  <2>3. ema[p + k] = g[p + k]
    BY <1>13, <2>2
  <2>4. Smooths(ema, bars, p + (k + 1)) /\ Smooths(g, bars, p + (k + 1))
    BY <1>8, <1>11, <2>2
  <2> QED
    BY <1>0, <2>2, <2>3, <2>4 DEF Smooths
<1>14. ema[m] = g[m]
  <2>1. Nat \subseteq C
    <3> HIDE DEF C
    <3> QED
      BY <1>12, <1>13, NatSetInduction
  <2>2. m - p \in C /\ m \in p..m
    <3> HIDE DEF C
    <3> QED
      BY <1>0, <2>1
  <2> QED
    BY <1>0, <2>2
<1>15. Ema(bars) = g[m]
  BY <1>2, <1>14 DEF m
<1> QED
  BY <1>7, <1>8, <1>15 DEF p, m, first, close

\* Each step is exact: nothing is rounded while the history is within its bound.
LEMMA EmaIsExact ==
    ASSUME NEW bars \in Seq(Candles), EmaPeriod <= Len(bars), Len(bars) <= MaxHistory,
           NEW g \in [EmaPeriod..Len(bars) -> Int],
           g[EmaPeriod] = SumTo(Closes(bars), EmaPeriod) \div EmaPeriod,
           \A n \in (EmaPeriod + 1)..Len(bars) : Smooths(g, bars, n)
    PROVE  /\ EmaPeriod * g[EmaPeriod] = SumTo(Closes(bars), EmaPeriod)
           /\ \A n \in (EmaPeriod + 1)..Len(bars) :
                  (EmaPeriod + 1) * g[n] = (EmaPeriod - 1) * g[n - 1] + 2 * Closes(bars)[n]
<1> DEFINE p == EmaPeriod
           m == Len(bars)
           d == p + 1
           close == Closes(bars)
           Grain(j) == Power(p + 1, MaxHistory - j)
<1>0. /\ p \in Nat \ {0} /\ m \in Nat /\ p <= m /\ m <= MaxHistory /\ MaxHistory \in Nat
      /\ d \in Nat \ {0} /\ d = p + 1
  BY EmaFacts
<1>1. PICK q \in Nat : Unit = q * (p * Power(p + 1, MaxHistory))
  BY EmaFacts
<1>2. \A n \in 1..m : close[n] \in Int /\ bars[n].close \in Nat /\ close[n] = Unit * bars[n].close
  BY ClosesAre
<1> HIDE DEF close
<1> DEFINE plain == [n \in 1..m |-> bars[n].close]
           total == SumTo(plain, p)
           top == Power(p + 1, MaxHistory)
<1>3. total \in Int /\ SumTo(close, p) = Unit * total
  <2>1. \A i \in 1..p : plain[i] \in Int /\ close[i] = Unit * plain[i]
    <3>1. \A i \in 1..p : i \in 1..m
      BY <1>0
    <3> QED
      BY <1>2, <3>1
  <2>2. Unit \in Int /\ p \in Nat
    BY <1>0, IndicatorAssumption
  <2> HIDE DEF plain, p
  <2> QED
    BY <2>1, <2>2, SumScaled
<1>4. top \in Nat \ {0}
  BY <1>0, PowerPositive
<1> HIDE DEF total, plain
<1>5. g[p] = (q * total) * top /\ p * g[p] = SumTo(close, p) /\ q * total \in Int
  <2> DEFINE y == (q * total) * top
  <2>1. q * total \in Int /\ y \in Int
    BY <1>3, <1>4
  <2>2. Unit * total = p * y
    <3> HIDE DEF top, p
    <3>1. (q * (p * top)) * total = p * ((q * total) * top)
      BY <1>0, <1>3, <1>4
    <3>2. Unit = q * (p * top)
      BY <1>1 DEF top
    <3> QED
      BY <3>1, <3>2
  <2>3. g[p] = SumTo(close, p) \div p
    BY DEF close
  <2>4. (p * y) \div p = y
    <3> HIDE DEF y, p
    <3> QED
      BY <1>0, <2>1, ExactDivision
  <2> HIDE DEF y
  <2>5. g[p] = y
    BY <1>3, <2>2, <2>3, <2>4
  <2> QED
    BY <1>3, <2>1, <2>2, <2>5 DEF y
<1> HIDE DEF p, m, top
<1> DEFINE Whole(j) == \E z \in Int : g[p + j] = z * Grain(j)
           C == { j \in Nat : p + j \in p..m => Whole(j) /\ (j > 0 =>
                       d * g[p + j] = (p - 1) * g[(p + j) - 1] + 2 * close[p + j]) }
<1>6. 0 \in C
  <2>1. p + 0 = p /\ MaxHistory - 0 = MaxHistory
    BY <1>0
  <2>2. Grain(0) = top
    BY <2>1 DEF top
  <2> HIDE DEF Grain, top
  <2> QED
    BY <1>5, <2>1, <2>2
<1>7. ASSUME NEW j \in Nat, j \in C PROVE j + 1 \in C
  <2>1. SUFFICES ASSUME p + (j + 1) \in p..m
                 PROVE  Whole(j + 1) /\ d * g[p + (j + 1)] = (p - 1) * g[(p + (j + 1)) - 1] + 2 * close[p + (j + 1)]
    OBVIOUS
  <2> DEFINE n == p + (j + 1)
             r == Grain(j + 1)
             e == MaxHistory - (j + 1)
  <2>2. /\ n \in (p + 1)..m /\ n - 1 = p + j /\ p + j \in p..m /\ n \in 1..m
        /\ e \in Nat /\ MaxHistory - j = e + 1 /\ MaxHistory - j \in 0..MaxHistory
    BY <1>0, <2>1
  <2>3. PICK z \in Int : g[p + j] = z * Grain(j)
    BY <1>7, <2>2
  <2>4. r \in Nat \ {0} /\ Grain(j) = d * r
    <3> HIDE DEF e
    <3>1. /\ Power(p + 1, e) \in Nat \ {0} /\ Power(p + 1, e + 1) = (p + 1) * Power(p + 1, e)
      <4>1. p + 1 \in Nat \ {0} /\ p + 1 \in Nat
        BY <1>0
      <4> QED
        BY <2>2, <4>1, PowerSteps, PowerPositive
    <3>2. Grain(j) = Power(p + 1, e + 1) /\ r = Power(p + 1, e)
      BY <2>2 DEF e
    <3> QED
      BY <3>1, <3>2
  <2>5. PICK w \in Int : close[n] = w * (d * r)
    <3>1. PICK u \in Nat \ {0} : top = u * Grain(j)
      <4>1. p + 1 \in Nat \ {0} /\ top = 1 * top /\ 1 \in Nat
        BY <1>0, <1>4
      <4>2. \E u \in Nat \ {0} : top = u * Power(p + 1, MaxHistory - j)
        BY <1>0, <1>4, <2>2, <4>1, PowersDivide DEF top
      <4> QED
        BY <4>2
    <3> DEFINE b == bars[n].close
    <3>2. b \in Nat /\ close[n] = Unit * b
      BY <1>2, <2>2
    <3>3. Unit = q * (p * top)
      BY <1>1 DEF top, p
    <3> HIDE DEF b, r, n, d, Grain
    <3> DEFINE t == d * r
    <3>4. t \in Nat /\ top = u * t
      BY <1>0, <2>4, <3>1, ProductNat
    <3> HIDE DEF t
    <3>5. (q * (p * (u * t))) * b = ((q * p * u) * b) * t /\ (q * p * u) * b \in Int
      BY <1>0, <3>2, <3>4
    <3>6. close[n] = ((q * p * u) * b) * t
      BY <3>2, <3>3, <3>4, <3>5
    <3> QED
      BY <3>5, <3>6 DEF t
  <2> DEFINE x == z * (d * r)
             y == (2 * (w - z)) * r
  <2>6. g[n - 1] = x /\ x \in Int /\ y \in Int
    <3>1. d * r \in Int
      <4> HIDE DEF d, r
      <4> QED
        BY <1>0, <2>4
    <3>2. g[n - 1] = x
      BY <2>2, <2>3, <2>4
    <3> DEFINE s == d * r
    <3>3. x = z * s /\ s \in Int
      BY <3>1
    <3> HIDE DEF s
    <3>4. z * s \in Int
      BY <3>3
    <3>5. y \in Int
      <4> HIDE DEF r
      <4> QED
        BY <2>4
    <3> HIDE DEF x, y
    <3> QED
      BY <3>2, <3>3, <3>4, <3>5
  <2>7. 2 * (close[n] - g[n - 1]) = d * y
    <3> HIDE DEF d, r, n
    <3>1. 2 * (w * (d * r) - z * (d * r)) = d * ((2 * (w - z)) * r)
      BY <1>0, <2>4
    <3> QED
      BY <2>5, <2>6, <3>1
  <2>8. g[n] = x + y
    <3>1. Smooths(g, bars, n)
      BY <2>2 DEF p, m
    <3>2. g[n] = g[n - 1] + (2 * (close[n] - g[n - 1])) \div d
      BY <3>1 DEF Smooths, close, p
    <3>3. (d * y) \div d = y
      <4> HIDE DEF d, y
      <4> QED
        BY <1>0, <2>6, ExactDivision
    <3> HIDE DEF d, y, x, n
    <3> QED
      BY <2>6, <2>7, <3>2, <3>3
  <2>9. Whole(j + 1)
    <3> HIDE DEF d, r, n
    <3>1. x + y = (z * d + 2 * (w - z)) * r /\ z * d + 2 * (w - z) \in Int
      BY <1>0, <2>4
    <3>2. g[p + (j + 1)] = (z * d + 2 * (w - z)) * r
      BY <2>8, <3>1 DEF n
    <3> QED
      BY <3>1, <3>2 DEF r
  <2>10. d * g[n] = (p - 1) * g[n - 1] + 2 * close[n]
    <3> DEFINE a == g[n - 1]
               c == close[n]
    <3>1. a = x /\ g[n] = a + y /\ a \in Int /\ c \in Int /\ y \in Int
      <4>1. close[n] \in Int
        BY <1>2, <2>2
      <4> QED
        BY <2>6, <2>8, <4>1
    <3>2. 2 * (c - a) = d * y
      BY <2>7
    <3> HIDE DEF a, c, x, y, d, n
    <3>3. d * (a + y) = (p - 1) * a + 2 * c
      <4>1. d * (a + y) = d * a + d * y
        BY <1>0, <3>1
      <4>2. d * a = (p - 1) * a + 2 * a
        BY <1>0, <3>1
      <4>3. d * a \in Int /\ (p - 1) * a \in Int /\ d * y \in Int
        BY <1>0, <3>1
      <4> QED
        BY <3>1, <3>2, <4>1, <4>2, <4>3
    <3> QED
      BY <3>1, <3>3 DEF a, c
  <2> HIDE DEF Whole, d
  <2> QED
    BY <2>9, <2>10, Zenon
<1>8. Nat \subseteq C
  <2> HIDE DEF C
  <2> QED
    BY <1>6, <1>7, NatSetInduction
<1>9. \A n \in (p + 1)..m : d * g[n] = (p - 1) * g[n - 1] + 2 * close[n]
  <2>1. SUFFICES ASSUME NEW n \in (p + 1)..m
                 PROVE  d * g[n] = (p - 1) * g[n - 1] + 2 * close[n]
    OBVIOUS
  <2> DEFINE j == n - p
  <2>2. j \in Nat /\ j > 0 /\ p + j = n /\ n \in p..m
    BY <1>0
  <2>3. j \in C
    BY <1>8, <2>2
  <2> HIDE DEF d, Whole, j
  <2>4. d * g[p + j] = (p - 1) * g[(p + j) - 1] + 2 * close[p + j]
    BY <2>2, <2>3
  <2> QED
    BY <2>2, <2>4
<1> QED
  BY <1>5, <1>9 DEF p, m, close

\* The weights of the later closes after k of them.
LaterTerms(bars, k) ==
    [n \in 1..k |-> 2 * Power(EmaPeriod - 1, k - n) * Power(EmaPeriod + 1, n - 1)
                      * Closes(bars)[EmaPeriod + n]]

LEMMA EmaIsWeighted ==
    ASSUME NEW bars \in Seq(Candles), EmaPeriod <= Len(bars), Len(bars) <= MaxHistory
    PROVE  LET k == Len(bars) - EmaPeriod
           IN  Ema(bars) * EmaPeriod * Power(EmaPeriod + 1, k)
                 = SumTo(Closes(bars), EmaPeriod) * Power(EmaPeriod - 1, k)
                   + EmaPeriod * SumTo(LaterTerms(bars, k), k)
<1> DEFINE p == EmaPeriod
           m == Len(bars)
           close == Closes(bars)
           S == SumTo(close, p)
           A(j) == Power(p + 1, j)
           B(j) == Power(p - 1, j)
           T(j) == LaterTerms(bars, j)
<1>0. /\ p \in Nat \ {0} /\ m \in Nat /\ p <= m /\ p - 1 \in Nat /\ p + 1 \in Nat
      /\ m - p \in Nat /\ p + (m - p) = m
  BY EmaFacts
<1>1. PICK g \in [EmaPeriod..Len(bars) -> Int] :
          /\ g[EmaPeriod] = SumTo(Closes(bars), EmaPeriod) \div EmaPeriod
          /\ \A n \in (EmaPeriod + 1)..Len(bars) : Smooths(g, bars, n)
          /\ Ema(bars) = g[Len(bars)]
  BY EmaLoop
<1>2. /\ p * g[p] = S
      /\ \A n \in (p + 1)..m : (p + 1) * g[n] = (p - 1) * g[n - 1] + 2 * close[n]
  BY <1>1, EmaIsExact
<1>3. \A n \in 1..m : close[n] \in Int
  BY ClosesAre
<1>4. /\ A(0) = 1 /\ \A j \in Nat : A(j) \in Nat /\ A(j + 1) = (p + 1) * A(j)
      /\ B(0) = 1 /\ \A j \in Nat : B(j) \in Nat /\ B(j + 1) = (p - 1) * B(j)
  <2> HIDE DEF p
  <2> QED
    BY <1>0, PowerSteps
<1>5. g \in [p..m -> Int] /\ Ema(bars) = g[m]
  BY <1>1
<1>6. \A j \in Nat : T(j) = [n \in 1..j |-> 2 * B(j - n) * A(n - 1) * close[p + n]]
  BY DEF LaterTerms
<1> HIDE DEF p, m, close, A, B, T
<1>7. S \in Int
  <2>1. p \in p..m /\ p \in Int
    BY <1>0
  <2>2. g[p] \in Int
    BY <1>5, <2>1
  <2>3. p * g[p] \in Int
    BY <2>1, <2>2
  <2> QED
    BY <1>2, <2>3
<1> HIDE DEF S
<1> DEFINE H(j) == g[p + j] * p * A(j) = S * B(j) + p * SumTo(T(j), j)
           C == { j \in Nat : p + j \in p..m => H(j) }
<1>8. \A j \in Nat : p + j \in p..m => \A n \in 1..j : T(j)[n] \in Int
  <2>1. SUFFICES ASSUME NEW j \in Nat, p + j \in p..m, NEW n \in 1..j PROVE T(j)[n] \in Int
    OBVIOUS
  <2> DEFINE x == B(j - n)
             y == A(n - 1)
             z == close[p + n]
  <2>2. j - n \in Nat /\ n - 1 \in Nat /\ p + n \in 1..m
    BY <1>0, <2>1
  <2>3. x \in Int /\ y \in Int /\ z \in Int
    <3>1. B(j - n) \in Nat /\ A(n - 1) \in Nat
      BY <1>4, <2>2
    <3>2. close[p + n] \in Int
      BY <1>3, <2>2
    <3> QED
      BY <3>1, <3>2
  <2>4. T(j)[n] = 2 * x * y * z
    BY <1>6
  <2> HIDE DEF x, y, z
  <2>5. 2 * x * y * z \in Int
    BY <2>3
  <2> QED
    BY <2>4, <2>5
<1>9. 0 \in C
  <2>1. SumTo(T(0), 0) = 0
    <3>1. \A i \in 1..0 : T(0)[i] \in Int
      OBVIOUS
    <3>2. 0 \in Nat
      OBVIOUS
    <3> QED
      BY <3>1, <3>2, SumSteps
  <2>2. p + 0 = p /\ g[p] \in Int
    <3>1. p \in p..m /\ p + 0 = p
      BY <1>0
    <3> QED
      BY <1>5, <3>1
  <2>3. g[p] * p * 1 = p * g[p] /\ S * 1 + p * 0 = S
    BY <1>0, <1>7, <2>2
  <2> QED
    BY <1>2, <1>4, <2>1, <2>2, <2>3
<1>10. ASSUME NEW j \in Nat, j \in C PROVE j + 1 \in C
  <2>1. SUFFICES ASSUME p + (j + 1) \in p..m PROVE H(j + 1)
    OBVIOUS
  <2>2. /\ p + j \in p..m /\ p + (j + 1) \in (p + 1)..m /\ (p + (j + 1)) - 1 = p + j
        /\ p + (j + 1) \in 1..m /\ j + 1 \in Nat
    BY <1>0, <2>1
  <2>3. H(j)
    BY <1>10, <2>2
  <2> DEFINE X == SumTo(T(j), j)
             a == A(j)
             b == B(j)
             c == close[p + (j + 1)]
             u == g[p + j]
             w == g[p + (j + 1)]
  <2>4. X \in Int /\ SumTo(T(j + 1), j) = (p - 1) * X
    <3>1. \A n \in 1..j : T(j)[n] \in Int /\ T(j + 1)[n] = (p - 1) * T(j)[n]
      <4>1. SUFFICES ASSUME NEW n \in 1..j
                     PROVE  T(j)[n] \in Int /\ T(j + 1)[n] = (p - 1) * T(j)[n]
        OBVIOUS
      <4> DEFINE x == B(j - n)
                 y == A(n - 1)
                 z == close[p + n]
      <4>2. j - n \in Nat /\ n - 1 \in Nat /\ p + n \in 1..m /\ (j + 1) - n = (j - n) + 1
        BY <1>0, <2>1
      <4>3. x \in Int /\ y \in Int /\ z \in Int /\ B((j + 1) - n) = (p - 1) * x
        <5>1. B(j - n) \in Nat /\ B((j - n) + 1) = (p - 1) * B(j - n) /\ A(n - 1) \in Nat
          BY <1>4, <4>2
        <5>2. close[p + n] \in Int
          BY <1>3, <4>2
        <5>3. B((j + 1) - n) = B((j - n) + 1)
          BY <4>2
        <5> QED
          BY <5>1, <5>2, <5>3
      <4>4. T(j)[n] = 2 * x * y * z
        BY <1>6
      <4>5. T(j + 1)[n] = 2 * ((p - 1) * x) * y * z
        <5>1. n \in 1..(j + 1) /\ j + 1 \in Nat
          OBVIOUS
        <5>2. T(j + 1)[n] = 2 * B((j + 1) - n) * A(n - 1) * close[p + n]
          BY <1>6, <5>1
        <5> QED
          BY <4>3, <5>2
      <4> HIDE DEF x, y, z
      <4>6. 2 * ((p - 1) * x) * y * z = (p - 1) * (2 * x * y * z) /\ 2 * x * y * z \in Int
        BY <1>0, <4>3
      <4> QED
        BY <4>4, <4>5, <4>6
    <3>2. p - 1 \in Int
      BY <1>0
    <3> DEFINE f == T(j)
               h == T(j + 1)
               q == p - 1
    <3>3. q \in Int /\ \A n \in 1..j : f[n] \in Int /\ h[n] = q * f[n]
      BY <3>1, <3>2
    <3> HIDE DEF f, h, q
    <3>4. SumTo(f, j) \in Int /\ SumTo(h, j) = q * SumTo(f, j)
      <4>1. j \in Nat
        OBVIOUS
      <4>2. q \in Int
        BY <3>3
      <4>3. \A n \in 1..j : f[n] \in Int /\ h[n] = q * f[n]
        BY <3>3
      <4> QED
        BY <4>1, <4>2, <4>3, SumScaled, Z3
    <3> QED
      BY <3>4 DEF f, h, q
  <2>5. SumTo(T(j + 1), j + 1) = (p - 1) * X + 2 * a * c
    <3> DEFINE h == T(j + 1)
    <3>1. \A n \in 1..(j + 1) : h[n] \in Int
      BY <1>8, <2>1, <2>2
    <3>2. h[j + 1] = 2 * a * c
      <4>1. j + 1 \in 1..(j + 1) /\ (j + 1) - (j + 1) = 0 /\ (j + 1) - 1 = j
        OBVIOUS
      <4>2. h[j + 1] = 2 * B((j + 1) - (j + 1)) * A((j + 1) - 1) * close[p + (j + 1)]
        BY <1>6, <2>2, <4>1
      <4>3. h[j + 1] = 2 * 1 * a * c
        BY <1>4, <4>1, <4>2
      <4>4. a \in Int /\ c \in Int
        <5>1. A(j) \in Nat
          BY <1>4
        <5>2. close[p + (j + 1)] \in Int
          BY <1>3, <2>2
        <5> QED
          BY <5>1, <5>2
      <4> HIDE DEF a, c, h
      <4> QED
        BY <4>3, <4>4
    <3> HIDE DEF h
    <3>3. SumTo(h, j + 1) = SumTo(h, (j + 1) - 1) + h[j + 1]
      <4>1. j + 1 \in 1..(j + 1)
        OBVIOUS
      <4> QED
        BY <2>2, <3>1, <4>1, SumSteps
    <3>4. (j + 1) - 1 = j
      OBVIOUS
    <3>5. SumTo(h, j) = (p - 1) * X
      BY <2>4 DEF h
    <3>6. SumTo(h, j + 1) = (p - 1) * X + 2 * a * c
      BY <3>2, <3>3, <3>4, <3>5
    <3> QED
      BY <3>6 DEF h
  <2>6. /\ a \in Int /\ b \in Int /\ c \in Int /\ u \in Int /\ w \in Int
        /\ A(j + 1) = (p + 1) * a /\ B(j + 1) = (p - 1) * b
        /\ (p + 1) * w = (p - 1) * u + 2 * c
    <3>1. u \in Int /\ w \in Int /\ c \in Int
      BY <1>3, <1>5, <2>1, <2>2
    <3>2. (p + 1) * w = (p - 1) * u + 2 * c
      BY <1>2, <2>2
    <3>3. /\ A(j) \in Nat /\ A(j + 1) = (p + 1) * A(j)
          /\ B(j) \in Nat /\ B(j + 1) = (p - 1) * B(j)
      BY <1>4
    <3> QED
      BY <3>1, <3>2, <3>3
  <2>7. u * p * a = S * b + p * X
    BY <2>3
  <2>8. w * p * ((p + 1) * a) = S * ((p - 1) * b) + p * ((p - 1) * X + 2 * a * c)
    <3> HIDE DEF X, a, b, c, u, w
    <3>1. w * p * ((p + 1) * a) = (p * a) * ((p + 1) * w)
      BY <1>0, <2>6
    <3>2. (p * a) * ((p - 1) * u + 2 * c) = (p - 1) * (u * p * a) + p * (2 * a * c)
      BY <1>0, <2>6
    <3>3. (p - 1) * (S * b + p * X) + p * (2 * a * c) = S * ((p - 1) * b) + p * ((p - 1) * X + 2 * a * c)
      BY <1>0, <1>7, <2>4, <2>6
    <3> QED
      BY <2>6, <2>7, <3>1, <3>2, <3>3
  <2> QED
    BY <2>5, <2>6, <2>8
<1>11. H(m - p)
  <2>1. Nat \subseteq C
    <3> HIDE DEF C
    <3> QED
      BY <1>9, <1>10, NatSetInduction
  <2>2. p + (m - p) \in p..m
    BY <1>0
  <2> DEFINE j == m - p
  <2>3. j \in Nat /\ p + j \in p..m
    BY <1>0, <2>2
  <2>4. j \in C
    BY <2>1, <2>3
  <2> HIDE DEF j, H
  <2>5. H(j)
    BY <2>3, <2>4
  <2> QED
    BY <2>5 DEF j
<1>12. g[p + (m - p)] = Ema(bars)
  BY <1>0, <1>5
<1> QED
  BY <1>11, <1>12 DEF p, m, close, S, A, B, T

LEMMA SquareIsNat ==
    ASSUME NEW x \in Int
    PROVE  Square(x) \in Nat
<1>1. x * x \in Int /\ 0 <= x * x
  OBVIOUS
<1> QED
  BY <1>1 DEF Square

\* Two of the values are as far apart as the sum of squares has room for.
LEMMA SpreadAtLeast ==
    ASSUME NEW p \in Nat \ {0}, NEW c, \A n \in 1..p : c[n] \in Int, NEW t \in Int,
           NEW i \in 1..p, NEW j \in 1..p
    PROVE  LET d == SumTo([n \in 1..p |-> Square(p * c[n] - t)], p)
           IN  d \in Nat /\ Square(p * (c[j] - c[i])) <= 2 * d
<1> DEFINE v == [n \in 1..p |-> Square(p * c[n] - t)]
           d == SumTo(v, p)
           a == p * c[i] - t
           b == p * c[j] - t
<1>1. \A n \in 1..p : v[n] \in Nat
  <2>1. SUFFICES ASSUME NEW n \in 1..p PROVE v[n] \in Nat
    OBVIOUS
  <2> DEFINE x == p * c[n] - t
  <2>2. x \in Int
    <3> DEFINE y == c[n]
    <3>1. y \in Int
      OBVIOUS
    <3> HIDE DEF y
    <3> QED
      BY <3>1
  <2> HIDE DEF x
  <2>3. Square(x) \in Nat
    BY <2>2, SquareIsNat
  <2> QED
    BY <2>3 DEF x
<1>2. v[i] = Square(a) /\ v[j] = Square(b)
  OBVIOUS
<1>3. p \in Nat
  OBVIOUS
<1> DEFINE y == c[i]
           z == c[j]
<1>4. y \in Int /\ z \in Int
  OBVIOUS
<1>5. a \in Int /\ b \in Int /\ p * (z - y) = b - a
  <2>1. a = p * y - t /\ b = p * z - t
    OBVIOUS
  <2> HIDE DEF a, b, y, z
  <2> QED
    BY <1>4, <2>1
<1>6. i = j => a = b
  OBVIOUS
<1> HIDE DEF v
<1>7. d \in Nat /\ v[i] <= d /\ (i # j => v[i] + v[j] <= d)
  BY <1>1, <1>3, SumOfTwo
<1> HIDE DEF d, a, b, y, z
<1>8. Square(p * (z - y)) <= 2 * d
  <2>1. CASE i = j
    <3>1. Square(b - a) = 0
      BY <1>5, <1>6, <2>1 DEF Square
    <3> QED
      BY <1>5, <1>7, <3>1
  <2>2. CASE i # j
    <3>1. a * a + b * b <= d
      BY <1>2, <1>7, <2>2 DEF Square
    <3>2. (b - a) * (b - a) + (a + b) * (a + b) = 2 * (a * a + b * b)
      BY <1>5
    <3>3. 0 <= (a + b) * (a + b)
      BY <1>5
    <3> DEFINE k == a * a + b * b
               l == (b - a) * (b - a)
               r == (a + b) * (a + b)
    <3>4. k \in Int /\ l \in Int /\ r \in Int
      BY <1>5
    <3>5. l + r = 2 * k /\ 0 <= r /\ k <= d
      BY <3>1, <3>2, <3>3
    <3>6. l <= 2 * d
      <4> HIDE DEF k, l, r
      <4> QED
        BY <1>7, <3>4, <3>5
    <3>7. l = Square(b - a)
      BY DEF Square
    <3> QED
      BY <1>5, <3>6, <3>7
  <2> QED
    BY <2>1, <2>2
<1> QED
  BY <1>7, <1>8 DEF v, d, y, z

\* Moving every value to the nearer end of the range spreads them further.
LEMMA SpreadAtMost ==
    ASSUME NEW p \in Nat \ {0}, NEW c, NEW lo \in Int, NEW hi \in Int,
           \A n \in 1..p : c[n] \in Int /\ lo <= c[n] /\ c[n] <= hi
    PROVE  LET t == SumTo(c, p)
               d == SumTo([n \in 1..p |-> Square(p * c[n] - t)], p)
           IN  t \in Int /\ d \in Int /\ 4 * d <= p * Square(p * (hi - lo))
<1> DEFINE t == SumTo(c, p)
           v == [n \in 1..p |-> Square(p * c[n] - t)]
           one == [n \in 1..p |-> 1]
           a == p * lo
           b == p * hi
           x == ((a + b) - 2 * t) * p
           y == t * t - a * b
           w == [n \in 1..p |-> x * c[n] + y * one[n]]
           d == SumTo(v, p)
<1>1. p \in Nat /\ a \in Int /\ b \in Int
  OBVIOUS
<1>2. t \in Int
  <2>1. \A n \in 1..p : c[n] \in Int
    OBVIOUS
  <2>2. \A n \in 0..p : SumTo(c, n) \in Int
    BY <1>1, <2>1, SumSteps
  <2> QED
    BY <1>1, <2>2
<1>3. x \in Int /\ y \in Int
  <2> HIDE DEF t, a, b
  <2> QED
    BY <1>1, <1>2
<1>4. \A n \in 1..p : v[n] \in Int /\ w[n] \in Int /\ v[n] <= w[n]
  <2>1. SUFFICES ASSUME NEW n \in 1..p PROVE v[n] \in Int /\ w[n] \in Int /\ v[n] <= w[n]
    OBVIOUS
  <2> DEFINE e == c[n]
             z == p * e
  <2>2. e \in Int /\ lo <= e /\ e <= hi
    OBVIOUS
  <2>3. z \in Int /\ a <= z /\ z <= b
    <3> HIDE DEF e
    <3>1. 0 <= p * (e - lo) /\ 0 <= p * (hi - e)
      BY <1>1, <2>2
    <3>2. p * (e - lo) = p * e - p * lo /\ p * (hi - e) = p * hi - p * e
      BY <1>1, <2>2
    <3>3. p * e \in Int /\ p * lo \in Int /\ p * hi \in Int
      BY <1>1, <2>2
    <3> QED
      BY <3>1, <3>2, <3>3
  <2>4. v[n] = (z - t) * (z - t) /\ w[n] = x * e + y
    <3>1. one[n] = 1
      OBVIOUS
    <3>2. v[n] = Square(p * c[n] - t) /\ w[n] = x * c[n] + y * one[n]
      OBVIOUS
    <3>3. y * 1 = y
      BY <1>3
    <3> HIDE DEF v, w, x, y, one, t
    <3> QED
      BY <3>1, <3>2, <3>3 DEF Square
  <2> HIDE DEF t
  <2>5. x * e + y = ((a + b) - 2 * t) * z + (t * t - a * b)
    <3> DEFINE s == (a + b) - 2 * t
    <3>1. s \in Int
      <4> HIDE DEF a, b
      <4> QED
        BY <1>1, <1>2
    <3>2. x = s * p
      OBVIOUS
    <3>3. (s * p) * e = s * (p * e)
      <4> HIDE DEF s, e
      <4> QED
        BY <1>1, <2>2, <3>1
    <3> HIDE DEF s, x, y, e, a, b
    <3>4. x * e = s * z
      BY <3>2, <3>3
    <3> QED
      BY <3>4 DEF s, y
  <2> HIDE DEF z, a, b, x, y, v, w
  <2>6. 0 <= (z - a) * (b - z)
    <3>1. z - a \in Nat /\ b - z \in Nat
      BY <1>1, <2>3
    <3> QED
      BY <3>1
  <2>7. (z - t) * (z - t) + (z - a) * (b - z) = ((a + b) - 2 * t) * z + (t * t - a * b)
    BY <1>1, <1>2, <2>3
  <2>8. (z - t) * (z - t) \in Int /\ (z - a) * (b - z) \in Int
    BY <1>1, <1>2, <2>3
  <2>9. v[n] \in Int /\ w[n] = v[n] + (z - a) * (b - z)
    BY <2>4, <2>5, <2>7, <2>8
  <2> QED
    BY <2>6, <2>8, <2>9
<1>5. \A n \in 1..p : c[n] \in Int /\ one[n] \in Int /\ w[n] = x * c[n] + y * one[n]
  OBVIOUS
<1>6. \A n \in 1..p : one[n] \in Int /\ 1 <= one[n] /\ one[n] <= 1
  OBVIOUS
<1> HIDE DEF one, v, w, x, y
<1>7. d \in Int
  <2>1. \A n \in 1..p : v[n] \in Int
    BY <1>4
  <2>2. \A n \in 0..p : SumTo(v, n) \in Int
    BY <1>1, <2>1, SumSteps
  <2> QED
    BY <1>1, <2>2
<1>8. SumTo(v, p) <= SumTo(w, p)
  BY <1>1, <1>4, SumMonotone
<1>9. SumTo(w, p) = x * SumTo(c, p) + y * SumTo(one, p)
  BY <1>1, <1>3, <1>5, SumLinear
<1>10. SumTo(one, p) = p
  <2>1. p * 1 <= SumTo(one, p) /\ SumTo(one, p) <= p * 1
    <3>1. 1 \in Int
      OBVIOUS
    <3> QED
      BY <1>1, <1>6, <3>1, SumBounds
  <2>2. SumTo(one, p) \in Int
    <3>1. \A n \in 1..p : one[n] \in Int
      BY <1>6
    <3>2. \A n \in 0..p : SumTo(one, n) \in Int
      BY <1>1, <3>1, SumSteps
    <3> QED
      BY <1>1, <3>2
  <2> QED
    BY <1>1, <2>1, <2>2
<1>11. d <= x * t + y * p
  BY <1>8, <1>9, <1>10
<1> HIDE DEF t, d, a, b
<1>12. x * t + y * p = p * ((t - a) * (b - t))
  BY <1>1, <1>2 DEF x, y
<1>13. 4 * ((t - a) * (b - t)) + ((2 * t - a) - b) * ((2 * t - a) - b) = (b - a) * (b - a)
  BY <1>1, <1>2
<1>14. 0 <= ((2 * t - a) - b) * ((2 * t - a) - b)
  BY <1>1, <1>2
<1> DEFINE k == (t - a) * (b - t)
           l == (b - a) * (b - a)
           r == ((2 * t - a) - b) * ((2 * t - a) - b)
<1>15. k \in Int /\ l \in Int /\ r \in Int
  BY <1>1, <1>2
<1>16. d <= p * k /\ 4 * k + r = l /\ 0 <= r
  BY <1>11, <1>12, <1>13, <1>14
<1>17. 4 * d <= p * l
  <2> HIDE DEF k, l, r
  <2>1. 4 * k <= l /\ 4 * d <= 4 * (p * k)
    BY <1>1, <1>7, <1>15, <1>16
  <2>2. 0 <= p * (l - 4 * k)
    BY <1>1, <1>15, <2>1
  <2>3. p * (l - 4 * k) = p * l - 4 * (p * k)
    BY <1>1, <1>15
  <2>4. p * l \in Int /\ p * k \in Int
    BY <1>1, <1>15
  <2> QED
    BY <1>7, <2>1, <2>2, <2>3, <2>4
<1>18. l = Square(p * (hi - lo))
  <2>1. b - a = p * (hi - lo)
    BY <1>1 DEF a, b
  <2> QED
    BY <2>1 DEF Square
<1> QED
  BY <1>2, <1>7, <1>17, <1>18 DEF t, d, v

LEMMA WindowIs ==
    ASSUME NEW bars \in Seq(Candles), Period <= Len(bars)
    PROVE  /\ Window(bars) \in [1..Period -> Nat]
           /\ { bars[n].close : n \in (Len(bars) - Period + 1)..Len(bars) }
                = { Window(bars)[n] : n \in 1..Period }
<1> DEFINE m == Len(bars)
           p == Period
           c == Window(bars)
           last == { bars[n].close : n \in (m - p + 1)..m }
           given == { c[n] : n \in 1..p }
<1>1. m \in Nat /\ p \in Nat
  BY PeriodFacts
<1>2. \A n \in 1..p : c[n] = bars[(m - p) + n].close
  BY DEF Window
<1>3. DOMAIN c = 1..p /\ c = [n \in 1..p |-> c[n]]
  BY DEF Window
<1>4. \A n \in 1..p : c[n] \in Nat
  <2>1. SUFFICES ASSUME NEW n \in 1..p PROVE c[n] \in Nat
    OBVIOUS
  <2>2. (m - p) + n \in 1..m
    BY <1>1
  <2>3. bars[(m - p) + n].close \in Nat
    BY <2>2, BarFacts
  <2> QED
    BY <1>2, <2>3
<1> HIDE DEF m, p, c
<1>5. last \subseteq given
  <2>1. SUFFICES ASSUME NEW n \in (m - p + 1)..m PROVE bars[n].close \in given
    OBVIOUS
  <2> DEFINE k == n - (m - p)
  <2>2. k \in 1..p /\ (m - p) + k = n
    BY <1>1
  <2>3. c[k] = bars[n].close
    BY <1>2, <2>2
  <2> HIDE DEF k
  <2> QED
    BY <2>2, <2>3
<1>6. given \subseteq last
  <2>1. SUFFICES ASSUME NEW n \in 1..p PROVE c[n] \in last
    OBVIOUS
  <2> DEFINE k == (m - p) + n
  <2>2. k \in (m - p + 1)..m
    BY <1>1
  <2>3. c[n] = bars[k].close
    BY <1>2
  <2> HIDE DEF k
  <2> QED
    BY <2>2, <2>3
<1> QED
  BY <1>3, <1>4, <1>5, <1>6 DEF m, p, c

LEMMA BandWidthIs ==
    ASSUME history \in Seq(Candles)
    PROVE  BandWidthFollowsTheRange
<1>0a. CASE ~(Len(history) >= Period)
  BY <1>0a DEF BandWidthFollowsTheRange
<1> SUFFICES ASSUME Len(history) >= Period PROVE BandWidthFollowsTheRange
  BY <1>0a
<1>0b. Period <= Len(history)
  BY PeriodFacts
<1> DEFINE p == Period
           c == Window(history)
           last == { history[n].close : n \in (Len(history) - p + 1)..Len(history) }
           t == SumTo(c, p)
           d == SumTo([n \in 1..p |-> Square(p * c[n] - t)], p)
           range == Max(last) - Min(last)
           width == BandWidthSquared(history)
<1>1. p \in Nat \ {0} /\ p \in Nat /\ p - 1 \in Nat
  BY PeriodFacts
<1>2. (\A n \in 1..p : c[n] \in Nat) /\ last = { c[n] : n \in 1..p }
  BY <1>0b, WindowIs
<1>3. width = IF t = 0 THEN Undefined
              ELSE [over |-> 160000 * d, under |-> (p - 1) * Square(t)]
  BY DEF BandWidthSquared
<1> HIDE DEF c, last
<1>4. PICK i, j \in 1..p : \A n \in 1..p : c[i] <= c[n] /\ c[n] <= c[j]
  <2>1. \A n \in 1..p : c[n] \in Int
    BY <1>2
  <2> HIDE DEF p
  <2> QED
    BY <1>1, <2>1, ExtremesExist
<1> DEFINE lo == c[i]
           hi == c[j]
<1>5. lo \in Nat /\ hi \in Nat /\ lo \in Int /\ hi \in Int
  BY <1>2, <1>4
<1>6. last \subseteq Int /\ lo \in last /\ hi \in last /\ \A y \in last : lo <= y /\ y <= hi
  BY <1>2, <1>4
<1>7. range = hi - lo
  <2> HIDE DEF lo, hi
  <2>1. Max(last) = hi
    BY <1>6, MaxIs
  <2>2. Min(last) = lo
    BY <1>6, MinIs
  <2> QED
    BY <2>1, <2>2
<1>8. t \in Nat /\ \A n \in 1..p : c[n] <= t
  <2> HIDE DEF p
  <2>1. \A n \in 1..p : SumTo(c, p) \in Nat /\ c[n] <= SumTo(c, p)
    <3>1. SUFFICES ASSUME NEW n \in 1..p PROVE SumTo(c, p) \in Nat /\ c[n] <= SumTo(c, p)
      OBVIOUS
    <3> QED
      BY <1>1, <1>2, SumOfTwo
  <2> QED
    BY <1>4, <2>1
<1>9. t = 0 <=> last = {0}
  <2>1. ASSUME t = 0 PROVE last = {0}
    <3>1. \A n \in 1..p : c[n] = 0
      BY <1>2, <1>8, <2>1
    <3>2. \A y \in last : y = 0
      BY <1>2, <3>1
    <3> QED
      BY <1>6, <3>2
  <2>2. ASSUME last = {0} PROVE t = 0
    <3>1. \A n \in 1..p : c[n] = 0
      BY <1>2, <2>2
    <3>2. SumTo(c, p) <= p * 0
      <4>1. \A n \in 1..p : c[n] \in Int /\ 0 <= c[n] /\ c[n] <= 0
        BY <3>1
      <4>2. 0 \in Int
        OBVIOUS
      <4> HIDE DEF p
      <4> QED
        BY <1>1, <4>1, <4>2, SumBounds
    <3> QED
      BY <1>1, <1>8, <3>2
  <2> QED
    BY <2>1, <2>2
<1>10. d \in Nat /\ Square(p * (hi - lo)) <= 2 * d
  <2>1. \A n \in 1..p : c[n] \in Int
    BY <1>2
  <2>2. t \in Int
    BY <1>8
  <2> HIDE DEF p, t
  <2> QED
    BY <1>1, <1>4, <2>1, <2>2, SpreadAtLeast
<1>11. 4 * d <= p * Square(p * (hi - lo))
  <2>1. \A n \in 1..p : c[n] \in Int /\ lo <= c[n] /\ c[n] <= hi
    BY <1>2, <1>4
  <2> HIDE DEF p, lo, hi
  <2> QED
    BY <1>1, <1>5, <2>1, SpreadAtMost
<1> DEFINE r == Square(p * range)
           s == Square(t)
<1>12. r \in Nat /\ s \in Nat /\ r <= 2 * d /\ 4 * d <= p * r
  <2>1. t \in Int /\ p * (hi - lo) \in Int
    <3> HIDE DEF lo, hi, p, t
    <3> QED
      BY <1>1, <1>5, <1>8
  <2> HIDE DEF lo, hi, p, t, range, d
  <2>2. Square(p * (hi - lo)) \in Nat /\ Square(t) \in Nat
    BY <2>1, SquareIsNat
  <2> QED
    BY <1>7, <1>10, <1>11, <2>2
<1> HIDE DEF t, d, range, lo, hi, width, p, r, s
<1>13. CASE last = {0}
  <2>1. width = Undefined
    BY <1>3, <1>9, <1>13
  <2> QED
    BY <1>13, <2>1 DEF BandWidthFollowsTheRange, width, last, p
<1>14. CASE last # {0}
  <2>1. width = [over |-> 160000 * d, under |-> (p - 1) * s]
    BY <1>3, <1>9, <1>14 DEF s
  <2>2. width.over = 160000 * d /\ width.under = (p - 1) * s
    BY <2>1
  <2> DEFINE q == p - 1
             k == q * s
  <2>3. q \in Nat /\ k \in Nat /\ p \in Nat
    BY <1>1, <1>12, ProductNat
  <2> DEFINE over == 160000 * d
  <2>4. over \in Nat
    BY <1>10
  <2>5. 2 * over * q * s = (2 * over) * k /\ 4 * over * q * s = (4 * over) * k
    <3> HIDE DEF q, over
    <3> QED
      BY <1>12, <2>3, <2>4
  <2>6. (160000 * r) * k <= (2 * over) * k
    <3>1. 0 <= (2 * over - 160000 * r) * k
      <4>1. 2 * over - 160000 * r \in Nat
        BY <1>10, <1>12
      <4> HIDE DEF over, k
      <4> DEFINE x == 2 * over - 160000 * r
      <4>2. x \in Nat
        BY <4>1
      <4> HIDE DEF x
      <4>3. x * k \in Nat
        BY <2>3, <4>2, ProductNat
      <4> QED
        BY <4>3 DEF x
    <3> HIDE DEF over, k
    <3>2. (2 * over - 160000 * r) * k = (2 * over) * k - (160000 * r) * k
      BY <1>12, <2>3, <2>4
    <3>3. (2 * over) * k \in Int /\ (160000 * r) * k \in Int
      BY <1>12, <2>3, <2>4
    <3> QED
      BY <3>1, <3>2, <3>3
  <2>7. (4 * over) * k <= (p * (160000 * r)) * k
    <3> DEFINE a == p * r
    <3>1. a \in Nat /\ 4 * d <= a
      BY <1>12, <2>3, ProductNat
    <3>2. p * (160000 * r) = 160000 * a
      BY <1>12, <2>3
    <3> HIDE DEF a
    <3> DEFINE x == 160000 * a - 4 * over
    <3>3. x \in Nat
      BY <1>10, <3>1
    <3> HIDE DEF x, k
    <3>4. x * k \in Nat
      BY <2>3, <3>3, ProductNat
    <3>5. x * k = (160000 * a) * k - (4 * over) * k
      <4> HIDE DEF over
      <4> QED
        BY <2>3, <2>4, <3>1 DEF x
    <3> HIDE DEF over
    <3>6. (160000 * a) * k \in Int /\ (4 * over) * k \in Int
      BY <2>3, <2>4, <3>1
    <3> QED
      BY <3>2, <3>4, <3>5, <3>6
  <2>8. p * (160000 * r) * k = (p * (160000 * r)) * k
    OBVIOUS
  <2>9. /\ 2 * width.over * (p - 1) * s >= (160000 * r) * width.under
        /\ 4 * width.over * (p - 1) * s <= p * (160000 * r) * width.under
    <3>1. width.over = over /\ width.under = k
      BY <2>2
    <3>2. /\ (2 * over) * k \in Int /\ (160000 * r) * k \in Int
          /\ (4 * over) * k \in Int /\ (p * (160000 * r)) * k \in Int
      <4> HIDE DEF over, k
      <4> QED
        BY <1>12, <2>3, <2>4
    <3>3. /\ 2 * width.over * (p - 1) * s = (2 * over) * k
          /\ 4 * width.over * (p - 1) * s = (4 * over) * k
      BY <2>5, <3>1
    <3> HIDE DEF over, k
    <3> QED
      BY <2>6, <2>7, <3>1, <3>2, <3>3
  <2> QED
    BY <1>14, <2>9 DEF BandWidthFollowsTheRange, Window, width, last, p, r, s, t, range, c
<1> QED
  BY <1>13, <1>14

-----------------------------------------------------------------------------
(* Wilder's running average: what _rma_optional adds up.                    *)

WilderTerms(v, f, k) == [n \in 1..k |-> Power(Period - 1, k - n) * Power(Period, n - 1) * v[f + n]]

LEMMA WilderSumIs ==
    ASSUME NEW v, NEW f \in Int, NEW k \in Nat
    PROVE  WilderSum(v, f, f + k) = Power(Period - 1, k) * v[f] + SumTo(WilderTerms(v, f, k), k)
<1>1. (f + k) - f = k
  OBVIOUS
<1> QED
  BY <1>1, Zenon DEF WilderSum, WilderTerms

LEMMA PeriodPowers ==
    /\ Power(Period, 0) = 1 /\ Power(Period - 1, 0) = 1
    /\ \A j \in Nat : /\ Power(Period, j) \in Nat \ {0} /\ Power(Period, j + 1) = Period * Power(Period, j)
                      /\ Power(Period - 1, j) \in Nat
                      /\ Power(Period - 1, j + 1) = (Period - 1) * Power(Period - 1, j)
<1>1. Period \in Nat /\ Period - 1 \in Nat /\ Period \in Nat \ {0}
  BY PeriodFacts
<1>2. Power(Period, 0) = 1 /\ \A j \in Nat : Power(Period, j + 1) = Period * Power(Period, j)
  BY <1>1, PowerSteps
<1>3. /\ Power(Period - 1, 0) = 1
      /\ \A j \in Nat : /\ Power(Period - 1, j) \in Nat
                        /\ Power(Period - 1, j + 1) = (Period - 1) * Power(Period - 1, j)
  <2> DEFINE q == Period - 1
  <2>1. q \in Nat
    BY <1>1
  <2> HIDE DEF q
  <2>2. Power(q, 0) = 1 /\ \A j \in Nat : Power(q, j) \in Nat /\ Power(q, j + 1) = q * Power(q, j)
    BY <2>1, PowerSteps
  <2> QED
    BY <2>2 DEF q
<1>4. \A j \in Nat : Power(Period, j) \in Nat \ {0}
  BY <1>1, PowerPositive
<1> QED
  BY <1>2, <1>3, <1>4

LEMMA WilderSteps ==
    ASSUME NEW v, NEW f \in Int, NEW k \in Nat, \A i \in 0..(k + 1) : v[f + i] \in Int
    PROVE  /\ WilderSum(v, f, f + k) \in Int
           /\ WilderSum(v, f, f + (k + 1))
                = (Period - 1) * WilderSum(v, f, f + k) + Power(Period, k) * v[f + (k + 1)]
<1> DEFINE q == Period - 1
           A(j) == Power(Period, j)
           B(j) == Power(q, j)
           T(j) == WilderTerms(v, f, j)
           x == v[f]
           z == v[f + (k + 1)]
           X == SumTo(T(k), k)
<1>1. q \in Int
  BY PeriodFacts
<1>2. A(0) = 1 /\ B(0) = 1 /\ \A j \in Nat : A(j) \in Int /\ B(j) \in Int /\ B(j + 1) = q * B(j)
  BY PeriodPowers
<1>3. x \in Int /\ z \in Int /\ \A i \in 1..(k + 1) : v[f + i] \in Int
  <2>1. 0 \in 0..(k + 1) /\ k + 1 \in 0..(k + 1) /\ f + 0 = f /\ \A i \in 1..(k + 1) : i \in 0..(k + 1)
    OBVIOUS
  <2> QED
    BY <2>1
<1>4. \A j \in Nat : T(j) = [n \in 1..j |-> B(j - n) * A(n - 1) * v[f + n]]
  BY DEF WilderTerms
<1>5. /\ WilderSum(v, f, f + k) = B(k) * x + X
      /\ WilderSum(v, f, f + (k + 1)) = B(k + 1) * x + SumTo(T(k + 1), k + 1)
  <2>1. k + 1 \in Nat
    OBVIOUS
  <2> QED
    BY <2>1, WilderSumIs
<1> HIDE DEF q, A, B, T, x, z
<1>6. \A n \in 1..k : T(k)[n] \in Int /\ T(k + 1)[n] = q * T(k)[n]
  <2>1. SUFFICES ASSUME NEW n \in 1..k PROVE T(k)[n] \in Int /\ T(k + 1)[n] = q * T(k)[n]
    OBVIOUS
  <2> DEFINE b == B(k - n)
             a == A(n - 1)
             y == v[f + n]
  <2>2. k - n \in Nat /\ n - 1 \in Nat /\ (k + 1) - n = (k - n) + 1 /\ n \in 1..(k + 1) /\ k + 1 \in Nat
    OBVIOUS
  <2>3. B(k - n) \in Int /\ B((k - n) + 1) = q * B(k - n) /\ A(n - 1) \in Int /\ v[f + n] \in Int
    BY <1>2, <1>3, <2>2
  <2>4. b \in Int /\ a \in Int /\ y \in Int /\ B((k + 1) - n) = q * b
    BY <2>2, <2>3
  <2>5. T(k)[n] = b * a * y
    BY <1>4
  <2>6. T(k + 1)[n] = (q * b) * a * y
    <3>1. T(k + 1)[n] = B((k + 1) - n) * A(n - 1) * v[f + n]
      BY <1>4, <2>2
    <3> QED
      BY <2>4, <3>1
  <2> HIDE DEF a, b, y
  <2>7. (q * b) * a * y = q * (b * a * y) /\ b * a * y \in Int
    BY <1>1, <2>4
  <2> QED
    BY <2>5, <2>6, <2>7
<1>7. X \in Int /\ SumTo(T(k + 1), k) = q * X
  <2> DEFINE g == T(k)
             h == T(k + 1)
  <2>1. \A n \in 1..k : g[n] \in Int /\ h[n] = q * g[n]
    BY <1>6
  <2> HIDE DEF g, h
  <2>2. SumTo(g, k) \in Int /\ SumTo(h, k) = q * SumTo(g, k)
    BY <1>1, <2>1, SumScaled
  <2> QED
    BY <2>2 DEF g, h
<1>8. SumTo(T(k + 1), k + 1) = q * X + A(k) * z
  <2> DEFINE w == T(k + 1)
  <2>1. w[k + 1] = A(k) * z
    <3>1. k + 1 \in 1..(k + 1) /\ (k + 1) - (k + 1) = 0 /\ (k + 1) - 1 = k /\ k + 1 \in Nat
      OBVIOUS
    <3>2. w[k + 1] = B((k + 1) - (k + 1)) * A((k + 1) - 1) * v[f + (k + 1)]
      BY <1>4, <3>1
    <3>3. w[k + 1] = 1 * A(k) * z
      BY <1>2, <3>1, <3>2 DEF z
    <3>4. A(k) \in Int
      BY <1>2
    <3> QED
      BY <1>3, <3>3, <3>4
  <2>2. A(k) * z \in Int
    <3>1. A(k) \in Int
      BY <1>2
    <3> QED
      BY <1>3, <3>1
  <2>3. \A n \in 1..(k + 1) : w[n] \in Int
    <3>1. SUFFICES ASSUME NEW n \in 1..(k + 1) PROVE w[n] \in Int
      OBVIOUS
    <3>2. CASE n = k + 1
      BY <2>1, <2>2, <3>2
    <3>3. CASE n # k + 1
      <4>1. n \in 1..k
        BY <3>3
      <4>2. T(k)[n] \in Int /\ w[n] = q * T(k)[n]
        BY <1>6, <4>1
      <4> HIDE DEF w
      <4> QED
        BY <1>1, <4>2
    <3> QED
      BY <3>2, <3>3
  <2>4. SumTo(w, k) = q * X
    BY <1>7
  <2> HIDE DEF w
  <2>5. SumTo(w, k + 1) = SumTo(w, (k + 1) - 1) + w[k + 1]
    <3>1. k + 1 \in 1..(k + 1) /\ k + 1 \in Nat
      OBVIOUS
    <3> QED
      BY <2>3, <3>1, SumSteps
  <2>6. (k + 1) - 1 = k
    OBVIOUS
  <2> QED
    BY <2>1, <2>4, <2>5, <2>6 DEF w
<1> DEFINE b == B(k)
           a == A(k)
<1>9. b \in Int /\ a \in Int /\ B(k + 1) = q * b
  BY <1>2
<1> HIDE DEF X, a, b
<1>10. (q * b) * x + (q * X + a * z) = q * (b * x + X) + a * z
  BY <1>1, <1>3, <1>7, <1>9
<1>11. b * x + X \in Int
  BY <1>3, <1>7, <1>9
<1>12. /\ WilderSum(v, f, f + k) = b * x + X
       /\ WilderSum(v, f, f + (k + 1)) = (q * b) * x + (q * X + a * z)
  BY <1>5, <1>8, <1>9 DEF a, b
<1> QED
  BY <1>10, <1>11, <1>12 DEF a, A, q, z

LEMMA WilderStarts ==
    ASSUME NEW v, NEW f \in Int, v[f] \in Int
    PROVE  WilderSum(v, f, f) = v[f]
<1> DEFINE zero == 0
<1>1. zero \in Nat /\ f + zero = f
  OBVIOUS
<1> HIDE DEF zero
<1>2. WilderSum(v, f, f + zero) = Power(Period - 1, zero) * v[f] + SumTo(WilderTerms(v, f, zero), zero)
  BY <1>1, WilderSumIs
<1>3. SumTo(WilderTerms(v, f, 0), 0) = 0
  <2> DEFINE t == WilderTerms(v, f, 0)
  <2>1. 0 \in Nat /\ \A i \in 1..0 : t[i] \in Int
    OBVIOUS
  <2> HIDE DEF t
  <2>2. SumTo(t, 0) = 0
    BY <2>1, SumSteps
  <2> QED
    BY <2>2 DEF t
<1>4. 1 * v[f] + 0 = v[f]
  OBVIOUS
<1> QED
  BY <1>1, <1>2, <1>3, <1>4, PeriodPowers DEF zero

Multiple(w, c, v, f, l) == \A n \in f..l : v[n] \in Int /\ w[n] = c * v[n]

\* Multiples of the values have the multiple of the sum.
LEMMA WilderScaled ==
    ASSUME NEW v, NEW w, NEW f \in Int, NEW l \in Int, f <= l, NEW c \in Int,
           Multiple(w, c, v, f, l)
    PROVE  WilderSum(v, f, l) \in Int /\ WilderSum(w, f, l) = c * WilderSum(v, f, l)
<1> DEFINE m == l - f
<1>a. m \in Nat /\ f + m = l /\ \A i \in 0..m : f + i \in f..l
  OBVIOUS
<1> HIDE DEF m
<1>b. \A i \in 0..m : v[f + i] \in Int /\ w[f + i] = c * v[f + i]
  BY <1>a DEF Multiple
<1> DEFINE V(k) == WilderSum(v, f, f + k)
           W(k) == WilderSum(w, f, f + k)
           C == { k \in Nat : k \in 0..m => V(k) \in Int /\ W(k) = c * V(k) }
           q == Period - 1
<1>0. q \in Int /\ \A k \in Nat : Power(Period, k) \in Int
  BY PeriodFacts, PeriodPowers
<1>1. \A i \in 0..m : w[f + i] \in Int
  <2>1. SUFFICES ASSUME NEW i \in 0..m PROVE w[f + i] \in Int
    OBVIOUS
  <2> DEFINE x == v[f + i]
  <2>2. x \in Int /\ w[f + i] = c * x
    BY <1>b
  <2> HIDE DEF x
  <2> QED
    BY <2>2
<1>2. 0 \in C
  <2>1. 0 \in 0..m /\ f + 0 = f
    BY <1>a
  <2>2. v[f] \in Int /\ w[f] \in Int /\ w[f] = c * v[f]
    BY <1>1, <1>b, <2>1
  <2>3. WilderSum(v, f, f) = v[f] /\ WilderSum(w, f, f) = w[f]
    BY <2>2, WilderStarts
  <2> QED
    BY <2>1, <2>2, <2>3
<1>3. ASSUME NEW k \in Nat, k \in C PROVE k + 1 \in C
  <2>1. SUFFICES ASSUME k + 1 \in 0..m PROVE V(k + 1) \in Int /\ W(k + 1) = c * V(k + 1)
    OBVIOUS
  <2> DEFINE s == Power(Period, k)
             x == v[f + (k + 1)]
             y == w[f + (k + 1)]
             t == V(k)
             u == W(k)
  <2>2. k \in 0..m /\ \A i \in 0..(k + 1) : i \in 0..m
    BY <1>a, <2>1
  <2>3. t \in Int /\ u = c * t /\ x \in Int /\ y = c * x /\ s \in Int
    BY <1>0, <1>3, <1>b, <2>1, <2>2
  <2>4. V(k + 1) = q * t + s * x
    <3>1. \A i \in 0..(k + 1) : v[f + i] \in Int
      BY <1>b, <2>2
    <3> QED
      BY <3>1, WilderSteps
  <2>5. W(k + 1) = q * u + s * y
    <3>1. \A i \in 0..(k + 1) : w[f + i] \in Int
      BY <1>1, <2>2
    <3> QED
      BY <3>1, WilderSteps
  <2> HIDE DEF s, x, y, t, u, V, W, q
  <2>6. q * t + s * x \in Int /\ q * (c * t) + s * (c * x) = c * (q * t + s * x)
    BY <1>0, <2>3
  <2> QED
    BY <2>3, <2>4, <2>5, <2>6
<1>4. m \in C
  <2> HIDE DEF C
  <2>1. Nat \subseteq C
    BY <1>2, <1>3, NatSetInduction
  <2> QED
    BY <1>a, <2>1
<1> HIDE DEF V, W
<1>5. V(m) \in Int /\ W(m) = c * V(m)
  BY <1>a, <1>4
<1> QED
  BY <1>a, <1>5 DEF V, W

LEMMA WilderNat ==
    ASSUME NEW v, NEW f \in Int, NEW l \in Int, f <= l, \A n \in f..l : v[n] \in Nat
    PROVE  WilderSum(v, f, l) \in Nat
<1> DEFINE m == l - f
<1>a. m \in Nat /\ f + m = l /\ \A i \in 0..m : f + i \in f..l
  OBVIOUS
<1> HIDE DEF m
<1>b. \A i \in 0..m : v[f + i] \in Nat
  BY <1>a
<1> DEFINE V(k) == WilderSum(v, f, f + k)
           C == { k \in Nat : k \in 0..m => V(k) \in Nat }
           q == Period - 1
<1>0. q \in Nat /\ \A k \in Nat : Power(Period, k) \in Nat
  BY PeriodFacts, PeriodPowers
<1>1. 0 \in C
  <2>1. 0 \in 0..m /\ f + 0 = f
    BY <1>a
  <2>2. v[f + 0] \in Nat /\ v[f] \in Int /\ v[f] \in Nat
    <3>1. v[f + 0] \in Nat
      BY <1>b, <2>1
    <3> QED
      BY <2>1, <3>1
  <2>3. WilderSum(v, f, f) = v[f]
    BY <2>2, WilderStarts
  <2> QED
    BY <2>1, <2>2, <2>3
<1>2. ASSUME NEW k \in Nat, k \in C PROVE k + 1 \in C
  <2>1. SUFFICES ASSUME k + 1 \in 0..m PROVE V(k + 1) \in Nat
    OBVIOUS
  <2> DEFINE s == Power(Period, k)
             x == v[f + (k + 1)]
             t == V(k)
  <2>2. k \in 0..m /\ \A i \in 0..(k + 1) : i \in 0..m
    BY <1>a, <2>1
  <2>3. t \in Nat /\ x \in Nat /\ s \in Nat
    BY <1>0, <1>2, <1>b, <2>1, <2>2
  <2>4. V(k + 1) = q * t + s * x
    <3>1. \A i \in 0..(k + 1) : v[f + i] \in Int
      BY <1>b, <2>2
    <3> QED
      BY <3>1, WilderSteps
  <2> HIDE DEF s, x, t, V, q
  <2>5. q * t \in Nat /\ s * x \in Nat
    BY <1>0, <2>3, ProductNat
  <2> QED
    BY <2>4, <2>5
<1>3. m \in C
  <2> HIDE DEF C
  <2>1. Nat \subseteq C
    BY <1>1, <1>2, NatSetInduction
  <2> QED
    BY <1>a, <2>1
<1> HIDE DEF V
<1>4. V(m) \in Nat
  BY <1>a, <1>3
<1> QED
  BY <1>a, <1>4 DEF V

\* The running average from the first value that exists on.
LEMMA RmaFrom ==
    ASSUME NEW m \in Nat, NEW f \in 1..m, NEW v \in [1..m -> Readings],
           \A n \in 1..m : IF n < f THEN v[n] = Undefined ELSE v[n] \in Int
    PROVE  /\ Rma(v)[f] = v[f] /\ \A n \in f..m : Rma(v)[n] \in Int
           /\ \A n \in (f + 1)..m : Rma(v)[n] = (v[n] + (Period - 1) * Rma(v)[n - 1]) \div Period
<1>1. PICK a \in [0..m -> Readings] :
          /\ a[0] = Undefined /\ \A n \in 1..m : Averages(a, v, n)
          /\ Rma(v) = [n \in 1..m |-> IF v[n] = Undefined THEN Undefined ELSE a[n]]
  BY RmaLoop
<1>2. \A n \in f..m : n \in 1..m /\ v[n] \in Int /\ v[n] # Undefined
  <2>1. \A n \in f..m : n \in 1..m /\ ~(n < f)
    OBVIOUS
  <2> QED
    BY <2>1, PeriodFacts
<1>3. \A n \in f..m : Rma(v)[n] = a[n]
  BY <1>1, <1>2
<1>4. \A n \in f..m : Rma(v)[n] \in Int
  <2>1. \A n \in 1..m : IF v[n] = Undefined THEN Rma(v)[n] = Undefined ELSE Rma(v)[n] \in Int
    <3>1. Int \subseteq Int /\ \A n \in 1..m : v[n] \in Int \cup {Undefined}
      OBVIOUS
    <3>2. \A x, y \in Int : (x + (Period - 1) * y) \div Period \in Int
      BY AverageIsInt
    <3> QED
      BY <3>1, <3>2, RmaStays
  <2> QED
    BY <1>2, <2>1
<1>5. \A n \in 0..(f - 1) : a[n] = Undefined
  <2> DEFINE C == { n \in Nat : n \in 0..(f - 1) => a[n] = Undefined }
  <2>1. 0 \in C
    BY <1>1
  <2>2. ASSUME NEW n \in Nat, n \in C PROVE n + 1 \in C
    <3>1. SUFFICES ASSUME n + 1 \in 0..(f - 1) PROVE a[n + 1] = Undefined
      OBVIOUS
    <3>2. n + 1 \in 1..m /\ n + 1 < f /\ (n + 1) - 1 = n /\ n \in 0..(f - 1)
      BY <3>1
    <3>3. v[n + 1] = Undefined /\ a[n] = Undefined /\ Averages(a, v, n + 1)
      BY <1>1, <2>2, <3>2
    <3> QED
      BY <3>2, <3>3 DEF Averages
  <2>3. Nat \subseteq C
    <3> HIDE DEF C
    <3> QED
      BY <2>1, <2>2, NatSetInduction
  <2> QED
    BY <2>3
<1>6. Rma(v)[f] = v[f]
  <2>1. f \in f..m /\ f - 1 \in 0..(f - 1) /\ f \in 1..m
    OBVIOUS
  <2>2. a[f - 1] = Undefined /\ Averages(a, v, f) /\ v[f] # Undefined
    BY <1>1, <1>2, <1>5, <2>1
  <2> QED
    BY <1>3, <2>1, <2>2 DEF Averages
<1>7. \A n \in (f + 1)..m : Rma(v)[n] = (v[n] + (Period - 1) * Rma(v)[n - 1]) \div Period
  <2>1. SUFFICES ASSUME NEW n \in (f + 1)..m
                 PROVE  Rma(v)[n] = (v[n] + (Period - 1) * Rma(v)[n - 1]) \div Period
    OBVIOUS
  <2>2. n \in f..m /\ n - 1 \in f..m /\ n \in 1..m
    OBVIOUS
  <2>3. /\ Rma(v)[n] = a[n] /\ Rma(v)[n - 1] = a[n - 1] /\ a[n - 1] # Undefined
        /\ v[n] # Undefined /\ Averages(a, v, n)
    BY <1>1, <1>2, <1>3, <1>4, <2>2, PeriodFacts
  <2> QED
    BY <2>3 DEF Averages
<1> QED
  BY <1>4, <1>6, <1>7

LEMMA Rest ==
    ASSUME NEW x \in Int, NEW d \in Nat \ {0}
    PROVE  x \div d \in Int /\ x = d * (x \div d) + (x % d) /\ x % d \in 0..(d - 1)
OBVIOUS

\* Rounding each step down loses less than one in Period steps.
LEMMA RmaNearWilder ==
    ASSUME NEW m \in Nat, NEW f \in 1..m, NEW v \in [1..m -> Readings],
           \A n \in 1..m : IF n < f THEN v[n] = Undefined ELSE v[n] \in Int
    PROVE  LET s == Power(Period, m - f)
               w == WilderSum(v, f, m)
           IN  w \in Int /\ Rma(v)[m] * s \in (w - (Period - 1) * s)..w
<1> DEFINE r == Rma(v)
           q == Period - 1
           S(k) == Power(Period, k)
           W(k) == WilderSum(v, f, f + k)
           Near(k) == W(k) \in Int /\ W(k) - q * S(k) <= r[f + k] * S(k) /\ r[f + k] * S(k) <= W(k)
           C == { k \in Nat : f + k \in f..m => Near(k) }
<1>0. /\ q \in Nat /\ Period \in Nat \ {0} /\ q + 1 = Period /\ S(0) = 1
      /\ \A k \in Nat : S(k) \in Nat /\ S(k + 1) = Period * S(k)
  <2>1. \A k \in Nat : S(k) \in Nat /\ S(k + 1) = Period * S(k)
    BY PeriodPowers
  <2>2. S(0) = 1
    BY PeriodPowers
  <2>3. q \in Nat /\ Period \in Nat \ {0} /\ q + 1 = Period
    BY PeriodFacts
  <2> HIDE DEF q, S
  <2> QED
    BY <2>1, <2>2, <2>3
<1>1. \A n \in f..m : v[n] \in Int
  <2>1. \A n \in f..m : n \in 1..m /\ ~(n < f)
    OBVIOUS
  <2> QED
    BY <2>1
<1>2. /\ r[f] = v[f] /\ \A n \in f..m : r[n] \in Int
      /\ \A n \in (f + 1)..m : r[n] = (v[n] + q * r[n - 1]) \div Period
  BY RmaFrom
<1> HIDE DEF r, q, S
<1>3. 0 \in C
  <2>1. f + 0 = f /\ f \in f..m /\ f \in Int
    OBVIOUS
  <2>2. v[f] \in Int
    BY <1>1, <2>1
  <2>3. W(0) = v[f]
    BY <2>1, <2>2, WilderStarts
  <2> DEFINE x == v[f]
  <2>4. x \in Int /\ r[f] = x /\ W(0) = x
    BY <1>2, <2>2, <2>3
  <2>5. r[f + 0] = x
    BY <2>1, <2>4
  <2> HIDE DEF W, x
  <2>6. x * 1 = x /\ x - q * 1 <= x
    BY <1>0, <2>4
  <2>7. r[f + 0] * S(0) = x * 1 /\ q * S(0) = q * 1
    BY <1>0, <2>5
  <2>8. Near(0)
    BY <2>4, <2>6, <2>7
  <2> QED
    BY <2>8
<1>4. ASSUME NEW k \in Nat, k \in C PROVE k + 1 \in C
  <2>1. SUFFICES ASSUME f + (k + 1) \in f..m PROVE Near(k + 1)
    OBVIOUS
  <2> DEFINE s == S(k)
             x == v[f + (k + 1)]
             y == r[f + k]
             z == r[f + (k + 1)]
             t == W(k)
  <2>2. f + k \in f..m /\ f + (k + 1) \in (f + 1)..m /\ (f + (k + 1)) - 1 = f + k
    BY <2>1
  <2>3. /\ s \in Nat /\ x \in Int /\ y \in Int /\ z \in Int /\ t \in Int /\ S(k + 1) = Period * s
        /\ t - q * s <= y * s /\ y * s <= t
    <3>1. Near(k)
      BY <1>4, <2>2
    <3> QED
      BY <1>0, <1>1, <1>2, <2>1, <2>2, <3>1
  <2>4. z = (x + q * y) \div Period
    BY <1>2, <2>2
  <2>5. W(k + 1) = q * t + s * x
    <3>1. \A i \in 0..(k + 1) : v[f + i] \in Int
      <4>1. \A i \in 0..(k + 1) : f + i \in f..m
        BY <2>1
      <4> QED
        BY <1>1, <4>1
    <3>2. f \in Int
      OBVIOUS
    <3> QED
      BY <3>1, <3>2, WilderSteps DEF S, q
  <2> DEFINE j == x + q * y
  <2>6. j \in Int /\ Period * z <= j /\ j <= Period * z + q
    <3>1. j \in Int
      <4> HIDE DEF x, y
      <4> QED
        BY <1>0, <2>3
    <3> DEFINE rest == j % Period
    <3>2. j = Period * (j \div Period) + rest /\ rest \in 0..(Period - 1)
      <4> HIDE DEF j
      <4> QED
        BY <1>0, <3>1, Rest
    <3>3. Period * z \in Int
      <4> HIDE DEF z
      <4> QED
        BY <1>0, <2>3
    <3>4. j = Period * z + rest
      BY <2>4, <3>2
    <3> DEFINE g == Period * z
    <3>5. g \in Int /\ j = g + rest /\ rest \in 0..q /\ j \in Int
      BY <1>0, <3>1, <3>2, <3>3, <3>4
    <3> HIDE DEF j, rest, g
    <3>6. g <= j /\ j <= g + q
      BY <1>0, <3>5
    <3> QED
      BY <3>1, <3>6 DEF g
  <2> HIDE DEF s, x, y, z, t, W
  <2> DEFINE lost == j - Period * z
             low == y * s - (t - q * s)
             high == t - y * s
  <2>7. lost \in Nat /\ q - lost \in Nat /\ low \in Nat /\ high \in Nat
    <3>1. Period * z \in Int /\ y * s \in Int /\ q * s \in Int
      BY <1>0, <2>3
    <3> HIDE DEF j
    <3> QED
      BY <1>0, <2>3, <2>6, <3>1
  <2>8. lost * s \in Nat /\ (q - lost) * s \in Nat /\ q * low \in Nat /\ q * high \in Nat
    <3> HIDE DEF lost, low, high
    <3> QED
      BY <1>0, <2>3, <2>7, ProductNat
  <2>9. z * (Period * s) = (q * t + s * x) - (q * high + lost * s)
    BY <1>0, <2>3
  <2>10. z * (Period * s) = ((q * t + s * x) - q * (Period * s)) + (q * low + (q - lost) * s)
    BY <1>0, <2>3
  <2>11. q * t + s * x \in Int /\ z * (Period * s) \in Int /\ q * (Period * s) \in Int
    BY <1>0, <2>3
  <2> HIDE DEF lost, low, high, j
  <2>12. /\ z * (Period * s) <= q * t + s * x
         /\ (q * t + s * x) - q * (Period * s) <= z * (Period * s)
    <3> DEFINE e == q * t + s * x
               g == z * (Period * s)
               h == q * (Period * s)
               b == q * high
               c == lost * s
               d == q * low
               u == (q - lost) * s
    <3>1. /\ e \in Int /\ g \in Int /\ h \in Int /\ b \in Nat /\ c \in Nat /\ d \in Nat /\ u \in Nat
          /\ g = e - (b + c) /\ g = (e - h) + (d + u)
      BY <2>8, <2>9, <2>10, <2>11
    <3> HIDE DEF e, g, h, b, c, d, u
    <3>2. g <= e /\ e - h <= g
      BY <3>1
    <3> QED
      BY <3>2 DEF e, g, h
  <2> QED
    BY <2>3, <2>5, <2>11, <2>12 DEF z
<1>5. m - f \in C
  <2> HIDE DEF C
  <2>1. Nat \subseteq C /\ m - f \in Nat
    BY <1>3, <1>4, NatSetInduction
  <2> QED
    BY <2>1
<1> DEFINE k == m - f
<1>6. k \in Nat /\ f + k = m /\ m \in f..m
  OBVIOUS
<1> HIDE DEF W, k
<1>7. Near(k)
  BY <1>5, <1>6 DEF k
<1>8. r[m] \in Int /\ S(k) \in Nat
  BY <1>0, <1>2, <1>6
<1>9. r[m] * S(k) \in Int /\ q * S(k) \in Int
  <2> DEFINE x == r[m]
             y == S(k)
  <2>1. x \in Int /\ y \in Int
    BY <1>8
  <2> HIDE DEF x, y
  <2>2. x * y \in Int /\ q * y \in Int
    BY <1>0, <2>1
  <2> QED
    BY <2>2 DEF x, y
<1> DEFINE w == W(k)
           g == r[m] * S(k)
           h == q * S(k)
<1>10. w \in Int /\ g \in Int /\ h \in Int /\ w - h <= g /\ g <= w
  BY <1>6, <1>7, <1>9
<1> HIDE DEF w, g, h
<1>11. w \in Int /\ g \in (w - h)..w
  BY <1>10
<1> QED
  BY <1>6, <1>11 DEF w, g, h, r, q, S, W, k

LEMMA Cancels ==
    ASSUME NEW x \in Int, NEW y \in Int, NEW s \in Nat \ {0}, x * s = y * s
    PROVE  x = y
<1>1. (s * x) \div s = x /\ (s * y) \div s = y
  BY ExactDivision
<1>2. s * x = x * s /\ s * y = y * s
  OBVIOUS
<1> QED
  BY <1>1, <1>2

LEMMA QuotientIs ==
    ASSUME NEW x \in Int, NEW d \in Nat \ {0}, NEW q \in Int, NEW r \in Int,
           x = d * q + r, 0 <= r, r < d
    PROVE  x \div d = q
<1> DEFINE y == x \div d
           s == x % d
<1>1. y \in Int /\ x = d * y + s /\ s \in 0..(d - 1)
  BY Rest
<1> HIDE DEF y, s
<1> DEFINE z == y - q
<1>2. z \in Int /\ d * z = r - s
  <2>1. d * (y - q) = d * y - d * q /\ d * y \in Int /\ d * q \in Int
    BY <1>1
  <2> QED
    BY <1>1, <2>1
<1> HIDE DEF z
<1>3. z <= 0
  <2>1. SUFFICES ASSUME z >= 1 PROVE FALSE
    BY <1>2
  <2>2. d * z = d + d * (z - 1) /\ d * (z - 1) \in Nat
    <3>1. z - 1 \in Nat
      BY <1>2, <2>1
    <3> QED
      BY <1>2, <3>1, ProductNat
  <2> QED
    BY <1>1, <1>2, <2>2
<1>4. z >= 0
  <2>1. SUFFICES ASSUME z <= -1 PROVE FALSE
    BY <1>2
  <2>2. d * z = -d - d * (-1 - z) /\ d * (-1 - z) \in Nat
    <3>1. -1 - z \in Nat
      BY <1>2, <2>1
    <3> QED
      BY <1>2, <3>1, ProductNat
  <2> QED
    BY <1>1, <1>2, <2>2
<1>5. z = 0
  BY <1>2, <1>3, <1>4
<1> QED
  BY <1>1, <1>5 DEF z, y

\* A share is the same whatever both are counted in.
LEMMA ShareScaled ==
    ASSUME NEW u \in Nat \ {0}, NEW x \in Int, NEW y \in Nat
    PROVE  u * x \in Int /\ u * y \in Nat /\ Percent(u * x, u * y) = Percent(x, y)
<1> DEFINE c == 100 * Unit
<1>1. c \in Nat
  BY IndicatorAssumption
<1>2. u * x \in Int /\ u * y \in Nat
  BY ProductNat
<1>3. CASE y = 0
  <2>1. u * y = 0
    BY <1>3
  <2> QED
    BY <1>2, <1>3, <2>1 DEF Percent
<1>4. CASE y # 0
  <2>1. u * y # 0
    <3>1. u * y = y + (u - 1) * y /\ (u - 1) * y \in Nat
      BY ProductNat
    <3> DEFINE z == u * y
               w == (u - 1) * y
    <3>2. z = y + w /\ w \in Nat
      BY <3>1
    <3> HIDE DEF z, w
    <3>3. z # 0
      BY <1>4, <3>2
    <3> QED
      BY <3>3 DEF z
  <2> DEFINE q == (c * x) \div y
             r == (c * x) % y
  <2>2. c * x \in Int /\ y \in Nat \ {0}
    <3> HIDE DEF c
    <3> QED
      BY <1>1, <1>4
  <2>3. q \in Int /\ c * x = y * q + r /\ r \in 0..(y - 1)
    <3> DEFINE g == c * x
    <3>1. g \in Int
      BY <2>2
    <3> HIDE DEF g
    <3>2. g \div y \in Int /\ g = y * (g \div y) + (g % y) /\ g % y \in 0..(y - 1)
      BY <2>2, <3>1, Rest
    <3> QED
      BY <3>2 DEF g
  <2> HIDE DEF c, q, r
  <2>4. c * (u * x) = (u * y) * q + u * r
    <3>1. c * (u * x) = u * (c * x) /\ u * (y * q + r) = (u * y) * q + u * r
      BY <1>1, <2>3
    <3> QED
      BY <2>3, <3>1
  <2>5. 0 <= u * r /\ u * r < u * y /\ u * r \in Int
    <3>1. r \in Nat /\ (y - r) - 1 \in Nat
      BY <2>3
    <3>2. u * r \in Nat /\ u * ((y - r) - 1) \in Nat
      BY <3>1, ProductNat
    <3>3. u * ((y - r) - 1) = u * y - u * r - u
      BY <2>3
    <3> DEFINE g == u * r
               h == u * y
               k == u * ((y - r) - 1)
    <3>4. g \in Nat /\ h \in Nat /\ k \in Nat /\ k = h - g - u
      BY <1>2, <3>2, <3>3
    <3> HIDE DEF g, h, k
    <3>5. 0 <= g /\ g < h /\ g \in Int
      BY <3>4
    <3> QED
      BY <3>5 DEF g, h
  <2>6. (c * (u * x)) \div (u * y) = q
    <3> DEFINE g == c * (u * x)
               h == u * y
               k == u * r
    <3>1. /\ g \in Int /\ h \in Nat \ {0} /\ k \in Int /\ g = h * q + k /\ 0 <= k /\ k < h /\ q \in Int
      <4>1. g \in Int
        BY <1>1, <1>2
      <4> QED
        BY <1>2, <2>1, <2>3, <2>4, <2>5, <4>1
    <3> HIDE DEF g, h, k
    <3>2. g \div h = q
      BY <3>1, QuotientIs
    <3> QED
      BY <3>2 DEF g, h
  <2>7. Percent(u * x, u * y) = (c * (u * x)) \div (u * y)
    BY <2>1 DEF Percent, c
  <2>8. Percent(x, y) = (c * x) \div y
    BY <1>4 DEF Percent, c
  <2> QED
    BY <1>2, <2>6, <2>7, <2>8 DEF q
<1> QED
  BY <1>3, <1>4

\* Where the values are large enough multiples, no step is rounded.
LEMMA RmaIsWilder ==
    ASSUME NEW m \in Nat, NEW f \in 1..m, NEW v \in [1..m -> Readings], NEW e \in Nat, m - f <= e,
           \A n \in 1..m : IF n < f THEN v[n] = Undefined
                           ELSE v[n] \in Int /\ \E c \in Int : v[n] = c * Power(Period, e),
           NEW l \in f..m
    PROVE  /\ Rma(v)[l] \in Int /\ WilderSum(v, f, l) \in Int
           /\ Rma(v)[l] * Power(Period, l - f) = WilderSum(v, f, l)
<1> DEFINE r == Rma(v)
           q == Period - 1
           S(k) == Power(Period, k)
           W(k) == WilderSum(v, f, f + k)
           Whole(k) == \E c \in Int : r[f + k] = c * S(e - k)
           Exact(k) == W(k) \in Int /\ r[f + k] * S(k) = W(k) /\ Whole(k)
           C == { k \in Nat : f + k \in f..m => Exact(k) }
<1>0. /\ q \in Nat /\ Period \in Nat \ {0} /\ q + 1 = Period /\ S(0) = 1
      /\ \A k \in Nat : S(k) \in Nat \ {0} /\ S(k + 1) = Period * S(k)
  <2>1. \A k \in Nat : S(k) \in Nat \ {0} /\ S(k + 1) = Period * S(k)
    BY PeriodPowers
  <2>2. S(0) = 1
    BY PeriodPowers
  <2>3. q \in Nat /\ Period \in Nat \ {0} /\ q + 1 = Period
    BY PeriodFacts
  <2> HIDE DEF q, S
  <2> QED
    BY <2>1, <2>2, <2>3
<1>1. \A n \in f..m : v[n] \in Int /\ \E c \in Int : v[n] = c * S(e)
  <2>1. \A n \in f..m : n \in 1..m /\ ~(n < f)
    OBVIOUS
  <2> QED
    BY <2>1
<1>2. /\ r[f] = v[f] /\ \A n \in f..m : r[n] \in Int
      /\ \A n \in (f + 1)..m : r[n] = (v[n] + q * r[n - 1]) \div Period
  <2>1. \A n \in 1..m : IF n < f THEN v[n] = Undefined ELSE v[n] \in Int
    OBVIOUS
  <2> QED
    BY <2>1, RmaFrom
<1>3. \A k \in 0..e : \E u \in Nat \ {0} : S(e) = u * S(e - k)
  <2>1. SUFFICES ASSUME NEW k \in 0..e PROVE \E u \in Nat \ {0} : S(e) = u * S(e - k)
    OBVIOUS
  <2> DEFINE x == Power(Period, e)
             i == e - k
  <2>2. x \in Nat \ {0} /\ Period \in Nat \ {0}
    BY <1>0
  <2>3. i \in 0..e /\ 1 \in Nat
    OBVIOUS
  <2> HIDE DEF x, i
  <2>4. x = 1 * x
    BY <2>2
  <2>5. x = 1 * Power(Period, e)
    BY <2>4 DEF x
  <2>6. \E u \in Nat \ {0} : x = u * Power(Period, i)
    BY <2>2, <2>3, <2>5, PowersDivide
  <2> QED
    BY <2>6 DEF x, i
<1> HIDE DEF r, q, S
<1>4. 0 \in C
  <2>1. f + 0 = f /\ f \in f..m /\ f \in Int /\ e - 0 = e
    OBVIOUS
  <2>2. v[f] \in Int
    BY <1>1, <2>1
  <2>3. W(0) = v[f]
    BY <2>1, <2>2, WilderStarts
  <2> DEFINE x == v[f]
  <2>4. x \in Int /\ r[f] = x /\ W(0) = x /\ r[f + 0] = x
    BY <1>2, <2>1, <2>2, <2>3
  <2>5. Whole(0)
    <3>1. \E c \in Int : v[f] = c * S(e)
      BY <1>1, <2>1
    <3> QED
      BY <1>2, <2>1, <3>1
  <2> HIDE DEF W, x, Whole
  <2>6. x * 1 = x
    BY <2>4
  <2>7. r[f + 0] * S(0) = x * 1
    BY <1>0, <2>4
  <2> QED
    BY <2>4, <2>5, <2>6, <2>7
<1>5. ASSUME NEW k \in Nat, k \in C PROVE k + 1 \in C
  <2>1. SUFFICES ASSUME f + (k + 1) \in f..m PROVE Exact(k + 1)
    OBVIOUS
  <2> DEFINE s == S(k)
             x == v[f + (k + 1)]
             y == r[f + k]
             z == r[f + (k + 1)]
             t == W(k)
             p == S(e - (k + 1))
  <2>2. /\ f + k \in f..m /\ f + (k + 1) \in (f + 1)..m /\ (f + (k + 1)) - 1 = f + k
        /\ k \in 0..e /\ e - (k + 1) \in Nat /\ e - k = (e - (k + 1)) + 1
    BY <2>1
  <2>3. /\ s \in Nat /\ x \in Int /\ y \in Int /\ z \in Int /\ t \in Int /\ S(k + 1) = Period * s
        /\ y * s = t
    <3>1. Exact(k)
      BY <1>5, <2>2
    <3> QED
      BY <1>0, <1>1, <1>2, <2>1, <2>2, <3>1
  <2>4. p \in Nat \ {0} /\ S(e - k) = Period * p
    BY <1>0, <2>2
  <2>5. PICK h \in Int : y = h * (Period * p)
    <3>1. Whole(k)
      BY <1>5, <2>2
    <3> QED
      BY <2>4, <3>1
  <2>6. PICK g \in Int : x = g * (Period * p)
    <3>1. PICK u \in Nat \ {0} : S(e) = u * (Period * p)
      BY <1>3, <2>2, <2>4
    <3>2. PICK c \in Int : x = c * S(e)
      BY <1>1, <2>1
    <3> HIDE DEF x, p
    <3>3. c * (u * (Period * p)) = (c * u) * (Period * p) /\ c * u \in Int
      BY <1>0, <2>4
    <3>4. x = (c * u) * (Period * p)
      BY <3>1, <3>2, <3>3
    <3> QED
      BY <3>3, <3>4
  <2>7. z = (x + q * y) \div Period
    BY <1>2, <2>2
  <2>8. W(k + 1) = q * t + s * x
    <3>1. \A i \in 0..(k + 1) : v[f + i] \in Int
      <4>1. \A i \in 0..(k + 1) : f + i \in f..m
        BY <2>1
      <4> QED
        BY <1>1, <4>1
    <3>2. f \in Int
      OBVIOUS
    <3> QED
      BY <3>1, <3>2, WilderSteps DEF S, q
  <2> HIDE DEF s, x, y, z, t, p, W
  <2> DEFINE j == (g + q * h) * p
  <2>9. j \in Int /\ x + q * y = Period * j
    <3>1. g + q * h \in Int
      BY <1>0
    <3>2. j \in Int
      BY <2>4, <3>1
    <3>3. g * (Period * p) + q * (h * (Period * p)) = Period * ((g + q * h) * p)
      BY <1>0, <2>4
    <3> QED
      BY <2>5, <2>6, <3>2, <3>3
  <2>10. z = j
    <3>1. (Period * j) \div Period = j
      <4> HIDE DEF j
      <4> QED
        BY <1>0, <2>9, ExactDivision
    <3> QED
      BY <2>7, <2>9, <3>1
  <2>11. z * (Period * s) = q * t + s * x
    <3> HIDE DEF j
    <3>1. j * (Period * s) = s * (Period * j)
      BY <1>0, <2>3, <2>9
    <3>2. s * (x + q * y) = q * (y * s) + s * x
      BY <1>0, <2>3
    <3> QED
      BY <2>3, <2>9, <2>10, <3>1, <3>2
  <2>12. Whole(k + 1)
    <3>1. g + q * h \in Int
      BY <1>0
    <3>2. z = (g + q * h) * S(e - (k + 1))
      BY <2>10 DEF p
    <3> QED
      BY <3>1, <3>2 DEF z
  <2>13. q * t + s * x \in Int
    BY <1>0, <2>3
  <2> HIDE DEF Whole
  <2> QED
    BY <2>3, <2>8, <2>11, <2>12, <2>13 DEF z
<1> DEFINE k == l - f
<1>6. k \in Nat /\ f + k = l /\ l \in f..m
  OBVIOUS
<1>7. k \in C
  <2> HIDE DEF C, k
  <2>1. Nat \subseteq C
    BY <1>4, <1>5, NatSetInduction
  <2> QED
    BY <1>6, <2>1
<1> HIDE DEF W, k, Whole
<1>8. Exact(k)
  BY <1>6, <1>7
<1> QED
  BY <1>2, <1>6, <1>8 DEF r, S, W, k

MissingBefore(v, f, m) == \A n \in 1..m : n < f => v[n] = Undefined

\* A value of b in what Rma averages is c in the average of the f-th to the l-th.
Divided(b, c, f, l) ==
    \E a \in Int, u \in Nat \ {0} : b = a * Unit /\ Unit = u * Power(Period, l - f) /\ c = a * u

\* The average of multiples of Unit is one of the multiples.
LEMMA RmaOfMultiples ==
    ASSUME NEW m \in Nat, NEW f \in 1..m, m - f <= MaxHistory, NEW v \in [1..m -> Readings], NEW x,
           NEW l \in f..m, NEW b, NEW d,
           MissingBefore(v, f, m), Multiple(v, b, x, f, m), Divided(b, d, f, l)
    PROVE  Rma(v)[l] = d * WilderSum(x, f, l)
<1> DEFINE e == MaxHistory
           s == Power(Period, l - f)
           w == WilderSum(x, f, l)
<1>0. PICK a \in Int, u \in Nat \ {0} : b = a * Unit /\ Unit = u * Power(Period, l - f) /\ d = a * u
  BY DEF Divided
<1>1. e \in Nat /\ b \in Int /\ Unit \in Int
  BY <1>0, IndicatorAssumption
<1>2. PICK t \in Nat \ {0} : Unit = t * Power(Period, e)
  <2>1. e \in 0..MaxHistory
    BY <1>1
  <2> QED
    BY <2>1, UnitFacts
<1>a. /\ \A n \in 1..m : n < f => v[n] = Undefined
      /\ \A n \in f..m : x[n] \in Int /\ v[n] = b * x[n]
  BY DEF MissingBefore, Multiple
<1> HIDE DEF w
<1>3. \A n \in 1..m : IF n < f THEN v[n] = Undefined
                      ELSE v[n] \in Int /\ \E c \in Int : v[n] = c * Power(Period, e)
  <2>1. SUFFICES ASSUME NEW n \in 1..m, ~(n < f)
                 PROVE  v[n] \in Int /\ \E c \in Int : v[n] = c * Power(Period, e)
    BY <1>a
  <2> DEFINE y == x[n]
             p == Power(Period, e)
  <2>2. n \in f..m
    BY <2>1
  <2>3. y \in Int /\ v[n] = b * y
    BY <1>a, <2>2
  <2>4. p \in Int
    BY <1>1, PeriodPowers
  <2> HIDE DEF y, p
  <2>5. b * y \in Int
    BY <1>1, <2>3
  <2>6. (a * (t * p)) * y = ((a * t) * y) * p /\ (a * t) * y \in Int
    BY <2>3, <2>4
  <2>7. v[n] = ((a * t) * y) * p
    BY <1>0, <1>2, <2>3, <2>6 DEF p
  <2> QED
    BY <2>3, <2>5, <2>6, <2>7 DEF p
<1>4. Rma(v)[l] \in Int /\ Rma(v)[l] * s = WilderSum(v, f, l)
  BY <1>1, <1>3, RmaIsWilder
<1> DEFINE k == l - f
<1>5. w \in Int /\ WilderSum(v, f, l) = b * w
  <2>1. f \in Int /\ l \in Int /\ f <= l /\ \A n \in f..l : n \in f..m
    OBVIOUS
  <2>2. Multiple(v, b, x, f, l)
    BY <1>a, <2>1 DEF Multiple
  <2>3. WilderSum(x, f, l) \in Int /\ WilderSum(v, f, l) = b * WilderSum(x, f, l)
    BY <1>1, <2>1, <2>2, WilderScaled
  <2> QED
    BY <2>3 DEF w
<1>6. s \in Nat \ {0}
  <2>1. k \in Nat
    OBVIOUS
  <2> HIDE DEF k
  <2>2. Power(Period, k) \in Nat \ {0}
    BY <2>1, PeriodPowers
  <2> QED
    BY <2>2 DEF k
<1>7. Rma(v)[l] = (a * u) * w
  <2> DEFINE r == Rma(v)[l]
             z == (a * u) * w
  <2>1. r \in Int /\ r * s = b * w /\ b = a * (u * s)
    BY <1>0, <1>4, <1>5
  <2> HIDE DEF r, s, k
  <2>2. z \in Int
    <3>1. a * u \in Int
      OBVIOUS
    <3> QED
      BY <1>5, <3>1
  <2>3. (a * (u * s)) * w = ((a * u) * w) * s
    BY <1>5, <1>6
  <2>4. r * s = z * s
    BY <2>1, <2>3
  <2> HIDE DEF z
  <2>5. r = z
    BY <1>6, <2>1, <2>2, <2>4, Cancels
  <2> QED
    BY <2>5 DEF r, z
<1> QED
  BY <1>0, <1>7 DEF w

-----------------------------------------------------------------------------
(* The three indicators that use Wilder's average.                          *)

Moved(bars) == [n \in DOMAIN bars |-> Unit * (MoveHigh(bars, n) - MoveLow(bars, n))]
AtrTerms(bars) == [n \in DOMAIN bars |->
                      IF n = Period THEN SumTo(Moved(bars), Period) ELSE Period * Moved(bars)[n]]

LEMMA AtrIsWilder ==
    ASSUME NEW bars \in Seq(Candles), Period <= Len(bars), Len(bars) <= MaxHistory
    PROVE  Atr(bars) * Period * Power(Period, Len(bars) - Period)
             = WilderSum(AtrTerms(bars), Period, Len(bars))
<1> DEFINE m == Len(bars)
           p == Period
           v == Presmoothed(bars, 1, Period, Period)
           s == Starting(bars, 1)
           plain == [n \in 1..m |-> MoveHigh(bars, n) - MoveLow(bars, n)]
           moved == Moved(bars)
           terms == AtrTerms(bars)
           e == MaxHistory - 1
           q == Power(Period, e)
           total == SumTo(plain, p)
<1>0. /\ m \in Nat /\ m # 0 /\ p \in 1..m /\ p \in Nat \ {0} /\ m - p <= e /\ e \in Nat /\ MaxHistory = e + 1
      /\ DOMAIN bars = 1..m /\ Unit \in Nat \ {0} /\ (Period - 1) + 1 = Period /\ 1 \in {1, 2}
  BY IndicatorAssumption
<1>1. PICK i, j \in 1..m : \A n \in 1..m :
          TrueRange(bars, i) <= TrueRange(bars, n) /\ TrueRange(bars, n) <= TrueRange(bars, j)
  BY <1>0, TrueRangesBetween
<1>2. \A n \in 1..m : plain[n] \in Nat /\ TrueRange(bars, n) = Unit * plain[n]
  BY TrueRangeIsMove
<1>3. \A n \in 1..m : moved[n] = Unit * plain[n]
  BY <1>0 DEF Moved
<1>4. /\ v \in [1..m -> Readings]
      /\ \A n \in 1..m : n < p => v[n] = Undefined
      /\ \A n \in (p + 1)..m : v[n] = Unit * plain[n]
      /\ v[p] = SumTo(s, p) \div p
  <2> DEFINE lo == TrueRange(bars, i)
             hi == TrueRange(bars, j)
  <2>1. lo \in Int /\ hi \in Int
    <3>1. lo \in Nat /\ hi \in Nat
      BY TrueRangeNat
    <3> QED
      BY <3>1
  <2>2. \A n \in 1..m : lo <= TrueRange(bars, n) /\ TrueRange(bars, n) <= hi
    BY <1>1
  <2>3. Period - 1 + 1 = Period
    BY <1>0
  <2> HIDE DEF lo, hi, plain
  <2>4. /\ v \in [1..m -> Readings]
        /\ \A n \in 1..m : IF n < Period THEN v[n] = Undefined ELSE v[n] \in lo..hi
        /\ \A n \in (Period + 1)..m : v[n] = TrueRange(bars, n)
        /\ v[Period] = SumTo(s, Period - 1 + 1) \div (Period - 1 + 1)
    BY <1>0, <2>1, <2>2, PresmoothedIs
  <2>5. \A n \in (p + 1)..m : n \in 1..m
    BY <1>0
  <2> QED
    BY <1>2, <2>3, <2>4, <2>5
<1>5. total \in Int /\ SumTo(s, p) = Unit * total /\ SumTo(moved, p) = Unit * total
  <2>1. \A n \in 1..p : plain[n] \in Int /\ s[n] = Unit * plain[n] /\ moved[n] = Unit * plain[n]
    <3>1. SUFFICES ASSUME NEW n \in 1..p
                   PROVE  plain[n] \in Int /\ s[n] = Unit * plain[n] /\ moved[n] = Unit * plain[n]
      OBVIOUS
    <3>2. n \in 1..m /\ n \in 1..(Period - 1 + 1) /\ 1 + n - 1 = n
      BY <1>0
    <3>3. s[n] = TrueRange(bars, n)
      BY <3>2 DEF Starting
    <3>4. plain[n] \in Nat /\ TrueRange(bars, n) = Unit * plain[n] /\ moved[n] = Unit * plain[n]
      BY <1>2, <1>3, <3>2
    <3> HIDE DEF plain, moved, s
    <3> QED
      BY <3>3, <3>4
  <2>2. p \in Nat
    BY <1>0
  <2>3. Unit \in Int
    BY <1>0
  <2> HIDE DEF plain, moved, s, p
  <2>4. SumTo(plain, p) \in Int /\ SumTo(s, p) = Unit * SumTo(plain, p)
    <3>1. \A n \in 1..p : plain[n] \in Int /\ s[n] = Unit * plain[n]
      BY <2>1
    <3> QED
      BY <2>2, <2>3, <3>1, SumScaled
  <2>5. SumTo(moved, p) = Unit * SumTo(plain, p)
    <3>1. \A n \in 1..p : plain[n] \in Int /\ moved[n] = Unit * plain[n]
      BY <2>1
    <3> QED
      BY <2>2, <2>3, <3>1, SumScaled
  <2> QED
    BY <2>4, <2>5
<1>6. PICK t \in Nat \ {0} : Unit = t * (Period * q)
  <2>1. MaxHistory \in 0..MaxHistory
    BY <1>0
  <2>2. PICK t \in Nat \ {0} : Unit = t * Power(Period, MaxHistory)
    BY <2>1, UnitFacts
  <2>3. Power(Period, e + 1) = Period * Power(Period, e)
    BY <1>0, PeriodPowers
  <2> QED
    BY <1>0, <2>2, <2>3
<1>7. q \in Nat
  BY <1>0, PeriodPowers
<1>8. \A n \in 1..m : n >= p => terms[n] = IF n = p THEN SumTo(moved, p) ELSE p * moved[n]
  BY <1>0 DEF AtrTerms
<1> HIDE DEF m, p, v, s, plain, moved, terms, e, q, total
<1>9. v[p] = (t * total) * q /\ v[p] \in Int /\ p * v[p] = SumTo(moved, p)
  <2> DEFINE y == (t * total) * q
  <2>1. t * total \in Int
    BY <1>5
  <2>2. y \in Int
    BY <1>7, <2>1
  <2>3. Unit * total = p * y
    <3>1. (t * (p * q)) * total = p * ((t * total) * q)
      BY <1>0, <1>5, <1>7
    <3>2. Unit = t * (p * q)
      BY <1>6 DEF p
    <3> QED
      BY <3>1, <3>2
  <2> HIDE DEF y
  <2>4. (p * y) \div p = y
    BY <1>0, <2>2, ExactDivision
  <2>5. v[p] = y
    BY <1>4, <1>5, <2>3, <2>4
  <2> QED
    BY <1>5, <2>2, <2>3, <2>5 DEF y
<1>10. ASSUME NEW n \in (p + 1)..m
       PROVE  v[n] \in Int /\ (\E c \in Int : v[n] = c * q) /\ p * v[n] = terms[n]
  <2> DEFINE x == plain[n]
  <2>1. n \in 1..m /\ n >= p /\ n # p
    BY <1>0
  <2>2. x \in Nat /\ v[n] = Unit * x /\ moved[n] = Unit * x
    BY <1>2, <1>3, <1>4, <2>1
  <2> HIDE DEF x
  <2>3. (t * (p * q)) * x = ((t * p) * x) * q /\ (t * p) * x \in Int /\ Unit * x \in Int
    BY <1>0, <1>7, <2>2
  <2>4. Unit = t * (p * q)
    BY <1>6 DEF p
  <2>5. v[n] = ((t * p) * x) * q
    BY <2>2, <2>3, <2>4
  <2> QED
    BY <1>8, <2>1, <2>2, <2>3, <2>5
<1>11. \A n \in 1..m : IF n < p THEN v[n] = Undefined
                       ELSE v[n] \in Int /\ \E c \in Int : v[n] = c * q
  <2>1. \A n \in 1..m : n < p \/ n = p \/ n \in (p + 1)..m
    BY <1>0
  <2>2. t * total \in Int
    BY <1>5
  <2> QED
    BY <1>0, <1>4, <1>9, <1>10, <2>1, <2>2
<1>12. /\ Rma(v)[m] \in Int /\ WilderSum(v, p, m) \in Int
       /\ Rma(v)[m] * Power(Period, m - p) = WilderSum(v, p, m)
  <2>1. m \in p..m
    BY <1>0
  <2>2. \A n \in 1..m : IF n < p THEN v[n] = Undefined
                        ELSE v[n] \in Int /\ \E c \in Int : v[n] = c * Power(Period, e)
    BY <1>11 DEF q
  <2> QED
    BY <1>0, <1>4, <2>1, <2>2, RmaIsWilder
<1>13. WilderSum(terms, p, m) = p * WilderSum(v, p, m)
  <2>1. Multiple(terms, p, v, p, m)
    <3>1. SUFFICES ASSUME NEW n \in p..m PROVE v[n] \in Int /\ terms[n] = p * v[n]
      BY DEF Multiple
    <3>2. n \in 1..m /\ n >= p /\ (n = p \/ n \in (p + 1)..m)
      BY <1>0
    <3> QED
      BY <1>8, <1>9, <1>10, <3>2
  <2>2. p \in Int /\ m \in Int /\ p <= m
    BY <1>0
  <2> QED
    BY <2>1, <2>2, WilderScaled
<1>14. Atr(bars) = Rma(v)[m]
  <2>1. Rma(v) \in [1..m -> Readings] /\ Len(Rma(v)) = m
    <3>1. Int \subseteq Int /\ \A n \in 1..m : v[n] \in Int \cup {Undefined}
      BY <1>11
    <3>2. \A x, y \in Int : (x + (Period - 1) * y) \div Period \in Int
      BY AverageIsInt
    <3> QED
      BY <1>0, <1>4, <3>1, <3>2, RmaStays
  <2> QED
    BY <2>1 DEF Atr, Last, v
<1>15. Atr(bars) * p * Power(Period, m - p) = p * WilderSum(v, p, m)
  <2> DEFINE a == Atr(bars)
             k == m - p
             g == Power(Period, k)
  <2>1. k \in Nat
    BY <1>0
  <2>2. g \in Int
    <3> HIDE DEF k
    <3> QED
      BY <2>1, PeriodPowers
  <2>3. a \in Int /\ a * g = WilderSum(v, p, m)
    BY <1>12, <1>14
  <2> HIDE DEF a, k, g
  <2>4. a * p * g = p * (a * g)
    BY <1>0, <2>2, <2>3
  <2> QED
    BY <2>3, <2>4 DEF a, g, k
<1> QED
  BY <1>13, <1>15 DEF m, p, terms

Rose(bars) == [n \in 1..(Len(bars) - 1) |-> Larger(bars[n + 1].close - bars[n].close, 0)]
Fell(bars) == [n \in 1..(Len(bars) - 1) |-> Larger(bars[n].close - bars[n + 1].close, 0)]

LEMMA RsiIsWilder ==
    ASSUME NEW bars \in Seq(Candles), Len(bars) > 1, Len(bars) <= MaxHistory
    PROVE  LET last == Len(bars) - 1
               gain == WilderSum(Rose(bars), 1, last)
               loss == WilderSum(Fell(bars), 1, last)
           IN  Rsi(bars) = Percent(gain, gain + loss)
<1> DEFINE m == Len(bars) - 1
           up == Rose(bars)
           down == Fell(bars)
           gain == WilderSum(up, 1, m)
           loss == WilderSum(down, 1, m)
           g == Rma(Gains(bars))[m]
           l == Rma(Losses(bars))[m]
<1>0. /\ m \in Nat \ {0} /\ m \in Nat /\ Len(bars) = m + 1 /\ m + 1 <= MaxHistory /\ MaxHistory \in Nat
      /\ 1 \in 1..m /\ m \in 1..m /\ m - 1 \in 0..MaxHistory /\ m - 1 <= MaxHistory /\ Unit \in Nat \ {0}
  <2> DEFINE k == Len(bars)
  <2>1. k \in Nat /\ k > 1 /\ k <= MaxHistory /\ MaxHistory \in Nat /\ Unit \in Nat \ {0}
    BY IndicatorAssumption
  <2> HIDE DEF k
  <2>2. /\ k - 1 \in Nat \ {0} /\ k - 1 \in Nat /\ k = (k - 1) + 1 /\ (k - 1) + 1 <= MaxHistory
        /\ 1 \in 1..(k - 1) /\ k - 1 \in 1..(k - 1) /\ (k - 1) - 1 \in 0..MaxHistory
        /\ (k - 1) - 1 <= MaxHistory
    BY <2>1
  <2> QED
    BY <2>1, <2>2 DEF k
<1>1. \A n \in 1..(m + 1) : bars[n].close \in Int
  <2>1. \A n \in 1..Len(bars) : bars[n].close \in Int
    BY BarFacts
  <2> QED
    BY <1>0, <2>1
<1>2. \A n \in 1..m : /\ up[n] = Larger(Step(bars, n), 0) /\ up[n] \in Nat
                      /\ down[n] = Larger(-Step(bars, n), 0) /\ down[n] \in Nat
  <2>1. SUFFICES ASSUME NEW n \in 1..m
                 PROVE  /\ up[n] = Larger(Step(bars, n), 0) /\ up[n] \in Nat
                        /\ down[n] = Larger(-Step(bars, n), 0) /\ down[n] \in Nat
    OBVIOUS
  <2> DEFINE x == bars[n].close
             y == bars[n + 1].close
  <2>2. x \in Int /\ y \in Int
    <3>1. n \in 1..(m + 1) /\ n + 1 \in 1..(m + 1)
      BY <1>0
    <3> QED
      BY <1>1, <3>1
  <2>3. up[n] = Larger(y - x, 0) /\ down[n] = Larger(x - y, 0) /\ Step(bars, n) = y - x
    BY DEF Rose, Fell, Step
  <2> HIDE DEF x, y, up, down
  <2>4. -(y - x) = x - y /\ Larger(y - x, 0) \in Nat /\ Larger(x - y, 0) \in Nat
    BY <2>2 DEF Larger
  <2> QED
    BY <2>3, <2>4
<1>3. /\ Gains(bars) \in [1..m -> Int] /\ Losses(bars) \in [1..m -> Int]
      /\ \A n \in 1..m : /\ Gains(bars)[n] = Unit * up[n]
                         /\ Losses(bars)[n] = -(Unit * down[n])
  <2> HIDE DEF m
  <2>1. m \in Nat /\ Len(bars) = m + 1 /\ \A n \in 1..(m + 1) : bars[n].close \in Int
    BY <1>0, <1>1
  <2>2. /\ Gains(bars) \in [1..m -> Int] /\ Losses(bars) \in [1..m -> Int]
        /\ \A n \in 1..m : /\ Gains(bars)[n] = Unit * Larger(Step(bars, n), 0)
                           /\ Losses(bars)[n] = -(Unit * Larger(-Step(bars, n), 0))
    BY <2>1, GainsAre
  <2> QED
    BY <1>2, <2>2
<1>4. PICK u \in Nat \ {0} : Unit = u * Power(Period, m - 1)
  BY <1>0, UnitFacts
<1>5. Rsi(bars) = Ratio(g, l) /\ g \in Nat /\ -l \in Nat /\ l \in Int
  BY <1>0, <1>1, RsiParts
<1> HIDE DEF m, up, down
<1>6. gain \in Nat /\ loss \in Nat
  <2>1. 1 \in Int /\ m \in Int /\ 1 <= m
    BY <1>0
  <2>2. (\A n \in 1..m : up[n] \in Nat) /\ \A n \in 1..m : down[n] \in Nat
    BY <1>2
  <2> QED
    BY <2>1, <2>2, WilderNat
<1>7. g = u * gain
  <2> DEFINE v == Gains(bars)
             b == Unit
             c == u
             one == 1
  <2>1. v \in [1..m -> Readings] /\ MissingBefore(v, one, m)
    BY <1>3 DEF Readings, MissingBefore
  <2>2. Multiple(v, b, up, one, m)
    <3>1. SUFFICES ASSUME NEW n \in 1..m PROVE up[n] \in Int /\ v[n] = b * up[n]
      BY DEF Multiple
    <3> DEFINE y == up[n]
    <3>2. y \in Nat /\ v[n] = Unit * y
      BY <1>2, <1>3
    <3> HIDE DEF y, v
    <3>3. b * y = Unit * y
      BY <1>0, <3>2
    <3> QED
      BY <3>2, <3>3 DEF y
  <2>3. Divided(b, c, one, m)
    <3> DEFINE a == 1
    <3>1. a \in Int /\ b = a * Unit /\ c = a * u /\ Unit = u * Power(Period, m - one)
      BY <1>0, <1>4
    <3> HIDE DEF a, b, c, one
    <3> QED
      BY <3>1 DEF Divided
  <2>4. one \in 1..m /\ m - one <= MaxHistory /\ m \in one..m
    BY <1>0
  <2>5. c * gain = u * gain
    BY <1>6
  <2> HIDE DEF v, b, c, one
  <2>6. Rma(v)[m] = c * WilderSum(up, one, m)
    BY <1>0, <2>1, <2>2, <2>3, <2>4, RmaOfMultiples
  <2> QED
    BY <2>5, <2>6 DEF v, one
<1>8. l = -(u * loss)
  <2> DEFINE v == Losses(bars)
             b == -Unit
             c == -u
             one == 1
  <2>1. v \in [1..m -> Readings] /\ MissingBefore(v, one, m)
    BY <1>3 DEF Readings, MissingBefore
  <2>2. Multiple(v, b, down, one, m)
    <3>1. SUFFICES ASSUME NEW n \in 1..m PROVE down[n] \in Int /\ v[n] = b * down[n]
      BY DEF Multiple
    <3> DEFINE y == down[n]
    <3>2. y \in Nat /\ v[n] = -(Unit * y)
      BY <1>2, <1>3
    <3> HIDE DEF y, v
    <3>3. b * y = -(Unit * y)
      BY <1>0, <3>2
    <3> QED
      BY <3>2, <3>3 DEF y
  <2>3. Divided(b, c, one, m)
    <3> DEFINE a == -1
    <3>1. a \in Int /\ b = a * Unit /\ c = a * u /\ Unit = u * Power(Period, m - one)
      BY <1>0, <1>4
    <3> HIDE DEF a, b, c, one
    <3> QED
      BY <3>1 DEF Divided
  <2>4. one \in 1..m /\ m - one <= MaxHistory /\ m \in one..m
    BY <1>0
  <2>5. c * loss = -(u * loss)
    BY <1>6
  <2> HIDE DEF v, b, c, one
  <2>6. Rma(v)[m] = c * WilderSum(down, one, m)
    BY <1>0, <2>1, <2>2, <2>3, <2>4, RmaOfMultiples
  <2> QED
    BY <2>5, <2>6 DEF v, one
<1> HIDE DEF g, l, gain, loss
<1>9. Ratio(g, l) = Percent(g, g + (-l))
  <2>1. Abs(l) = -l
    BY <1>5 DEF Abs
  <2>2. g = 0 /\ l = 0 <=> g + (-l) = 0
    BY <1>5
  <2> QED
    BY <2>1, <2>2 DEF Ratio, Percent
<1>10. g + (-l) = u * (gain + loss) /\ gain + loss \in Nat
  <2>1. -(-(u * loss)) = u * loss /\ u * gain + u * loss = u * (gain + loss)
    BY <1>6
  <2> QED
    BY <1>6, <1>7, <1>8, <2>1
<1>11. Percent(u * gain, u * (gain + loss)) = Percent(gain, gain + loss)
  <2> DEFINE y == gain + loss
  <2>1. y \in Nat /\ gain \in Int
    BY <1>6, <1>10
  <2> HIDE DEF y
  <2>2. Percent(u * gain, u * y) = Percent(gain, y)
    BY <2>1, ShareScaled
  <2> QED
    BY <2>2 DEF y
<1>12. Rsi(bars) = Percent(gain, gain + loss)
  BY <1>5, <1>7, <1>9, <1>10, <1>11
<1> QED
  BY <1>12 DEF m, gain, loss, up, down

Ups(bars) == [n \in 2..Len(bars) |-> bars[n].high - bars[n - 1].high]
Downs(bars) == [n \in 2..Len(bars) |-> bars[n - 1].low - bars[n].low]
Pluses(bars) == [n \in 2..Len(bars) |-> IF Ups(bars)[n] > Larger(Downs(bars)[n], 0) THEN Ups(bars)[n] ELSE 0]
Minuses(bars) == [n \in 2..Len(bars) |-> IF Downs(bars)[n] > Larger(Ups(bars)[n], 0) THEN Downs(bars)[n] ELSE 0]

LEMMA MovementsInUnits ==
    ASSUME NEW bars \in Seq(Candles), NEW n \in 2..Len(bars)
    PROVE  /\ Pluses(bars)[n] \in Nat /\ PlusMove(bars, n) = Unit * Pluses(bars)[n]
           /\ Minuses(bars)[n] \in Nat /\ MinusMove(bars, n) = Unit * Minuses(bars)[n]
<1>1. n \in 1..Len(bars) /\ n - 1 \in 1..Len(bars)
  OBVIOUS
<1>2. /\ bars[n].high \in Nat /\ bars[n].low \in Nat
      /\ bars[n - 1].high \in Nat /\ bars[n - 1].low \in Nat
  BY <1>1, BarFacts
<1> DEFINE up == bars[n].high - bars[n - 1].high
           down == bars[n - 1].low - bars[n].low
<1>3. up \in Int /\ down \in Int /\ Unit \in Nat
  <2>1. Unit \in Nat
    BY IndicatorAssumption
  <2> QED
    BY <1>2, <2>1
<1>4. /\ PlusMove(bars, n) = (IF up > down /\ up > 0 THEN up * Unit ELSE 0)
      /\ MinusMove(bars, n) = (IF down > up /\ down > 0 THEN down * Unit ELSE 0)
  BY DEF PlusMove, MinusMove
<1>5. /\ Pluses(bars)[n] = (IF up > Larger(down, 0) THEN up ELSE 0)
      /\ Minuses(bars)[n] = (IF down > Larger(up, 0) THEN down ELSE 0)
  BY DEF Pluses, Minuses, Ups, Downs
<1> HIDE DEF up, down
<1>6. /\ up > Larger(down, 0) <=> up > down /\ up > 0
      /\ down > Larger(up, 0) <=> down > up /\ down > 0
  BY <1>3 DEF Larger
<1>7. up * Unit = Unit * up /\ down * Unit = Unit * down /\ Unit * 0 = 0
  BY <1>3
<1>8. up > 0 => up \in Nat
  BY <1>3
<1>9. down > 0 => down \in Nat
  BY <1>3
<1>10. Pluses(bars)[n] \in Nat /\ PlusMove(bars, n) = Unit * Pluses(bars)[n]
  <2>1. CASE up > down /\ up > 0
    BY <1>4, <1>5, <1>6, <1>7, <1>8, <2>1
  <2>2. CASE ~(up > down /\ up > 0)
    BY <1>4, <1>5, <1>6, <1>7, <2>2
  <2> QED
    BY <2>1, <2>2
<1>11. Minuses(bars)[n] \in Nat /\ MinusMove(bars, n) = Unit * Minuses(bars)[n]
  <2>1. CASE down > up /\ down > 0
    BY <1>4, <1>5, <1>6, <1>7, <1>9, <2>1
  <2>2. CASE ~(down > up /\ down > 0)
    BY <1>4, <1>5, <1>6, <1>7, <2>2
  <2> QED
    BY <2>1, <2>2
<1> QED
  BY <1>10, <1>11

InUnits(move, x, m) == \A n \in 2..m : x[n] \in Nat /\ move[n] = Unit * x[n]
UnitLeft(u, l) == u \in Nat \ {0} /\ Unit = u * Power(Period, l - 2)

\* The running average of movements, counted in what is left of Unit.
LEMMA MovesAreShares ==
    ASSUME NEW m \in Nat, m <= MaxHistory, NEW move, NEW x, InUnits(move, x, m),
           NEW l \in 2..m, NEW u, UnitLeft(u, l)
    PROVE  WilderSum(x, 2, l) \in Nat /\ Moves(move, m)[l] = u * WilderSum(x, 2, l)
<1> DEFINE v == [n \in 1..m |-> IF n = 1 THEN Undefined ELSE move[n]]
           two == 2
<1>0. /\ u \in Nat \ {0} /\ Unit = u * Power(Period, l - 2)
      /\ \A n \in 2..m : x[n] \in Nat /\ move[n] = Unit * x[n]
  BY DEF InUnits, UnitLeft
<1>1. two \in 1..m /\ two \in Int /\ l \in Int /\ two <= l /\ l \in two..m
  OBVIOUS
<1>a. Unit \in Nat \ {0} /\ m - two <= MaxHistory
  BY IndicatorAssumption
<1>2. Moves(move, m) = Rma(v)
  BY DEF Moves
<1>3. \A n \in two..m : x[n] \in Nat /\ x[n] \in Int /\ v[n] = Unit * x[n]
  BY <1>0
<1>4. \A n \in 1..m : n < two => v[n] = Undefined
  OBVIOUS
<1>5. v \in [1..m -> Readings]
  <2>1. \A n \in 1..m : v[n] \in Readings
    <3>1. SUFFICES ASSUME NEW n \in 1..m PROVE v[n] \in Readings
      OBVIOUS
    <3>2. CASE n < two
      BY <1>4, <3>2 DEF Readings
    <3>3. CASE ~(n < two)
      <4> DEFINE y == x[n]
      <4>1. n \in two..m
        BY <1>1, <3>3
      <4>2. y \in Nat /\ v[n] = Unit * y
        BY <1>3, <4>1
      <4> HIDE DEF y, v
      <4>3. Unit * y \in Int
        BY <1>a, <4>2
      <4> QED
        BY <4>2, <4>3 DEF Readings
    <3> QED
      BY <3>2, <3>3
  <2> QED
    BY <2>1
<1> HIDE DEF v
<1> DEFINE per == Unit
           left == u
<1>6. MissingBefore(v, two, m) /\ Multiple(v, per, x, two, m)
  BY <1>3, <1>4 DEF MissingBefore, Multiple
<1>7. Divided(per, left, two, l)
  <2> DEFINE a == 1
  <2>1. a \in Int /\ per = a * Unit /\ left = a * u /\ Unit = u * Power(Period, l - two)
    BY <1>0, <1>a
  <2> HIDE DEF a, two, per, left
  <2> QED
    BY <1>0, <2>1 DEF Divided
<1> HIDE DEF two, per, left
<1>8. Rma(v)[l] = left * WilderSum(x, two, l)
  BY <1>1, <1>a, <1>5, <1>6, <1>7, RmaOfMultiples
<1>9. WilderSum(x, two, l) \in Nat
  <2>1. \A n \in two..l : x[n] \in Nat
    <3>1. \A n \in two..l : n \in two..m
      BY <1>1
    <3> QED
      BY <1>3, <3>1
  <2> QED
    BY <1>1, <2>1, WilderNat
<1> QED
  BY <1>2, <1>8, <1>9 DEF two, left

Indexes(bars) ==
    [n \in 2..Len(bars) |->
        LET rise == WilderSum(Pluses(bars), 2, n)  fall == WilderSum(Minuses(bars), 2, n)
        IN  Percent(Abs(rise - fall), rise + fall)]

\* The directional index of the code is the share of the larger movement's lead.
LEMMA IndexIsShare ==
    ASSUME NEW bars \in Seq(Candles), Len(bars) <= MaxHistory, NEW n \in 2..Len(bars),
           NEW atr \in Nat \ {0}
    PROVE  DirectionalIndex(atr,
                            Moves([k \in 2..Len(bars) |-> PlusMove(bars, k)], Len(bars))[n],
                            Moves([k \in 2..Len(bars) |-> MinusMove(bars, k)], Len(bars))[n])
             = Indexes(bars)[n]
<1> DEFINE m == Len(bars)
           up == [k \in 2..m |-> PlusMove(bars, k)]
           down == [k \in 2..m |-> MinusMove(bars, k)]
           p == Moves(up, m)[n]
           q == Moves(down, m)[n]
           rise == WilderSum(Pluses(bars), 2, n)
           fall == WilderSum(Minuses(bars), 2, n)
<1>0. m \in Nat /\ m <= MaxHistory /\ n \in 2..m /\ MaxHistory \in Nat
  BY IndicatorAssumption
<1>1. PICK u \in Nat \ {0} : UnitLeft(u, n)
  <2>1. n - 2 \in 0..MaxHistory
    BY <1>0
  <2> QED
    BY <2>1, UnitFacts DEF UnitLeft
<1>2. InUnits(up, Pluses(bars), m) /\ InUnits(down, Minuses(bars), m)
  BY MovementsInUnits DEF InUnits
<1>a. Indexes(bars)[n] = Percent(Abs(rise - fall), rise + fall)
  BY DEF Indexes
<1> HIDE DEF m, up, down
<1>3. rise \in Nat /\ p = u * rise
  BY <1>0, <1>1, <1>2, MovesAreShares
<1>4. fall \in Nat /\ q = u * fall
  BY <1>0, <1>1, <1>2, MovesAreShares
<1> HIDE DEF p, q, rise, fall
<1>5. p \in Nat /\ q \in Nat /\ p + q = u * (rise + fall) /\ Abs(p - q) = u * Abs(rise - fall)
  <2>1. u * rise \in Nat /\ u * fall \in Nat
    BY <1>3, <1>4, ProductNat
  <2>2. u * rise + u * fall = u * (rise + fall) /\ u * rise - u * fall = u * (rise - fall)
    BY <1>3, <1>4
  <2> DEFINE d == rise - fall
             h == u * d
  <2>3. d \in Int
    BY <1>3, <1>4
  <2>4. p - q = h
    BY <1>3, <1>4, <2>2
  <2> HIDE DEF d
  <2>5. Abs(h) = u * Abs(d)
    <3>1. CASE d >= 0
      <4>1. d \in Nat
        BY <2>3, <3>1
      <4>2. h \in Nat
        BY <4>1, ProductNat
      <4> HIDE DEF h
      <4>3. Abs(h) = h /\ Abs(d) = d
        BY <4>1, <4>2 DEF Abs
      <4> QED
        BY <4>3 DEF h
    <3>2. CASE d < 0
      <4> DEFINE g == -1 - d
      <4>1. g \in Nat
        BY <2>3, <3>2
      <4>2. u * g \in Nat
        BY <4>1, ProductNat
      <4>3. h = -(u * g) - u /\ u * (-d) = -h
        BY <2>3
      <4> DEFINE y == u * g
      <4>4. y \in Nat /\ h = -y - u
        BY <4>2, <4>3
      <4> HIDE DEF y, h
      <4>5. h < 0 /\ h \in Int
        BY <4>4
      <4>6. Abs(h) = -h /\ Abs(d) = -d
        BY <2>3, <3>2, <4>5 DEF Abs
      <4> QED
        BY <4>3, <4>6
    <3> QED
      BY <2>3, <3>1, <3>2
  <2> QED
    BY <1>3, <1>4, <2>1, <2>2, <2>4, <2>5 DEF d
<1>6. Abs(rise - fall) \in Int /\ rise + fall \in Nat
  BY <1>3, <1>4 DEF Abs
<1>7. Percent(Abs(p - q), p + q) = Percent(Abs(rise - fall), rise + fall)
  <2> DEFINE x == Abs(rise - fall)
             y == rise + fall
  <2>1. x \in Int /\ y \in Nat
    BY <1>6
  <2>2. Percent(Abs(p - q), p + q) = Percent(u * x, u * y)
    BY <1>5
  <2> HIDE DEF x, y
  <2>3. Percent(u * x, u * y) = Percent(x, y)
    BY <2>1, ShareScaled
  <2> QED
    BY <2>2, <2>3 DEF x, y
<1>8. DirectionalIndex(atr, p, q) = Percent(Abs(p - q), p + q)
  <2>1. Undefined \notin {atr, p, q}
    BY <1>5, PeriodFacts
  <2> QED
    BY <2>1 DEF DirectionalIndex, Percent
<1> QED
  BY <1>a, <1>7, <1>8 DEF p, q, up, down, m

MovedSince(bars) == { n \in Period..Len(bars) : \E k \in 2..n : TrueRange(bars, k) > 0 }

LEMMA FirstMove ==
    ASSUME NEW bars \in Seq(Candles), MovedSince(bars) # {}
    PROVE  /\ Min(MovedSince(bars)) \in Period..Len(bars)
           /\ \A n \in Period..Len(bars) : n \in MovedSince(bars) <=> Min(MovedSince(bars)) <= n
<1> DEFINE S == MovedSince(bars)
           m == Len(bars)
<1>0. m \in Nat /\ Period \in Nat
  BY PeriodFacts
<1>1. S \subseteq Nat /\ S \subseteq Int /\ S \subseteq Period..m
  BY <1>0 DEF MovedSince
<1>2. \A n \in Period..m, k \in Period..m : n \in S /\ n <= k => k \in S
  <2>1. SUFFICES ASSUME NEW n \in Period..m, NEW k \in Period..m, n \in S, n <= k PROVE k \in S
    OBVIOUS
  <2>2. PICK i \in 2..n : TrueRange(bars, i) > 0
    BY <2>1 DEF MovedSince
  <2>3. i \in 2..k
    BY <1>0, <2>1
  <2> QED
    BY <2>2, <2>3 DEF MovedSince
<1> HIDE DEF S, m
<1>3. PICK x \in S : \A y \in S : x <= y
  <2>1. S # {}
    BY DEF S
  <2> QED
    BY <1>1, <2>1, LeastExists
<1>4. Min(S) = x
  BY <1>1, <1>3, MinIs
<1>5. x \in Period..m /\ \A n \in Period..m : n \in S <=> x <= n
  BY <1>1, <1>2, <1>3
<1> QED
  BY <1>4, <1>5 DEF S, m

LEMMA AdxIsWilder ==
    ASSUME NEW bars \in Seq(Candles), 2 * Period <= Len(bars), Len(bars) <= MaxHistory
    PROVE  LET moved == MovedSince(bars)
               first == Min(moved)
               scale == Power(Period, Len(bars) - first)
               exact == WilderSum(Indexes(bars), first, Len(bars))
           IN  /\ Adx(bars) = Undefined <=> moved = {}
               /\ moved # {} => Adx(bars) * scale \in (exact - (Period - 1) * scale)..exact
<1> DEFINE m == Len(bars)
           atr == AtrSeries(bars)
           plus == Moves([n \in 2..m |-> PlusMove(bars, n)], m)
           minus == Moves([n \in 2..m |-> MinusMove(bars, n)], m)
           v == [n \in 1..m |-> DirectionalIndex(atr[n], plus[n], minus[n])]
           moved == MovedSince(bars)
           f == Min(moved)
           index == Indexes(bars)
<1>0. /\ m \in Nat /\ m \in 1..m /\ Period \in Nat /\ Period > 1 /\ Period <= m /\ m \in Period..m
      /\ Undefined \notin Int /\ 100 * Unit \in Nat
  <2>1. m \in Nat /\ 2 * Period <= m /\ Unit \in Nat
    BY IndicatorAssumption
  <2> HIDE DEF m
  <2> QED
    BY <2>1, PeriodFacts
<1>1. \A n \in Period..m : n \in moved <=> ~\A k \in 2..n : TrueRange(bars, k) = 0
  <2>1. SUFFICES ASSUME NEW n \in Period..m
                 PROVE  n \in moved <=> ~\A k \in 2..n : TrueRange(bars, k) = 0
    OBVIOUS
  <2>2. \A k \in 2..n : k \in 1..m
    BY <1>0
  <2>3. \A k \in 2..n : TrueRange(bars, k) \in Nat
    BY <2>2, TrueRangeNat
  <2>4. \A k \in 2..n : TrueRange(bars, k) > 0 <=> TrueRange(bars, k) # 0
    <3> SUFFICES ASSUME NEW k \in 2..n PROVE TrueRange(bars, k) > 0 <=> TrueRange(bars, k) # 0
      OBVIOUS
    <3> DEFINE t == TrueRange(bars, k)
    <3>1. t \in Nat
      BY <2>3
    <3> HIDE DEF t
    <3>2. t > 0 <=> t # 0
      BY <3>1
    <3> QED
      BY <3>2 DEF t
  <2>5. n \in moved <=> \E k \in 2..n : TrueRange(bars, k) > 0
    BY DEF MovedSince
  <2> QED
    BY <2>4, <2>5, Zenon
<1>2. Adx(bars) = Undefined <=> moved = {}
  <2>1. Adx(bars) = Undefined <=> \A k \in 2..m : TrueRange(bars, k) = 0
    BY AdxIs
  <2>2. Adx(bars) = Undefined <=> m \notin moved
    BY <1>0, <1>1, <2>1
  <2>3. moved # {} => f \in Period..m /\ \A n \in Period..m : n \in moved <=> f <= n
    BY FirstMove
  <2>4. moved # {} => m \in moved
    <3> HIDE DEF m, moved, f
    <3> QED
      BY <1>0, <2>3
  <2> QED
    BY <2>2, <2>4
<1>3. ASSUME moved # {}
      PROVE  LET s == Power(Period, m - f)
                 w == WilderSum(index, f, m)
             IN  Adx(bars) * s \in (w - (Period - 1) * s)..w
  <2>1. f \in Period..m /\ \A n \in Period..m : n \in moved <=> f <= n
    BY <1>3, FirstMove
  <2>2. /\ \A n \in 1..m : n < Period => atr[n] = Undefined
        /\ \A n \in Period..m : atr[n] \in Nat /\ (atr[n] # 0 <=> n \in moved)
    <3>1. \A n \in 1..m : IF n < Period THEN atr[n] = Undefined ELSE atr[n] \in Nat
      BY <1>0, AtrSeriesIs
    <3>2. ASSUME NEW n \in Period..m PROVE atr[n] \in Nat /\ (atr[n] # 0 <=> n \in moved)
      <4>1. n \in 1..m /\ ~(n < Period)
        BY <1>0
      <4>2. atr[n] = 0 <=> \A k \in 2..n : TrueRange(bars, k) = 0
        BY AtrSeriesIs
      <4> QED
        BY <1>1, <3>1, <4>1, <4>2
    <3> QED
      BY <3>1, <3>2
  <2>3. \A n \in 2..m : \A a \in Nat \ {0} : DirectionalIndex(a, plus[n], minus[n]) = index[n]
    BY IndexIsShare
  <2>4. \A n \in 2..m : plus[n] \in Nat /\ minus[n] \in Nat
    <3> DEFINE up == [n \in 2..m |-> PlusMove(bars, n)]
               down == [n \in 2..m |-> MinusMove(bars, n)]
    <3>1. \A n \in 2..m : up[n] \in Nat /\ down[n] \in Nat
      BY MovementsNat
    <3>2. \A n \in 2..m : n \in 1..m /\ n # 1
      OBVIOUS
    <3> HIDE DEF up, down, m
    <3>3. /\ \A n \in 1..m : IF n = 1 THEN Moves(up, m)[n] = Undefined ELSE Moves(up, m)[n] \in Nat
          /\ \A n \in 1..m : IF n = 1 THEN Moves(down, m)[n] = Undefined ELSE Moves(down, m)[n] \in Nat
      BY <1>0, <3>1, MovesAre
    <3> QED
      BY <3>2, <3>3 DEF up, down
  <2>5. Adx(bars) = Last(Rma(v))
    BY DEF Adx
  <2>6. /\ v \in [1..m -> {v[k] : k \in 1..m}]
        /\ \A n \in 1..m : v[n] = DirectionalIndex(atr[n], plus[n], minus[n])
    <3> HIDE DEF atr, plus, minus
    <3> QED
      OBVIOUS
  <2> HIDE DEF m, atr, plus, minus, moved, f, index, v
  <2>7. \A n \in 1..m : IF n < f THEN v[n] = Undefined ELSE v[n] \in Int /\ v[n] = index[n]
    <3>1. SUFFICES ASSUME NEW n \in 1..m
                   PROVE  IF n < f THEN v[n] = Undefined ELSE v[n] \in Int /\ v[n] = index[n]
      OBVIOUS
    <3>2. CASE n < Period
      <4>1. n < f /\ atr[n] = Undefined
        BY <1>0, <2>1, <2>2, <3>2
      <4> QED
        BY <2>6, <4>1 DEF DirectionalIndex
    <3>3. CASE ~(n < Period) /\ n < f
      <4>1. n \in Period..m /\ ~(f <= n)
        BY <1>0, <2>1, <3>3
      <4>2. atr[n] = 0
        BY <2>1, <2>2, <4>1
      <4> QED
        BY <2>6, <3>3, <4>2 DEF DirectionalIndex
    <3>4. CASE ~(n < f)
      <4>1. n \in Period..m /\ f <= n /\ n \in 2..m
        BY <1>0, <2>1, <3>4
      <4>2. atr[n] \in Nat \ {0} /\ plus[n] \in Nat /\ minus[n] \in Nat
        BY <2>1, <2>2, <2>4, <4>1
      <4>3. DirectionalIndex(atr[n], plus[n], minus[n]) = index[n]
        BY <2>3, <4>1, <4>2
      <4>4. v[n] \in 0..(100 * Unit) \cup {Undefined} /\ v[n] # Undefined
        BY <2>6, <4>2, DirectionalIndexIs
      <4>5. v[n] \in Int
        BY <1>0, <4>4
      <4> QED
        BY <2>6, <3>4, <4>3, <4>5
    <3> QED
      BY <3>2, <3>3, <3>4
  <2>8. v \in [1..m -> Readings]
    <3>1. \A n \in 1..m : v[n] \in Readings
      BY <2>7 DEF Readings
    <3> QED
      BY <2>6, <3>1
  <2>9. f \in 1..m /\ f \in Int /\ m \in Int /\ f <= m
    BY <1>0, <2>1
  <2>10. Adx(bars) = Rma(v)[m]
    <3>1. Int \subseteq Int /\ \A n \in 1..m : v[n] \in Int \cup {Undefined}
      BY <2>7
    <3>2. \A x, y \in Int : (x + (Period - 1) * y) \div Period \in Int
      BY AverageIsInt
    <3>3. Len(Rma(v)) = m
      BY <1>0, <2>8, <3>1, <3>2, RmaStays
    <3> QED
      BY <2>5, <3>3 DEF Last
  <2>11. WilderSum(v, f, m) = WilderSum(index, f, m)
    <3> DEFINE one == 1
    <3>1. Multiple(v, one, index, f, m)
      <4>1. SUFFICES ASSUME NEW n \in f..m PROVE index[n] \in Int /\ v[n] = one * index[n]
        BY DEF Multiple
      <4> DEFINE x == index[n]
      <4>2. n \in 1..m /\ ~(n < f)
        BY <2>9
      <4>3. x \in Int /\ v[n] = x
        BY <2>7, <4>2
      <4> HIDE DEF x
      <4>4. one * x = x
        BY <4>3
      <4> QED
        BY <4>3, <4>4 DEF x
    <3>2. one \in Int
      OBVIOUS
    <3> DEFINE w == WilderSum(index, f, m)
    <3> HIDE DEF one
    <3>3. w \in Int /\ WilderSum(v, f, m) = one * w
      BY <2>9, <3>1, <3>2, WilderScaled
    <3> HIDE DEF w
    <3>4. one * w = w
      BY <3>3 DEF one
    <3> QED
      BY <3>3, <3>4 DEF w
  <2>12. \A n \in 1..m : IF n < f THEN v[n] = Undefined ELSE v[n] \in Int
    BY <2>7
  <2> DEFINE s == Power(Period, m - f)
  <2>13. Rma(v)[m] * s \in (WilderSum(v, f, m) - (Period - 1) * s)..WilderSum(v, f, m)
    BY <1>0, <2>8, <2>9, <2>12, RmaNearWilder
  <2> QED
    BY <2>10, <2>11, <2>13
<1> QED
  BY <1>2, <1>3, Zenon DEF m, moved, f, index

-----------------------------------------------------------------------------
(* Every calculator matches its definition.                                 *)

HistoryInv == history \in Seq(Candles) /\ Len(history) <= MaxHistory

LEMMA HistoryBars ==
    ASSUME history \in Seq(Candles)
    PROVE  /\ Len(history) \in Nat /\ DOMAIN history = 1..Len(history)
           /\ \A n \in 1..Len(history) : history[n].close \in Int
<1>1. \A n \in 1..Len(history) : history[n].close \in Int
  BY BarFacts
<1> QED
  BY <1>1

LEMMA InRange ==
    ASSUME HistoryInv
    PROVE  IndicatorsInRange
<1>0. history \in Seq(Candles) /\ Len(history) <= MaxHistory
  BY DEF HistoryInv
<1>1. ASSUME Len(history) > Period PROVE Rsi(history) \in 0..(100 * Unit)
  <2> DEFINE m == Len(history) - 1
  <2>1. m \in Nat \ {0} /\ Len(history) = m + 1
    BY <1>0, <1>1, HistoryBars, PeriodFacts
  <2>2. \A n \in 1..(m + 1) : history[n].close \in Int
    BY <1>0, <2>1, HistoryBars
  <2> HIDE DEF m
  <2> DEFINE g == Rma(Gains(history))[m]
             l == Rma(Losses(history))[m]
  <2>3. Rsi(history) = Ratio(g, l) /\ g \in Nat /\ l \in Int /\ -l \in Nat
    BY <2>1, <2>2, RsiParts
  <2> HIDE DEF g, l
  <2>4. Ratio(g, l) \in 0..(100 * Unit)
    BY <2>3, RatioRange
  <2> QED
    BY <2>3, <2>4
<1>2. ASSUME Len(history) > Period PROVE Atr(history) >= 0
  <2>1. Len(history) # 0 /\ Period <= Len(history)
    BY <1>0, <1>2, PeriodFacts
  <2>2. PICK i, j \in 1..Len(history) : \A n \in 1..Len(history) :
            /\ TrueRange(history, i) <= TrueRange(history, n)
            /\ TrueRange(history, n) <= TrueRange(history, j)
    BY <1>0, <2>1, TrueRangesBetween
  <2> DEFINE lo == TrueRange(history, i)
             hi == TrueRange(history, j)
  <2>3. lo \in Nat /\ hi \in Nat /\ lo \in Int /\ hi \in Int
    BY <1>0, TrueRangeNat
  <2>4. \A n \in 1..Len(history) : lo <= TrueRange(history, n) /\ TrueRange(history, n) <= hi
    BY <2>2
  <2> HIDE DEF lo, hi
  <2>5. Atr(history) \in lo..hi
    BY <1>0, <2>1, <2>3, <2>4, AtrBetween
  <2> QED
    BY <2>3, <2>5
<1>3. ASSUME Len(history) >= 2 * Period
      PROVE  Adx(history) \in 0..(100 * Unit) \cup {Undefined}
  <2>1. 2 * Period <= Len(history)
    BY <1>0, <1>3, PeriodFacts
  <2> QED
    BY <1>0, <2>1, AdxIs
<1> QED
  BY <1>0, <1>1, <1>2, <1>3 DEF IndicatorsInRange

LEMMA EmaMatches ==
    ASSUME HistoryInv
    PROVE  EmaIsWeightedMean
<1>0. history \in Seq(Candles) /\ Len(history) <= MaxHistory
  BY DEF HistoryInv
<1>1. CASE ~(Len(history) >= EmaPeriod)
  BY <1>1 DEF EmaIsWeightedMean
<1>2. CASE Len(history) >= EmaPeriod
  <2>1. EmaPeriod <= Len(history)
    BY <1>0, <1>2, EmaFacts
  <2> DEFINE k == Len(history) - EmaPeriod
  <2>2. Ema(history) * EmaPeriod * Power(EmaPeriod + 1, k)
          = SumTo(Closes(history), EmaPeriod) * Power(EmaPeriod - 1, k)
            + EmaPeriod * SumTo(LaterTerms(history, k), k)
    BY <1>0, <2>1, EmaIsWeighted
  <2> QED
    BY <2>2, Zenon DEF EmaIsWeightedMean, LaterTerms
<1> QED
  BY <1>1, <1>2

LEMMA AtrMatches ==
    ASSUME HistoryInv
    PROVE  AtrIsWildersAverage
<1>0. history \in Seq(Candles) /\ Len(history) <= MaxHistory
  BY DEF HistoryInv
<1>1. CASE ~(Len(history) > Period)
  BY <1>1 DEF AtrIsWildersAverage
<1>2. CASE Len(history) > Period
  <2>1. Period <= Len(history)
    BY <1>0, <1>2, PeriodFacts
  <2>2. Atr(history) * Period * Power(Period, Len(history) - Period)
          = WilderSum(AtrTerms(history), Period, Len(history))
    BY <1>0, <2>1, AtrIsWilder
  <2> QED
    BY <2>2, Zenon DEF AtrIsWildersAverage, AtrTerms, Moved, MoveHigh, MoveLow
<1> QED
  BY <1>1, <1>2

LEMMA RsiShareMatches ==
    ASSUME HistoryInv
    PROVE  RsiIsWildersShare
<1>0. history \in Seq(Candles) /\ Len(history) <= MaxHistory
  BY DEF HistoryInv
<1>1. CASE ~(Len(history) > Period)
  BY <1>1 DEF RsiIsWildersShare
<1>2. CASE Len(history) > Period
  <2>1. Len(history) > 1
    BY <1>0, <1>2, PeriodFacts
  <2> DEFINE last == Len(history) - 1
             gain == WilderSum(Rose(history), 1, last)
             loss == WilderSum(Fell(history), 1, last)
  <2>2. Rsi(history) = Percent(gain, gain + loss)
    BY <1>0, <2>1, RsiIsWilder
  <2> QED
    BY <2>2, Zenon DEF RsiIsWildersShare, Rose, Fell
<1> QED
  BY <1>1, <1>2

LEMMA RsiMatches ==
    ASSUME HistoryInv
    PROVE  RsiMirrors
<1>0. history \in Seq(Candles) /\ Len(history) <= MaxHistory
  BY DEF HistoryInv
<1>1. CASE ~(Len(history) > Period)
  BY <1>1 DEF RsiMirrors
<1>2. CASE Len(history) > Period
  <2> DEFINE m == Len(history) - 1
             highs == { history[n].high : n \in DOMAIN history }
             top == Max(highs)
             mirror == [n \in DOMAIN history |->
                          [ high |-> top - history[n].low, low |-> top - history[n].high,
                            close |-> top - history[n].close ]]
             flat == \A n \in DOMAIN history : history[n].close = history[1].close
  <2>1. m \in Nat \ {0} /\ Len(history) = m + 1 /\ m + 1 <= MaxHistory /\ m + 1 \in Nat \ {0}
    BY <1>0, <1>2, HistoryBars, PeriodFacts
  <2>2. DOMAIN history = 1..(m + 1)
    BY <1>0, <2>1, HistoryBars
  <2>3. \A n \in 1..(m + 1) : /\ history[n].high \in Int /\ history[n].low \in Int
                              /\ history[n].close \in Int
    BY <1>0, <2>1, BarFacts
  <2> HIDE DEF m
  <2>4. top \in Int
    <3> DEFINE f == [n \in 1..(m + 1) |-> history[n].high]
    <3>1. \A n \in 1..(m + 1) : f[n] \in Int /\ f[n] = history[n].high
      BY <2>3
    <3> HIDE DEF f
    <3>2. PICK i, j \in 1..(m + 1) : \A n \in 1..(m + 1) : f[i] <= f[n] /\ f[n] <= f[j]
      <4>1. \A n \in 1..(m + 1) : f[n] \in Int
        BY <3>1
      <4> DEFINE k == m + 1
      <4>2. k \in Nat \ {0} /\ \A n \in 1..k : f[n] \in Int
        BY <2>1, <4>1
      <4> HIDE DEF k
      <4>3. \E i, j \in 1..k : \A n \in 1..k : f[i] <= f[n] /\ f[n] <= f[j]
        BY <4>2, ExtremesExist
      <4> QED
        BY <4>3 DEF k
    <3> DEFINE x == history[j].high
    <3>3. highs \subseteq Int /\ x \in highs /\ x \in Int /\ \A y \in highs : y <= x
      BY <2>2, <2>3, <3>1, <3>2
    <3> HIDE DEF highs, x
    <3>4. Max(highs) = x
      BY <3>3, MaxIs
    <3> QED
      BY <3>3, <3>4
  <2> HIDE DEF top
  <2>5. \A n \in 1..(m + 1) : mirror[n].close = top - history[n].close
    BY <2>2
  <2>6. Len(mirror) = m + 1
    <3> DEFINE Bar == [high: Int, low: Int, close: Int]
    <3>1. mirror \in [1..(m + 1) -> Bar]
      BY <2>2, <2>3, <2>4
    <3> HIDE DEF mirror, Bar
    <3>2. m + 1 \in Nat
      BY <2>1
    <3> QED
      BY <3>1, <3>2, LenIs
  <2> HIDE DEF mirror
  <2>7. \A n \in 1..(m + 1) : /\ history[n].close \in Int
                              /\ mirror[n].close = top - history[n].close
    BY <2>3, <2>5
  <2>8. Rsi(history) + Rsi(mirror) \in
            IF \A n \in 1..(m + 1) : history[n].close = history[1].close THEN {0}
            ELSE {100 * Unit - 1, 100 * Unit}
    BY <2>1, <2>4, <2>6, <2>7, RsiOfMirror
  <2>9. Rsi(history) + Rsi(mirror) \in IF flat THEN {0} ELSE {100 * Unit - 1, 100 * Unit}
    BY <2>2, <2>8, Zenon
  <2> QED
    BY <2>9, Zenon DEF RsiMirrors, mirror, top
<1> QED
  BY <1>1, <1>2

LEMMA AdxMatches ==
    ASSUME HistoryInv
    PROVE  AdxIsWildersAverage
<1>0. history \in Seq(Candles) /\ Len(history) <= MaxHistory
  BY DEF HistoryInv
<1>1. CASE ~(Len(history) >= 2 * Period)
  BY <1>1 DEF AdxIsWildersAverage
<1>2. CASE Len(history) >= 2 * Period
  <2>1. 2 * Period <= Len(history)
    BY <1>0, <1>2, PeriodFacts
  <2> DEFINE moved == MovedSince(history)
             first == Min(moved)
             scale == Power(Period, Len(history) - first)
             exact == WilderSum(Indexes(history), first, Len(history))
  <2>2. /\ Adx(history) = Undefined <=> moved = {}
        /\ moved # {} => Adx(history) * scale \in (exact - (Period - 1) * scale)..exact
    BY <1>0, <2>1, AdxIsWilder
  <2> QED
    BY <2>2, Zenon DEF AdxIsWildersAverage, MovedSince, Indexes, Pluses, Minuses, Ups, Downs
<1> QED
  BY <1>1, <1>2

\* However long the history and whatever the periods, the calculators of
\* indicators/calculators.py compute what their names promise: values on their scales, the
\* EMA as the weighted mean of its textbook, the ATR as Wilder's average of the moves, the
\* RSI as the share of the averaged gains, the ADX as Wilder's average of the directional
\* indexes up to the rounding of its steps and missing only where the price never moved, a
\* band as wide as the closes are apart.  The two RSI of a market and of its mirror image add
\* up to 100.
THEOREM CalculatorsAgree == HistorySpec => []IndicatorsMatchTheirDefinitions
<1>1. HistoryInit => HistoryInv
  BY IndicatorAssumption DEF HistoryInit, HistoryInv
<1>2. HistoryInv /\ [HistoryNext]_history => HistoryInv'
  <2> SUFFICES ASSUME HistoryInv, [HistoryNext]_history PROVE HistoryInv'
    OBVIOUS
  <2>1. CASE HistoryNext
    <3>1. PICK c \in Candles : history' = Append(history, c)
      BY <2>1 DEF HistoryNext
    <3>2. Len(history) < MaxHistory /\ MaxHistory \in Nat
      BY <2>1, IndicatorAssumption DEF HistoryNext
    <3> QED
      BY <3>1, <3>2 DEF HistoryInv
  <2>2. CASE UNCHANGED history
    BY <2>2 DEF HistoryInv
  <2> QED
    BY <2>1, <2>2
<1>3. HistoryInv => IndicatorsMatchTheirDefinitions
  <2> SUFFICES ASSUME HistoryInv PROVE IndicatorsMatchTheirDefinitions
    OBVIOUS
  <2>1. BandWidthFollowsTheRange
    BY BandWidthIs DEF HistoryInv
  <2> QED
    BY <2>1, InRange, EmaMatches, AtrMatches, RsiShareMatches, RsiMatches, AdxMatches
       DEF IndicatorsMatchTheirDefinitions
<1> QED
  BY <1>1, <1>2, <1>3, PTL DEF HistorySpec
-----------------------------------------------------------------------------
(***************************************************************************)
(* The replay.  The broker and the risk manager are those of PaperBroker    *)
(* and RiskManager, whose lemmas are cited: a fill of an approved buy, and  *)
(* the limits an approval respects.                                         *)
(***************************************************************************)

P == INSTANCE PaperBroker_proofs WITH
        Accounts <- {Account}, Instruments <- {Instrument}, DecisionIds <- IntentIds,
        OpeningCash <- InitialCash, Approvals <- {}, Prices <- {}

StoredQuotes == {StoredQuote(k, p) : k \in QuoteIds, p \in QuotedPrices}

Contexts == [ positionCash: Nat, drawdown: Nat, dailyLoss: {0}, edge: {0},
              divergence: {Missing}, cooldown: {FALSE}, noTrade: {FALSE}, event: {NoEvent} ]

R == INSTANCE RiskManager_proofs WITH
        Intents <- IntentIds, Requested <- [n \in IntentIds |-> OrderCash],
        QuoteRows <- StoredQuotes, Listings <- {ReplayListing},
        Balances <- Nat, MaxTime <- BarCount + Latency,
        now <- EvaluatedAt, available <- wallet[Account], listing <- ReplayListing

-----------------------------------------------------------------------------
(* The invariant *)

\* Where the replay is: a point for each bar so far, at most one intent of each.
PlaceSound ==
    /\ pc \in {"strategy", "risk", "execute", "point", "done", "aborted"}
    /\ bar \in 1..(BarCount + 1) /\ (pc = "done" <=> bar = BarCount + 1)
    /\ Len(curve) = bar
    /\ intents \in Seq([bar: 1..BarCount, cash: Nat \ {0}])
    /\ Len(intents) <= bar /\ (pc \in {"strategy", "done"} => Len(intents) < bar)
    /\ \A n \in 1..Len(intents) : intents[n].bar <= bar
    /\ pc \in {"risk", "execute", "aborted"} =>
          intents # <<>> /\ intents[Len(intents)].bar = bar
    /\ unfilled \subseteq 1..BarCount

\* The stored quotes are the ones of the start, and no decision is of another account.
RowsStand ==
    /\ DOMAIN quote = QuoteIds
    /\ \A k \in QuoteIds :
          quote[k] = NoQuote \/ \E p \in QuotedPrices : quote[k] = StoredQuote(k, p)
    /\ decision \in [IntentIds -> P!DecisionRow \cup {NoDecision}]

\* Each order is of an intent, no intent about to be ordered has one, and each was
\* made in a bar that followed no deep drawdown.
OrdersSound ==
    /\ Len(orders) = Len(trades)
    /\ \A n \in 1..Len(orders) :
          /\ orders[n].decision \in 1..Len(intents)
          /\ curve[intents[orders[n].decision].bar].drawdown <= MaxDrawdown
          /\ pc \in {"risk", "execute", "aborted"} => orders[n].decision # Len(intents)

\* The decision about to be executed, or that was refused.
LastDecided ==
    pc \in {"execute", "aborted"} =>
        LET n   == Len(intents)
            row == decision[n]
            q   == quote[row.quote]
        IN  /\ row # NoDecision /\ row.outcome \in {"approve", "reduce"}
            /\ row.account = Account /\ row.instrument = Instrument
            /\ row.quantity \in Nat \ {0}
            /\ row.quote \in QuoteIds /\ q # NoQuote /\ q.sell > 0
            /\ intents[n].bar = bar /\ curve[bar].drawdown <= MaxDrawdown
            /\ SizedCash(row.quantity, q) \in Nat
            /\ PositionValue + SizedCash(row.quantity, q) <= MaxPositionCash
            /\ SizedCash(row.quantity, q) <= wallet[Account]
            /\ pc = "aborted" => wallet[Account] < Broker!CostsOf(n, "buy", row.quote).net

\* The highest point so far, and the deepest fall to each point.
CurveSound ==
    /\ curve \in Seq(Point)
    /\ portfolio.drawdown = curve[Len(curve)].drawdown
    /\ portfolio.peak \in Nat /\ portfolio.peak >= InitialCash[Account]
    /\ \A n \in 1..Len(curve) : curve[n].total <= portfolio.peak
    /\ \E n \in 1..Len(curve) : curve[n].total = portfolio.peak
    /\ \A n \in 1..Len(curve) :
          /\ \E m \in 1..n : curve[n].drawdown = Drawdown(curve[m].total, curve[n].total)
          /\ \A m \in 1..n : Drawdown(curve[m].total, curve[n].total) <= curve[n].drawdown

ReplayInv ==
    /\ P!BookTypeOK /\ P!NeverOverdrawn
    /\ PlaceSound /\ RowsStand /\ OrdersSound /\ LastDecided /\ CurveSound

-----------------------------------------------------------------------------

\* The assumptions of PaperBroker and RiskManager hold of the constants of a replay.
LEMMA PartsAssumptions ==
    /\ P!CostAssumption /\ P!BrokerAssumption
    /\ R!CostAssumption /\ R!PolicyAssumption /\ R!ManagerAssumption /\ R!InputAssumption
<1>1. P!CostAssumption /\ R!CostAssumption
  BY CostAssumption DEF P!CostAssumption, R!CostAssumption
<1>2. R!PolicyAssumption
  BY PolicyAssumption DEF R!PolicyAssumption
<1>3. P!DecisionRow = Broker!DecisionRow /\ P!QuoteRow = Broker!QuoteRow
  BY DEF P!DecisionRow, Broker!DecisionRow, P!QuoteRow, Broker!QuoteRow
<1>4. P!BrokerAssumption
  BY <1>3, BacktestAssumption, ReplayRowAssumption DEF P!BrokerAssumption
<1>5. BarCount + Latency \in Nat /\ OrderCash \in Nat \ {0}
  BY BacktestAssumption
<1>6. R!ManagerAssumption
  BY <1>5, BacktestAssumption DEF R!ManagerAssumption
<1>7. ASSUME NEW q \in StoredQuotes
      PROVE  /\ q.observed \in Nat /\ q.sell \in Nat /\ q.buy \in Nat /\ q # NoQuote
             /\ MaxSpread < RateScale \/ q.sell > 0
  <2>1. PICK k \in QuoteIds, p \in QuotedPrices : q = StoredQuote(k, p)
    BY DEF StoredQuotes
  <2>2. p[1] \in Nat /\ p[2] \in Nat /\ k \in Nat
    BY <1>5, BacktestAssumption DEF QuoteIds
  <2> QED
    BY <2>1, <2>2, BacktestAssumption, ReplayRowAssumption DEF StoredQuote
<1>8. \A ctx \in Contexts : ctx.positionCash \in Nat \cup {Missing}
  BY DEF Contexts
<1>9. R!InputAssumption
  BY <1>7, <1>8, ReplayRowAssumption DEF R!InputAssumption
<1> QED
  BY <1>1, <1>2, <1>4, <1>6, <1>9

\* The copies of the operators that the instances bring are the same.
LEMMA SameReplayBroker ==
    ASSUME NEW n, NEW side, NEW k
    PROVE  /\ P!BookTypeOK <=> Broker!BookTypeOK
           /\ P!AlreadyOrdered(n) <=> Broker!AlreadyOrdered(n)
           /\ P!Approved(n) <=> Broker!Approved(n)
           /\ P!QuoteUsable(n, k) <=> Broker!QuoteUsable(n, k)
           /\ P!Affordable(n, side, k) <=> Broker!Affordable(n, side, k)
           /\ P!Fill(n, side, k) <=> Broker!Fill(n, side, k)
           /\ P!CostsOf(n, side, k) = Broker!CostsOf(n, side, k)
<1>0. P!BookTypeOK <=> Broker!BookTypeOK
  BY DEF P!BookTypeOK, Broker!BookTypeOK, P!PositionRow, Broker!PositionRow, P!OrderRow,
         Broker!OrderRow, P!TradeRow, Broker!TradeRow, P!EntryRow, Broker!EntryRow,
         P!EntryKinds, Broker!EntryKinds, P!Sides, Broker!Sides
<1>1. P!CostsOf(n, side, k) = Broker!CostsOf(n, side, k)
  BY DEF P!CostsOf, Broker!CostsOf, P!Costs, Broker!Costs, P!GrossCash, Broker!GrossCash,
         P!Fees, Broker!Fees, P!Taxes, Broker!Taxes, P!NetCash, Broker!NetCash,
         P!ExecutionPrice, Broker!ExecutionPrice, P!HalfUp, Broker!HalfUp
<1>2. /\ \A p, q, net : P!PositionAfterBuy(p, q, net) = Broker!PositionAfterBuy(p, q, net)
      /\ \A p, q, net : P!RealizedPnl(p, q, net) = Broker!RealizedPnl(p, q, net)
      /\ \A m, a, s, c : P!TradeEntries(m, a, s, c) = Broker!TradeEntries(m, a, s, c)
  BY DEF P!PositionAfterBuy, Broker!PositionAfterBuy, P!RealizedPnl, Broker!RealizedPnl,
         P!HalfUp, Broker!HalfUp, P!TradeEntries, Broker!TradeEntries
<1>3. \A p, q, net : P!PositionAfterSell(p, q, net) = Broker!PositionAfterSell(p, q, net)
  BY <1>2, Zenon DEF P!PositionAfterSell, Broker!PositionAfterSell
<1>4. P!Fill(n, side, k) <=> Broker!Fill(n, side, k)
  BY <1>1, <1>2, <1>3, Zenon DEF P!Fill, Broker!Fill
<1>5. P!Affordable(n, side, k) <=> Broker!Affordable(n, side, k)
  BY <1>1, Zenon DEF P!Affordable, Broker!Affordable, P!CostInputsValid, Broker!CostInputsValid,
     P!ExecutionPrice, Broker!ExecutionPrice
<1> QED
  BY <1>0, <1>1, <1>4, <1>5 DEF P!Approved, Broker!Approved, P!QuoteUsable, Broker!QuoteUsable,
     P!AlreadyOrdered, Broker!AlreadyOrdered

\* The risk evaluation of the replay is that of RiskManager.
LEMMA SameReplayPayload ==
    ASSUME NEW requested, NEW there, NEW q, NEW ctx, NEW at
    PROVE  Payload(requested, ReplayListing, Bank, there, q, ctx, at)
              = R!Payload(requested, ReplayListing, Bank, there, q, ctx, at)
<1>1. \A checks : FirstFailure(checks) = R!FirstFailure(checks)
  BY DEF FirstFailure, R!FirstFailure
<1>2. \A e, t : EventAction(e, t) = R!EventAction(e, t)
  BY DEF EventAction, R!EventAction
<1>3. \A c : ContextComplete(c) <=> R!ContextComplete(c)
  BY DEF ContextComplete, R!ContextComplete
<1>4. \A l : ExecutionReason(l) = R!ExecutionReason(l)
  BY <1>1, Zenon DEF ExecutionReason, R!ExecutionReason
<1>5. \A x : SpreadWithin(x) = R!SpreadWithin(x)
  BY DEF SpreadWithin, R!SpreadWithin
<1>6. ASSUME NEW x, NEW c, NEW t PROVE MarketReason(x, c, t) = R!MarketReason(x, c, t)
  <2> DEFINE age == t - x.observed
             checks(spread, action) ==
               << <<x.status = "fresh", "stale_execution_quote">>,
                  <<x.observed <= t, "future_quote">>,
                  <<age <= QuoteFreshness, "stale_execution_quote">>,
                  <<age <= MaxQuoteLag, "stale_execution_quote">>,
                  <<spread, "spread_above_threshold">>,
                  <<c.dailyLoss <= MaxDailyLoss, "daily_loss_limit_breached">>,
                  <<c.drawdown <= MaxDrawdown, "max_drawdown_breached">>,
                  <<~c.cooldown, "cooldown_active">>,
                  <<~c.noTrade, "no_trade_window_active">>,
                  <<action # "veto", "event_risk_veto">>,
                  <<action # "no_trade", "event_risk_no_trade">>,
                  <<\/ MaxDivergence = Missing
                    \/ c.divergence <= MaxDivergence, "source_divergence_above_threshold">>,
                  <<c.edge >= MinEdge, "expected_edge_below_costs">> >>
  <2>1. MarketReason(x, c, t)
           = FirstFailure(checks(SpreadWithin(x), EventAction(c.event, t)))
    BY DEF MarketReason
  <2>2. R!MarketReason(x, c, t)
           = R!FirstFailure(checks(R!SpreadWithin(x), R!EventAction(c.event, t)))
    BY DEF R!MarketReason
  <2> HIDE DEF checks
  <2>3. checks(SpreadWithin(x), EventAction(c.event, t))
           = checks(R!SpreadWithin(x), R!EventAction(c.event, t))
    BY <1>2, <1>5, Zenon
  <2> QED
    BY <1>1, <2>1, <2>2, <2>3, Zenon
<1>7. \A m, c, t : CappedCash(m, c, t) = R!CappedCash(m, c, t)
  BY <1>2 DEF CappedCash, R!CappedCash, Smaller, R!Smaller, Down, R!Down
<1>8. \A m, x, b : SizeFor(m, x, b) = R!SizeFor(m, x, b)
  BY DEF SizeFor, R!SizeFor
<1>9. \A m, x : SizedCash(m, x) = R!SizedCash(m, x)
  BY DEF SizedCash, R!SizedCash, Down, R!Down
<1>10. \A m, t, x, b : SizeReason(m, t, x, b) = R!SizeReason(m, t, x, b)
  <2> DEFINE checks(m, t, b, size, worth) ==
               << <<t >= m, "insufficient_balance">>,
                  <<m >= MinOrderCash, "approved_size_below_min_order">>,
                  <<m >= b.minTrade, "approved_size_below_bank_min_trade">>,
                  <<size > 0, "approved_quantity_below_precision">>,
                  <<worth >= MinOrderCash, "approved_size_below_min_order_after_precision">>,
                  <<worth >= b.minTrade,
                    "approved_size_below_bank_min_trade_after_precision">> >>
  <2>1. ASSUME NEW m, NEW t, NEW x, NEW b
        PROVE  SizeReason(m, t, x, b) = R!SizeReason(m, t, x, b)
    <3> DEFINE size == SizeFor(m, x, b)
               worth == SizedCash(size, x)
    <3>1. SizeReason(m, t, x, b) = FirstFailure(checks(m, t, b, size, worth))
      BY DEF SizeReason
    <3>2. R!SizeReason(m, t, x, b)
            = R!FirstFailure(checks(m, t, b, R!SizeFor(m, x, b), R!SizedCash(R!SizeFor(m, x, b), x)))
      BY DEF R!SizeReason
    <3>3. R!SizeFor(m, x, b) = size /\ R!SizedCash(R!SizeFor(m, x, b), x) = worth
      BY <1>8, <1>9, Zenon
    <3> HIDE DEF checks, size, worth
    <3> QED
      BY <1>1, <3>1, <3>2, <3>3, Zenon
  <2> QED
    BY <2>1
<1>11. \A x : Rejected(x) = R!Rejected(x)
  BY DEF Rejected, R!Rejected
<1> QED
  BY <1>3, <1>4, <1>6, <1>7, <1>8, <1>9, <1>10, <1>11, Zenon DEF Payload, R!Payload

-----------------------------------------------------------------------------

\* The bounds and what an amount of the book may be.
LEMMA ReplayBounds ==
    /\ BarCount \in Nat \ {0} /\ Latency \in Nat /\ DrawdownScale \in Nat \ {0}
    /\ QuantityScale \in Nat \ {0} /\ MaxDrawdown \in Nat /\ MaxPositionCash \in Nat
    /\ InitialCash[Account] \in Nat \ {0} /\ OrderCash \in Nat \ {0}
BY BacktestAssumption, CostAssumption, PolicyAssumption

\* The quote of a bar, when there is one.
LEMMA NewestIs ==
    ASSUME RowsStand, NEW k \in Newest
    PROVE  /\ k \in QuoteIds /\ quote[k] # NoQuote /\ quote[k] \in StoredQuotes
           /\ quote[k].buy \in Nat /\ quote[k].sell \in Nat /\ quote[k].buy <= quote[k].sell
           /\ quote[k].instrument = Instrument
<1>1. k \in QuoteIds /\ quote[k] # NoQuote
  BY DEF Newest, LatestQuotes, RowsStand
<1>2. PICK p \in QuotedPrices : quote[k] = StoredQuote(k, p)
  BY <1>1 DEF RowsStand
<1>3. p[1] \in Nat /\ p[2] \in Nat /\ p[1] <= p[2]
  BY BacktestAssumption
<1> QED
  BY <1>1, <1>2, <1>3 DEF StoredQuotes, StoredQuote

\* What is held is worth a natural number.
LEMMA ValueType ==
    ASSUME P!BookTypeOK, P!NeverOverdrawn, RowsStand
    PROVE  /\ wallet[Account] \in Nat /\ Held.quantity \in Nat /\ PositionValue \in Nat
<1>1. wallet[Account] \in Nat /\ Held.quantity \in Nat
  BY DEF P!BookTypeOK, P!NeverOverdrawn, P!PositionRow, Held
<1>2. CASE Newest = {}
  BY <1>1, <1>2 DEF PositionValue
<1>3. CASE Newest # {}
  <2> DEFINE k == CHOOSE q \in Newest : TRUE
  <2>1. k \in Newest
    BY <1>3
  <2> HIDE DEF k
  <2>2. quote[k].buy \in Nat
    BY <2>1, NewestIs
  <2>3. Held.quantity * quote[k].buy \in Nat /\ QuantityScale \in Nat \ {0}
    BY <1>1, <2>2, ProductNat, ReplayBounds
  <2>4. HalfEven(Held.quantity * quote[k].buy, QuantityScale) \in Nat
    BY <2>3, HalfEvenNat
  <2>5. PositionValue = HalfEven(Held.quantity * quote[k].buy, QuantityScale)
    BY <1>3 DEF PositionValue, k
  <2> QED
    BY <1>1, <2>4, <2>5
<1> QED
  BY <1>2, <1>3

\* A fall is a share of the height it is from.
LEMMA DrawdownType ==
    ASSUME NEW peak \in Nat, NEW total \in Nat, total <= peak
    PROVE  Drawdown(peak, total) \in 0..DrawdownScale
<1>1. CASE peak = 0
  BY <1>1, ReplayBounds DEF Drawdown
<1>2. CASE peak > 0
  <2> DEFINE n == (peak - total) * DrawdownScale
             h == HalfEven(n, peak)
  <2>1. Drawdown(peak, total) = h
    BY <1>2 DEF Drawdown
  <2>2. peak - total \in Nat /\ DrawdownScale \in Nat
    BY ReplayBounds
  <2>3. n \in Nat /\ n <= peak * DrawdownScale
    BY <2>2
  <2> HIDE DEF n
  <2>4. h \in Nat /\ 2 * (peak * h) <= 2 * n + peak
    BY <1>2, <2>3, HalfEvenNear
  <2> HIDE DEF h
  <2>5. h <= DrawdownScale
    <3>1. SUFFICES ASSUME h >= DrawdownScale + 1 PROVE FALSE
      BY <2>2, <2>4
    <3>2. peak * h >= peak * (DrawdownScale + 1)
      BY <2>2, <2>4, <3>1
    <3>3. peak * (DrawdownScale + 1) = peak * DrawdownScale + peak
      BY <2>2
    <3>4. peak * h \in Nat /\ peak * DrawdownScale \in Nat
      BY <2>2, <2>4
    <3> QED
      BY <1>2, <2>3, <2>4, <3>2, <3>3, <3>4
  <2> QED
    BY <2>1, <2>4, <2>5
<1> QED
  BY <1>1, <1>2

\* The higher the fall starts, the deeper it is.
LEMMA DrawdownMonotone ==
    ASSUME NEW low \in Nat, NEW high \in Nat, NEW total \in Nat, low <= high, total <= high
    PROVE  Drawdown(low, total) <= Drawdown(high, total)
<1> DEFINE D == DrawdownScale
<1>0. D \in Nat
  BY ReplayBounds
<1>1. Drawdown(high, total) \in Nat
  BY DrawdownType, ReplayBounds
<1>2. CASE low = 0
  BY <1>1, <1>2 DEF Drawdown
<1>3. CASE low > 0 /\ low < total
  <2> DEFINE n == (total - low) * D
             h == HalfEven(-n, low)
  <2>1. n \in Nat /\ (low - total) * D = -n
    BY <1>0, <1>3
  <2> HIDE DEF n
  <2>2. h \in Int /\ h <= 0
    <3>1. -n \in Int /\ -n <= 0 /\ low \in Nat \ {0}
      BY <1>3, <2>1
    <3> QED
      BY <3>1, HalfEvenParts
  <2>3. Drawdown(low, total) = h
    BY <1>3, <2>1 DEF Drawdown
  <2> HIDE DEF h
  <2> QED
    BY <1>1, <2>2, <2>3
<1>4. CASE low > 0 /\ total <= low
  <2> DEFINE n == (low - total) * D
             m == (high - total) * D
             a == HalfEven(n, low)
             b == HalfEven(m, high)
  <2>1. Drawdown(low, total) = a /\ Drawdown(high, total) = b
    BY <1>4 DEF Drawdown
  <2>2. n \in Nat /\ m \in Nat
    BY <1>0, <1>4
  <2>3. low * m - high * n = (high - low) * total * D
    BY <1>0
  <2>4. (high - low) * total * D \in Nat
    BY <1>0
  <2> HIDE DEF n, m
  <2>5. /\ a \in Nat /\ 2 * (low * a) <= 2 * n + low
        /\ b \in Nat /\ 2 * (high * b) >= 2 * m - high
        /\ 2 * (low * a) = 2 * n + low => a % 2 = 0
        /\ 2 * (high * b) = 2 * m - high => b % 2 = 0
    <3>1. low \in Nat \ {0} /\ high \in Nat \ {0}
      BY <1>4
    <3> QED
      BY <2>2, <3>1, HalfEvenNear, HalfEvenParts
  <2> HIDE DEF a, b
\* If a were more than b, both falls would be ties, a the even number above its fall
\* and b, one less, the even number below its own.
  <2>6. SUFFICES ASSUME a >= b + 1 PROVE FALSE
    BY <2>1, <2>5
  <2>7. high * a >= high * b + high /\ high * a \in Nat /\ high * b \in Nat
    BY <2>5, <2>6
  <2>8. 2 * (high * a) >= 2 * m + high
    BY <2>2, <2>5, <2>7
  <2>9. /\ low * (2 * (high * a)) >= low * (2 * m + high)
        /\ low * (2 * (high * a)) = low * (2 * m + high) => 2 * (high * a) = 2 * m + high
    <3> DEFINE x == 2 * (high * a)
               y == 2 * m + high
    <3>1. x \in Int /\ y \in Int /\ x >= y
      BY <2>2, <2>5, <2>8
    <3> HIDE DEF x, y
    <3>2. low * x >= low * y /\ (low * x = low * y => x = y)
      BY <1>4, <3>1
    <3> QED
      BY <3>2 DEF x, y
  <2>10. /\ high * (2 * (low * a)) <= high * (2 * n + low)
         /\ high * (2 * (low * a)) = high * (2 * n + low) => 2 * (low * a) = 2 * n + low
    <3> DEFINE x == 2 * (low * a)
               y == 2 * n + low
    <3>1. x \in Int /\ y \in Int /\ x <= y
      BY <2>2, <2>5
    <3> HIDE DEF x, y
    <3>2. high * x <= high * y /\ (high * x = high * y => x = y)
      BY <1>4, <3>1
    <3> QED
      BY <3>2 DEF x, y
  <2>11. low * (2 * (high * a)) = high * (2 * (low * a))
    BY <2>5
  <2>12. /\ low * (2 * m + high) = 2 * (low * m) + low * high
         /\ high * (2 * n + low) = 2 * (high * n) + low * high
    BY <2>2
  <2>13. low * m >= high * n
    <3>1. low * m \in Int /\ high * n \in Int
      BY <2>2
    <3> QED
      BY <2>3, <2>4, <3>1
  <2>14. /\ low * m \in Nat /\ high * n \in Nat /\ low * high \in Nat
         /\ high * (2 * (low * a)) \in Nat
    BY <2>2, <2>5
  <2>15. 2 * (high * a) = 2 * m + high /\ 2 * (low * a) = 2 * n + low
    BY <2>9, <2>10, <2>11, <2>12, <2>13, <2>14
  <2>16. high * b = high * a - high
    BY <2>2, <2>5, <2>7, <2>15
  <2>17. b = a - 1
    <3>1. high * (a - 1) = high * a - high
      BY <2>5
    <3> QED
      BY <1>4, <2>5, <2>16, <3>1
  <2>18. a % 2 = 0 /\ b % 2 = 0
    BY <2>2, <2>5, <2>7, <2>15, <2>16
  <2> QED
    BY <2>5, <2>17, <2>18
<1> QED
  BY <1>2, <1>3, <1>4

-----------------------------------------------------------------------------
(* The steps *)

\* What an approved intent of the replay may cost.
LEMMA ReplayPayload ==
    ASSUME ReplayInv, NEW requested \in Nat \ {0}, NEW k \in QuoteIds, quote[k] \in StoredQuotes,
           NEW at \in Nat, NEW p,
           p = Payload(requested, ReplayListing, Bank, wallet[Account], quote[k], ReplayContext, at)
    PROVE  /\ p.outcome \in {"approve", "reduce", "reject"} /\ p.quantity \in Nat
           /\ p.outcome # "reject" =>
                 /\ p.quantity > 0 /\ quote[k].sell > 0
                 /\ SizedCash(p.quantity, quote[k]) \in Nat
                 /\ SizedCash(p.quantity, quote[k]) <= wallet[Account]
                 /\ PositionValue + SizedCash(p.quantity, quote[k]) <= MaxPositionCash
                 /\ portfolio.drawdown <= MaxDrawdown
<1>1. /\ wallet[Account] \in Nat /\ PositionValue \in Nat
      /\ portfolio.drawdown \in Nat
  <2>1. portfolio.drawdown \in Nat
    <3>1. portfolio.drawdown = curve[Len(curve)].drawdown /\ curve \in Seq(Point)
          /\ Len(curve) = bar /\ bar \in 1..(BarCount + 1)
      BY DEF ReplayInv, CurveSound, PlaceSound
    <3>2. curve[Len(curve)] \in Point
      BY <3>1, ReplayBounds
    <3> QED
      BY <3>1, <3>2, ReplayBounds DEF Point
  <2> QED
    BY <2>1, ValueType DEF ReplayInv
<1>2. /\ ReplayContext \in Contexts
      /\ ReplayContext.positionCash = PositionValue
      /\ ReplayContext.drawdown = portfolio.drawdown
  BY <1>1 DEF ReplayContext, Contexts
<1>3. p = R!Payload(requested, ReplayListing, Bank, wallet[Account], quote[k], ReplayContext, at)
  BY SameReplayPayload
<1> DEFINE q == quote[k]
           there == wallet[Account]
           ctx == ReplayContext
<1>4. q \in StoredQuotes \cup {NoQuote}
  OBVIOUS
<1> HIDE DEF q, ctx, there
<1>5. /\ p.outcome \in {"approve", "reduce", "reject"} /\ p.quantity \in Nat
      /\ p.cash \in Nat
      /\ p.outcome # "reject" =>
            /\ p.quantity > 0 /\ q.sell > 0 /\ ctx.drawdown <= MaxDrawdown
            /\ ctx.positionCash + p.cash <= MaxPositionCash
            /\ there \in Nat => p.cash <= there
  BY <1>2, <1>3, <1>4, PartsAssumptions, R!PayloadWithinLimits DEF q, ctx, there
<1>6. p.outcome # "reject" => p.cash = SizedCash(p.quantity, q)
  BY DEF Payload, Rejected, q
<1> QED
  BY <1>1, <1>2, <1>5, <1>6 DEF q, ctx, there

\* A replay starts sound.
LEMMA ReplayInitial == BacktestInit => ReplayInv
<1> SUFFICES ASSUME BacktestInit PROVE ReplayInv
  OBVIOUS
<1>1. P!BookTypeOK /\ P!NeverOverdrawn
  <2>1. P!BookInit
    BY DEF BacktestInit, Broker!BookInit, P!BookInit, Broker!EmptyPosition, P!EmptyPosition
  <2>2. InitialCash \in [{Account} -> Nat]
    BY BacktestAssumption
  <2> QED
    BY <2>1, <2>2 DEF P!BookInit, P!BookTypeOK, P!NeverOverdrawn, P!EmptyPosition, P!PositionRow
<1>2. orders = <<>> /\ trades = <<>>
  BY DEF BacktestInit, Broker!BookInit
<1> DEFINE start == [total |-> InitialCash[Account], drawdown |-> 0]
<1>3. /\ curve = <<start>> /\ start \in Point /\ Len(curve) = 1 /\ curve[1] = start
  BY ReplayBounds DEF BacktestInit, Point
<1>4. PlaceSound
  BY <1>3, ReplayBounds DEF BacktestInit, PlaceSound
<1>5. RowsStand
  BY DEF BacktestInit, RowsStand
<1>6. OrdersSound /\ LastDecided
  BY <1>2 DEF BacktestInit, OrdersSound, LastDecided
<1>7. CurveSound
  <2>1. Drawdown(InitialCash[Account], InitialCash[Account]) = 0
    <3>1. /\ InitialCash[Account] \in Nat \ {0}
          /\ (InitialCash[Account] - InitialCash[Account]) * DrawdownScale = 0
      BY ReplayBounds
    <3> DEFINE c == InitialCash[Account]
    <3>2. c \in Nat \ {0}
      BY <3>1
    <3> HIDE DEF c
    <3>3. HalfEven(0, c) = 0
      <4> DEFINE z == 0
      <4>1. z \in Int /\ z <= 0 /\ z >= 0
        OBVIOUS
      <4> HIDE DEF z
      <4>2. HalfEven(z, c) \in Int /\ HalfEven(z, c) <= 0 /\ HalfEven(z, c) >= 0
        BY <3>2, <4>1, HalfEvenParts
      <4> QED
        BY <4>2 DEF z
    <3> QED
      BY <3>1, <3>3 DEF Drawdown, c
  <2>2. portfolio = [peak |-> InitialCash[Account], drawdown |-> 0]
    BY DEF BacktestInit
  <2> QED
    BY <1>3, <2>1, <2>2, ReplayBounds DEF CurveSound
<1> QED
  BY <1>1, <1>4, <1>5, <1>6, <1>7 DEF ReplayInv

\* The book is well typed as long as it stands.
LEMMA BookStands ==
    ASSUME ReplayInv, UNCHANGED book
    PROVE  P!BookTypeOK' /\ P!NeverOverdrawn'
BY DEF ReplayInv, book, P!BookTypeOK, P!NeverOverdrawn

\* A run of the strategy keeps the invariant.
LEMMA StrategyKeeps == ASSUME ReplayInv, NEW signal \in BOOLEAN, RunStrategy(signal) PROVE ReplayInv'
<1>1. /\ pc = "strategy" /\ bar <= BarCount
      /\ UNCHANGED <<bar, quote, book, decision, portfolio, curve>>
  BY DEF RunStrategy
<1>2. /\ intents \in Seq([bar: 1..BarCount, cash: Nat \ {0}]) /\ Len(intents) < bar
      /\ bar \in 1..(BarCount + 1) /\ unfilled \subseteq 1..BarCount
      /\ \A n \in 1..Len(intents) : intents[n].bar <= bar
  BY <1>1 DEF ReplayInv, PlaceSound
<1> DEFINE new == [bar |-> bar, cash |-> OrderCash]
<1>3. bar \in 1..BarCount /\ new \in [bar: 1..BarCount, cash: Nat \ {0}]
  BY <1>1, <1>2, ReplayBounds
<1>4. \/ signal /\ intents' = Append(intents, new) /\ pc' = "risk" /\ unfilled' = unfilled
      \/ ~signal /\ intents' = intents /\ pc' = "point" /\ unfilled' = unfilled \cup {bar}
  BY DEF RunStrategy
<1>5. /\ intents' \in Seq([bar: 1..BarCount, cash: Nat \ {0}])
      /\ Len(intents) <= Len(intents') /\ Len(intents') <= bar
      /\ \A n \in 1..Len(intents) : intents'[n] = intents[n]
      /\ \A n \in 1..Len(intents') : intents'[n].bar <= bar
      /\ signal => Len(intents') = Len(intents) + 1 /\ intents'[Len(intents')] = new
  <2> HIDE DEF new
  <2>1. CASE signal
    <3>1. new.bar = bar
      BY DEF new
    <3> DEFINE Rows == [bar: 1..BarCount, cash: Nat \ {0}]
    <3>2. intents \in Seq(Rows) /\ new \in Rows /\ intents' = Append(intents, new)
      BY <1>2, <1>3, <1>4, <2>1
    <3>3. \A n \in 1..Len(intents) : intents[n].bar <= bar
      BY <1>2
    <3>4. Len(intents) < bar /\ bar \in Int
      BY <1>2
    <3> HIDE DEF Rows
    <3>5. /\ intents' \in Seq(Rows) /\ Len(intents') = Len(intents) + 1
          /\ \A n \in 1..Len(intents) : intents'[n] = intents[n]
          /\ intents'[Len(intents) + 1] = new /\ Len(intents) \in Nat
      BY <3>2
    <3>6. \A n \in 1..Len(intents') : n \in 1..Len(intents) \/ n = Len(intents) + 1
      BY <3>5
    <3>7. \A n \in 1..Len(intents') : intents'[n].bar <= bar
      BY <3>1, <3>3, <3>4, <3>5, <3>6
    <3> QED
      BY <3>4, <3>5, <3>7 DEF Rows
  <2>2. CASE ~signal
    BY <1>2, <1>4, <2>2
  <2> QED
    BY <2>1, <2>2
<1>6. Len(intents) \in Nat
  BY <1>2
<1>7. PlaceSound'
  <2>1. Len(curve') = bar /\ bar' = bar /\ unfilled' \subseteq 1..BarCount
    BY <1>1, <1>2, <1>3, <1>4 DEF ReplayInv, PlaceSound
  <2>2. pc' = "risk" => intents' # <<>> /\ intents'[Len(intents')].bar = bar
    <3>1. pc' = "risk" => Len(intents') = Len(intents) + 1 /\ intents'[Len(intents')] = new
      BY <1>4, <1>5
    <3> QED
      BY <1>6, <3>1
  <2>3. pc' \in {"risk", "point"} /\ bar # BarCount + 1
    BY <1>1, <1>2, <1>4, ReplayBounds
  <2> HIDE DEF new
  <2> QED
    BY <1>2, <1>5, <2>1, <2>2, <2>3 DEF PlaceSound
<1>8. RowsStand' /\ CurveSound'
  BY <1>1 DEF ReplayInv, RowsStand, CurveSound
<1>9. OrdersSound'
  <2>1. UNCHANGED <<orders, trades, curve>>
    BY <1>1 DEF book
  <2>2. ASSUME NEW n \in 1..Len(orders)
        PROVE  /\ orders[n].decision \in 1..Len(intents')
               /\ curve[intents'[orders[n].decision].bar].drawdown <= MaxDrawdown
               /\ pc' = "risk" => orders[n].decision # Len(intents')
    <3>1. /\ orders[n].decision \in 1..Len(intents)
          /\ curve[intents[orders[n].decision].bar].drawdown <= MaxDrawdown
      BY DEF ReplayInv, OrdersSound
    <3>2. intents'[orders[n].decision] = intents[orders[n].decision]
      BY <1>5, <3>1
    <3>3. pc' = "risk" => Len(intents') = Len(intents) + 1
      BY <1>4, <1>5
    <3>4. orders[n].decision \in 1..Len(intents')
      BY <1>5, <1>6, <3>1
    <3>5. pc' = "risk" => orders[n].decision # Len(intents')
      BY <1>6, <3>1, <3>3
    <3> QED
      BY <3>1, <3>2, <3>4, <3>5
  <2>3. pc' \in {"risk", "point"}
    BY <1>4
  <2> QED
    BY <2>1, <2>2, <2>3 DEF ReplayInv, OrdersSound
<1>10. LastDecided'
  BY <1>4 DEF LastDecided
<1> QED
  BY <1>1, <1>7, <1>8, <1>9, <1>10, BookStands DEF ReplayInv

\* A decision of the risk manager keeps the invariant.
LEMMA ReplayRiskKeeps == ASSUME ReplayInv, ReplayRisk PROVE ReplayInv'
<1> DEFINE n == Len(intents)
           k == IF Newest = {} THEN NoQuote ELSE CHOOSE q \in Newest : TRUE
           p == Payload(intents[n].cash, ReplayListing, Bank, wallet[Account],
                        IF k = NoQuote THEN NoQuote ELSE quote[k], ReplayContext, EvaluatedAt)
           row == [ account |-> Account, instrument |-> Instrument,
                    outcome |-> p.outcome, quantity |-> p.quantity, quote |-> k ]
<1>1. /\ pc = "risk" /\ decision' = [decision EXCEPT ![n] = row]
      /\ \/ p.outcome = "reject" /\ unfilled' = unfilled \cup {bar} /\ pc' = "point"
         \/ p.outcome # "reject" /\ unfilled' = unfilled /\ pc' = "execute"
      /\ UNCHANGED <<bar, quote, book, intents, portfolio, curve>>
  BY DEF ReplayRisk
<1>2. /\ intents \in Seq([bar: 1..BarCount, cash: Nat \ {0}]) /\ intents # <<>>
      /\ Len(intents) <= bar /\ intents[n].bar = bar /\ unfilled \subseteq 1..BarCount
      /\ bar \in 1..BarCount /\ Len(curve) = bar
      /\ \A m \in 1..Len(intents) : intents[m].bar <= bar
  BY <1>1, ReplayBounds DEF ReplayInv, PlaceSound
<1>3. n \in 1..Len(intents) /\ n \in IntentIds /\ intents[n].cash \in Nat \ {0}
  <2>1. Len(intents) \in Nat /\ Len(intents) # 0
    BY <1>2
  <2>2. bar \in Nat /\ bar <= BarCount /\ BarCount \in Nat
    BY <1>2, ReplayBounds
  <2>3. n \in 1..Len(intents) /\ n \in 1..BarCount
    BY <1>2, <2>1, <2>2
  <2>4. intents[n].cash \in Nat \ {0}
    <3> DEFINE S == [bar: 1..BarCount, cash: Nat \ {0}]
    <3>1. \A x \in S : x.cash \in Nat \ {0}
      OBVIOUS
    <3>2. intents \in Seq(S)
      BY <1>2
    <3> HIDE DEF S
    <3>3. intents[n] \in S
      BY <2>3, <3>2
    <3> QED
      BY <3>1, <3>3
  <2> QED
    BY <2>3, <2>4 DEF IntentIds
<1>4. EvaluatedAt \in Nat
  BY <1>2, ReplayBounds DEF EvaluatedAt
<1>5. decision \in [IntentIds -> P!DecisionRow \cup {NoDecision}] /\ RowsStand
  BY DEF ReplayInv, RowsStand
<1>6. NoQuote \notin QuoteIds /\ NoDecision \notin P!DecisionRow
  BY ReplayRowAssumption DEF P!DecisionRow, Broker!DecisionRow
<1> HIDE DEF n
<1>7. /\ p.outcome \in {"approve", "reduce", "reject"} /\ p.quantity \in Nat
      /\ k \in QuoteIds \cup {NoQuote}
      /\ p.outcome # "reject" =>
            /\ k \in QuoteIds /\ quote[k] # NoQuote
            /\ p.quantity > 0 /\ quote[k].sell > 0
            /\ SizedCash(p.quantity, quote[k]) \in Nat
            /\ SizedCash(p.quantity, quote[k]) <= wallet[Account]
            /\ PositionValue + SizedCash(p.quantity, quote[k]) <= MaxPositionCash
            /\ portfolio.drawdown <= MaxDrawdown
  <2>1. CASE Newest = {}
    <3>1. p.outcome = "reject" /\ p.quantity = 0 /\ k = NoQuote
      BY <2>1 DEF Payload, Rejected
    <3> QED
      BY <3>1
  <2>2. CASE Newest # {}
    <3>1. k \in Newest
      BY <2>2
    <3> DEFINE r == Payload(intents[n].cash, ReplayListing, Bank, wallet[Account], quote[k],
                            ReplayContext, EvaluatedAt)
    <3> HIDE DEF k
    <3>2. k \in QuoteIds /\ quote[k] # NoQuote /\ quote[k] \in StoredQuotes
      BY <1>5, <3>1, NewestIs
    <3>3. k # NoQuote
      BY <1>6, <3>2
    <3>4. p = r
      BY <3>3
    <3> HIDE DEF p, r
    <3>5. /\ r.outcome \in {"approve", "reduce", "reject"} /\ r.quantity \in Nat
          /\ r.outcome # "reject" =>
                /\ r.quantity > 0 /\ quote[k].sell > 0
                /\ SizedCash(r.quantity, quote[k]) \in Nat
                /\ SizedCash(r.quantity, quote[k]) <= wallet[Account]
                /\ PositionValue + SizedCash(r.quantity, quote[k]) <= MaxPositionCash
                /\ portfolio.drawdown <= MaxDrawdown
      BY <1>3, <1>4, <3>2, ReplayPayload DEF r
    <3> QED
      BY <3>2, <3>4, <3>5
  <2> QED
    BY <2>1, <2>2
<1> HIDE DEF p, k
<1>8. row \in P!DecisionRow /\ row # NoDecision
  BY <1>6, <1>7 DEF P!DecisionRow
<1>9. RowsStand'
  BY <1>1, <1>5, <1>8 DEF RowsStand
<1>10. PlaceSound'
  <2>1. pc' \in {"point", "execute"}
    BY <1>1
  <2>2. unfilled' \subseteq 1..BarCount
    <3>1. unfilled' \subseteq unfilled \cup {bar}
      BY <1>1, Zenon
    <3> QED
      BY <1>2, <3>1
  <2>3. bar # BarCount + 1 /\ bar \in 1..(BarCount + 1)
    BY <1>2, ReplayBounds
  <2>4. bar' = bar /\ intents' = intents /\ curve' = curve
    BY <1>1
  <2> QED
    BY <1>2, <2>1, <2>2, <2>3, <2>4 DEF PlaceSound, n
<1>11. OrdersSound'
  BY <1>1 DEF ReplayInv, OrdersSound, book
<1>12. CurveSound' /\ P!BookTypeOK' /\ P!NeverOverdrawn'
  BY <1>1, BookStands DEF ReplayInv, CurveSound
<1>13. LastDecided'
  <2>1. SUFFICES ASSUME pc' \in {"execute", "aborted"} PROVE LastDecided'
    BY DEF LastDecided
  <2>2. p.outcome # "reject" /\ pc' = "execute"
    BY <1>1, <2>1
  <2>3. decision'[n] = row /\ Len(intents') = n
    BY <1>1, <1>3, <1>5 DEF n
  <2>4. PositionValue' = PositionValue
    BY <1>1 DEF PositionValue, Newest, EvaluatedAt, Held, book, LatestQuotes
  <2>5. curve'[bar'].drawdown <= MaxDrawdown
    BY <1>1, <1>2, <1>7, <2>2 DEF ReplayInv, CurveSound
  <2>6. wallet' = wallet /\ quote' = quote /\ bar' = bar /\ intents' = intents
    BY <1>1 DEF book
  <2>7. /\ row.quantity = p.quantity /\ row.quote = k /\ row.outcome = p.outcome
        /\ row.account = Account /\ row.instrument = Instrument
    OBVIOUS
  <2> HIDE DEF row
  <2> QED
    BY <1>2, <1>7, <1>8, <2>2, <2>3, <2>4, <2>5, <2>6, <2>7 DEF LastDecided, n
<1> QED
  BY <1>9, <1>10, <1>11, <1>12, <1>13 DEF ReplayInv

\* A step of the replay that fills: a buy of its last intent, at the price that was
\* approved, on an account that can pay.
LEMMA ReplayFills ==
    ASSUME ReplayInv, pc = "execute",
           NEW n, n = Len(intents), NEW k, k = decision[n].quote
    PROVE  /\ P!Sound /\ n \in IntentIds /\ k \in QuoteIds
           /\ P!Approved(n) /\ P!QuoteUsable(n, k) /\ ~P!AlreadyOrdered(n)
           /\ P!QuoteOf(n, NoQuote) = k /\ Broker!QuoteOf(n, NoQuote) = k
           /\ P!CostInputsValid(decision[n].quantity, quote[k].buy, quote[k].sell)
           /\ P!ExecutionPrice("buy", quote[k].buy, quote[k].sell) > 0
           /\ P!CostsOf(n, "buy", k).net \in Nat
<1>1. /\ decision[n] # NoDecision /\ decision[n].outcome \in {"approve", "reduce"}
      /\ decision[n].account = Account /\ decision[n].instrument = Instrument
      /\ decision[n].quantity \in Nat \ {0}
      /\ k \in QuoteIds /\ quote[k] # NoQuote /\ quote[k].sell > 0
  BY DEF ReplayInv, LastDecided
<1>2. /\ intents \in Seq([bar: 1..BarCount, cash: Nat \ {0}]) /\ intents # <<>>
      /\ Len(intents) <= bar /\ bar \in 1..BarCount
  BY ReplayBounds DEF ReplayInv, PlaceSound
<1>3. n \in IntentIds
  BY <1>2, ReplayBounds DEF IntentIds
<1>4. \A j \in QuoteIds : quote[j] # NoQuote =>
         /\ quote[j].buy \in Nat /\ quote[j].sell \in Nat /\ quote[j].buy <= quote[j].sell
         /\ quote[j].instrument = Instrument
  <2>1. ASSUME NEW j \in QuoteIds, quote[j] # NoQuote
        PROVE  /\ quote[j].buy \in Nat /\ quote[j].sell \in Nat /\ quote[j].buy <= quote[j].sell
               /\ quote[j].instrument = Instrument
    <3>1. PICK p \in QuotedPrices : quote[j] = StoredQuote(j, p)
      BY <2>1 DEF ReplayInv, RowsStand
    <3>2. p[1] \in Nat /\ p[2] \in Nat /\ p[1] <= p[2]
      BY BacktestAssumption
    <3> QED
      BY <3>1, <3>2 DEF StoredQuote
  <2> QED
    BY <2>1
<1>5. P!Sound
  BY <1>4 DEF ReplayInv, RowsStand, P!Sound, P!RowsSound
<1>6. ~P!AlreadyOrdered(n)
  BY DEF ReplayInv, OrdersSound, P!AlreadyOrdered
<1>7. P!Approved(n) /\ P!QuoteUsable(n, k)
  <2>1. NoQuote \notin QuoteIds
    BY ReplayRowAssumption
  <2>2. k # NoQuote
    BY <1>1, <2>1
  <2>3. quote[k].instrument = Instrument
    BY <1>1, <1>4
  <2>4. P!Approved(n)
    BY <1>1 DEF P!Approved
  <2> QED
    BY <1>1, <2>2, <2>3, <2>4 DEF P!QuoteUsable
<1>8. P!QuoteOf(n, NoQuote) = k /\ Broker!QuoteOf(n, NoQuote) = k
  BY DEF P!QuoteOf, Broker!QuoteOf
<1>9. P!CostsOf(n, "buy", k).net \in Nat
  <2>1. /\ decision[n].quantity \in Nat /\ quote[k].buy \in Nat /\ quote[k].sell \in Nat
        /\ quote[k].buy <= quote[k].sell /\ "buy" \in P!Sides
    BY <1>1, <1>4 DEF P!Sides
  <2> QED
    BY <2>1, PartsAssumptions, P!CostsType DEF P!CostsOf
<1>10. P!CostInputsValid(decision[n].quantity, quote[k].buy, quote[k].sell)
       /\ P!ExecutionPrice("buy", quote[k].buy, quote[k].sell) > 0
  BY <1>1, <1>4 DEF P!CostInputsValid, P!ExecutionPrice
<1> QED
  BY <1>1, <1>3, <1>5, <1>6, <1>7, <1>8, <1>9, <1>10

\* What execution comes to: a fill that the wallet pays for, or the end of the run.
LEMMA ReplayExecutes ==
    ASSUME ReplayInv, ReplayExecute,
           NEW n, n = Len(intents), NEW k, k = decision[n].quote
    PROVE  /\ pc = "execute" /\ UNCHANGED <<bar, intents, portfolio, curve, unfilled, decision, quote>>
           /\ \/ P!Affordable(n, "buy", k) /\ P!Fill(n, "buy", k) /\ pc' = "point"
              \/ /\ pc' = "aborted" /\ UNCHANGED book
                 /\ wallet[Account] < Broker!CostsOf(n, "buy", k).net
<1>1. pc = "execute"
  BY DEF ReplayExecute
<1>2. /\ P!Approved(n) /\ P!QuoteUsable(n, k) /\ ~P!AlreadyOrdered(n)
      /\ Broker!QuoteOf(n, NoQuote) = k
      /\ P!CostInputsValid(decision[n].quantity, quote[k].buy, quote[k].sell)
      /\ P!ExecutionPrice("buy", quote[k].buy, quote[k].sell) > 0
      /\ P!CostsOf(n, "buy", k).net \in Nat
  BY <1>1, ReplayFills
<1>3. Broker!Accepts(n, "buy", NoQuote) <=> P!Affordable(n, "buy", k)
  BY <1>2, SameReplayBroker DEF Broker!Accepts
<1>4. CASE Broker!Accepts(n, "buy", NoQuote)
  <2>1. /\ ~Broker!AlreadyOrdered(n) /\ Broker!Execute(n, "buy", NoQuote) /\ pc' = "point"
        /\ UNCHANGED <<bar, intents, portfolio, curve, unfilled>>
    BY <1>2, <1>4, SameReplayBroker DEF ReplayExecute
  <2>2. Broker!Fill(n, "buy", k) /\ UNCHANGED <<decision, quote>>
    BY <1>2, <2>1 DEF Broker!Execute
  <2> QED
    BY <1>1, <1>3, <1>4, <2>1, <2>2, SameReplayBroker
<1>5. CASE ~Broker!Accepts(n, "buy", NoQuote)
  <2>1. /\ pc' = "aborted" /\ UNCHANGED <<book, decision, quote>>
        /\ UNCHANGED <<bar, intents, portfolio, curve, unfilled>>
    BY <1>5 DEF ReplayExecute
  <2>2. wallet[Account] < P!CostsOf(n, "buy", k).net
    <3>1. decision[n].account = Account /\ wallet[Account] \in Nat
      BY <1>1, ValueType DEF ReplayInv, LastDecided
    <3>2. ~(P!CostsOf(n, "buy", k).net <= wallet[Account])
      BY <1>2, <1>3, <1>5, <3>1 DEF P!Affordable
    <3> QED
      BY <1>2, <3>1, <3>2
  <2>3. P!CostsOf(n, "buy", k) = Broker!CostsOf(n, "buy", k)
    BY SameReplayBroker
  <2> QED
    BY <1>1, <2>1, <2>2, <2>3
<1> QED
  BY <1>4, <1>5

\* What the broker does with a decision keeps the invariant.
LEMMA ReplayExecuteKeeps == ASSUME ReplayInv, ReplayExecute PROVE ReplayInv'
<1> DEFINE n == Len(intents)
           k == decision[n].quote
<1>1. /\ pc = "execute" /\ UNCHANGED <<bar, intents, portfolio, curve, unfilled, decision, quote>>
      /\ \/ P!Affordable(n, "buy", k) /\ P!Fill(n, "buy", k) /\ pc' = "point"
         \/ /\ pc' = "aborted" /\ UNCHANGED book
            /\ wallet[Account] < Broker!CostsOf(n, "buy", k).net
  BY ReplayExecutes
<1>2. /\ P!Sound /\ n \in IntentIds /\ k \in QuoteIds
      /\ P!Approved(n) /\ P!QuoteUsable(n, k) /\ ~P!AlreadyOrdered(n)
  BY <1>1, ReplayFills
<1>3. PlaceSound' /\ RowsStand' /\ CurveSound'
  <2>1. pc' \in {"point", "aborted"} /\ bar # BarCount + 1
    BY <1>1 DEF ReplayInv, PlaceSound
  <2> QED
    BY <1>1, <2>1 DEF ReplayInv, PlaceSound, RowsStand, CurveSound
<1>4. CASE /\ pc' = "aborted" /\ UNCHANGED book
           /\ wallet[Account] < Broker!CostsOf(n, "buy", k).net
  <2>1. P!BookTypeOK' /\ P!NeverOverdrawn'
    BY <1>4, BookStands
  <2>2. OrdersSound'
    BY <1>1, <1>4 DEF ReplayInv, OrdersSound, book
  <2>3. LastDecided'
    <3>1. PositionValue' = PositionValue
      BY <1>1, <1>4 DEF PositionValue, Newest, EvaluatedAt, Held, book, LatestQuotes
    <3>2. Broker!CostsOf(n, "buy", k)' = Broker!CostsOf(n, "buy", k)
      BY <1>1 DEF Broker!CostsOf
    <3>3. wallet' = wallet
      BY <1>4 DEF book
    <3> QED
      BY <1>1, <1>4, <3>1, <3>2, <3>3 DEF ReplayInv, LastDecided
  <2> QED
    BY <1>3, <2>1, <2>2, <2>3 DEF ReplayInv
<1>5. CASE P!Affordable(n, "buy", k) /\ P!Fill(n, "buy", k) /\ pc' = "point"
  <2>1. "buy" \in P!Sides
    BY DEF P!Sides
  <2> HIDE DEF n, k
  <2>2. P!BookTypeOK' /\ P!NeverOverdrawn'
    BY <1>2, <1>5, <2>1, PartsAssumptions, P!FillBookInv
  <2>3. /\ Len(orders') = Len(orders) + 1 /\ Len(trades') = Len(trades) + 1
        /\ \A m \in 1..Len(orders) : orders'[m] = orders[m]
        /\ orders'[Len(orders) + 1].decision = n
    BY <1>2, <1>5, <2>1, PartsAssumptions, P!FillAppends
  <2>4. Len(orders) \in Nat /\ n = Len(intents) /\ n \in 1..Len(intents)
    BY <1>1, <1>2 DEF ReplayInv, P!BookTypeOK, n, IntentIds, PlaceSound
  <2>5. curve[intents[n].bar].drawdown <= MaxDrawdown
    BY <1>1 DEF ReplayInv, LastDecided, n
  <2>6. OrdersSound'
    <3>1. ASSUME NEW m \in 1..Len(orders')
          PROVE  /\ orders'[m].decision \in 1..Len(intents)
                 /\ curve[intents[orders'[m].decision].bar].drawdown <= MaxDrawdown
      <4>1. CASE m \in 1..Len(orders)
        BY <2>3, <4>1 DEF ReplayInv, OrdersSound
      <4>2. CASE m = Len(orders) + 1
        BY <2>3, <2>4, <2>5, <4>2
      <4> QED
        BY <2>3, <2>4, <4>1, <4>2
    <3>2. Len(orders') = Len(trades')
      BY <2>3 DEF ReplayInv, OrdersSound
    <3> QED
      BY <1>1, <1>5, <3>1, <3>2 DEF OrdersSound
  <2>7. LastDecided'
    BY <1>5 DEF LastDecided
  <2> QED
    BY <1>3, <2>2, <2>6, <2>7 DEF ReplayInv
<1> QED
  BY <1>1, <1>4, <1>5

\* A point at the end of a bar keeps the invariant.
LEMMA PointKeeps == ASSUME ReplayInv, AddPoint PROVE ReplayInv'
<1> DEFINE total == wallet[Account] + PositionValue
           peak  == IF total > portfolio.peak THEN total ELSE portfolio.peak
           fall  == Drawdown(peak, total)
           new   == [total |-> total, drawdown |-> fall]
           L     == Len(curve)
<1>1. total \in Nat
  BY ValueType DEF ReplayInv
<1>2. /\ curve \in Seq(Point) /\ L \in Nat \ {0}
      /\ portfolio.peak \in Nat /\ portfolio.peak >= InitialCash[Account]
      /\ \A n \in 1..L : curve[n].total \in Nat /\ curve[n].total <= portfolio.peak
      /\ \E n \in 1..L : curve[n].total = portfolio.peak
  <2>1. curve \in Seq(Point) /\ L \in Nat
    BY DEF ReplayInv, CurveSound
  <2>2. L = bar /\ bar \in 1..(BarCount + 1)
    BY DEF ReplayInv, PlaceSound
  <2>3. \A n \in 1..L : curve[n] \in Point
    BY <2>1
  <2>4. \A x \in Point : x.total \in Nat
    BY DEF Point
  <2> QED
    BY <2>1, <2>2, <2>3, <2>4, ReplayBounds DEF ReplayInv, CurveSound
<1>3. InitialCash[Account] \in Nat
  BY ReplayBounds
<1> HIDE DEF total
<1>4. /\ peak \in Nat /\ portfolio.peak <= peak /\ total <= peak
      /\ peak = total \/ peak = portfolio.peak
  BY <1>1, <1>2
<1>5. /\ Max({portfolio.peak, InitialCash[Account], total}) = peak
      /\ Max({portfolio.peak, total}) = peak
  <2> DEFINE S == {portfolio.peak, InitialCash[Account], total}
             T == {portfolio.peak, total}
  <2>1. S \subseteq Int /\ T \subseteq Int /\ peak \in S /\ peak \in T
    BY <1>1, <1>2, <1>3
  <2>2. \A x \in S \cup T : x <= peak
    BY <1>1, <1>2, <1>3
  <2> HIDE DEF S, T, peak
  <2>3. Max(S) = peak /\ Max(T) = peak
    BY <2>1, <2>2, MaxIs
  <2> QED
    BY <2>3 DEF S, T
<1> HIDE DEF peak
<1>6. /\ pc = "point" /\ curve' = Append(curve, new)
      /\ portfolio' = [peak |-> peak, drawdown |-> fall]
      /\ bar' = bar + 1 /\ pc' = IF bar = BarCount THEN "done" ELSE "strategy"
      /\ UNCHANGED <<quote, book, decision, intents, unfilled>>
  BY <1>5 DEF AddPoint, Updated, total
<1>7. fall \in 0..DrawdownScale
  BY <1>1, <1>4, DrawdownType
<1>8. new \in Point
  BY <1>1, <1>7 DEF Point
<1>9. new.total = total /\ new.drawdown = fall
  OBVIOUS
<1> HIDE DEF new, fall
<1>10. /\ curve' \in Seq(Point) /\ Len(curve') = L + 1 /\ curve'[L + 1] = new
       /\ \A n \in 1..L : curve'[n] = curve[n]
  BY <1>2, <1>6, <1>8
<1>11. \A n \in 1..(L + 1) : n \in 1..L \/ n = L + 1
  BY <1>2
<1>12. CurveSound'
  <2>1. portfolio'.drawdown = curve'[Len(curve')].drawdown
    BY <1>6, <1>9, <1>10
  <2>2. portfolio'.peak = peak
    BY <1>6
  <2>3. portfolio'.peak \in Nat /\ portfolio'.peak >= InitialCash[Account]
    BY <1>2, <1>3, <1>4, <2>2
  <2>4. \A n \in 1..(L + 1) : curve'[n].total \in Nat /\ curve'[n].total <= peak
    BY <1>1, <1>2, <1>4, <1>9, <1>10, <1>11
  <2>5. \E n \in 1..(L + 1) : curve'[n].total = peak
    <3>1. CASE peak = total
      <4>1. L + 1 \in 1..(L + 1) /\ curve'[L + 1].total = peak
        BY <1>2, <1>9, <1>10, <3>1
      <4> QED
        BY <4>1
    <3>2. CASE peak = portfolio.peak
      <4>1. PICK n \in 1..L : curve[n].total = portfolio.peak
        BY <1>2
      <4>2. n \in 1..(L + 1) /\ curve'[n].total = peak
        BY <1>2, <1>10, <3>2, <4>1
      <4> QED
        BY <4>2
    <3> QED
      BY <1>4, <3>1, <3>2
  <2>6. ASSUME NEW n \in 1..(L + 1)
        PROVE  /\ \E m \in 1..n : curve'[n].drawdown = Drawdown(curve'[m].total, curve'[n].total)
               /\ \A m \in 1..n : Drawdown(curve'[m].total, curve'[n].total) <= curve'[n].drawdown
    <3>1. CASE n \in 1..L
      <4>1. /\ \E m \in 1..n : curve[n].drawdown = Drawdown(curve[m].total, curve[n].total)
            /\ \A m \in 1..n : Drawdown(curve[m].total, curve[n].total) <= curve[n].drawdown
        BY <3>1 DEF ReplayInv, CurveSound
      <4>2. \A m \in 1..n : curve'[m] = curve[m]
        BY <1>2, <1>10, <3>1
      <4>3. curve'[n] = curve[n]
        BY <1>10, <3>1
      <4> QED
        BY <4>1, <4>2, <4>3
    <3>2. CASE n = L + 1
      <4>1. curve'[n].total = total /\ curve'[n].drawdown = fall
        BY <1>9, <1>10, <3>2
      <4>2. PICK m \in 1..n : curve'[m].total = peak
        BY <2>5, <3>2
      <4>3. curve'[n].drawdown = Drawdown(curve'[m].total, curve'[n].total)
        BY <4>1, <4>2 DEF fall
      <4>4. \A i \in 1..n : Drawdown(curve'[i].total, total) <= fall
        BY <1>1, <1>4, <2>4, <3>2, DrawdownMonotone DEF fall
      <4> QED
        BY <4>1, <4>3, <4>4
    <3> QED
      BY <1>11, <3>1, <3>2
  <2> QED
    BY <1>10, <2>1, <2>2, <2>3, <2>4, <2>5, <2>6 DEF CurveSound
<1>13. L = bar /\ bar \in 1..BarCount
  BY <1>6, ReplayBounds DEF ReplayInv, PlaceSound
<1>14. PlaceSound'
  <2>1. /\ pc' \in {"done", "strategy"} /\ (pc' = "done" <=> bar = BarCount)
        /\ bar' = bar + 1 /\ intents' = intents /\ unfilled' = unfilled
    BY <1>6
  <2>2. /\ intents \in Seq([bar: 1..BarCount, cash: Nat \ {0}]) /\ Len(intents) <= bar
        /\ \A n \in 1..Len(intents) : intents[n].bar <= bar /\ intents[n].bar \in Int
        /\ unfilled \subseteq 1..BarCount
    <3>1. intents \in Seq([bar: 1..BarCount, cash: Nat \ {0}])
      BY DEF ReplayInv, PlaceSound
    <3>2. \A n \in 1..Len(intents) : intents[n].bar \in Int
      <4> DEFINE S == [bar: 1..BarCount, cash: Nat \ {0}]
      <4>1. \A x \in S : x.bar \in Int
        OBVIOUS
      <4>2. intents \in Seq(S)
        BY <3>1
      <4> HIDE DEF S
      <4>3. \A n \in 1..Len(intents) : intents[n] \in S
        BY <4>2
      <4> QED
        BY <4>1, <4>3
    <3> QED
      BY <3>1, <3>2 DEF ReplayInv, PlaceSound
  <2>3. Len(intents) \in Nat
    BY <2>2
  <2>4. \A n \in 1..Len(intents) : intents[n].bar <= bar + 1
    BY <1>13, <2>2
  <2>5. bar' \in 1..(BarCount + 1) /\ (pc' = "done" <=> bar' = BarCount + 1) /\ Len(curve') = bar'
        /\ Len(intents) <= bar' /\ Len(intents) < bar'
    BY <1>10, <1>13, <2>1, <2>2, <2>3, ReplayBounds
  <2> QED
    BY <2>1, <2>2, <2>4, <2>5 DEF PlaceSound
<1>15. OrdersSound'
  <2>1. orders' = orders /\ trades' = trades /\ intents' = intents
    BY <1>6 DEF book
  <2>2. ASSUME NEW n \in 1..Len(orders)
        PROVE  /\ orders[n].decision \in 1..Len(intents)
               /\ curve'[intents[orders[n].decision].bar].drawdown <= MaxDrawdown
    <3>1. /\ orders[n].decision \in 1..Len(intents)
          /\ curve[intents[orders[n].decision].bar].drawdown <= MaxDrawdown
      BY DEF ReplayInv, OrdersSound
    <3>2. intents[orders[n].decision].bar \in 1..L
      <4> DEFINE S == [bar: 1..BarCount, cash: Nat \ {0}]
      <4>1. \A x \in S : x.bar \in 1..BarCount
        OBVIOUS
      <4>2. intents \in Seq(S)
        BY DEF ReplayInv, PlaceSound
      <4> HIDE DEF S
      <4>3. intents[orders[n].decision].bar \in 1..BarCount
        BY <3>1, <4>1, <4>2
      <4>4. intents[orders[n].decision].bar <= bar
        BY <3>1 DEF ReplayInv, PlaceSound
      <4> QED
        BY <1>13, <4>3, <4>4
    <3> QED
      BY <1>10, <3>1, <3>2
  <2>3. pc' \notin {"risk", "execute", "aborted"}
    BY <1>6
  <2>4. Len(orders) = Len(trades)
    BY DEF ReplayInv, OrdersSound
  <2> QED
    BY <2>1, <2>2, <2>3, <2>4 DEF OrdersSound
<1>16. LastDecided' /\ RowsStand' /\ P!BookTypeOK' /\ P!NeverOverdrawn'
  <2>1. pc' \notin {"execute", "aborted"}
    BY <1>6
  <2>2. LastDecided'
    BY <2>1 DEF LastDecided
  <2>3. RowsStand'
    BY <1>6 DEF ReplayInv, RowsStand
  <2> QED
    BY <1>6, <2>2, <2>3, BookStands
<1> QED
  BY <1>12, <1>14, <1>15, <1>16 DEF ReplayInv

\* Every state of a replay is sound.
LEMMA ReplayInvariant == BacktestSpec => []ReplayInv
<1>1. BacktestInit => ReplayInv
  BY ReplayInitial
<1>2. ReplayInv /\ [BacktestNext]_backtestVars => ReplayInv'
  <2> SUFFICES ASSUME ReplayInv, [BacktestNext]_backtestVars PROVE ReplayInv'
    OBVIOUS
  <2>1. CASE \E signal \in BOOLEAN : RunStrategy(signal)
    BY <2>1, StrategyKeeps
  <2>2. CASE ReplayRisk
    BY <2>2, ReplayRiskKeeps
  <2>3. CASE ReplayExecute
    BY <2>3, ReplayExecuteKeeps
  <2>4. CASE AddPoint
    BY <2>4, PointKeeps
  <2>5. CASE UNCHANGED backtestVars
    <3>1. P!BookTypeOK' /\ P!NeverOverdrawn'
      BY <2>5, BookStands DEF backtestVars
    <3>2. UNCHANGED <<bar, pc, quote, decision, intents, portfolio, curve, unfilled>>
      BY <2>5 DEF backtestVars
    <3>3. UNCHANGED <<wallet, position, orders, trades, ledger>>
      BY <2>5 DEF backtestVars, book
    <3>4. PlaceSound' /\ RowsStand' /\ OrdersSound' /\ CurveSound'
      BY <3>2, <3>3 DEF ReplayInv, PlaceSound, RowsStand, OrdersSound, CurveSound
    <3>5. LastDecided'
      BY <3>2, <3>3 DEF ReplayInv, LastDecided, PositionValue, Newest, EvaluatedAt, Held,
         LatestQuotes, Broker!CostsOf
    <3> QED
      BY <3>1, <3>4, <3>5 DEF ReplayInv
  <2> QED
    BY <2>1, <2>2, <2>3, <2>4, <2>5 DEF BacktestNext
<1> QED
  BY <1>1, <1>2, PTL DEF BacktestSpec

\* No intent of a bar that followed too deep a fall is bought, no buy takes what is
\* held beyond the limit of the position, and what breaks a run off is an order that
\* the wallet pays for without its costs and not with them.
THEOREM ReplayStaysInLimits == BacktestSpec => []ReplayKeepsItsLimits
<1>1. ReplayInv => ReplayKeepsItsLimits
  <2> SUFFICES ASSUME ReplayInv PROVE ReplayKeepsItsLimits
    OBVIOUS
  <2>1. BuysStopInADrawdown
    <3>1. DOMAIN orders = 1..Len(orders)
      BY DEF ReplayInv, P!BookTypeOK
    <3> QED
      BY <3>1 DEF ReplayInv, OrdersSound, BuysStopInADrawdown
  <2>2. ReplayStaysWithinLimit
    BY DEF ReplayInv, LastDecided, ReplayStaysWithinLimit
  <2>3. AbortsForCostsOnly
    BY DEF ReplayInv, LastDecided, AbortsForCostsOnly
  <2> QED
    BY <2>1, <2>2, <2>3 DEF ReplayKeepsItsLimits
<1> QED
  BY <1>1, ReplayInvariant, PTL

-----------------------------------------------------------------------------
(* What the report says *)

\* Some of the numbers up to a bound have a greatest.
LEMMA GreatestExists ==
    ASSUME NEW b \in Nat, NEW S, S \subseteq 0..b, S # {}
    PROVE  \E x \in S : \A y \in S : y <= x
<1> DEFINE T == {b - x : x \in S}
<1>1. T \subseteq Nat /\ T # {}
  <2>1. \A x \in S : b - x \in Nat
    OBVIOUS
  <2>2. PICK x \in S : TRUE
    OBVIOUS
  <2>3. b - x \in T
    OBVIOUS
  <2> QED
    BY <2>1, <2>3
<1>2. PICK t \in T : \A u \in T : t <= u
  <2> HIDE DEF T
  <2> QED
    BY <1>1, LeastExists
<1>3. PICK x \in S : t = b - x
  OBVIOUS
<1>4. \A y \in S : b - x <= b - y
  BY <1>2, <1>3
<1> QED
  BY <1>4

\* A fall between any two points is a whole number, below zero when it is a rise.
LEMMA FallInt ==
    ASSUME NEW peak \in Nat, NEW total \in Nat
    PROVE  Drawdown(peak, total) \in Int
<1>1. CASE peak = 0
  BY <1>1 DEF Drawdown
<1>2. CASE peak > 0
  <2>1. (peak - total) * DrawdownScale \in Int
    BY ReplayBounds
  <2>2. HalfEven((peak - total) * DrawdownScale, peak) \in Int
    BY <1>2, <2>1, HalfEvenInt
  <2> QED
    BY <1>2, <2>2 DEF Drawdown
<1> QED
  BY <1>1, <1>2

\* The report names the deepest fall.
LEMMA DeepestFall == ASSUME ReplayInv PROVE DrawdownIsTheDeepestFall
<1> DEFINE L        == Len(curve)
           fall(m, n) == Drawdown(curve[m].total, curve[n].total)
           falls(n) == { fall(m, n) : m \in 1..n }
           all      == UNION { falls(n) : n \in DOMAIN curve }
           told     == { curve[n].drawdown : n \in DOMAIN curve }
<1>1. /\ L \in Nat \ {0} /\ DOMAIN curve = 1..L
      /\ \A n \in 1..L : curve[n].total \in Nat /\ curve[n].drawdown \in 0..DrawdownScale
  <2>1. curve \in Seq(Point) /\ L = bar /\ bar \in 1..(BarCount + 1)
    BY DEF ReplayInv, CurveSound, PlaceSound
  <2>2. \A x \in Point : x.total \in Nat /\ x.drawdown \in 0..DrawdownScale
    BY DEF Point
  <2>3. \A n \in 1..L : curve[n] \in Point
    BY <2>1
  <2> QED
    BY <2>1, <2>2, <2>3, ReplayBounds
<1>2. /\ portfolio.drawdown = curve[L].drawdown
      /\ \A n \in 1..L : /\ \E m \in 1..n : curve[n].drawdown = fall(m, n)
                         /\ \A m \in 1..n : fall(m, n) <= curve[n].drawdown
  BY DEF ReplayInv, CurveSound
<1>3. \A n \in 1..L : \A m \in 1..n : fall(m, n) \in Int
  <2>1. \A n \in 1..L : \A m \in 1..n : m \in 1..L
    BY <1>1
  <2> QED
    BY <1>1, <2>1, FallInt
<1> HIDE DEF fall
<1>4. \A n \in 1..L : /\ falls(n) \subseteq Int /\ curve[n].drawdown \in falls(n)
                      /\ \A x \in falls(n) : x <= curve[n].drawdown
  BY <1>2, <1>3
<1>5. Max(falls(L)) = portfolio.drawdown
  <2>1. L \in 1..L
    BY <1>1
  <2> HIDE DEF falls, L
  <2> QED
    BY <1>2, <1>4, <2>1, MaxIs
<1>6. /\ told \subseteq 0..DrawdownScale /\ told # {}
      /\ \A x \in told : \E n \in 1..L : x = curve[n].drawdown
      /\ \A n \in 1..L : curve[n].drawdown \in told
  <2>1. \A x : x \in told <=> \E n \in 1..L : x = curve[n].drawdown
    BY <1>1
  <2>2. 1 \in 1..L
    BY <1>1
  <2>3. \A n \in 1..L : curve[n].drawdown \in 0..DrawdownScale
    BY <1>1
  <2> HIDE DEF told, L
  <2>4. \A n \in 1..L : curve[n].drawdown \in told
    BY <2>1
  <2>5. told \subseteq 0..DrawdownScale
    BY <2>1, <2>3
  <2>6. told # {}
    BY <2>2, <2>4
  <2> QED
    BY <2>1, <2>4, <2>5, <2>6
<1>7. PICK g \in told : \A y \in told : y <= g
  <2> HIDE DEF told
  <2> QED
    BY <1>6, GreatestExists, ReplayBounds
<1>8. /\ all \subseteq Int /\ told \subseteq all
      /\ \A x \in all : \E n \in 1..L : x <= curve[n].drawdown
  <2> HIDE DEF falls
  <2>1. \A x : x \in all <=> \E n \in 1..L : x \in falls(n)
    BY <1>1
  <2> HIDE DEF all, told
  <2> QED
    BY <1>4, <1>6, <2>1
<1>9. g \in all /\ \A x \in all : x <= g
  <2> HIDE DEF all, told
  <2>1. \A n \in 1..L : curve[n].drawdown <= g /\ curve[n].drawdown \in Int
    BY <1>1, <1>6, <1>7
  <2>2. g \in Int
    BY <1>6
  <2> QED
    BY <1>7, <1>8, <2>1, <2>2
<1>10. Max(told) = g /\ Max(all) = g
  <2>1. told \subseteq Int
    <3> HIDE DEF told, all
    <3> QED
      BY <1>8
  <2> HIDE DEF all, told
  <2> QED
    BY <1>7, <1>8, <1>9, <2>1, MaxIs
<1> QED
  BY <1>5, <1>10 DEF DrawdownIsTheDeepestFall, MaxReported, fall

\* The amounts of a table with one row more.
LEMMA TotalGrows ==
    ASSUME NEW m \in Nat, NEW f, NEW g, DOMAIN f = 1..m, DOMAIN g = 1..(m + 1),
           \A n \in 1..m : f[n] \in Int /\ g[n] = f[n], g[m + 1] \in Int
    PROVE  TotalOf(f) \in Int /\ TotalOf(g) = TotalOf(f) + g[m + 1]
<1>1. IsFiniteSet(1..m)
  BY FS_Interval
<1>2. SumFunctionOnSet(f, 1..m) \in Int
  BY <1>1, SumInt
<1>3. 1..(m + 1) = (1..m) \cup {m + 1} /\ m + 1 \notin 1..m
  OBVIOUS
<1>4. SumFunctionOnSet(g, (1..m) \cup {m + 1}) = SumFunctionOnSet(g, 1..m) + g[m + 1]
  <2> DEFINE S == 1..m
             x == m + 1
  <2>1. IsFiniteSet(S) /\ x \notin S /\ \A y \in S \cup {x} : g[y] \in Int
    BY <1>1, <1>3
  <2> HIDE DEF S, x
  <2>2. SumFunctionOnSet(g, S \cup {x}) = SumFunctionOnSet(g, S) + g[x]
    BY ONLY <2>1, SumAdd
  <2> QED
    BY <2>2 DEF S, x
<1>5. SumFunctionOnSet(f, 1..m) = SumFunctionOnSet(g, 1..m)
  BY <1>1, SumSame
<1> QED
  BY <1>2, <1>3, <1>4, <1>5 DEF TotalOf

\* The amounts of a buy.  The spread it reports is what its price is above the
\* bank's own, but for two roundings.
LEMMA BuyCosts ==
    ASSUME NEW q \in Nat, NEW b \in Nat, NEW s \in Nat, b <= s
    PROVE  LET c == Costs("buy", q, b, s)
               e == QuantityScale * (c.spread - c.gross) + q * b
           IN  /\ c.gross \in Nat /\ c.fees \in Nat /\ c.taxes \in Nat /\ c.spread \in Nat
               /\ c.net = c.gross + c.fees + c.taxes
               /\ e \in Int /\ -QuantityScale <= e /\ e <= QuantityScale
<1> DEFINE c == Costs("buy", q, b, s)
           S == QuantityScale
           x == q * s
           y == (s - b) * q
<1>1. c.gross \in Nat /\ c.fees \in Nat /\ c.taxes \in Nat /\ c.spread \in Nat
  BY CostsType DEF Sides
<1>2. /\ c.gross = HalfUp(x, S) /\ c.spread = HalfUp(y, S)
      /\ c.net = c.gross + c.fees + c.taxes
  BY DEF Costs, GrossCash, ExecutionPrice, NetCash
<1>3. x \in Nat /\ y \in Nat /\ y = x - q * b /\ q * b \in Nat
  OBVIOUS
<1>4. S \in Nat \ {0}
  BY ReplayBounds
<1> HIDE DEF c, x, y, S
<1>5. /\ 2 * (S * c.gross) <= 2 * x + S /\ 2 * (S * c.gross) > 2 * x - S
      /\ 2 * (S * c.spread) <= 2 * y + S /\ 2 * (S * c.spread) > 2 * y - S
  BY <1>2, <1>3, <1>4, HalfUpBound, HalfUpAtLeast
<1>6. S * (c.spread - c.gross) = S * c.spread - S * c.gross
  BY <1>1, <1>4
<1>7. S * c.spread \in Nat /\ S * c.gross \in Nat
  BY <1>1, <1>4
<1>8. /\ S * (c.spread - c.gross) + q * b \in Int
      /\ -S <= S * (c.spread - c.gross) + q * b /\ S * (c.spread - c.gross) + q * b <= S
  BY <1>3, <1>4, <1>5, <1>6, <1>7
<1> QED
  BY <1>1, <1>2, <1>8 DEF c, S

\* What the metal bought so far has gained when it is worth a price.
Gain(price) ==
    TotalOf([n \in DOMAIN trades |-> trades[n].quantity * (price - quote[trades[n].quote].buy)])

\* The account at that price, but for what its metal gained and its costs: what it
\* opened with, up to the roundings.
Unexplained(price) ==
    QuantityScale * (wallet[Account] - InitialCash[Account] + TotalCosts)
      + price * Held.quantity - Gain(price)

TradesPriced ==
    \A n \in 1..Len(trades) : trades[n].quote \in QuoteIds /\ quote[trades[n].quote] # NoQuote

MoneySound ==
    \A price \in Nat :
        /\ Unexplained(price) \in Int
        /\ -(QuantityScale * Len(trades)) <= Unexplained(price)
        /\ Unexplained(price) <= QuantityScale * Len(trades)

\* The newest of all the stored quotes, and the last point, which is valued at it.
Final == LatestQuotes(quote, Instrument, Source, BarCount + Latency)

LastPoint ==
    pc = "done" /\ Final # {} =>
        curve[Len(curve)].total =
            wallet[Account]
              + HalfEven(Held.quantity * quote[CHOOSE k \in Final : TRUE].buy, QuantityScale)

ReportInv == ReplayInv /\ TradesPriced /\ MoneySound /\ LastPoint

\* What the fill of a buy does to the account of the replay, and its trade.
LEMMA BuyFills ==
    ASSUME ReplayInv, pc = "execute",
           NEW n, n = Len(intents), NEW k, k = decision[n].quote, P!Fill(n, "buy", k)
    PROVE  LET q == decision[n].quantity
               c == Costs("buy", q, quote[k].buy, quote[k].sell)
           IN  /\ wallet'[Account] = wallet[Account] - c.net
               /\ Held'.quantity = Held.quantity + q
               /\ \E t : /\ trades' = Append(trades, t)
                         /\ t.quote = k /\ t.quantity = q
                         /\ t.fees = c.fees /\ t.taxes = c.taxes /\ t.spread = c.spread
<1> DEFINE q == decision[n].quantity
           c == P!CostsOf(n, "buy", k)
<1>1. /\ decision[n].account = Account /\ decision[n].instrument = Instrument
      /\ k \in QuoteIds
  BY DEF ReplayInv, LastDecided
<1>2. c = Costs("buy", q, quote[k].buy, quote[k].sell)
  BY DEF P!CostsOf, P!Costs, Costs, P!GrossCash, GrossCash, P!Fees, Fees, P!Taxes, Taxes,
         P!NetCash, NetCash, P!ExecutionPrice, ExecutionPrice, P!HalfUp, HalfUp
<1> HIDE DEF c
<1> DEFINE t == [account |-> Account, instrument |-> Instrument, quote |-> k, side |-> "buy",
                 quantity |-> q, gross |-> c.gross, fees |-> c.fees,
                 taxes |-> c.taxes, spread |-> c.spread, net |-> c.net, pnl |-> 0]
           held == position[Account][Instrument]
<1>3. /\ wallet' = [wallet EXCEPT ![Account] = wallet[Account] - c.net]
      /\ position' = [position EXCEPT ![Account][Instrument] = P!PositionAfterBuy(held, q, c.net)]
      /\ trades' = Append(trades, t)
  BY <1>1 DEF P!Fill, c
<1>4. /\ wallet \in [{Account} -> Int]
      /\ position \in [{Account} -> [{Instrument} -> P!PositionRow]]
  BY DEF ReplayInv, P!BookTypeOK
<1>5. wallet'[Account] = wallet[Account] - c.net
  BY <1>3, <1>4
<1>6. position'[Account][Instrument] = P!PositionAfterBuy(held, q, c.net)
  BY <1>3, <1>4
<1>7. P!PositionAfterBuy(held, q, c.net).quantity = held.quantity + q
  BY DEF P!PositionAfterBuy
<1>8. Held'.quantity = Held.quantity + q
  BY <1>6, <1>7 DEF Held
<1>9. /\ t.quote = k /\ t.quantity = q
      /\ t.fees = c.fees /\ t.taxes = c.taxes /\ t.spread = c.spread
  OBVIOUS
<1> HIDE DEF t
<1> QED
  BY <1>2, <1>3, <1>5, <1>8, <1>9

\* The trades so far: what each one is made of.
LEMMA TradeTypes ==
    ASSUME ReplayInv, TradesPriced
    PROVE  /\ trades \in Seq(P!TradeRow) /\ Len(trades) \in Nat /\ DOMAIN trades = 1..Len(trades)
           /\ \A m \in 1..Len(trades) :
                 /\ trades[m].quantity \in Nat /\ quote[trades[m].quote].buy \in Nat
                 /\ trades[m].fees + trades[m].taxes + trades[m].spread \in Int
<1>1. trades \in Seq(P!TradeRow)
  BY DEF ReplayInv, P!BookTypeOK
<1>2. \A m \in 1..Len(trades) : trades[m] \in P!TradeRow
  BY <1>1
<1>3. \A t \in P!TradeRow : t.quantity \in Nat /\ t.fees + t.taxes + t.spread \in Int
  BY DEF P!TradeRow
<1>4. \A m \in 1..Len(trades) : quote[trades[m].quote].buy \in Nat
  <2>1. \A j \in QuoteIds : quote[j] # NoQuote => quote[j].buy \in Nat
    BY BacktestAssumption DEF ReplayInv, RowsStand, StoredQuote
  <2> QED
    BY <2>1 DEF TradesPriced
<1> QED
  BY <1>1, <1>2, <1>3, <1>4

\* The arithmetic of one more trade.
LEMMA OneMore ==
    ASSUME NEW S \in Nat \ {0}, NEW w \in Int, NEW i \in Int, NEW T \in Int, NEW h \in Int,
           NEW G \in Int, NEW price \in Int, NEW q \in Int, NEW b \in Int, NEW L \in Nat,
           NEW net \in Int, NEW gross \in Int, NEW x \in Int, NEW spread \in Int,
           net = gross + x,
           -S <= S * (spread - gross) + q * b, S * (spread - gross) + q * b <= S,
           -(S * L) <= S * (w - i + T) + price * h - G,
           S * (w - i + T) + price * h - G <= S * L
    PROVE  LET U == S * ((w - net) - i + (T + (x + spread))) + price * (h + q)
                      - (G + q * (price - b))
           IN  U \in Int /\ -(S * (L + 1)) <= U /\ U <= S * (L + 1)
<1> DEFINE U == S * ((w - net) - i + (T + (x + spread))) + price * (h + q) - (G + q * (price - b))
           u == S * (w - i + T) + price * h - G
           e == S * (spread - gross) + q * b
<1>1. (w - net) - i + (T + (x + spread)) = (w - i + T) + (spread - gross)
  OBVIOUS
<1>2. S * ((w - i + T) + (spread - gross)) = S * (w - i + T) + S * (spread - gross)
  <2> DEFINE m == w - i + T
             n == spread - gross
  <2>1. m \in Int /\ n \in Int
    OBVIOUS
  <2> HIDE DEF m, n
  <2>2. S * (m + n) = S * m + S * n
    BY <2>1
  <2> QED
    BY <2>2 DEF m, n
<1>3. price * (h + q) = price * h + price * q /\ q * (price - b) = price * q - q * b
  OBVIOUS
<1>4. S * (w - i + T) \in Int /\ S * (spread - gross) \in Int /\ price * h \in Int
      /\ price * q \in Int /\ q * b \in Int
  OBVIOUS
<1>5. U = u + e /\ u \in Int /\ e \in Int
  BY <1>1, <1>2, <1>3, <1>4
<1>6. S * (L + 1) = S * L + S /\ S * L \in Nat
  OBVIOUS
<1> HIDE DEF U, u, e
<1>7. -(S * L) <= u /\ u <= S * L /\ -S <= e /\ e <= S
  BY DEF u, e
<1>8. -(S * (L + 1)) <= U /\ U <= S * (L + 1)
  BY <1>5, <1>6, <1>7
<1> QED
  BY <1>5, <1>8 DEF U

\* A buy moves the account by its price, and its costs are all of what it loses.
LEMMA FillKeepsMoney ==
    ASSUME ReportInv, pc = "execute",
           NEW n, n = Len(intents), NEW k, k = decision[n].quote, P!Fill(n, "buy", k),
           quote' = quote
    PROVE  TradesPriced' /\ MoneySound'
<1> DEFINE q == decision[n].quantity
           b == quote[k].buy
           s == quote[k].sell
           c == Costs("buy", q, b, s)
           L == Len(trades)
           x == c.fees + c.taxes
<1>1. /\ k \in QuoteIds /\ quote[k] # NoQuote /\ q \in Nat
  BY DEF ReportInv, ReplayInv, LastDecided
<1>2. b \in Nat /\ s \in Nat /\ b <= s
  <2>1. PICK p \in QuotedPrices : quote[k] = StoredQuote(k, p)
    BY <1>1 DEF ReportInv, ReplayInv, RowsStand
  <2> QED
    BY <2>1, BacktestAssumption DEF StoredQuote
<1>3. PICK t : /\ trades' = Append(trades, t) /\ t.quote = k /\ t.quantity = q
               /\ t.fees = c.fees /\ t.taxes = c.taxes /\ t.spread = c.spread
  BY BuyFills DEF ReportInv
<1>4. wallet'[Account] = wallet[Account] - c.net /\ Held'.quantity = Held.quantity + q
  BY BuyFills DEF ReportInv
<1>5. /\ trades \in Seq(P!TradeRow) /\ L \in Nat /\ DOMAIN trades = 1..L
      /\ \A m \in 1..L : /\ trades[m].quantity \in Nat /\ quote[trades[m].quote].buy \in Nat
                         /\ trades[m].fees + trades[m].taxes + trades[m].spread \in Int
  BY TradeTypes DEF ReportInv
<1>6. /\ Len(trades') = L + 1 /\ DOMAIN trades' = 1..(L + 1) /\ trades'[L + 1] = t
      /\ \A m \in 1..L : trades'[m] = trades[m]
  <2>1. trades \in Seq(P!TradeRow) /\ L \in Nat /\ DOMAIN trades = 1..L /\ trades' = Append(trades, t)
    BY <1>3, <1>5
  <2> QED
    BY <2>1
<1>7. /\ c.gross \in Nat /\ c.fees \in Nat /\ c.taxes \in Nat /\ c.spread \in Nat
      /\ c.net = c.gross + x
      /\ -QuantityScale <= QuantityScale * (c.spread - c.gross) + q * b
      /\ QuantityScale * (c.spread - c.gross) + q * b <= QuantityScale
  <2> HIDE DEF q, b, s
  <2>1. /\ c.gross \in Nat /\ c.fees \in Nat /\ c.taxes \in Nat /\ c.spread \in Nat
        /\ c.net = c.gross + c.fees + c.taxes
        /\ -QuantityScale <= QuantityScale * (c.spread - c.gross) + q * b
        /\ QuantityScale * (c.spread - c.gross) + q * b <= QuantityScale
    BY ONLY <1>1, <1>2, BuyCosts
  <2> HIDE DEF c
  <2>2. c.net = c.gross + x
    BY <2>1
  <2> QED
    BY <2>1, <2>2
<1>8. \A m \in 1..(L + 1) : m \in 1..L \/ m = L + 1
  BY <1>5
<1>9. TradesPriced'
  BY <1>1, <1>3, <1>6, <1>8 DEF ReportInv, TradesPriced
<1> HIDE DEF c, b, s, q, L
<1>10. x \in Nat /\ c.net \in Int
  BY <1>7
<1> HIDE DEF x
<1>11. TotalCosts \in Int /\ TotalCosts' = TotalCosts + (x + c.spread)
  <2> DEFINE f == [m \in DOMAIN trades |-> trades[m].fees + trades[m].taxes + trades[m].spread]
             g == [m \in DOMAIN trades' |-> trades'[m].fees + trades'[m].taxes + trades'[m].spread]
  <2>1. DOMAIN f = 1..L /\ DOMAIN g = 1..(L + 1)
    BY <1>5, <1>6
  <2>2. ASSUME NEW m \in 1..L PROVE f[m] \in Int /\ g[m] = f[m]
    <3>1. m \in DOMAIN trades /\ m \in DOMAIN trades' /\ trades'[m] = trades[m]
      BY <1>5, <1>6
    <3>2. f[m] \in Int
      BY <1>5, <3>1
    <3> QED
      BY <3>1, <3>2
  <2>3. g[L + 1] = x + c.spread
    <3>1. L + 1 \in DOMAIN trades'
      BY <1>5, <1>6
    <3> QED
      BY <1>3, <1>6, <3>1 DEF x
  <2>4. x + c.spread \in Int
    BY <1>7, <1>10
  <2>5. TotalCosts = TotalOf(f) /\ TotalCosts' = TotalOf(g)
    BY DEF TotalCosts, TotalOf
  <2> HIDE DEF f, g
  <2>6. L \in Nat /\ g[L + 1] \in Int
    BY <1>5, <2>3, <2>4
  <2>7. TotalOf(f) \in Int /\ TotalOf(g) = TotalOf(f) + g[L + 1]
    BY ONLY <2>1, <2>2, <2>6, TotalGrows
  <2> QED
    BY ONLY <2>3, <2>5, <2>7
<1>12. ASSUME NEW price \in Nat
       PROVE  Gain(price) \in Int /\ Gain(price)' = Gain(price) + q * (price - b)
  <2> DEFINE f == [m \in DOMAIN trades |->
                     trades[m].quantity * (price - quote[trades[m].quote].buy)]
             g == [m \in DOMAIN trades' |->
                     trades'[m].quantity * (price - quote[trades'[m].quote].buy)]
  <2>1. DOMAIN f = 1..L /\ DOMAIN g = 1..(L + 1)
    BY <1>5, <1>6
  <2>2. ASSUME NEW m \in 1..L PROVE f[m] \in Int /\ g[m] = f[m]
    <3>1. m \in DOMAIN trades /\ m \in DOMAIN trades' /\ trades'[m] = trades[m]
      BY <1>5, <1>6
    <3>2. trades[m].quantity \in Nat /\ quote[trades[m].quote].buy \in Nat
      BY <1>5
    <3>3. f[m] = trades[m].quantity * (price - quote[trades[m].quote].buy)
      BY <3>1
    <3>4. f[m] \in Int
      BY ONLY <1>12, <3>2, <3>3
    <3>5. g[m] = f[m]
      BY <3>1
    <3> QED
      BY <3>4, <3>5
  <2>3. g[L + 1] = q * (price - b)
    <3>1. L + 1 \in DOMAIN trades'
      BY <1>5, <1>6
    <3> QED
      BY <1>3, <1>6, <3>1 DEF b
  <2>4. q * (price - b) \in Int
    BY <1>1, <1>2
  <2>5. Gain(price) = TotalOf(f) /\ Gain(price)' = TotalOf(g)
    BY DEF Gain, TotalOf
  <2> HIDE DEF f, g
  <2>6. L \in Nat /\ g[L + 1] \in Int
    BY <1>5, <2>3, <2>4
  <2>7. TotalOf(f) \in Int /\ TotalOf(g) = TotalOf(f) + g[L + 1]
    BY ONLY <2>1, <2>2, <2>6, TotalGrows
  <2> QED
    BY ONLY <2>3, <2>5, <2>7
<1>13. wallet[Account] \in Int /\ Held.quantity \in Int
  BY ValueType DEF ReportInv, ReplayInv
<1>14. InitialCash[Account] \in Int /\ QuantityScale \in Nat \ {0}
  BY ReplayBounds
<1>15. ASSUME NEW price \in Nat
       PROVE  /\ Unexplained(price)' \in Int
              /\ -(QuantityScale * (L + 1)) <= Unexplained(price)'
              /\ Unexplained(price)' <= QuantityScale * (L + 1)
  <2>1. Unexplained(price) = QuantityScale * (wallet[Account] - InitialCash[Account] + TotalCosts)
                               + price * Held.quantity - Gain(price)
    BY DEF Unexplained
  <2>2. Unexplained(price)' =
          QuantityScale * ((wallet[Account] - c.net) - InitialCash[Account]
                             + (TotalCosts + (x + c.spread)))
            + price * (Held.quantity + q) - (Gain(price) + q * (price - b))
    BY <1>4, <1>11, <1>12 DEF Unexplained
  <2>3. /\ -(QuantityScale * L) <= Unexplained(price)
        /\ Unexplained(price) <= QuantityScale * L
    BY DEF ReportInv, MoneySound, L
  <2>4. Gain(price) \in Int /\ TotalCosts \in Int /\ q \in Int /\ b \in Int /\ L \in Nat
        /\ c.gross \in Int /\ c.spread \in Int /\ x \in Int /\ price \in Int
    <3>1. q \in Int /\ b \in Int
      BY <1>1, <1>2 DEF q, b
    <3>2. c.gross \in Int /\ c.spread \in Int /\ x \in Int
      BY <1>7, <1>10
    <3>3. Gain(price) \in Int /\ TotalCosts \in Int
      BY <1>11, <1>12
    <3> QED
      BY <1>5, <3>1, <3>2, <3>3
  <2> QED
    BY ONLY <1>7, <1>10, <1>13, <1>14, <2>1, <2>2, <2>3, <2>4, OneMore
<1> QED
  BY <1>6, <1>9, <1>15 DEF MoneySound


\* The account before a first trade.
LEMMA ReportInitial == BacktestInit => ReportInv
<1> SUFFICES ASSUME BacktestInit PROVE ReportInv
  OBVIOUS
<1>1. ReplayInv /\ pc = "strategy"
  BY ReplayInitial DEF BacktestInit
<1>2. /\ trades = <<>> /\ wallet[Account] = InitialCash[Account] /\ Held.quantity = 0
  BY DEF BacktestInit, Broker!BookInit, Broker!EmptyPosition, Held
<1>3. Len(trades) = 0 /\ DOMAIN trades = {}
  BY <1>2
<1>4. ASSUME NEW f, DOMAIN f = {} PROVE TotalOf(f) = 0
  BY <1>4, SumEmpty DEF TotalOf
<1>5. TotalCosts = 0
  <2> DEFINE f == [m \in DOMAIN trades |-> trades[m].fees + trades[m].taxes + trades[m].spread]
  <2>1. DOMAIN f = {} /\ TotalCosts = TotalOf(f)
    BY <1>3 DEF TotalCosts
  <2> HIDE DEF f
  <2> QED
    BY <1>4, <2>1
<1>6. ASSUME NEW price \in Nat PROVE Gain(price) = 0
  <2> DEFINE f == [m \in DOMAIN trades |->
                     trades[m].quantity * (price - quote[trades[m].quote].buy)]
  <2>1. DOMAIN f = {} /\ Gain(price) = TotalOf(f)
    BY <1>3 DEF Gain
  <2> HIDE DEF f
  <2> QED
    BY <1>4, <2>1
<1>7. ASSUME NEW price \in Nat PROVE Unexplained(price) = 0
  <2>1. InitialCash[Account] - InitialCash[Account] + 0 = 0
    BY ReplayBounds
  <2>2. QuantityScale * 0 + price * 0 - 0 = 0
    BY ReplayBounds
  <2> QED
    BY <1>2, <1>5, <1>6, <2>1, <2>2 DEF Unexplained
<1>8. QuantityScale * Len(trades) = 0
  BY <1>3, ReplayBounds
<1>9. MoneySound
  BY <1>7, <1>8 DEF MoneySound
<1>10. TradesPriced /\ LastPoint
  BY <1>1, <1>3 DEF TradesPriced, LastPoint
<1> QED
  BY <1>1, <1>9, <1>10 DEF ReportInv

\* The replay ends with the point of its last bar.
LEMMA LastPointAdded == ASSUME ReplayInv, AddPoint PROVE LastPoint'
<1> DEFINE total == wallet[Account] + PositionValue
           d     == Drawdown(Max({portfolio.peak, InitialCash[Account], total}), total)
           new   == [total |-> total, drawdown |-> d]
<1>1. SUFFICES ASSUME pc' = "done", Final' # {}
               PROVE  curve'[Len(curve')].total =
                        wallet'[Account]
                          + HalfEven(Held'.quantity * quote'[CHOOSE k \in Final' : TRUE].buy,
                                   QuantityScale)
  BY DEF LastPoint
<1>2. /\ curve' = Append(curve, new) /\ bar = BarCount
      /\ UNCHANGED <<wallet, position, quote>>
  BY <1>1 DEF AddPoint, book
<1>3. Newest = Final /\ Final' = Final /\ Held' = Held
  BY <1>2 DEF Newest, EvaluatedAt, Final, LatestQuotes, Held
<1>4. curve \in Seq(Point)
  BY DEF ReplayInv, CurveSound
<1>5. new.total = total
  OBVIOUS
<1>6. total = wallet[Account]
              + HalfEven(Held.quantity * quote[CHOOSE k \in Final : TRUE].buy, QuantityScale)
  BY <1>1, <1>3 DEF PositionValue
<1> HIDE DEF new, total
<1>7. curve'[Len(curve')] = new
  BY <1>2, <1>4
<1> QED
  BY <1>2, <1>3, <1>5, <1>6, <1>7

\* What moves no money keeps the sums as they were.
LEMMA MoneyStands ==
    ASSUME ReportInv, UNCHANGED <<trades, quote, wallet, position>>
    PROVE  TradesPriced' /\ MoneySound'
BY DEF ReportInv, TradesPriced, MoneySound, Unexplained, Gain, TotalCosts, TotalOf, Held

\* And the money of the report adds up in each of them.
LEMMA ReportInvariant == BacktestSpec => []ReportInv
<1>1. BacktestInit => ReportInv
  BY ReportInitial
<1>2. ReportInv /\ ReplayInv' /\ [BacktestNext]_backtestVars => ReportInv'
  <2> SUFFICES ASSUME ReportInv, ReplayInv', [BacktestNext]_backtestVars PROVE ReportInv'
    OBVIOUS
  <2>1. CASE \E signal \in BOOLEAN : RunStrategy(signal)
    <3>1. UNCHANGED <<trades, quote, wallet, position>> /\ pc' # "done"
      BY <2>1 DEF RunStrategy, book
    <3> QED
      BY <3>1, MoneyStands DEF ReportInv, LastPoint
  <2>2. CASE ReplayRisk
    <3>1. UNCHANGED <<trades, quote, wallet, position>>
      BY <2>2 DEF ReplayRisk, book
    <3>2. pc' # "done"
      BY <2>2 DEF ReplayRisk
    <3> QED
      BY <3>1, <3>2, MoneyStands DEF ReportInv, LastPoint
  <2>3. CASE ReplayExecute
    <3> DEFINE n == Len(intents)
               k == decision[n].quote
    <3>1. /\ pc = "execute" /\ quote' = quote
          /\ \/ P!Fill(n, "buy", k) /\ pc' = "point"
             \/ pc' = "aborted" /\ UNCHANGED book
      BY <2>3, ReplayExecutes DEF ReportInv
    <3>2. TradesPriced' /\ MoneySound'
      <4>1. CASE P!Fill(n, "buy", k)
        BY <3>1, <4>1, FillKeepsMoney
      <4>2. CASE UNCHANGED book
        BY <3>1, <4>2, MoneyStands DEF book
      <4> QED
        BY <3>1, <4>1, <4>2
    <3> QED
      BY <3>1, <3>2 DEF ReportInv, LastPoint
  <2>4. CASE AddPoint
    <3>1. UNCHANGED <<trades, quote, wallet, position>>
      BY <2>4 DEF AddPoint, book
    <3> QED
      BY <2>4, <3>1, MoneyStands, LastPointAdded DEF ReportInv
  <2>5. CASE UNCHANGED backtestVars
    <3>1. UNCHANGED <<trades, quote, wallet, position, pc, curve>>
      BY <2>5 DEF backtestVars, book
    <3>2. LastPoint'
      BY <3>1 DEF ReportInv, LastPoint, Final, LatestQuotes, Held
    <3> QED
      BY <3>1, <3>2, MoneyStands DEF ReportInv
  <2> QED
    BY <2>1, <2>2, <2>3, <2>4, <2>5 DEF BacktestNext
<1> QED
  BY <1>1, <1>2, ReplayInvariant, PTL DEF BacktestSpec

\* At the end, the account is worth what it opened with, what its metal gained and
\* what its costs took, up to the roundings of the trades and of the last value.
LEMMA CostsTold == ASSUME ReportInv PROVE CostsExplainTheProfit
<1> SUFFICES ASSUME pc = "done", Newest # {}
             PROVE  CostsExplainTheProfit
  BY DEF CostsExplainTheProfit
<1>1. Final # {}
  <2>1. PICK k \in Newest : TRUE
    OBVIOUS
  <2>2. bar = BarCount + 1 /\ DOMAIN quote = QuoteIds
    BY DEF ReportInv, ReplayInv, PlaceSound, RowsStand
  <2>3. \A j \in QuoteIds : quote[j] # NoQuote => quote[j].observed <= BarCount + Latency
    BY ReplayBounds DEF ReportInv, ReplayInv, RowsStand, StoredQuote, QuoteIds
  <2>4. \A j \in QuoteIds : quote[j] # NoQuote => quote[j].observed <= EvaluatedAt
    BY <2>2, ReplayBounds DEF ReportInv, ReplayInv, RowsStand, StoredQuote, QuoteIds, EvaluatedAt
  <2>5. k \in Final
    BY <2>1, <2>2, <2>3, <2>4 DEF Newest, Final, LatestQuotes
  <2> QED
    BY <2>5
<1> DEFINE k == CHOOSE j \in Final : TRUE
           price == quote[k].buy
           S == QuantityScale
           I == InitialCash[Account]
           w == wallet[Account]
           h == Held.quantity
           V == HalfEven(h * price, S)
           G == Gain(price)
           T == TotalCosts
           L == Len(trades)
           U == Unexplained(price)
<1>2. price \in Nat
  <2>1. k \in Final
    BY <1>1
  <2> HIDE DEF k
  <2>2. k \in QuoteIds /\ quote[k] # NoQuote
    BY <2>1 DEF Final, LatestQuotes, ReportInv, ReplayInv, RowsStand
  <2>3. PICK p \in QuotedPrices : quote[k] = StoredQuote(k, p)
    BY <2>2 DEF ReportInv, ReplayInv, RowsStand
  <2> QED
    BY <2>3, BacktestAssumption DEF StoredQuote
<1>3. FinalValue = w + V
  BY <1>1 DEF ReportInv, LastPoint, FinalValue
<1> HIDE DEF k
<1>4. w \in Int /\ h \in Nat
  BY ValueType DEF ReportInv, ReplayInv
<1>5. S \in Nat \ {0} /\ I \in Int
  BY ReplayBounds
<1> HIDE DEF price
<1>6. h * price \in Nat
  BY <1>2, <1>4
<1>7. V \in Nat /\ 2 * (S * V) <= 2 * (h * price) + S /\ 2 * (S * V) >= 2 * (h * price) - S
  <2> DEFINE x == h * price
  <2>1. x \in Nat
    BY <1>6
  <2> HIDE DEF x
  <2>2. HalfEven(x, S) \in Nat /\ 2 * (S * HalfEven(x, S)) <= 2 * x + S
        /\ 2 * (S * HalfEven(x, S)) >= 2 * x - S
    BY <1>5, <2>1, HalfEvenNear
  <2> QED
    BY <2>2 DEF x
<1>8. U \in Int /\ -(S * L) <= U /\ U <= S * L
  BY <1>2 DEF ReportInv, MoneySound
<1>9. G \in Int /\ T \in Int /\ L \in Nat
  <2>1. /\ L \in Nat /\ DOMAIN trades = 1..L
        /\ \A m \in 1..L : /\ trades[m].quantity \in Nat /\ quote[trades[m].quote].buy \in Nat
                           /\ trades[m].fees + trades[m].taxes + trades[m].spread \in Int
    BY TradeTypes DEF ReportInv
  <2> DEFINE f == [m \in DOMAIN trades |->
                     trades[m].quantity * (price - quote[trades[m].quote].buy)]
             g == [m \in DOMAIN trades |-> trades[m].fees + trades[m].taxes + trades[m].spread]
  <2>2. \A m \in 1..L : f[m] \in Int /\ g[m] \in Int
    <3>1. price \in Int /\ \A a \in Nat, b \in Nat : a * (price - b) \in Int
      BY <1>2
    <3> QED
      BY <2>1, <3>1
  <2>3. DOMAIN f = 1..L /\ DOMAIN g = 1..L /\ G = TotalOf(f) /\ T = TotalOf(g)
    BY <2>1 DEF Gain, TotalCosts
  <2> HIDE DEF f, g
  <2>4. L \in Int
    BY <2>1
  <2>5. IsFiniteSet(1..L)
    BY <2>4, FS_Interval
  <2>6. SumFunctionOnSet(f, 1..L) \in Int /\ SumFunctionOnSet(g, 1..L) \in Int
    BY <2>2, <2>5, SumInt
  <2> QED
    BY <2>1, <2>3, <2>6 DEF TotalOf
<1>10. U = S * (w - I + T) + price * h - G
  BY DEF Unexplained
<1>11. PnlBeforeCosts = w + V - I + T
  BY <1>3, <1>4, <1>5, <1>7, <1>9 DEF PnlBeforeCosts, PnlAfterCosts
<1> HIDE DEF V, G, T, L, U, w, h, I, S
<1>12. S * (w + V - I + T) = S * (w - I + T) + S * V
  <2>1. w + V - I + T = (w - I + T) + V
    BY <1>4, <1>5, <1>7, <1>9
  <2> DEFINE m == w - I + T
  <2>2. m \in Int
    BY <1>4, <1>5, <1>9
  <2> HIDE DEF m
  <2>3. S * (m + V) = S * m + S * V
    BY <1>5, <1>7, <2>2
  <2> QED
    BY <2>1, <2>3 DEF m
<1>13. /\ S * (w - I + T) \in Int /\ S * V \in Nat /\ S * L \in Nat /\ price * h \in Nat
       /\ price * h = h * price /\ S * (2 * L + 1) = 2 * (S * L) + S
  BY <1>2, <1>4, <1>5, <1>7, <1>9
<1>14. S * PnlBeforeCosts - G = U + S * V - price * h
  BY <1>9, <1>10, <1>11, <1>12, <1>13
<1>15. 2 * (S * PnlBeforeCosts - G) \in -(S * (2 * L + 1)) .. S * (2 * L + 1)
  BY <1>5, <1>7, <1>8, <1>13, <1>14
<1> QED
  BY <1>15 DEF CostsExplainTheProfit, S, G, L, price, k, Final, Gain

\* The profit before costs that is reported is what the metal gained in the bank's
\* own price: fees, taxes and spread explain the rest, up to the roundings; and the
\* reported drawdown is the deepest fall between two points of the curve.
THEOREM ReportExplainsTheRun == BacktestSpec => []CurveTellsTheProfit
<1>1. ReportInv => CurveTellsTheProfit
  <2> SUFFICES ASSUME ReportInv PROVE CurveTellsTheProfit
    OBVIOUS
  <2>1. BacktestTypeOK
    <3>1. Broker!BookTypeOK
      BY SameReplayBroker DEF ReportInv, ReplayInv
    <3>2. portfolio.drawdown \in 0..DrawdownScale
      <4>1. curve \in Seq(Point) /\ Len(curve) \in 1..Len(curve)
        BY ReplayBounds DEF ReportInv, ReplayInv, CurveSound, PlaceSound
      <4>2. curve[Len(curve)] \in Point
        BY <4>1
      <4>3. \A x \in Point : x.drawdown \in 0..DrawdownScale
        BY DEF Point
      <4> QED
        BY <4>2, <4>3 DEF ReportInv, ReplayInv, CurveSound
    <3> QED
      BY <3>1, <3>2 DEF ReportInv, ReplayInv, CurveSound, PlaceSound, BacktestTypeOK
  <2>2. CostsExplainTheProfit
    BY CostsTold
  <2>3. DrawdownIsTheDeepestFall
    BY DeepestFall DEF ReportInv
  <2> QED
    BY <2>1, <2>2, <2>3 DEF CurveTellsTheProfit
<1> QED
  BY <1>1, ReportInvariant, PTL

=============================================================================
