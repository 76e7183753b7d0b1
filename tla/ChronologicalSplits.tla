------------------------- MODULE ChronologicalSplits -------------------------
(***************************************************************************)
(* chronological_splits (ml_experiments/service.py): expanding training     *)
(* windows, an embargo, and a test window after it.  Rows are numbered from *)
(* 1, folds from 0.                                                         *)
(***************************************************************************)
EXTENDS Integers

CONSTANTS NSplits, Embargo, MinTrainRows, MinTestRows   \* TimeSeriesSplitSpec

\* TimeSeriesSplitSpec.__post_init__
ASSUME SplitAssumption ==
    /\ {NSplits, MinTrainRows, MinTestRows} \subseteq Nat \ {0}
    /\ Embargo \in Nat

TestSize(rows) ==
    LET share == rows \div (NSplits + 1) IN IF share > MinTestRows THEN share ELSE MinTestRows

TrainEnd(rows, fold) == TestSize(rows) * (fold + 1)

\* Mutant: the test window follows the training window.
TestStartAtOnce(rows, fold) == TrainEnd(rows, fold)

TestStart(rows, fold) == TrainEnd(rows, fold) + Embargo
TestEnd(rows, fold)   == TestStart(rows, fold) + TestSize(rows)

\* Mutant: a test window may reach over the end.
FoldsUnbounded(rows) ==
    { fold \in 0..(NSplits - 1) : TrainEnd(rows, fold) >= MinTrainRows }

\* The folds that are not skipped.
Folds(rows) ==
    { fold \in 0..(NSplits - 1) :
        TrainEnd(rows, fold) >= MinTrainRows /\ TestEnd(rows, fold) <= rows }

Train(rows, fold) == 1..TrainEnd(rows, fold)
Test(rows, fold)  == (TestStart(rows, fold) + 1)..TestEnd(rows, fold)

===============================================================================
