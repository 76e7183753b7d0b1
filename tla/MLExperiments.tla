---------------------------- MODULE MLExperiments ----------------------------
(***************************************************************************)
(* One offline experiment (ml_experiments/service.py): the candidate rows   *)
(* of a range of bars with their forward labels, then one model family over *)
(* the chronological folds.  Instants are counted in bars: the decision on  *)
(* bar b is made at b, its label is known at b + Horizon.                   *)
(***************************************************************************)
EXTENDS ChronologicalSplits, Sequences, FiniteSets, FiniteSetsExt

CONSTANTS Horizon,            \* label_horizon_bars
          BarsInRange         \* bound on the bars of the range

VARIABLES nextBar,            \* the next bar of the range to look at
          rows,               \* the candidate rows
          library,            \* scikit-learn, an optional extra, is installed; fixed
          family,             \* the model family of the run
          status,             \* MLExperimentRunModel.status, "dataset" before the run
          error,              \* the exception in report_json["error"]
          metrics             \* the folds with MLExperimentMetricModel rows

mlVars == <<nextBar, rows, library, family, status, error, metrics>>

ASSUME ExperimentAssumption == Horizon \in Nat \ {0} /\ BarsInRange \in Nat

\* The families that _predict knows.
Supported == {"rule_only", "dummy", "logistic_regression"}

\* model_families is any non-empty tuple of names: "other" is one _predict does not know.
Families == Supported \cup {"other"}

\* What ends a run early: a ValueError of its own, of the estimator (fit, predict, a
\* feature that is not a number), of the last line, or the ImportError.
Errors == {"one_class", "estimator", "unsupported", "no_library"}

MLTypeOK ==
    /\ nextBar \in 1..(BarsInRange + 1)
    /\ rows \in Seq([bar: 1..(BarsInRange - Horizon), positive: BOOLEAN])
    /\ library \in BOOLEAN /\ family \in Families /\ error \in Errors \cup {"none"}
    /\ status \in {"dataset", "running", "insufficient_data", "completed", "failed"}
    /\ metrics \subseteq Folds(Len(rows))

MLInit ==
    /\ nextBar = 1 /\ rows = <<>> /\ status = "dataset" /\ metrics = {}
    /\ library \in BOOLEAN /\ family = "rule_only" /\ error = "none"

-----------------------------------------------------------------------------

\* Mutant: the last bars are labelled with what there is.
LabelledEarly(b) == TRUE

\* _candidate_rows: a label needs the bar at its horizon.
Labelled(b) == b + Horizon <= BarsInRange

\* A bar becomes a row when its features were known, the strategy buys and a
\* quote was observed after the decision and up to the label's instant.
AddRow(positive) ==
    /\ status = "dataset" /\ nextBar <= BarsInRange /\ Labelled(nextBar)
    /\ rows' = Append(rows, [bar |-> nextBar, positive |-> positive])
    /\ nextBar' = nextBar + 1
    /\ UNCHANGED <<library, family, status, error, metrics>>

SkipBar ==
    /\ status = "dataset" /\ nextBar <= BarsInRange
    /\ nextBar' = nextBar + 1
    /\ UNCHANGED <<rows, library, family, status, error, metrics>>

Classes(indices) == { rows[n].positive : n \in indices }

\* _run_model: no fold or one class is not enough data.
StartRun(model) ==
    /\ status = "dataset" /\ nextBar > BarsInRange
    /\ family' = model
    /\ status' = IF Folds(Len(rows)) = {} \/ Cardinality(Classes(DOMAIN rows)) < 2
                 THEN "insufficient_data" ELSE "running"
    /\ UNCHANGED <<nextBar, rows, library, error, metrics>>

Remaining == Folds(Len(rows)) \ metrics

BothClasses(indices) == Cardinality(Classes(indices)) = 2

\* Mutant: both classes anywhere in the dataset are enough.
OutcomesFromAllRows(fold) ==
    IF family \notin Supported THEN {"unsupported"}
    ELSE IF family # "logistic_regression" THEN {"none"}
    ELSE IF ~BothClasses(DOMAIN rows) THEN {"one_class"}
    ELSE IF ~library THEN {"no_library"} ELSE {"none", "estimator"}

\* How _predict may end on a fold: with predictions ("none"), or with the first
\* exception on its way.  The labels are looked at before the library is imported.
Outcomes(fold) ==
    IF family \notin Supported THEN {"unsupported"}
    ELSE IF family # "logistic_regression" THEN {"none"}
    ELSE IF ~BothClasses(Train(Len(rows), fold)) THEN {"one_class"}
    ELSE IF ~library THEN {"no_library"} ELSE {"none", "estimator"}

\* One fold: its metrics, or the end of the run.  The metrics of earlier folds stay.
RunFold ==
    /\ status = "running" /\ Remaining # {}
    /\ \E outcome \in Outcomes(Min(Remaining)) :
          IF outcome = "none"
          THEN metrics' = metrics \cup {Min(Remaining)} /\ UNCHANGED <<status, error>>
          ELSE status' = "failed" /\ error' = outcome /\ UNCHANGED metrics
    /\ UNCHANGED <<nextBar, rows, library, family>>

EndRun ==
    /\ status = "running" /\ Remaining = {}
    /\ status' = "completed"
    /\ UNCHANGED <<nextBar, rows, library, family, error, metrics>>

MLNext ==
    \/ \E positive \in BOOLEAN : AddRow(positive)
    \/ \E model \in Families : StartRun(model)
    \/ SkipBar \/ RunFold \/ EndRun

MLSpec == MLInit /\ [][MLNext]_mlVars

-----------------------------------------------------------------------------
(* Properties *)

\* With an embargo as long as the label horizon, everything a fold learns from had
\* happened when the first row it is tested on was decided: the instant of a
\* training label, and so its exit price, precedes the features of every test row.
NoLabelLeaks ==
    Embargo >= Horizon =>
        \A fold \in Folds(Len(rows)) :
            \A i \in Train(Len(rows), fold), j \in Test(Len(rows), fold) :
                rows[i].bar + Horizon < rows[j].bar

\* Every row is tested at most once, and every fold that is run lies within the rows.
RowsAreTestedOnce ==
    LET n == Len(rows)
    IN  \A f, g \in Folds(n) :
          /\ Test(n, f) # {} /\ Train(n, f) # {} /\ Train(n, f) \cup Test(n, f) \subseteq DOMAIN rows
          /\ Train(n, f) \cap Test(n, f) = {}
          /\ f # g => Test(n, f) \cap Test(n, g) = {}

\* No fold is tested on what it learned from, or on what leads to it.
FoldsDoNotLeak == MLTypeOK /\ NoLabelLeaks /\ RowsAreTestedOnce

\* A completed run has metrics of every fold and could make every prediction.  A failed
\* one has those of exactly the folds before the one it names an error of, which is the
\* error of that fold: one class to learn from, whatever is installed; with two, a
\* missing library, and then nothing was measured, or the estimator's own.  The two
\* baselines never fail, and an unknown family never measures anything.
MetricsTellTheRun ==
    LET learns(fold) == BothClasses(Train(Len(rows), fold))
    IN  /\ status = "completed" =>
              /\ metrics = Folds(Len(rows)) /\ family \in Supported
              /\ family = "logistic_regression" => library /\ \A g \in metrics : learns(g)
        /\ status = "failed" =>
              \E fold \in Remaining :
                  /\ metrics = { g \in Folds(Len(rows)) : g < fold }
                  /\ \/ /\ family = "logistic_regression"
                        /\ \A g \in metrics : learns(g)
                        /\ error = "one_class" <=> ~learns(fold)
                        /\ error = "no_library" <=> learns(fold) /\ ~library
                        /\ ~library => metrics = {}
                     \/ family \notin Supported /\ error = "unsupported" /\ metrics = {}
        /\ status = "failed" <=> error # "none"
        /\ status \in {"dataset", "insufficient_data"} => metrics = {}

===============================================================================
