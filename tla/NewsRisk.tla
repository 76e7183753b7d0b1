------------------------------ MODULE NewsRisk ------------------------------
(***************************************************************************)
(* News events and their risk snapshots (news/service.py): a fetched event  *)
(* is recorded under its content hash, interpreted by the Hermes rules into *)
(* one snapshot, and the snapshot consulted by whoever evaluates risk       *)
(* (EventRiskContext.is_active_at; the ML dataset asks the same).  Events   *)
(* may be recorded later and in another order than they were fetched, and   *)
(* each recording or interpretation overwrites the row.                     *)
(***************************************************************************)
EXTENDS Integers, Sequences, FiniteSets

CONSTANTS Events,             \* content hashes
          Rules,              \* HermesRiskPolicy.rules, in their order
          ActionOf,           \* the recommendation of each rule
          NoRow,
          StaleAfter,
          NewsMaxTime, MaxEvaluations  \* bounds on the clock and on the evaluations

VARIABLES newsNow,
          matched,            \* the rules whose keywords each event's text holds
          fetches,            \* <<event, time>> of fetches not yet recorded
          event,              \* fetched_at of each NewsEventModel row, or NoRow
          risk,               \* its EventRiskSnapshotModel row, or NoRow
          recorded,           \* every fetch that was recorded
          evaluations         \* what a risk evaluation saw

newsVars == <<newsNow, matched, fetches, event, risk, recorded, evaluations>>

Actions   == {"monitor", "reduce_risk", "no_trade", "veto"}
Rejecting == {"no_trade", "veto"}

ASSUME NewsAssumption ==
    /\ Rules \in Seq(STRING) /\ StaleAfter \in Nat \ {0}
    /\ ActionOf \in [{Rules[i] : i \in DOMAIN Rules} -> Actions]
    /\ {NewsMaxTime, MaxEvaluations} \subseteq Nat
    /\ NoRow \notin Nat

NewsTypeOK ==
    /\ newsNow \in Nat
    /\ matched \in [Events -> SUBSET DOMAIN ActionOf]
    /\ fetches \subseteq Events \X (0..newsNow) /\ recorded \subseteq Events \X (0..newsNow)
    /\ event \in [Events -> Nat \cup {NoRow}]
    /\ \A e \in Events : risk[e] # NoRow =>
          /\ event[e] # NoRow
          /\ risk[e].action \in Actions
          /\ risk[e].interpreted \in 0..newsNow /\ risk[e].expires > 0
    /\ evaluations \in Seq([event: Events, at: Nat, active: BOOLEAN])

NewsInit ==
    /\ matched \in [Events -> SUBSET DOMAIN ActionOf]
    /\ newsNow = 0 /\ fetches = {} /\ recorded = {} /\ evaluations = <<>>
    /\ event = [e \in Events |-> NoRow] /\ risk = [e \in Events |-> NoRow]

-----------------------------------------------------------------------------

\* A provider reads the event: published before, fetched now.
FetchEvent(e) ==
    /\ fetches' = fetches \cup {<<e, newsNow>>}
    /\ UNCHANGED <<newsNow, matched, event, risk, recorded, evaluations>>

\* record_event: inserted, or everything of the row overwritten.
RecordEvent(f) ==
    /\ f \in fetches /\ fetches' = fetches \ {f}
    /\ event' = [event EXCEPT ![f[1]] = f[2]]
    /\ recorded' = recorded \cup {f}
    /\ UNCHANGED <<newsNow, matched, risk, evaluations>>

\* Mutant: the last rule that matches decides.
ActionByLastRule(e) ==
    LET matching == { i \in DOMAIN Rules : Rules[i] \in matched[e] }
    IN  IF matching = {} THEN "monitor"
        ELSE ActionOf[Rules[CHOOSE i \in matching : \A j \in matching : j <= i]]

\* Mutant: the rule's risk level in the place of its action.
LevelOfRule(e) == IF matched[e] = {} THEN "unknown" ELSE "high"

\* _matching_rule: the first rule that matches decides, or default_action.
RecommendedAction(e) ==
    LET matching == { i \in DOMAIN Rules : Rules[i] \in matched[e] }
    IN  IF matching = {} THEN "monitor"
        ELSE ActionOf[Rules[CHOOSE i \in matching : \A j \in matching : i <= j]]

\* Mutant: the snapshot expires StaleAfter after its interpretation.
InterpretedFromNow(e) ==
    [ action |-> RecommendedAction(e), interpreted |-> newsNow, expires |-> newsNow + StaleAfter ]

\* Mutant: a snapshot keeps the time of its first interpretation.
InterpretedOnce(e) ==
    [ action |-> RecommendedAction(e), expires |-> event[e] + StaleAfter,
      interpreted |-> IF risk[e] = NoRow THEN newsNow ELSE risk[e].interpreted ]

\* NewsInterpreter.interpret: available from the fetch on, which follows publication.
Interpreted(e) ==
    [ action |-> RecommendedAction(e), interpreted |-> newsNow, expires |-> event[e] + StaleAfter ]

\* interpret_event: a stale event leaves the snapshot there is.
InterpretEvent(e) ==
    /\ event[e] # NoRow /\ newsNow - event[e] <= StaleAfter
    /\ risk' = [risk EXCEPT ![e] = Interpreted(e)]
    /\ UNCHANGED <<newsNow, matched, fetches, event, recorded, evaluations>>

\* EventRiskContext.is_active_at
ActiveAt(e, at) == risk[e] # NoRow /\ risk[e].interpreted <= at /\ at < risk[e].expires

\* A risk evaluation, or a dataset row, at this time.
Evaluate(e) ==
    /\ Len(evaluations) < MaxEvaluations
    /\ evaluations' = Append(evaluations,
                             [event |-> e, at |-> newsNow, active |-> ActiveAt(e, newsNow)])
    /\ UNCHANGED <<newsNow, matched, fetches, event, risk, recorded>>

NewsElapse ==
    /\ newsNow < NewsMaxTime /\ newsNow' = newsNow + 1
    /\ UNCHANGED <<matched, fetches, event, risk, recorded, evaluations>>

NewsNext ==
    \/ \E e \in Events : FetchEvent(e) \/ InterpretEvent(e) \/ Evaluate(e)
    \/ \E f \in fetches : RecordEvent(f)
    \/ NewsElapse

NewsSpec == NewsInit /\ [][NewsNext]_newsVars

-----------------------------------------------------------------------------
(* Properties *)

\* A snapshot speaks for StaleAfter from a recorded fetch, made before it was
\* interpreted, and not longer: neither repeated interpretation nor fetches that
\* are recorded late or out of order prolong it past that.
ExpiryFollowsAFetch ==
    \A e \in Events : risk[e] # NoRow =>
        \E f \in recorded :
            /\ f[1] = e /\ risk[e].expires = f[2] + StaleAfter
            /\ f[2] <= risk[e].interpreted
            /\ \E g \in recorded : g[1] = e /\ risk[e].interpreted - g[2] <= StaleAfter

\* The stored snapshot still answers an earlier evaluation as it was answered then,
\* unless the event was interpreted since (or in the same instant).
ReplaysAgreeUnlessReinterpreted ==
    \A i \in DOMAIN evaluations :
        LET v == evaluations[i]
        IN  ActiveAt(v.event, v.at) # v.active => risk[v.event].interpreted >= v.at

\* An event some rule rejects trades for is interpreted as rejecting, whatever
\* other rules its text matches.
RejectingRulesPrevail ==
    \A e \in Events :
        /\ risk[e] # NoRow
        /\ \E r \in matched[e] : ActionOf[r] \in Rejecting
        => risk[e].action \in Rejecting

\* A snapshot says what its event and its rules say, for as long as they say it.
SnapshotsFollowTheirEvents == NewsTypeOK /\ ExpiryFollowsAFetch /\ RejectingRulesPrevail

=============================================================================
