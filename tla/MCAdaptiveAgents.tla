-------------------------- MODULE MCAdaptiveAgents --------------------------
(***************************************************************************)
(* The alternate agents' functions over bounded inputs. They have no state *)
(* to explore: TLC evaluates these assumptions before a run of a module    *)
(* that extends this one.                                                  *)
(***************************************************************************)
EXTENDS RiskDecision

MCQueries == [words : {<<>>, <<"words">>}, tidy : BOOLEAN]

\* Every intent under every limit up to one more than the longest plan; the
\* default limit refuses none.
ASSUME PlansChecked ==
    \A q \in MCQueries, i \in AdaptiveIntents :
        /\ \A max_steps \in 2 .. DefaultSteps + 1 : PlanComplete(q, i, max_steps)
        /\ PlanRefused(q, i, DefaultSteps) <=> Blank(q)

\* A small budget, clocks that do not go back.
MCBudget ==
    [DefaultBudget EXCEPT !.max_model_rows = 2, !.max_model_features = 1,
        !.max_explanations = 2, !.max_explanation_chars = 80, !.total_seconds = 1]

MCClocks(n) == {c \in [1 .. n -> 0 .. 2] : Monotonic(c)}

MCTexts == {[length |-> 80, spaces |-> {}], [length |-> 81, spaces |-> {79}], [length |-> 90, spaces |-> {80}]}

Upto(n, S) == UNION {[1 .. k -> S] : k \in 0 .. n}

ASSUME BudgetsChecked ==
    /\ ValidBudget(MCBudget) /\ ValidBudget(DefaultBudget)
    /\ \A rows \in Upto(3, {1, 2}), scores \in Upto(3, {0, One, One + 1}), clock \in MCClocks(3) :
          ScoredWithinBudget(MCBudget, rows, scores, clock)
    /\ \A texts \in Upto(3, MCTexts) : \A clock \in MCClocks(Len(texts) + 2) :
          RenderedWithinBudget(MCBudget, texts, clock)

\* Up to two signals of two detectors about two entities, with scores in every
\* band, one that is none, and wrong labels.
MCSignals ==
    [entity_id : {1, 2}, detector : {"rule_engine", "graph_engine"}, score : {0, 600000, One, One + 1},
     flags : {{"FLAG"}}, high_risk_country : {TRUE}]

MCIntents == {[intent |-> "pattern_search", pattern_type |-> "layering", require_ml |-> FALSE,
               require_graph |-> FALSE],
              [intent |-> "aggregation", pattern_type |-> NoPattern, require_ml |-> TRUE,
               require_graph |-> TRUE]}

MCEmitted ==
    {[t \in DetectorTools |-> IF t = "rule_engine" THEN r ELSE IF t = "graph_engine" THEN g ELSE <<>>] :
        r \in Upto(2, MCSignals), g \in Upto(1, MCSignals)}

ASSUME DetectionChecked ==
    \A i \in MCIntents, emitted \in MCEmitted, adapters \in {DetectorTools, {"rule_engine"}} :
        LET query == [words |-> <<"words">>, tidy |-> TRUE]
            plan == BuildPlan(query, i)
        IN  /\ FindingsAccountable(query, i, adapters, emitted)
            /\ ~DetectRefused(query, plan, adapters, emitted) =>
                  \A f \in Detect(plan, emitted) :
                      LET e == EvidenceOf(f, emitted)
                      IN  IsEvidence(e) /\ BandsFollowScore(DefaultPolicy, e)

MCCounts == [{"rule_engine", "ml_engine"} -> 0 .. 2]

ASSUME DecisionsChecked ==
    /\ ValidPolicy(DefaultPolicy)
    /\ \A count \in MCCounts, low \in {0, 450000, 749999, One}, width \in {0, 1, 250000},
          country \in SUBSET {"rule_engine"} :
          LET high == IF low + width > One THEN One ELSE low + width
              n(d) == IF d \in DOMAIN count THEN count[d] ELSE 0
          IN  \A lift \in 0 .. 1 :
              LET e == [count |-> [d \in DetectorTools |-> n(d)],
                        sum |-> [d \in DetectorTools |->
                                    n(d) * (IF d = "ml_engine" \/ lift = 1 THEN high ELSE low)],
                        country |-> {d \in country : n(d) > 0}]
              IN  WithinEvidence(DefaultPolicy, e, low, high) /\ BandsFollowScore(DefaultPolicy, e)
=============================================================================
