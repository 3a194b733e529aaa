------------------------------ MODULE QueryPlan ------------------------------
(***************************************************************************)
(* The tables and pure functions that decide what a query runs: which      *)
(* tools the planner selects for an intent (agent/planner.py), which       *)
(* feature families and columns are computed for it                        *)
(* (tools/feature_engineering.py), which rules are applied to it and what  *)
(* they read (tools/rule_engine.py), what the model reads                  *)
(* (tools/ml_engine.py), and how much each detector weighs                 *)
(* (tools/risk_scorer.py).  Each table lives in a file of its own and      *)
(* repeats the names of the others; QueryPipeline runs queries by them.    *)
(***************************************************************************)
EXTENDS Naturals, Sequences, FiniteSets

NoPattern == "no_pattern"

IntentNames == {"pattern_search", "aggregation", "entity_lookup", "broad_eda"}

PatternTypes ==
    {"structuring", "smurfing", "layering", "rapid_cashout",
     "behavioural_change", "cycle", "fan_in", "fan_out", "single_large",
     "deposit_send", "cash_withdrawal", "bipartite", "gather_scatter",
     "scatter_gather"}

Intents == [intent : IntentNames, pattern_type : PatternTypes \cup {NoPattern}]

GRAPH_PATTERNS ==
    {"layering", "cycle", "bipartite", "gather_scatter", "scatter_gather"}

\* _enforce_derived_flags: what an intent requires follows from its name and
\* its pattern, whatever the language model said.
RequireEda(i)   == i.intent = "broad_eda"
RequireMl(i)    == i.intent \in {"pattern_search", "broad_eda"}
RequireGraph(i) == i.pattern_type \in GRAPH_PATTERNS

-----------------------------------------------------------------------------
(* The planner *)

\* Mutant: the scorer moved before the model.
OrderScoringEarly ==
    [data_loader   |-> 1, aggregation |-> 2, eda         |-> 3,
     feature_engineering |-> 4,              rule_engine |-> 5,
     statistical   |-> 6, risk_scorer |-> 7, ml_engine   |-> 8,
     graph_tool    |-> 9, escalation  |-> 10, explanation |-> 11]

\* The place of each tool in the order that plans are run in.
TOOL_ORDER ==
    [data_loader   |-> 1, aggregation |-> 2, eda         |-> 3,
     feature_engineering |-> 4,              rule_engine |-> 5,
     statistical   |-> 6, ml_engine   |-> 7, graph_tool  |-> 8,
     risk_scorer   |-> 9, escalation  |-> 10, explanation |-> 11]

ALLOWED_TOOLS ==
    {"data_loader", "aggregation", "eda", "feature_engineering",
     "rule_engine", "statistical", "ml_engine", "graph_tool",
     "risk_scorer", "escalation", "explanation"}

RULE_PATTERNS ==
    {"structuring", "smurfing", "fan_in", "fan_out", "single_large",
     "deposit_send", "cash_withdrawal", "rapid_cashout"}

INTENT_TOOLS ==
    [broad_eda      |-> {"eda", "feature_engineering", "statistical", "ml_engine"},
     pattern_search |-> {"feature_engineering", "statistical", "ml_engine"},
     entity_lookup  |-> {"feature_engineering", "rule_engine", "statistical"},
     aggregation    |-> {"aggregation"}]

Selected(i) ==
    {"data_loader", "risk_scorer", "escalation", "explanation"}
        \cup INTENT_TOOLS[i.intent]
        \cup {t \in {"rule_engine"} : /\ i.intent # "aggregation"
                                      /\ i.pattern_type \in RULE_PATTERNS}
        \cup {t \in {"ml_engine"} : RequireMl(i)}
        \cup {t \in {"graph_tool"} : RequireGraph(i)}
        \cup {t \in {"eda"} : RequireEda(i)}

\* _policy_steps: those of the ordered tools that are selected.
PolicySteps(i) == DOMAIN TOOL_ORDER \cap Selected(i)

\* Mutant: only what could have analysed the frame is reported as skipped.
SkippedDetectors(i) == DOMAIN TOOL_ORDER \ (Selected(i) \cup {"aggregation"})

Skipped(i) == DOMAIN TOOL_ORDER \ Selected(i)

\* The tool of a plan's remaining steps that is run next.
IsFirst(tool, steps) ==
    /\ tool \in steps
    /\ \A t \in steps : TOOL_ORDER[tool] <= TOOL_ORDER[t]

-----------------------------------------------------------------------------
(* Features *)

FEATURE_FAMILIES ==
    [structuring_features   |-> {"txn_count_7d", "rolling_sum_7d",
                                 "near_threshold_count"},
     velocity_features      |-> {"velocity_1hr", "fan_in_count",
                                 "fan_in_sum_48h"},
     rapid_cashout_features |-> {"recent_inflow_24h", "velocity_1hr",
                                 "txn_count_7d"},
     fan_in_out_features    |-> {"fan_in_count", "fan_out_count",
                                 "fan_in_sum_48h"},
     behavioral_features    |-> {"amount_deviation"},
     graph_features         |-> {"cross_border_flag"}]

MODEL_FEATURE_FAMILIES ==
    {"structuring_features", "velocity_features", "behavioral_features"}

DERIVED_COLUMNS ==
    {"txn_count_7d", "rolling_sum_7d", "near_threshold_count",
     "amount_deviation", "velocity_1hr", "fan_in_count", "cross_border_flag",
     "fan_in_sum_48h", "fan_out_count", "recent_inflow_24h"}

\* Mutant: deposit-send left out of the table.
FamiliesWithoutDeposits ==
    [structuring        |-> {"structuring_features"},
     smurfing           |-> {"structuring_features", "velocity_features"},
     rapid_cashout      |-> {"rapid_cashout_features"},
     cash_withdrawal    |-> {"rapid_cashout_features"},
     fan_in             |-> {"fan_in_out_features"},
     fan_out            |-> {"fan_in_out_features"},
     single_large       |-> {}]

\* _PATTERN_FAMILIES, for the patterns an intent can have.
PATTERN_FAMILIES ==
    [structuring        |-> {"structuring_features"},
     smurfing           |-> {"structuring_features", "velocity_features"},
     rapid_cashout      |-> {"rapid_cashout_features"},
     cash_withdrawal    |-> {"rapid_cashout_features"},
     deposit_send       |-> {"rapid_cashout_features"},
     fan_in             |-> {"fan_in_out_features"},
     fan_out            |-> {"fan_in_out_features"},
     layering           |-> {"fan_in_out_features", "graph_features"},
     cycle              |-> {"fan_in_out_features", "graph_features"},
     bipartite          |-> {"fan_in_out_features", "graph_features"},
     behavioural_change |-> {"behavioral_features"},
     single_large       |-> {}]

PatternFamilies(p) ==
    IF p \in DOMAIN PATTERN_FAMILIES THEN PATTERN_FAMILIES[p]
    ELSE {"behavioral_features"}

SelectedFeatureFamilies(p, requireModel) ==
    (IF p = NoPattern THEN DOMAIN FEATURE_FAMILIES ELSE PatternFamilies(p))
        \cup (IF requireModel THEN MODEL_FEATURE_FAMILIES ELSE {})

FeatureColumns(p, requireModel) ==
    UNION {FEATURE_FAMILIES[f] : f \in SelectedFeatureFamilies(p, requireModel)}

\* What the columns of a frame are once its features have been computed: the
\* derived columns it had are dropped first.
WithFeatures(cols, p, requireModel) ==
    (cols \ DERIVED_COLUMNS) \cup FeatureColumns(p, requireModel)

\* The columns of the features the Isolation Forest is trained on and reads.
FEATURES ==
    {"txn_count_7d", "rolling_sum_7d", "near_threshold_count",
     "amount_deviation", "velocity_1hr", "fan_in_count"}

-----------------------------------------------------------------------------
(* Rules.  The eighth, high_risk_country, is applied to frames that have    *)
(* country columns, and no table of a primary dataset has them.             *)

PATTERN_TO_RULE ==
    [structuring     |-> "structuring",
     smurfing        |-> "smurfing",
     rapid_cashout   |-> "rapid_cashout",
     cash_withdrawal |-> "rapid_cashout",
     single_large    |-> "single_large",
     deposit_send    |-> "deposit_send",
     fan_in          |-> "fan_in",
     fan_out         |-> "fan_out"]

\* The columns a rule's condition reads.  One that is missing reads as zero
\* (or the empty string), and the rule is silent.
RuleInputs ==
    [structuring   |-> {"amount_paid", "near_threshold_count"},
     smurfing      |-> {"fan_in_count", "fan_in_sum_48h", "payment_format",
                        "txn_count_7d", "rolling_sum_7d"},
     rapid_cashout |-> {"payment_format", "recent_inflow_24h", "txn_count_7d"},
     single_large  |-> {"amount_paid"},
     deposit_send  |-> {"recent_inflow_24h"},
     fan_in        |-> {"fan_in_count"},
     fan_out       |-> {"fan_out_count"}]

Rules == DOMAIN RuleInputs

SelectedRules(p) ==
    IF p = NoPattern THEN Rules
    ELSE {PATTERN_TO_RULE[q] : q \in {p} \cap DOMAIN PATTERN_TO_RULE}

-----------------------------------------------------------------------------
(* Detectors: their weights in twentieths (0.40, 0.25, 0.35) and the column *)
(* each leaves its score in.                                                *)

BASE_WEIGHTS  == [rule_engine |-> 8, statistical |-> 5, ml_engine |-> 7]
SCORE_COLUMNS == [rule_engine |-> "rule_score", statistical |-> "stat_score",
                  ml_engine   |-> "ml_score"]
Detectors     == DOMAIN BASE_WEIGHTS

Weight(active) ==
    LET W(d) == IF d \in active THEN BASE_WEIGHTS[d] ELSE 0
    IN  W("rule_engine") + W("statistical") + W("ml_engine")

\* _active_detectors: those in the plan that left a score in the frame.
ActiveDetectors(cols, ran_tools) ==
    {d \in Detectors : d \in ran_tools /\ SCORE_COLUMNS[d] \in cols}

=============================================================================
