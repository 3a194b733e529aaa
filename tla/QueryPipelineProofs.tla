------------------------- MODULE QueryPipelineProofs -------------------------
(***************************************************************************)
(* Proofs about QueryPipeline, for every set of tables, whatever the       *)
(* detectors find and the language model answers, and all limits: the tools*)
(* of a plan run in order and each once, detectors find the columns they   *)
(* read, the scorer counts the detectors that ran, the response lists the  *)
(* worst accounts with their explanations and actions, and every step of a *)
(* query brings it nearer to its end.                                      *)
(*                                                                         *)
(* The argument.  The tools that ran come before those that have not       *)
(* (OrderInv), so when a detector is next the features have been computed; *)
(* the frame has the columns of exactly the tools that ran (ColumnInv); and*)
(* for each pattern the families computed for it cover what the rules      *)
(* applied to it read (PatternInputs), which is a fact about the tables.   *)
(*                                                                         *)
(* What the rows hold follows the tools too: scores are those of the       *)
(* detectors' findings (ScoredInv) and actions those of the scores         *)
(* (ActionInv), because a tool that could change what they were taken from *)
(* is never run after them.  The worst rows are a CHOOSE of a sorted       *)
(* arrangement; that one exists is shown without induction, by giving each *)
(* row the number of rows before it as its place (SortedExists), and it    *)
(* depends on accounts and risks only (SameWorst), so what explain chose   *)
(* and what the response lists are the same rows (ExplainInv, AnswerInv).  *)
(***************************************************************************)
EXTENDS QueryPipeline, SequenceTheorems, FiniteSetTheorems, TLAPS

OrderInv ==
    /\ stage \in Stages
    /\ intent \in Intents
    /\ trace \in Seq(ALLOWED_TOOLS)
    /\ steps \subseteq ALLOWED_TOOLS
    /\ \A j, k \in DOMAIN trace :
          j < k => TOOL_ORDER[trace[j]] < TOOL_ORDER[trace[k]]
    /\ \A t \in RanTools, u \in steps : TOOL_ORDER[t] < TOOL_ORDER[u]
    /\ stage \in {"extract", "plan"} => trace = <<>>
    /\ stage = "run" => steps \cup RanTools = Selected(intent)
    /\ stage = "answered" => /\ RanTools = Selected(intent)
                             /\ response.skipped = Skipped(intent)

ColumnInv ==
    /\ "data_loader" \in RanTools => BaseColumns \subseteq cols
    /\ "feature_engineering" \in RanTools =>
          FeatureColumns(intent.pattern_type, "ml_engine" \in Selected(intent))
             \subseteq cols
    /\ \A d \in Detectors : SCORE_COLUMNS[d] \in cols <=> d \in RanTools
    /\ "risk_score" \in cols <=> "risk_scorer" \in RanTools
    /\ "risk_scorer" \in RanTools => active = RanTools \cap Detectors

QueryInv == OrderInv /\ ColumnInv

-----------------------------------------------------------------------------
(* Facts about the tables *)

\* The places of the tools are those of a list.
LEMMA OrderFacts ==
    /\ \A t \in ALLOWED_TOOLS : TOOL_ORDER[t] \in 1..11
    /\ \A t, u \in ALLOWED_TOOLS : TOOL_ORDER[t] = TOOL_ORDER[u] => t = u
    /\ TOOL_ORDER["data_loader"] = 1
    /\ TOOL_ORDER["feature_engineering"] = 4
    /\ TOOL_ORDER["rule_engine"] = 5
    /\ TOOL_ORDER["statistical"] = 6
    /\ TOOL_ORDER["ml_engine"] = 7
    /\ TOOL_ORDER["risk_scorer"] = 9
  BY DEF ALLOWED_TOOLS, TOOL_ORDER

LEMMA ToolsAreOrdered == DOMAIN TOOL_ORDER = ALLOWED_TOOLS
  BY DEF ALLOWED_TOOLS, TOOL_ORDER

LEMMA DetectorFacts ==
    /\ Detectors = {"rule_engine", "statistical", "ml_engine"}
    /\ SCORE_COLUMNS["rule_engine"] = "rule_score"
    /\ SCORE_COLUMNS["statistical"] = "stat_score"
    /\ SCORE_COLUMNS["ml_engine"] = "ml_score"
  BY DEF Detectors, BASE_WEIGHTS, SCORE_COLUMNS

\* Whatever an intent is, the plan has the mandatory tools, and computes
\* features whenever it has a detector.
LEMMA SelectedFacts ==
    ASSUME NEW i \in Intents
    PROVE  /\ Selected(i) \subseteq ALLOWED_TOOLS
           /\ {"data_loader", "risk_scorer", "escalation", "explanation"}
                 \subseteq Selected(i)
           /\ "rule_engine" \in Selected(i) => "feature_engineering" \in Selected(i)
           /\ "ml_engine" \in Selected(i) => "feature_engineering" \in Selected(i)
  <1>1. i.intent \in {"pattern_search", "aggregation", "entity_lookup", "broad_eda"}
    BY DEF Intents, IntentNames
  <1>2. INTENT_TOOLS[i.intent] \subseteq ALLOWED_TOOLS
    BY <1>1 DEF INTENT_TOOLS, ALLOWED_TOOLS
  <1>3. i.intent # "aggregation" =>
           "feature_engineering" \in INTENT_TOOLS[i.intent]
    BY <1>1 DEF INTENT_TOOLS
  <1>4. i.intent = "aggregation" => INTENT_TOOLS[i.intent] = {"aggregation"}
    BY DEF INTENT_TOOLS
  <1>5. Selected(i) \subseteq ALLOWED_TOOLS
    BY <1>2 DEF Selected, ALLOWED_TOOLS
  <1>6. {"data_loader", "risk_scorer", "escalation", "explanation"}
           \subseteq Selected(i)
    BY DEF Selected
  <1>7. CASE i.intent = "aggregation"
    <2>1. "rule_engine" \notin Selected(i) /\ "ml_engine" \notin Selected(i)
      BY <1>4, <1>7 DEF Selected, RequireMl
    <2> QED
      BY <1>5, <1>6, <2>1
  <1>8. CASE i.intent # "aggregation"
    <2>1. "feature_engineering" \in Selected(i)
      BY <1>3, <1>8 DEF Selected
    <2> QED
      BY <1>5, <1>6, <2>1
  <1> QED
    BY <1>7, <1>8

\* No selected tool is left out of the order.
LEMMA PlanIsSelected ==
    ASSUME NEW i \in Intents PROVE PolicySteps(i) = Selected(i)
  BY SelectedFacts, ToolsAreOrdered DEF PolicySteps

FamilyColumns ==
    /\ FEATURE_FAMILIES["structuring_features"] =
         {"txn_count_7d", "rolling_sum_7d", "near_threshold_count"}
    /\ FEATURE_FAMILIES["velocity_features"] =
         {"velocity_1hr", "fan_in_count", "fan_in_sum_48h"}
    /\ FEATURE_FAMILIES["rapid_cashout_features"] =
         {"recent_inflow_24h", "velocity_1hr", "txn_count_7d"}
    /\ FEATURE_FAMILIES["fan_in_out_features"] =
         {"fan_in_count", "fan_out_count", "fan_in_sum_48h"}
    /\ FEATURE_FAMILIES["behavioral_features"] = {"amount_deviation"}
    /\ FEATURE_FAMILIES["graph_features"] = {"cross_border_flag"}
    /\ DOMAIN FEATURE_FAMILIES =
         {"structuring_features", "velocity_features", "rapid_cashout_features",
          "fan_in_out_features", "behavioral_features", "graph_features"}

LEMMA Families == FamilyColumns
  BY DEF FamilyColumns, FEATURE_FAMILIES

\* The model's families have all of the model's features.
LEMMA ModelInputs ==
    ASSUME NEW p PROVE FEATURES \subseteq FeatureColumns(p, TRUE)
  <1>1. MODEL_FEATURE_FAMILIES \subseteq SelectedFeatureFamilies(p, TRUE)
    BY DEF SelectedFeatureFamilies
  <1>2. FEATURES \subseteq UNION {FEATURE_FAMILIES[f] : f \in MODEL_FEATURE_FAMILIES}
    BY Families DEF FamilyColumns, FEATURES, MODEL_FEATURE_FAMILIES
  <1> QED
    BY <1>1, <1>2 DEF FeatureColumns

\* Features are derived columns, so computing them leaves the others alone.
LEMMA FeaturesAreDerived ==
    ASSUME NEW p, NEW m
    PROVE  FeatureColumns(p, m) \subseteq DERIVED_COLUMNS
  <1>1. PatternFamilies(p) \subseteq DOMAIN FEATURE_FAMILIES
    <2>1. \A q \in DOMAIN PATTERN_FAMILIES :
             PATTERN_FAMILIES[q] \subseteq DOMAIN FEATURE_FAMILIES
      BY Families DEF FamilyColumns, PATTERN_FAMILIES
    <2> QED
      BY <2>1, Families DEF PatternFamilies, FamilyColumns
  <1>2. MODEL_FEATURE_FAMILIES \subseteq DOMAIN FEATURE_FAMILIES
    BY Families DEF FamilyColumns, MODEL_FEATURE_FAMILIES
  <1>3. SelectedFeatureFamilies(p, m) \subseteq DOMAIN FEATURE_FAMILIES
    BY <1>1, <1>2 DEF SelectedFeatureFamilies
  <1>4. \A f \in DOMAIN FEATURE_FAMILIES : FEATURE_FAMILIES[f] \subseteq DERIVED_COLUMNS
    BY Families DEF FamilyColumns, DERIVED_COLUMNS
  <1> QED
    BY <1>3, <1>4 DEF FeatureColumns

\* The families of a pattern have the derived columns that its rule reads, and
\* all families those of all rules.
LEMMA PatternInputs ==
    ASSUME NEW p \in PatternTypes \cup {NoPattern}, NEW m \in BOOLEAN,
           NEW r \in SelectedRules(p)
    PROVE  RuleInputs[r] \subseteq BaseColumns \cup FeatureColumns(p, m)
  <1>1. CASE p = NoPattern
    <2>1. r \in {"structuring", "smurfing", "rapid_cashout", "single_large",
                 "deposit_send", "fan_in", "fan_out"}
      BY <1>1 DEF SelectedRules, Rules, RuleInputs
    <2>2. SelectedFeatureFamilies(p, m)
             = DOMAIN FEATURE_FAMILIES \cup SelectedFeatureFamilies(p, m)
      BY <1>1 DEF SelectedFeatureFamilies
    <2>3. /\ {"txn_count_7d", "rolling_sum_7d", "near_threshold_count"}
                \subseteq FeatureColumns(p, m)
          /\ {"recent_inflow_24h", "velocity_1hr", "txn_count_7d"}
                \subseteq FeatureColumns(p, m)
          /\ {"fan_in_count", "fan_out_count", "fan_in_sum_48h"}
                \subseteq FeatureColumns(p, m)
      BY <2>2, Families DEF FamilyColumns, FeatureColumns
    <2> QED
      BY <2>1, <2>3 DEF RuleInputs, BaseColumns
  <1>2. CASE p # NoPattern
    <2>1. /\ p \in DOMAIN PATTERN_TO_RULE
          /\ r = PATTERN_TO_RULE[p]
      BY <1>2 DEF SelectedRules
    <2>2. p \in {"structuring", "smurfing", "rapid_cashout", "cash_withdrawal",
                 "single_large", "deposit_send", "fan_in", "fan_out"}
      BY <2>1 DEF PATTERN_TO_RULE
    <2>3. /\ p \in DOMAIN PATTERN_FAMILIES
          /\ PATTERN_FAMILIES[p] \subseteq SelectedFeatureFamilies(p, m)
      BY <1>2, <2>2 DEF PATTERN_FAMILIES, PatternFamilies, SelectedFeatureFamilies
    <2>4. \A f \in PATTERN_FAMILIES[p] :
             FEATURE_FAMILIES[f] \subseteq FeatureColumns(p, m)
      BY <2>3 DEF FeatureColumns
    <2>5. CASE p = "structuring"
      BY <2>1, <2>4, <2>5, Families
      DEF PATTERN_TO_RULE, PATTERN_FAMILIES, RuleInputs, BaseColumns, FamilyColumns
    <2>6. CASE p = "smurfing"
      BY <2>1, <2>4, <2>6, Families
      DEF PATTERN_TO_RULE, PATTERN_FAMILIES, RuleInputs, BaseColumns, FamilyColumns
    <2>7. CASE p \in {"rapid_cashout", "cash_withdrawal", "deposit_send"}
      BY <2>1, <2>4, <2>7, Families
      DEF PATTERN_TO_RULE, PATTERN_FAMILIES, RuleInputs, BaseColumns, FamilyColumns
    <2>8. CASE p \in {"fan_in", "fan_out"}
      BY <2>1, <2>4, <2>8, Families
      DEF PATTERN_TO_RULE, PATTERN_FAMILIES, RuleInputs, BaseColumns, FamilyColumns
    <2>9. CASE p = "single_large"
      BY <2>1, <2>9 DEF PATTERN_TO_RULE, RuleInputs, BaseColumns
    <2> QED
      BY <2>2, <2>5, <2>6, <2>7, <2>8, <2>9
  <1> QED
    BY <1>1, <1>2

-----------------------------------------------------------------------------
(* Facts about the tools that ran *)

\* Running a tool adds it to those that ran.
LEMMA RanToolsAppend ==
    ASSUME trace \in Seq(ALLOWED_TOOLS), NEW t \in ALLOWED_TOOLS,
           trace' = Append(trace, t)
    PROVE  /\ trace' \in Seq(ALLOWED_TOOLS)
           /\ RanTools' = RanTools \cup {t}
  <1>1. /\ trace' \in Seq(ALLOWED_TOOLS)
        /\ DOMAIN trace' = DOMAIN trace \cup {Len(trace) + 1}
        /\ \A k \in DOMAIN trace : trace'[k] = trace[k]
        /\ trace'[Len(trace) + 1] = t
    OBVIOUS
  <1> QED
    BY <1>1 DEF RanTools, Range

\* A tool that is next comes strictly before the other tools left, and after
\* all that ran.
LEMMA NextTool ==
    ASSUME OrderInv, NEW t \in ALLOWED_TOOLS, IsNext(t)
    PROVE  /\ \A u \in steps \ {t} : TOOL_ORDER[t] < TOOL_ORDER[u]
           /\ \A u \in RanTools : TOOL_ORDER[u] < TOOL_ORDER[t]
           /\ t \in Selected(intent)
           /\ RanTools \subseteq Selected(intent)
           /\ \A u \in Selected(intent) :
                 TOOL_ORDER[u] < TOOL_ORDER[t] => u \in RanTools
  <1>1. t \in steps /\ \A u \in steps : TOOL_ORDER[t] <= TOOL_ORDER[u]
    BY DEF IsNext, IsFirst
  <1>2. \A u \in steps : TOOL_ORDER[u] \in 1..11 /\ TOOL_ORDER[t] \in 1..11
    BY OrderFacts DEF OrderInv
  <1>3. \A u \in steps \ {t} : TOOL_ORDER[t] # TOOL_ORDER[u]
    BY OrderFacts DEF OrderInv
  <1>4. \A u \in steps \ {t} : TOOL_ORDER[t] < TOOL_ORDER[u]
    BY <1>1, <1>2, <1>3
  <1>5. \A u \in RanTools : TOOL_ORDER[u] < TOOL_ORDER[t]
    BY <1>1 DEF OrderInv
  <1>6. steps \cup RanTools = Selected(intent)
    BY DEF OrderInv, IsNext
  <1>7. \A u \in steps : ~(TOOL_ORDER[u] < TOOL_ORDER[t])
    BY <1>1, <1>2
  <1> QED
    BY <1>1, <1>4, <1>5, <1>6, <1>7

\* A tool that runs keeps the order.
LEMMA RunKeepsOrder ==
    ASSUME OrderInv, NEW t \in ALLOWED_TOOLS, IsNext(t), Ran(t)
    PROVE  OrderInv' /\ RanTools' = RanTools \cup {t}
  <1>1. /\ steps' = steps \ {t} /\ trace' = Append(trace, t)
        /\ stage = "run" /\ stage' = stage /\ intent' = intent
    BY DEF Ran, IsNext
  <1>2. /\ trace \in Seq(ALLOWED_TOOLS) /\ trace' \in Seq(ALLOWED_TOOLS)
        /\ RanTools' = RanTools \cup {t}
    BY <1>1, RanToolsAppend DEF OrderInv
  <1>3. \A j, k \in DOMAIN trace' :
          j < k => TOOL_ORDER[trace'[j]] < TOOL_ORDER[trace'[k]]
    <2>1. SUFFICES ASSUME NEW j \in DOMAIN trace', NEW k \in DOMAIN trace', j < k
                   PROVE  TOOL_ORDER[trace'[j]] < TOOL_ORDER[trace'[k]]
      OBVIOUS
    <2>2. j \in DOMAIN trace /\ trace'[j] = trace[j]
      BY <1>1, <1>2, <2>1
    <2>3. CASE k \in DOMAIN trace
      BY <1>1, <1>2, <2>1, <2>2, <2>3 DEF OrderInv
    <2>4. CASE k = Len(trace) + 1
      <3>1. trace'[k] = t
        BY <1>1, <1>2, <2>4
      <3>2. trace[j] \in RanTools
        BY <2>2 DEF RanTools, Range
      <3> QED
        BY <2>2, <3>1, <3>2, NextTool
    <2> QED
      BY <1>1, <1>2, <2>1, <2>3, <2>4
  <1>4. \A u \in RanTools', v \in steps' : TOOL_ORDER[u] < TOOL_ORDER[v]
    BY <1>1, <1>2, NextTool DEF OrderInv
  <1>5. steps' \cup RanTools' = Selected(intent')
    BY <1>1, <1>2, NextTool DEF OrderInv
  <1> QED
    BY <1>1, <1>2, <1>3, <1>4, <1>5 DEF OrderInv

\* What the tools that are not about the frame's columns leave of them.
LEMMA SameColumns ==
    ASSUME ColumnInv, UNCHANGED <<intent, trace>>,
           cols' = cols, active' = active
    PROVE  ColumnInv'
  <1>1. RanTools' = RanTools
    BY DEF RanTools
  <1> QED
    BY <1>1 DEF ColumnInv

-----------------------------------------------------------------------------
(* A detector that is next finds its columns *)

LEMMA DetectorReady == ASSUME QueryInv PROVE InputsPresent
  <1>1. /\ "rule_engine" \in ALLOWED_TOOLS /\ "ml_engine" \in ALLOWED_TOOLS
        /\ intent \in Intents
        /\ intent.pattern_type \in PatternTypes \cup {NoPattern}
    BY DEF QueryInv, OrderInv, Intents, ALLOWED_TOOLS
  <1>2. ASSUME NEW t \in {"rule_engine", "ml_engine"}, IsNext(t)
        PROVE  /\ t \in Selected(intent)
               /\ BaseColumns \subseteq cols
               /\ FeatureColumns(intent.pattern_type,
                                 "ml_engine" \in Selected(intent))
                    \subseteq cols
    <2>1. t \in Selected(intent)
      BY <1>1, <1>2, NextTool DEF QueryInv
    <2>2. "data_loader" \in Selected(intent)
          /\ "feature_engineering" \in Selected(intent)
      BY <1>1, <2>1, SelectedFacts
    <2>3. "data_loader" \in RanTools /\ "feature_engineering" \in RanTools
      BY <1>1, <1>2, <2>2, NextTool, OrderFacts DEF QueryInv
    <2> QED
      BY <2>1, <2>3 DEF QueryInv, ColumnInv
  <1>3. ASSUME IsNext("rule_engine"), NEW r \in SelectedRules(intent.pattern_type)
        PROVE  RuleInputs[r] \subseteq cols
    <2>1. RuleInputs[r] \subseteq BaseColumns
             \cup FeatureColumns(intent.pattern_type,
                                 "ml_engine" \in Selected(intent))
      <3>1. /\ RuleInputs[r] \subseteq BaseColumns
                  \cup FeatureColumns(intent.pattern_type, TRUE)
            /\ RuleInputs[r] \subseteq BaseColumns
                  \cup FeatureColumns(intent.pattern_type, FALSE)
        BY <1>1, <1>3, PatternInputs
      <3>2. \/ ("ml_engine" \in Selected(intent)) = TRUE
            \/ ("ml_engine" \in Selected(intent)) = FALSE
        OBVIOUS
      <3> QED
        BY <3>1, <3>2
    <2> QED
      BY <1>2, <1>3, <2>1
  <1>4. ASSUME IsNext("ml_engine") PROVE FEATURES \subseteq cols
    <2>1. FeatureColumns(intent.pattern_type, TRUE) \subseteq cols
      <3>1. ("ml_engine" \in Selected(intent)) = TRUE
        BY <1>2, <1>4
      <3> QED
        BY <1>2, <1>4, <3>1
    <2> QED
      BY <2>1, ModelInputs
  <1> QED
    BY <1>3, <1>4 DEF InputsPresent

-----------------------------------------------------------------------------
(* Every step keeps the invariant *)

AllScores == {"risk_score", "rule_score", "stat_score", "ml_score"}

LEMMA RangeOfNothing == Range(<<>>) = {} /\ DOMAIN <<>> = {}
  BY DEF Range

\* A state in which nothing has run and nothing is planned.
LEMMA NothingRan ==
    ASSUME trace = <<>>, steps = {}, \A s \in AllScores : s \notin cols,
           stage \in {"extract", "plan", "failed"}, intent \in Intents
    PROVE  QueryInv
  <1>1. RanTools = {} /\ DOMAIN trace = {}
    BY RangeOfNothing DEF RanTools
  <1>2. trace \in Seq(ALLOWED_TOOLS) /\ stage \in Stages
    BY DEF Stages
  <1>3. OrderInv
    BY <1>1, <1>2 DEF OrderInv
  <1>4. ColumnInv
    BY <1>1, DetectorFacts DEF ColumnInv, AllScores
  <1> QED
    BY <1>3, <1>4 DEF QueryInv

LEMMA QueryInit == Init => QueryInv
  <1>1. NoIntent \in Intents
    BY DEF NoIntent, Intents, IntentNames
  <1>2. Init => /\ trace = <<>> /\ steps = {} /\ cols = {}
                /\ stage = "extract" /\ intent \in Intents
    BY <1>1 DEF Init
  <1> QED
    BY <1>2, NothingRan

\* The same of a step that leads to such a state, with or without a plan.
LEMMA NothingRanNext ==
    ASSUME trace' = <<>>, steps' \subseteq ALLOWED_TOOLS, intent' \in Intents,
           \A s \in AllScores : s \notin cols',
           \/ stage' \in {"extract", "plan"}
           \/ stage' = "run" /\ steps' = Selected(intent')
    PROVE  QueryInv'
  <1>1. RanTools' = {} /\ DOMAIN trace' = {}
    BY RangeOfNothing DEF RanTools
  <1>2. trace' \in Seq(ALLOWED_TOOLS) /\ stage' \in Stages
    BY DEF Stages
  <1>3. OrderInv'
    BY <1>1, <1>2 DEF OrderInv
  <1>4. ColumnInv'
    BY <1>1, DetectorFacts DEF ColumnInv, AllScores
  <1> QED
    BY <1>3, <1>4 DEF QueryInv

\* Until the plan is made no detector has left anything in the frame.
LEMMA BeforeThePlan ==
    ASSUME QueryInv, stage \in {"extract", "plan"}
    PROVE  /\ trace = <<>>
           /\ \A s \in AllScores : s \notin cols
  <1>1. trace = <<>>
    BY DEF QueryInv, OrderInv
  <1>2. RanTools = {}
    BY <1>1, RangeOfNothing DEF RanTools
  <1>3. /\ \A d \in Detectors : SCORE_COLUMNS[d] \notin cols
        /\ "risk_score" \notin cols
    BY <1>2 DEF QueryInv, ColumnInv
  <1> QED
    BY <1>1, <1>3, DetectorFacts DEF AllScores

\* A failure only changes the stage.
LEMMA FailKeeps == ASSUME QueryInv, Fail PROVE QueryInv'
  <1>1. RanTools' = RanTools
    BY DEF Fail, RanTools
  <1>2. OrderInv'
    BY <1>1 DEF QueryInv, OrderInv, Fail, Stages
  <1>3. ColumnInv'
    BY <1>1 DEF QueryInv, ColumnInv, Fail, frame
  <1> QED
    BY <1>2, <1>3 DEF QueryInv

LEMMA ExtractionKeeps ==
    ASSUME QueryInv,
           \/ ModelCallFails \/ ExtractWithModel \/ ModelIntentInvalid
           \/ ExtractByRules \/ MakePlan
    PROVE  QueryInv'
  <1>1. intent \in Intents /\ steps \subseteq ALLOWED_TOOLS
    BY DEF QueryInv, OrderInv
  <1>2. stage \in {"extract", "plan"}
    BY DEF ModelCallFails, ExtractWithModel, ModelIntentInvalid, ExtractByRules,
           MakePlan
  <1>3. /\ trace = <<>>
        /\ \A s \in AllScores : s \notin cols
    BY <1>2, BeforeThePlan
  <1>4. CASE ModelCallFails \/ ModelIntentInvalid
    <2>1. UNCHANGED <<stage, intent, steps, trace, cols>>
      BY <1>4 DEF ModelCallFails, ModelIntentInvalid, frame
    <2> QED
      BY <1>1, <1>2, <1>3, <2>1, NothingRanNext
  <1>5. ASSUME NEW i \in Intents, EndExtraction(i),
               UNCHANGED <<steps, trace, frame>>
        PROVE  QueryInv'
    <2>1. /\ intent' \in Intents /\ stage' = "plan"
          /\ UNCHANGED <<steps, trace, cols>>
      BY <1>5 DEF EndExtraction, frame
    <2> QED
      BY <1>1, <1>3, <2>1, NothingRanNext
  <1>6. CASE ExtractWithModel
    BY <1>5, <1>6 DEF ExtractWithModel
  <1>7. CASE ExtractByRules
    BY <1>5, <1>7, FailKeeps DEF ExtractByRules
  <1>8. CASE MakePlan
    <2>1. Selected(intent) \subseteq ALLOWED_TOOLS
      BY <1>1, SelectedFacts
    <2>2. /\ stage' = "run" /\ steps' = Selected(intent)
          /\ UNCHANGED <<intent, trace, cols>>
      BY <1>1, <1>8, PlanIsSelected DEF MakePlan, frame
    <2> QED
      BY <1>1, <1>3, <2>1, <2>2, NothingRanNext
  <1> QED
    BY <1>4, <1>6, <1>7, <1>8

LEMMA NextQueryKeeps == ASSUME QueryInv, NextQuery PROVE QueryInv'
  <1>1. NoIntent \in Intents
    BY DEF NoIntent, Intents, IntentNames
  <1>2. /\ trace' = <<>> /\ steps' = {} /\ intent' = NoIntent
        /\ cols' = {} /\ stage' = "extract"
    BY DEF NextQuery
  <1> QED
    BY <1>1, <1>2, NothingRanNext

LEMMA AssembleKeeps == ASSUME QueryInv, Assemble PROVE QueryInv'
  <1>1. RanTools' = RanTools /\ RanTools = Selected(intent)
    BY DEF Assemble, RanTools, QueryInv, OrderInv
  <1>2. response'.skipped = Skipped(intent)
    BY DEF Assemble
  <1>3. OrderInv'
    BY <1>1, <1>2 DEF QueryInv, OrderInv, Assemble, Stages
  <1>4. ColumnInv'
    BY <1>1 DEF QueryInv, ColumnInv, Assemble, frame
  <1> QED
    BY <1>3, <1>4 DEF QueryInv

\* Explaining a row is not a step of the plan.
LEMMA ExplainingKeeps ==
    ASSUME QueryInv,
           \/ StartExplaining \/ ModelExplains \/ ModelStrays
           \/ ModelUnavailable \/ ExplainByTemplate
    PROVE  QueryInv'
  <1>1. UNCHANGED <<stage, intent, steps, trace, response>>
    BY DEF StartExplaining, ModelExplains, ModelStrays, ModelUnavailable,
           ExplainByTemplate, Explained, CallNext
  <1>2. cols' = cols /\ active' = active
    BY DEF StartExplaining, ModelExplains, ModelStrays, ModelUnavailable,
           ExplainByTemplate, Explained, CallNext, frame
  <1>3. RanTools' = RanTools
    BY <1>1 DEF RanTools
  <1>4. OrderInv'
    BY <1>1, <1>3 DEF QueryInv, OrderInv
  <1> QED
    BY <1>1, <1>2, <1>4, SameColumns DEF QueryInv

LEMMA LoadKeeps == ASSUME QueryInv, LoadData PROVE QueryInv'
  <1>1. /\ "data_loader" \in ALLOWED_TOOLS /\ IsNext("data_loader")
        /\ Ran("data_loader") /\ cols' = BaseColumns
    BY DEF LoadData, ALLOWED_TOOLS
  <1>2. OrderInv' /\ RanTools' = RanTools \cup {"data_loader"}
    BY <1>1, RunKeepsOrder DEF QueryInv
  <1>3. RanTools' = {"data_loader"}
    <2>1. /\ RanTools \subseteq ALLOWED_TOOLS
          /\ \A u \in RanTools : TOOL_ORDER[u] < 1
      BY <1>1, NextTool, OrderFacts, SelectedFacts DEF QueryInv, OrderInv
    <2>2. RanTools = {}
      BY <2>1, OrderFacts
    <2> QED
      BY <1>2, <2>2
  <1>4. ColumnInv'
    BY <1>1, <1>3, DetectorFacts DEF ColumnInv, BaseColumns
  <1> QED
    BY <1>2, <1>4 DEF QueryInv

\* A tool that neither loads, nor computes features, nor scores.
LEMMA OtherToolKeeps ==
    ASSUME QueryInv,
           NEW t \in {"aggregation", "eda", "graph_tool", "escalation", "explanation"},
           IsNext(t), Ran(t), cols \subseteq cols', active' = active,
           \A s \in AllScores : s \in cols' => s \in cols
    PROVE  QueryInv'
  <1>1. t \in ALLOWED_TOOLS
    BY DEF ALLOWED_TOOLS
  <1>2. OrderInv' /\ RanTools' = RanTools \cup {t}
    BY <1>1, RunKeepsOrder DEF QueryInv
  <1>3. intent' = intent
    BY DEF Ran
  <1>4. /\ "data_loader" \in RanTools' => "data_loader" \in RanTools
        /\ "feature_engineering" \in RanTools' => "feature_engineering" \in RanTools
        /\ \A d \in Detectors \cup {"risk_scorer"} : d \in RanTools' <=> d \in RanTools
    BY <1>2, DetectorFacts
  <1>5. \A d \in Detectors : SCORE_COLUMNS[d] \in cols' <=> d \in RanTools'
    BY <1>4, DetectorFacts DEF QueryInv, ColumnInv, AllScores
  <1>6. "risk_score" \in cols' <=> "risk_scorer" \in RanTools'
    BY <1>4 DEF QueryInv, ColumnInv, AllScores
  <1>7. RanTools' \cap Detectors = RanTools \cap Detectors
    BY <1>4
  <1>8. ColumnInv'
    BY <1>3, <1>4, <1>5, <1>6, <1>7 DEF QueryInv, ColumnInv
  <1> QED
    BY <1>2, <1>8 DEF QueryInv

LEMMA OtherToolsKeep ==
    ASSUME QueryInv, Aggregate \/ Survey \/ Escalate \/ EndExplaining
    PROVE  QueryInv'
  <1>1. CASE Aggregate
    BY <1>1, OtherToolKeeps DEF Aggregate, frame
  <1>2. CASE Survey
    <2>1. /\ cols' = cols /\ active' = active
          /\ \E t \in {"eda", "graph_tool"} : IsNext(t) /\ Ran(t)
      BY <1>2 DEF Survey, frame
    <2> QED
      BY <2>1, OtherToolKeeps
  <1>3. CASE Escalate
    <2>1. /\ IsNext("escalation") /\ Ran("escalation") /\ active' = active
          /\ cols' = cols \cup {"escalation_action"}
      BY <1>3 DEF Escalate
    <2>2. \A s \in AllScores : s \in cols' => s \in cols
      BY <2>1 DEF AllScores
    <2> QED
      BY <2>1, <2>2, OtherToolKeeps
  <1>4. CASE EndExplaining
    BY <1>4, OtherToolKeeps DEF EndExplaining, frame
  <1> QED
    BY <1>1, <1>2, <1>3, <1>4

LEMMA EngineerKeeps == ASSUME QueryInv, EngineerFeatures PROVE QueryInv'
  <1> DEFINE Features == FeatureColumns(intent.pattern_type,
                                        "ml_engine" \in Selected(intent))
  <1>1. /\ "feature_engineering" \in ALLOWED_TOOLS
        /\ IsNext("feature_engineering") /\ Ran("feature_engineering")
        /\ cols' = (cols \ DERIVED_COLUMNS) \cup Features
        /\ intent' = intent
    BY PlanIsSelected
    DEF EngineerFeatures, WithFeatures, ran_tools, Ran, ALLOWED_TOOLS, QueryInv, OrderInv
  <1>2. OrderInv' /\ RanTools' = RanTools \cup {"feature_engineering"}
    BY <1>1, RunKeepsOrder DEF QueryInv
  <1>3. Features \subseteq DERIVED_COLUMNS
    BY FeaturesAreDerived
  <1>4. \A d \in Detectors \cup {"risk_scorer"} : d \notin RanTools
    <2>1. \A u \in RanTools : TOOL_ORDER[u] < 4
      BY <1>1, NextTool, OrderFacts DEF QueryInv
    <2> QED
      BY <2>1, OrderFacts, DetectorFacts
  <1>5. \A s \in AllScores : s \notin cols'
    <2>1. \A s \in AllScores : s \notin cols
      BY <1>4, DetectorFacts DEF QueryInv, ColumnInv, AllScores
    <2>2. \A s \in AllScores : s \notin DERIVED_COLUMNS
      BY DEF AllScores, DERIVED_COLUMNS
    <2> QED
      BY <1>1, <1>3, <2>1, <2>2
  <1>6. BaseColumns \cap DERIVED_COLUMNS = {}
    BY DEF BaseColumns, DERIVED_COLUMNS
  <1>7. "data_loader" \in RanTools' => BaseColumns \subseteq cols'
    BY <1>1, <1>2, <1>6 DEF QueryInv, ColumnInv
  <1>8. /\ \A d \in Detectors : SCORE_COLUMNS[d] \notin cols' /\ d \notin RanTools'
        /\ "risk_score" \notin cols' /\ "risk_scorer" \notin RanTools'
    BY <1>2, <1>4, <1>5, DetectorFacts DEF AllScores
  <1>9. Features \subseteq cols'
    BY <1>1
  <1>10. ColumnInv'
    BY <1>1, <1>7, <1>8, <1>9 DEF ColumnInv
  <1> QED
    BY <1>2, <1>10 DEF QueryInv

\* A detector adds its score and no other, before the scorer has run.
LEMMA DetectorKeeps ==
    ASSUME QueryInv, NEW t \in Detectors, IsNext(t), Ran(t), cols \subseteq cols',
           active' = active,
           \A s \in AllScores : s \in cols' <=> s \in cols \/ s = SCORE_COLUMNS[t]
    PROVE  QueryInv'
  <1>1. t \in ALLOWED_TOOLS
    BY DetectorFacts DEF ALLOWED_TOOLS
  <1>2. OrderInv' /\ RanTools' = RanTools \cup {t}
    BY <1>1, RunKeepsOrder DEF QueryInv
  <1>3. intent' = intent
    BY DEF Ran
  <1>4. "risk_scorer" \notin RanTools'
    <2>1. \A u \in RanTools : TOOL_ORDER[u] < TOOL_ORDER[t]
      BY <1>1, NextTool DEF QueryInv
    <2>2. TOOL_ORDER[t] \in 1..7
      BY OrderFacts, DetectorFacts
    <2>3. "risk_scorer" \notin RanTools
      BY <2>1, <2>2, OrderFacts
    <2> QED
      BY <1>2, <2>3, DetectorFacts
  <1>5. /\ "data_loader" \in RanTools' => "data_loader" \in RanTools
        /\ "feature_engineering" \in RanTools' => "feature_engineering" \in RanTools
    BY <1>2, DetectorFacts
  <1>6. \A d \in Detectors : SCORE_COLUMNS[d] \in cols' <=> d \in RanTools'
    <2>1. SUFFICES ASSUME NEW d \in Detectors
                   PROVE  SCORE_COLUMNS[d] \in cols' <=> d \in RanTools'
      OBVIOUS
    <2>2. /\ SCORE_COLUMNS[d] \in AllScores
          /\ SCORE_COLUMNS[d] = SCORE_COLUMNS[t] <=> d = t
      BY DetectorFacts DEF AllScores
    <2>3. SCORE_COLUMNS[d] \in cols <=> d \in RanTools
      BY DEF QueryInv, ColumnInv
    <2> QED
      BY <1>2, <2>2, <2>3
  <1>7. "risk_score" \notin cols'
    <2>1. "risk_score" \in AllScores /\ "risk_score" # SCORE_COLUMNS[t]
      BY DetectorFacts DEF AllScores
    <2>2. "risk_score" \notin cols
      BY <1>2, <1>4 DEF QueryInv, ColumnInv
    <2> QED
      BY <2>1, <2>2
  <1>8. ColumnInv'
    BY <1>3, <1>4, <1>5, <1>6, <1>7 DEF QueryInv, ColumnInv
  <1> QED
    BY <1>2, <1>8 DEF QueryInv

LEMMA DetectorsKeep ==
    ASSUME QueryInv, RunRules \/ RunStatistical \/ RunMl
    PROVE  QueryInv'
  <1>1. CASE RunRules
    <2>1. /\ IsNext("rule_engine") /\ Ran("rule_engine") /\ active' = active
          /\ cols' = cols \cup {"rule_flags", "rule_score"}
      BY <1>1 DEF RunRules
    <2>2. \A s \in AllScores :
             s \in cols' <=> s \in cols \/ s = SCORE_COLUMNS["rule_engine"]
      BY <2>1, DetectorFacts DEF AllScores
    <2> QED
      BY <2>1, <2>2, DetectorKeeps, DetectorFacts
  <1>2. CASE RunStatistical
    <2>1. /\ IsNext("statistical") /\ Ran("statistical") /\ active' = active
          /\ cols' = cols \cup {"z_score", "iqr_flag", "stat_score"}
      BY <1>2 DEF RunStatistical
    <2>2. \A s \in AllScores :
             s \in cols' <=> s \in cols \/ s = SCORE_COLUMNS["statistical"]
      BY <2>1, DetectorFacts DEF AllScores
    <2> QED
      BY <2>1, <2>2, DetectorKeeps, DetectorFacts
  <1>3. CASE RunMl
    <2>1. /\ IsNext("ml_engine") /\ Ran("ml_engine") /\ active' = active
          /\ cols' = (IF FEATURES \subseteq cols THEN cols
                      ELSE WithFeatures(cols, NoPattern, FALSE))
                     \cup {"iso_score", "anomaly_label", "ml_score"}
      BY <1>3 DEF RunMl
    <2>2. FEATURES \subseteq cols
      BY <2>1, DetectorReady DEF InputsPresent
    <2>3. cols' = cols \cup {"iso_score", "anomaly_label", "ml_score"}
      BY <2>1, <2>2
    <2>4. \A s \in AllScores :
             s \in cols' <=> s \in cols \/ s = SCORE_COLUMNS["ml_engine"]
      BY <2>3, DetectorFacts DEF AllScores
    <2> QED
      BY <2>1, <2>3, <2>4, DetectorKeeps, DetectorFacts
  <1> QED
    BY <1>1, <1>2, <1>3

LEMMA ScoreKeeps == ASSUME QueryInv, ScoreRisk PROVE QueryInv'
  <1>1. /\ "risk_scorer" \in ALLOWED_TOOLS
        /\ IsNext("risk_scorer") /\ Ran("risk_scorer")
        /\ cols' = cols \cup {"risk_score", "risk_label"}
        /\ active' = ActiveDetectors(cols, Selected(intent))
        /\ intent' = intent
    BY PlanIsSelected DEF ScoreRisk, Ran, ran_tools, ALLOWED_TOOLS, QueryInv, OrderInv
  <1>2. /\ OrderInv' /\ RanTools' = RanTools \cup {"risk_scorer"}
        /\ RanTools \subseteq Selected(intent)
    BY <1>1, RunKeepsOrder, NextTool DEF QueryInv
  <1>3. \A d \in Detectors : d \in RanTools' <=> d \in RanTools
    BY <1>2, DetectorFacts
  <1>4. active' = RanTools' \cap Detectors
    BY <1>1, <1>2, <1>3 DEF ActiveDetectors, QueryInv, ColumnInv
  <1>5. \A d \in Detectors : SCORE_COLUMNS[d] \in cols' <=> d \in RanTools'
    <2>1. \A d \in Detectors : SCORE_COLUMNS[d] \in cols' <=> SCORE_COLUMNS[d] \in cols
      BY <1>1, DetectorFacts
    <2> QED
      BY <1>3, <2>1 DEF QueryInv, ColumnInv
  <1>6. /\ "data_loader" \in RanTools' => BaseColumns \subseteq cols'
        /\ "feature_engineering" \in RanTools' =>
              FeatureColumns(intent'.pattern_type, "ml_engine" \in Selected(intent'))
                 \subseteq cols'
    BY <1>1, <1>2 DEF QueryInv, ColumnInv
  <1>7. "risk_score" \in cols' /\ "risk_scorer" \in RanTools'
    BY <1>1, <1>2
  <1>8. ColumnInv'
    BY <1>4, <1>5, <1>6, <1>7 DEF ColumnInv
  <1> QED
    BY <1>2, <1>8 DEF QueryInv

LEMMA QueryStep == QueryInv /\ [Next]_vars => QueryInv'
  <1> SUFFICES ASSUME QueryInv, [Next]_vars PROVE QueryInv'
    OBVIOUS
  <1>1. CASE \/ ModelCallFails \/ ExtractWithModel \/ ModelIntentInvalid
             \/ ExtractByRules \/ MakePlan
    BY <1>1, ExtractionKeeps
  <1>2. CASE LoadData
    BY <1>2, LoadKeeps
  <1>3. CASE Aggregate \/ Survey \/ Escalate \/ EndExplaining
    BY <1>3, OtherToolsKeep
  <1>4. CASE EngineerFeatures
    BY <1>4, EngineerKeeps
  <1>5. CASE RunRules \/ RunStatistical \/ RunMl
    BY <1>5, DetectorsKeep
  <1>6. CASE ScoreRisk
    BY <1>6, ScoreKeeps
  <1>7. CASE \/ StartExplaining \/ ModelExplains \/ ModelStrays
             \/ ModelUnavailable \/ ExplainByTemplate
    BY <1>7, ExplainingKeeps
  <1>8. CASE Assemble
    BY <1>8, AssembleKeeps
  <1>9. CASE ToolRaises
    BY <1>9, FailKeeps DEF ToolRaises
  <1>10. CASE NextQuery
    BY <1>10, NextQueryKeeps
  <1>11. CASE UNCHANGED vars
    <2>1. UNCHANGED <<stage, intent, steps, trace, cols, active, response>>
      BY <1>11 DEF vars, frame
    <2>2. RanTools' = RanTools
      BY <2>1 DEF RanTools
    <2>3. OrderInv'
      BY <2>1, <2>2 DEF QueryInv, OrderInv
    <2> QED
      BY <2>1, <2>3, SameColumns DEF QueryInv
  <1> QED
    BY <1>1, <1>2, <1>3, <1>4, <1>5, <1>6, <1>7, <1>8, <1>9, <1>10, <1>11 DEF Next

-----------------------------------------------------------------------------
(* The theorems *)

\* The tools that ran and those left are the plan, in the planner's order, and
\* the frame has the columns of those that ran.
THEOREM QueryInvariant == Spec => []QueryInv
  BY QueryInit, QueryStep, PTL DEF Spec

\* For every pattern and table: rules and model find the columns they read.
THEOREM InputsPresentTheorem == Spec => []InputsPresent
  BY QueryInvariant, DetectorReady, PTL

\* The scorer counts exactly the detectors that ran, whatever was planned.
THEOREM DetectorsCountedTheorem == Spec => []DetectorsCounted
  <1>1. QueryInv => DetectorsCounted
    BY DEF QueryInv, ColumnInv, DetectorsCounted
  <1> QED
    BY <1>1, QueryInvariant, PTL

\* The trace and the skipped tools of an answer are all tools, each once and
\* in order.
THEOREM TraceCompleteTheorem == Spec => []TraceComplete
  <1>1. ASSUME QueryInv, stage = "answered"
        PROVE  /\ RanTools \cup response.skipped = ALLOWED_TOOLS
               /\ RanTools \cap response.skipped = {}
               /\ \A j, k \in DOMAIN trace :
                     j < k => TOOL_ORDER[trace[j]] < TOOL_ORDER[trace[k]]
               /\ {"data_loader", "risk_scorer", "escalation", "explanation"}
                     \subseteq RanTools
    <2>1. /\ RanTools = Selected(intent) /\ response.skipped = Skipped(intent)
          /\ intent \in Intents
          /\ \A j, k \in DOMAIN trace :
                j < k => TOOL_ORDER[trace[j]] < TOOL_ORDER[trace[k]]
      BY <1>1 DEF QueryInv, OrderInv
    <2> QED
      BY <2>1, SelectedFacts, ToolsAreOrdered DEF Skipped
  <1>2. QueryInv => TraceComplete
    BY <1>1 DEF TraceComplete
  <1> QED
    BY <1>2, QueryInvariant, PTL

-----------------------------------------------------------------------------
(* Rows in the order of their risk *)

Row == [account: Accounts, fired: Nat, stat: 0..Full, ml: 0..Full, risk: Nat,
        label: {"none", "low", "medium", "high"},
        action: {"none", "monitor", "flag_for_review", "report"},
        explanation: {"none", "grounded", "template"}]

LEMMA RowsDomain ==
    ASSUME rows \in Seq(Row)
    PROVE  /\ Len(rows) \in Nat /\ DOMAIN rows = 1..Len(rows) /\ IsFiniteSet(DOMAIN rows)
           /\ \A k \in DOMAIN rows : rows[k] \in Row /\ k \in Nat
           /\ \A k \in DOMAIN rows : rows[k].risk \in Nat
  <1>1. Len(rows) \in Nat /\ DOMAIN rows = 1..Len(rows)
    OBVIOUS
  <1>2. IsFiniteSet(1..Len(rows))
    BY <1>1, FS_Interval
  <1>3. \A k \in DOMAIN rows : rows[k] \in Row
    OBVIOUS
  <1>4. \A k \in DOMAIN rows : rows[k].risk \in Nat
    BY <1>3 DEF Row
  <1> QED
    BY <1>1, <1>2, <1>3, <1>4

\* Of two rows one comes before the other.
LEMMA BeforeIsStrict ==
    ASSUME rows \in Seq(Row)
    PROVE  /\ \A k \in DOMAIN rows : ~Before(k, k)
           /\ \A j, k \in DOMAIN rows : j # k => Before(j, k) \/ Before(k, j)
           /\ \A i, j, k \in DOMAIN rows : Before(i, j) /\ Before(j, k) => Before(i, k)
  BY RowsDomain DEF Before

\* A set of rows has an order: the place of a row is the number of those before it.
LEMMA SortedExists ==
    ASSUME rows \in Seq(Row), NEW S \in SUBSET DOMAIN rows
    PROVE  \E w \in [1..Cardinality(S) -> S] :
              \A j, k \in DOMAIN w : j < k => Before(w[j], w[k])
  <1> DEFINE n == Cardinality(S)
             Earlier(k) == {j \in S : Before(j, k)}
             place == [k \in S |-> Cardinality(Earlier(k)) + 1]
  <1>1. IsFiniteSet(S) /\ n \in Nat
    BY RowsDomain, FS_Subset, FS_CardinalityType
  <1>2. ASSUME NEW k \in S
        PROVE  /\ IsFiniteSet(Earlier(k)) /\ Cardinality(Earlier(k)) \in Nat
               /\ Cardinality(Earlier(k)) <= n - 1
    <2>1. IsFiniteSet(S \ {k}) /\ Cardinality(S \ {k}) = n - 1
      BY <1>1, FS_RemoveElement
    <2>2. Earlier(k) \in SUBSET (S \ {k})
      BY BeforeIsStrict
    <2> QED
      BY <2>1, <2>2, FS_Subset, FS_CardinalityType
  <1>3. place \in [S -> 1..n]
    <2>1. ASSUME NEW k \in S PROVE Cardinality(Earlier(k)) + 1 \in 1..n
      <3> HIDE DEF Earlier
      <3> QED
        BY <1>1, <1>2
    <2> QED
      BY <2>1
  <1>4. ASSUME NEW j \in S, NEW k \in S, Before(j, k)
        PROVE  place[j] < place[k]
    <2>1. Earlier(j) \cup {j} \in SUBSET Earlier(k)
      BY <1>4, BeforeIsStrict
    <2>2. Cardinality(Earlier(j) \cup {j}) = Cardinality(Earlier(j)) + 1
      BY <1>2, BeforeIsStrict, FS_AddElement
    <2>3. Cardinality(Earlier(j) \cup {j}) <= Cardinality(Earlier(k))
      BY <1>2, <2>1, FS_Subset
    <2>4. Cardinality(Earlier(j)) \in Nat /\ Cardinality(Earlier(k)) \in Nat
      BY <1>2
    <2> HIDE DEF Earlier
    <2> QED
      BY <2>2, <2>3, <2>4
  <1> HIDE DEF place, Earlier
  <1>5. ASSUME NEW j \in S, NEW k \in S, place[j] = place[k]
        PROVE  j = k
    BY <1>3, <1>4, <1>5, BeforeIsStrict
  <1>6. place \in Injection(S, 1..n)
    BY <1>3, <1>5 DEF Injection, IsInjective
  <1>7. IsFiniteSet(1..n) /\ Cardinality(1..n) = n
    BY <1>1, FS_Interval
  <1>8. place \in Surjection(S, 1..n)
    BY <1>6, <1>7, FS_Injection
  <1>9. \A i \in 1..n : \E k \in S : place[k] = i
    BY <1>8 DEF Surjection
  <1> DEFINE w == [i \in 1..n |-> CHOOSE k \in S : place[k] = i]
  <1>10. w \in [1..n -> S] /\ \A i \in 1..n : place[w[i]] = i
    BY <1>9
  <1> HIDE DEF w
  <1>11. ASSUME NEW j \in 1..n, NEW k \in 1..n, j < k
         PROVE  Before(w[j], w[k])
    <2>1. w[j] \in S /\ w[k] \in S /\ place[w[j]] = j /\ place[w[k]] = k
      BY <1>10
    <2>2. w[j] # w[k] /\ ~Before(w[k], w[j])
      BY <1>1, <1>4, <1>11, <2>1
    <2> QED
      BY <2>1, <2>2, BeforeIsStrict
  <1> QED
    BY <1>10, <1>11

\* Such an order has every row of the set once.
LEMMA SortedFacts ==
    ASSUME rows \in Seq(Row), NEW S \in SUBSET DOMAIN rows,
           NEW w \in [1..Cardinality(S) -> S],
           \A j, k \in DOMAIN w : j < k => Before(w[j], w[k])
    PROVE  /\ IsFiniteSet(S) /\ Cardinality(S) \in Nat
           /\ \A j, k \in 1..Cardinality(S) : w[j] = w[k] => j = k
           /\ \A s \in S : \E i \in 1..Cardinality(S) : w[i] = s
  <1> DEFINE n == Cardinality(S)
  <1>1. IsFiniteSet(S) /\ n \in Nat
    BY RowsDomain, FS_Subset, FS_CardinalityType
  <1>2. ASSUME NEW j \in 1..n, NEW k \in 1..n, w[j] = w[k]
        PROVE  j = k
    BY <1>1, <1>2, BeforeIsStrict
  <1>3. w \in Injection(1..n, S)
    BY <1>2 DEF Injection, IsInjective
  <1>4. IsFiniteSet(1..n) /\ Cardinality(1..n) = n
    BY <1>1, FS_Interval
  <1>5. w \in Surjection(1..n, S)
    BY <1>1, <1>3, <1>4, FS_Injection
  <1> QED
    BY <1>1, <1>2, <1>5 DEF Surjection

\* The rows that are listed: high, and first of their account.
High(percent) == {k \in DOMAIN rows : AtLeast(rows[k].risk, scale, percent)}

Best(percent) ==
    {k \in High(percent) : \A j \in RowsOf(rows[k].account) : j # k => Before(k, j)}

LEMMA WorstFacts ==
    ASSUME rows \in Seq(Row), NEW percent
    PROVE  LET w == Worst(percent)
               n == Cardinality(Best(percent))
           IN  /\ Best(percent) \subseteq DOMAIN rows /\ IsFiniteSet(Best(percent))
               /\ n \in Nat /\ w \in [1..n -> Best(percent)]
               /\ w \in Seq(DOMAIN rows) /\ Len(w) = n /\ DOMAIN w = 1..n
               /\ \A j, k \in 1..n : j < k => Before(w[j], w[k])
               /\ \A j, k \in 1..n : w[j] = w[k] => j = k
               /\ \A s \in Best(percent) : \E i \in 1..n : w[i] = s
  <1> DEFINE S == Best(percent)
             n == Cardinality(S)
             w == Worst(percent)
  <1>1. S \in SUBSET DOMAIN rows
    BY DEF Best, High
  <1>2. w = CHOOSE u \in [1..n -> S] : \A j, k \in DOMAIN u : j < k => Before(u[j], u[k])
    BY DEF Worst, Best, High
  <1> HIDE DEF S, w
  <1>3. /\ w \in [1..n -> S]
        /\ \A j, k \in DOMAIN w : j < k => Before(w[j], w[k])
    BY <1>1, <1>2, SortedExists
  <1>4. /\ IsFiniteSet(S) /\ n \in Nat
        /\ \A j, k \in 1..n : w[j] = w[k] => j = k
        /\ \A s \in S : \E i \in 1..n : w[i] = s
    BY <1>1, <1>3, SortedFacts
  <1>5. w \in Seq(DOMAIN rows)
    <2>1. w \in Seq(S)
      BY <1>3, <1>4, SeqDef
    <2> QED
      BY <1>1, <2>1, SeqMonotonic
  <1>6. Len(w) = n
    BY <1>3, <1>4, <1>5, LenProperties
  <1> QED
    BY <1>1, <1>3, <1>4, <1>5, <1>6 DEF S, w

\* The order depends on the accounts and the risks only.
LEMMA SameWorst ==
    ASSUME DOMAIN rows' = DOMAIN rows, scale' = scale,
           \A k \in DOMAIN rows : /\ rows'[k].account = rows[k].account
                                  /\ rows'[k].risk = rows[k].risk,
           NEW percent
    PROVE  Worst(percent)' = Worst(percent)
  <1> DEFINE S == Best(percent)
             n == Cardinality(S)
             Sorted(u) == \A j, k \in DOMAIN u : j < k => Before(u[j], u[k])
             Peers(k) == RowsOf(rows[k].account)
  <1>1. \A k \in DOMAIN rows : Peers(k)' = Peers(k) /\ Peers(k) \subseteq DOMAIN rows
    BY DEF RowsOf
  <1>2. \A j, k \in DOMAIN rows : Before(j, k)' <=> Before(j, k)
    BY DEF Before
  <1>3. High(percent)' = High(percent)
    BY DEF High, AtLeast
  <1>4. \A k \in High(percent) : k \in DOMAIN rows
    BY DEF High
  <1>5. S = {k \in High(percent) : \A j \in Peers(k) : j # k => Before(k, j)}
    BY DEF Best
  <1>6. S' = S
    <2>1. S' = {k \in High(percent)' : \A j \in Peers(k)' : j # k => Before(k, j)'}
      BY DEF Best
    <2> HIDE DEF Peers, S
    <2> QED
      BY <1>1, <1>2, <1>3, <1>4, <1>5, <2>1
  <1>7. S \subseteq DOMAIN rows
    BY <1>4 DEF Best
  <1>8. Worst(percent) = CHOOSE u \in [1..n -> S] : Sorted(u)
    BY DEF Worst, Best, High
  <1>9. Worst(percent)' = CHOOSE u \in [1..n' -> S'] : Sorted(u)'
    BY DEF Worst, Best, High
  <1>10. n' = n
    BY <1>6
  <1>11. \A u \in [1..n -> S] : Sorted(u)' <=> Sorted(u)
    <2> SUFFICES ASSUME NEW u \in [1..n -> S] PROVE Sorted(u)' <=> Sorted(u)
      OBVIOUS
    <2>1. \A j \in DOMAIN u : u[j] \in DOMAIN rows
      BY <1>7
    <2> QED
      BY <1>2, <2>1
  <1> HIDE DEF S, n, Sorted
  <1> QED
    BY <1>6, <1>8, <1>9, <1>10, <1>11, Zenon

\* Every account has a row that comes before its others.
LEMMA BestRow ==
    ASSUME rows \in Seq(Row), NEW k \in DOMAIN rows
    PROVE  \E b \in DOMAIN rows :
              /\ rows[b].account = rows[k].account
              /\ \A j \in RowsOf(rows[k].account) : j # b => Before(b, j)
  <1> DEFINE S == RowsOf(rows[k].account)
             n == Cardinality(S)
  <1>1. S \in SUBSET DOMAIN rows /\ k \in S
    BY DEF RowsOf
  <1>2. PICK w \in [1..n -> S] : \A i, j \in DOMAIN w : i < j => Before(w[i], w[j])
    BY <1>1, SortedExists
  <1>3. /\ n \in Nat
        /\ \A s \in S : \E i \in 1..n : w[i] = s
    BY <1>1, <1>2, SortedFacts
  <1>4. 1 \in 1..n
    BY <1>1, <1>3
  <1>5. w[1] \in S
    BY <1>4
  <1>6. \A j \in S : j # w[1] => Before(w[1], j)
    <2> SUFFICES ASSUME NEW j \in S, j # w[1] PROVE Before(w[1], j)
      OBVIOUS
    <2>1. PICK i \in 1..n : w[i] = j
      BY <1>3
    <2>2. 1 < i
      BY <1>3, <2>1
    <2> QED
      BY <1>2, <1>4, <2>1, <2>2
  <1> QED
    BY <1>5, <1>6 DEF RowsOf

LEMMA FirstOfFacts ==
    ASSUME NEW T, NEW s \in Seq(T), NEW n \in Nat
    PROVE  /\ FirstOf(s, n) \in Seq(T)
           /\ Len(FirstOf(s, n)) = (IF Len(s) > n THEN n ELSE Len(s))
           /\ DOMAIN FirstOf(s, n) = 1..Len(FirstOf(s, n))
           /\ \A i \in 1..Len(FirstOf(s, n)) : i \in 1..Len(s) /\ FirstOf(s, n)[i] = s[i]
  <1>1. Len(s) \in Nat /\ \A i \in 1..Len(s) : s[i] \in T
    OBVIOUS
  <1>2. CASE Len(s) > n
    <2>1. \A i \in 1..n : s[i] \in T
      BY <1>1, <1>2
    <2>2. /\ SubSeq(s, 1, n) \in Seq(T)
          /\ Len(SubSeq(s, 1, n)) = IF 1 <= n THEN n - 1 + 1 ELSE 0
          /\ \A i \in 1..(n - 1 + 1) : SubSeq(s, 1, n)[i] = s[1 + i - 1]
      BY <2>1, SubSeqProperties
    <2>3. Len(SubSeq(s, 1, n)) = n /\ \A i \in 1..n : SubSeq(s, 1, n)[i] = s[i]
      BY <2>2
    <2> QED
      BY <1>1, <1>2, <2>2, <2>3 DEF FirstOf
  <1>3. CASE ~(Len(s) > n)
    BY <1>1, <1>3 DEF FirstOf
  <1> QED
    BY <1>2, <1>3

-----------------------------------------------------------------------------
(* The response lists the worst *)

AnswerInv ==
    stage = "answered" =>
       LET worst == Worst(35)
       IN  /\ response.top = [k \in DOMAIN FirstOf(worst, MaxListed) |-> rows[worst[k]]]
           /\ response.flagged = Len(worst)
           /\ response.high_risk = Cardinality({k \in DOMAIN worst :
                                                  rows[worst[k]].label = "high"})

\* What is listed, row by row.
LEMMA TopFacts ==
    ASSUME rows \in Seq(Row), AnswerInv, stage = "answered"
    PROVE  LET worst == Worst(35)
               m == IF Len(worst) > MaxListed THEN MaxListed ELSE Len(worst)
           IN  /\ m \in Nat /\ m <= Len(worst)
               /\ DOMAIN response.top = 1..m /\ Len(response.top) = m
               /\ \A k \in 1..m : /\ k \in 1..Len(worst)
                                  /\ worst[k] \in Best(35) /\ worst[k] \in DOMAIN rows
                                  /\ response.top[k] = rows[worst[k]]
  <1> DEFINE worst == Worst(35)
             n == Cardinality(Best(35))
             m == IF Len(worst) > MaxListed THEN MaxListed ELSE Len(worst)
             top == response.top
  <1>1. /\ n \in Nat /\ worst \in [1..n -> Best(35)] /\ Best(35) \subseteq DOMAIN rows
        /\ worst \in Seq(DOMAIN rows) /\ Len(worst) = n
    BY WorstFacts
  <1>2. MaxListed \in Nat
    BY BoundsAssumption
  <1>3. top = [k \in DOMAIN FirstOf(worst, MaxListed) |-> rows[worst[k]]]
    BY DEF AnswerInv
  <1> HIDE DEF worst, n, top
  <1>4. DOMAIN FirstOf(worst, MaxListed) = 1..m
    BY <1>1, <1>2, FirstOfFacts
  <1>5. m \in Nat /\ m <= n
    BY <1>1, <1>2
  <1>6. \A k \in 1..m : /\ k \in 1..n /\ worst[k] \in Best(35) /\ worst[k] \in DOMAIN rows
                        /\ top[k] = rows[worst[k]]
    BY <1>1, <1>3, <1>4, <1>5
  <1>7. top \in [1..m -> Row]
    <2>1. \A k \in 1..m : rows[worst[k]] \in Row
      BY <1>6, RowsDomain
    <2>2. top = [k \in 1..m |-> rows[worst[k]]]
      BY <1>3, <1>4
    <2> QED
      BY <2>1, <2>2
  <1>8. top \in Seq(Row)
    BY <1>5, <1>7, SeqDef
  <1>9. Len(top) = m
    BY <1>5, <1>7, <1>8, LenProperties
  <1> QED
    BY <1>1, <1>5, <1>6, <1>7, <1>9 DEF worst, n, top

\* An account with a high row has a best row that is high.
LEMMA BestOfHigh ==
    ASSUME rows \in Seq(Row), scale \in Nat, NEW j \in High(35)
    PROVE  \E b \in Best(35) : /\ rows[b].account = rows[j].account
                               /\ rows[b].risk >= rows[j].risk
  <1>1. j \in DOMAIN rows /\ 100 * rows[j].risk >= 35 * scale
    BY DEF High, AtLeast
  <1>2. PICK b \in DOMAIN rows :
           /\ rows[b].account = rows[j].account
           /\ \A i \in RowsOf(rows[j].account) : i # b => Before(b, i)
    BY <1>1, BestRow
  <1>3. j \in RowsOf(rows[j].account)
    BY <1>1 DEF RowsOf
  <1>4. rows[b].risk \in Nat /\ rows[j].risk \in Nat
    BY <1>1, RowsDomain
  <1>5. rows[b].risk >= rows[j].risk
    BY <1>2, <1>3, <1>4 DEF Before
  <1>6. b \in High(35)
    BY <1>1, <1>2, <1>4, <1>5 DEF High, AtLeast
  <1> QED
    BY <1>2, <1>5, <1>6 DEF Best

AtRisk == {rows[k].account : k \in {j \in DOMAIN rows : AtLeast(rows[j].risk, scale, 35)}}

\* The best rows are as many as the accounts at risk: one of each.
LEMMA BestCount ==
    ASSUME rows \in Seq(Row), scale \in Nat
    PROVE  Cardinality(Best(35)) = Cardinality(AtRisk)
  <1> DEFINE account == [k \in Best(35) |-> rows[k].account]
  <1>1. \A k \in Best(35) : k \in High(35) /\ k \in DOMAIN rows
    BY DEF Best, High
  <1>2. account \in [Best(35) -> AtRisk]
    BY <1>1 DEF AtRisk, High
  <1>3. \A a \in AtRisk : \E k \in Best(35) : account[k] = a
    BY BestOfHigh DEF AtRisk, High
  <1>4. ASSUME NEW j \in Best(35), NEW k \in Best(35), account[j] = account[k]
        PROVE  j = k
    <2>1. j \in RowsOf(rows[k].account) /\ k \in RowsOf(rows[j].account)
      BY <1>1, <1>4 DEF RowsOf
    <2>2. j # k => Before(j, k) /\ Before(k, j)
      BY <2>1 DEF Best
    <2> QED
      BY <1>1, <2>2, BeforeIsStrict
  <1> HIDE DEF account
  <1>5. account \in Surjection(Best(35), AtRisk) /\ account \in Injection(Best(35), AtRisk)
    BY <1>2, <1>3, <1>4 DEF Surjection, Injection, IsInjective
  <1>6. IsFiniteSet(Best(35))
    BY WorstFacts
  <1> QED
    BY <1>5, <1>6, FS_Surjection

LEMMA ListedWorst ==
    ASSUME rows \in Seq(Row), scale \in Nat, AnswerInv
    PROVE  ListsTheWorst
  <1> SUFFICES ASSUME stage = "answered" PROVE ListsTheWorst
    BY DEF ListsTheWorst
  <1> DEFINE top    == response.top
             listed == {top[k].account : k \in DOMAIN top}
             w == Worst(35)
             n == Cardinality(Best(35))
             m == IF Len(w) > MaxListed THEN MaxListed ELSE Len(w)
  <1>1. /\ Best(35) \subseteq DOMAIN rows /\ n \in Nat /\ w \in [1..n -> Best(35)]
        /\ Len(w) = n /\ DOMAIN w = 1..n
        /\ \A j, k \in 1..n : j < k => Before(w[j], w[k])
        /\ \A j, k \in 1..n : w[j] = w[k] => j = k
        /\ \A s \in Best(35) : \E i \in 1..n : w[i] = s
    BY WorstFacts
  <1>2. /\ m \in Nat /\ m <= n
        /\ DOMAIN top = 1..m /\ Len(top) = m
        /\ \A k \in 1..m : /\ k \in 1..n
                           /\ w[k] \in Best(35) /\ w[k] \in DOMAIN rows
                           /\ top[k] = rows[w[k]]
    BY <1>1, TopFacts
  <1>3. response.flagged = n /\ MaxListed \in Nat
        /\ response.high_risk = Cardinality({k \in 1..n : rows[w[k]].label = "high"})
    BY <1>1, BoundsAssumption DEF AnswerInv
  <1>4. \A k \in DOMAIN rows : rows[k].risk \in Nat
    BY RowsDomain
  <1>5. \A j, k \in Best(35) : rows[j].account = rows[k].account => j = k
    <2> SUFFICES ASSUME NEW j \in Best(35), NEW k \in Best(35),
                        rows[j].account = rows[k].account
                 PROVE  j = k
      OBVIOUS
    <2>1. j \in RowsOf(rows[k].account) /\ k \in RowsOf(rows[j].account)
      BY <1>1 DEF RowsOf
    <2>2. j # k => Before(j, k) /\ Before(k, j)
      BY <2>1 DEF Best
    <2> QED
      BY <1>1, <2>2, BeforeIsStrict
  <1> HIDE DEF top, w, n, m
  <1>6. \A j, k \in DOMAIN top : j < k => /\ top[j].risk >= top[k].risk
                                          /\ top[j].account # top[k].account
    <2> SUFFICES ASSUME NEW j \in 1..m, NEW k \in 1..m, j < k
                 PROVE  top[j].risk >= top[k].risk /\ top[j].account # top[k].account
      BY <1>2
    <2>1. Before(w[j], w[k]) /\ w[j] # w[k]
      BY <1>1, <1>2
    <2>2. rows[w[j]].risk >= rows[w[k]].risk
      BY <1>2, <1>4, <2>1 DEF Before
    <2> QED
      BY <1>2, <1>5, <2>1, <2>2
  <1>7. ASSUME NEW k \in DOMAIN top, NEW j \in DOMAIN rows, ~(rows[j].risk <= top[k].risk)
        PROVE  rows[j].account \in listed \ {top[k].account}
    <2>1. k \in 1..m /\ k \in 1..n /\ w[k] \in Best(35) /\ top[k] = rows[w[k]]
      BY <1>2
    <2>2. j \in High(35)
      <3>1. w[k] \in High(35) /\ w[k] \in DOMAIN rows
        BY <1>1, <2>1 DEF Best
      <3>2. 100 * rows[w[k]].risk >= 35 * scale
        BY <3>1 DEF High, AtLeast
      <3>3. 100 * rows[j].risk >= 35 * scale
        BY <1>4, <1>7, <2>1, <3>1, <3>2
      <3> QED
        BY <3>3 DEF High, AtLeast
    <2>3. PICK b \in Best(35) : /\ rows[b].account = rows[j].account
                                /\ rows[b].risk >= rows[j].risk
      BY <2>2, BestOfHigh
    <2>4. PICK i \in 1..n : w[i] = b
      BY <1>1
    <2>5. b \in DOMAIN rows /\ w[k] \in DOMAIN rows
      BY <1>1, <2>1
    <2>6. rows[b].risk > rows[w[k]].risk
      BY <1>4, <1>7, <2>1, <2>3, <2>5
    <2>7. ~(k < i) /\ i # k
      <3>1. ~Before(w[k], w[i]) /\ w[i] # w[k]
        BY <1>4, <2>4, <2>5, <2>6 DEF Before
      <3> QED
        BY <1>1, <2>1, <3>1
    <2>8. i \in 1..m
      BY <1>2, <2>1, <2>7
    <2>9. top[i].account = rows[j].account /\ i \in DOMAIN top
      BY <1>2, <2>3, <2>4, <2>8
    <2>10. top[k].account # rows[j].account
      <3>1. w[k] # b
        BY <1>1, <2>1, <2>4, <2>7
      <3> QED
        BY <1>5, <2>1, <2>3, <3>1
    <2> QED
      BY <2>9, <2>10
  <1>8. listed \subseteq AtRisk
    <2> SUFFICES ASSUME NEW k \in 1..m PROVE top[k].account \in AtRisk
      BY <1>2
    <2>1. w[k] \in High(35) /\ top[k] = rows[w[k]]
      BY <1>2 DEF Best
    <2> QED
      BY <2>1 DEF AtRisk, High
  <1>9. response.flagged = Cardinality(AtRisk)
    BY <1>3, BestCount DEF n
  <1>10. Len(top) < MaxListed => listed = AtRisk
    <2> SUFFICES ASSUME Len(top) < MaxListed, NEW j \in High(35)
                 PROVE  rows[j].account \in listed
      BY <1>8 DEF AtRisk, High
    <2>1. m = n
      BY <1>1, <1>2, <1>3 DEF m
    <2>2. PICK b \in Best(35) : rows[b].account = rows[j].account
      BY BestOfHigh
    <2>3. PICK i \in 1..n : w[i] = b
      BY <1>1
    <2> QED
      BY <1>2, <2>1, <2>2, <2>3
  <1>11. Cardinality({k \in DOMAIN top : top[k].label = "high"}) <= response.high_risk
    <2> DEFINE H == {k \in 1..n : rows[w[k]].label = "high"}
               L == {k \in DOMAIN top : top[k].label = "high"}
    <2>1. IsFiniteSet(1..n)
      BY <1>1, FS_Interval
    <2>2. IsFiniteSet(H)
      BY <2>1, FS_Subset
    <2>3. L \in SUBSET H
      BY <1>2
    <2> QED
      BY <1>3, <2>2, <2>3, FS_Subset
  <1> QED
    BY <1>6, <1>7, <1>8, <1>9, <1>10, <1>11 DEF ListsTheWorst, top, AtRisk

-----------------------------------------------------------------------------
(* What the tools leave in the rows *)

Applied == SelectedRules(intent.pattern_type)

TypeInv ==
    /\ rows \in Seq(Row)
    /\ scale \in Nat \ {0}
    /\ active \subseteq Detectors
    /\ tries \in 0..MaxAttempts

\* Only the rules find that rules fired.
FoundInv == \A k \in DOMAIN rows : rows[k].fired > 0 => "rule_engine" \in RanTools

\* The scores are those of the detectors' findings as they are now.
ScoredInv ==
    "risk_scorer" \in RanTools =>
       /\ scale = Scale(active, Applied)
       /\ \A k \in DOMAIN rows : /\ rows[k].risk = RiskOf(rows[k], active, Applied)
                                 /\ rows[k].label = Label(rows[k].risk, scale)

ActionInv ==
    "escalation" \in RanTools =>
       \A k \in DOMAIN rows : rows[k].action = ActionFor(rows[k].risk, scale)

FrameInv == TypeInv /\ FoundInv /\ ScoredInv /\ ActionInv

LEMMA RulesFinite ==
    ASSUME NEW p
    PROVE  IsFiniteSet(SelectedRules(p)) /\ Share(SelectedRules(p)) \in Nat \ {0}
  <1>1. IsFiniteSet(Rules)
    <2> DEFINE f == <<"structuring", "smurfing", "rapid_cashout", "single_large",
                      "deposit_send", "fan_in", "fan_out">>
    <2>1. f \in [1..7 -> Rules] /\ \A r \in Rules : \E i \in 1..7 : f[i] = r
      BY DEF Rules, RuleInputs
    <2>2. f \in Surjection(1..7, Rules)
      BY <2>1 DEF Surjection
    <2> QED
      BY <2>2, FS_NatSurjection DEF ExistsSurjection
  <1>2. SelectedRules(p) \in {Rules, {}} \/ SelectedRules(p) = {PATTERN_TO_RULE[p]}
    BY DEF SelectedRules
  <1>3. IsFiniteSet(SelectedRules(p))
    BY <1>1, <1>2, FS_EmptySet, FS_Singleton
  <1> QED
    BY <1>3, FS_EmptySet, FS_CardinalityType DEF Share

LEMMA Product == ASSUME NEW m \in Nat, NEW n \in Nat PROVE m * n \in Nat
  OBVIOUS

LEMMA PositiveProduct ==
    ASSUME NEW m \in Nat \ {0}, NEW n \in Nat \ {0}
    PROVE  m * n \in Nat \ {0}
  OBVIOUS

LEMMA WeightFacts ==
    ASSUME NEW D \in SUBSET Detectors
    PROVE  /\ Weight(D) \in 0..20
           /\ D # {} => Weight(D) > 0
           /\ \A d \in Detectors : BASE_WEIGHTS[d] \in 1..8
           /\ BASE_WEIGHTS["rule_engine"] = 8
  BY DEF Weight, Detectors, BASE_WEIGHTS

LEMMA ScaleType ==
    ASSUME NEW D \in SUBSET Detectors, NEW p
    PROVE  Scale(D, SelectedRules(p)) \in Nat \ {0}
  <1> DEFINE share == Share(SelectedRules(p))
             weight == IF D = {} THEN 1 ELSE Weight(D)
  <1>1. share \in Nat \ {0}
    BY RulesFinite
  <1>2. Full \in Nat \ {0}
    BY BoundsAssumption
  <1>3. weight \in Nat \ {0}
    BY WeightFacts
  <1>4. Scale(D, SelectedRules(p)) = share * Full * weight
    BY DEF Scale
  <1> HIDE DEF share, weight
  <1> QED
    BY <1>1, <1>2, <1>3, <1>4, PositiveProduct

LEMMA ScoreTypes ==
    ASSUME NEW D \in SUBSET Detectors, NEW p, NEW row \in Row
    PROVE  /\ RiskOf(row, D, SelectedRules(p)) \in Nat
           /\ "rule_engine" \in D => RiskOf(row, D, SelectedRules(p)) >= 8 * (row.fired * Full)
  <1> DEFINE share == Share(SelectedRules(p))
             part(d, s) == IF d \in D THEN BASE_WEIGHTS[d] * s ELSE 0
  <1>1. share \in Nat \ {0} /\ Full \in Nat \ {0}
    <2>1. share \in Nat \ {0}
      BY RulesFinite
    <2>2. Full \in Nat \ {0}
      BY BoundsAssumption
    <2> QED
      BY <2>1, <2>2
  <1>2. row.fired \in Nat /\ row.stat \in Nat /\ row.ml \in Nat
    BY <1>1 DEF Row
  <1>3. RiskOf(row, D, SelectedRules(p)) =
          part("rule_engine", row.fired * Full) + part("statistical", row.stat * share)
            + part("ml_engine", row.ml * share)
    BY DEF RiskOf
  <1>4. /\ row.fired * Full \in Nat /\ row.stat * share \in Nat /\ row.ml * share \in Nat
    BY <1>1, <1>2, Product
  <1>5. ASSUME NEW d \in Detectors, NEW s \in Nat PROVE part(d, s) \in Nat
    BY <1>5, WeightFacts, Product
  <1>6. {"rule_engine", "statistical", "ml_engine"} \subseteq Detectors
    BY DetectorFacts
  <1>7. "rule_engine" \in D => part("rule_engine", row.fired * Full) = 8 * (row.fired * Full)
    BY WeightFacts
  <1> HIDE DEF share, part
  <1>8. /\ part("rule_engine", row.fired * Full) \in Nat
        /\ part("statistical", row.stat * share) \in Nat
        /\ part("ml_engine", row.ml * share) \in Nat
    BY <1>4, <1>5, <1>6
  <1> QED
    BY <1>3, <1>7, <1>8

LEMMA LabelTypes ==
    ASSUME NEW risk, NEW unit
    PROVE  /\ Label(risk, unit) \in {"low", "medium", "high"}
           /\ ActionFor(risk, unit) \in {"monitor", "flag_for_review", "report"}
  BY DEF Label, ActionFor

\* Tools that come after the next one have not run.
LEMMA NotYet ==
    ASSUME QueryInv, NEW t \in ALLOWED_TOOLS, IsNext(t), Ran(t),
           NEW u \in ALLOWED_TOOLS \ {t}, TOOL_ORDER[t] < TOOL_ORDER[u]
    PROVE  u \notin RanTools /\ u \notin RanTools'
  <1>1. u \notin RanTools
    BY NextTool, OrderFacts DEF QueryInv
  <1>2. RanTools' = RanTools \cup {t}
    BY RunKeepsOrder DEF QueryInv
  <1> QED
    BY <1>1, <1>2

LEMMA Places ==
    /\ TOOL_ORDER["escalation"] = 10 /\ TOOL_ORDER["explanation"] = 11
    /\ TOOL_ORDER["aggregation"] = 2
    /\ {"data_loader", "feature_engineering", "rule_engine", "statistical", "ml_engine",
        "aggregation", "eda", "graph_tool", "risk_scorer", "escalation", "explanation"}
          \subseteq ALLOWED_TOOLS
  BY DEF TOOL_ORDER, ALLOWED_TOOLS

\* A step that leaves rows and scores alone, and is not the scorer's or the escalation's.
LEMMA FrameKept ==
    ASSUME FrameInv, UNCHANGED <<rows, active, scale>>, tries' \in 0..MaxAttempts,
           intent' = intent \/ "risk_scorer" \notin RanTools,
           RanTools \subseteq RanTools',
           \A u \in {"risk_scorer", "escalation"} : u \in RanTools' => u \in RanTools
    PROVE  FrameInv'
  <1>1. TypeInv' /\ FoundInv' /\ ActionInv'
    BY DEF FrameInv, TypeInv, FoundInv, ActionInv
  <1>2. ScoredInv'
    <2>1. CASE "risk_scorer" \notin RanTools
      BY <2>1 DEF ScoredInv
    <2>2. CASE intent' = intent
      BY <2>2 DEF FrameInv, ScoredInv, Applied
    <2> QED
      BY <2>1, <2>2
  <1> QED
    BY <1>1, <1>2 DEF FrameInv

\* A step that changes rows before any is scored.
LEMMA FrameUnscored ==
    ASSUME rows' \in Seq(Row), scale' \in Nat \ {0}, active' \subseteq Detectors,
           tries' \in 0..MaxAttempts, FoundInv',
           "risk_scorer" \notin RanTools', "escalation" \notin RanTools'
    PROVE  FrameInv'
  BY DEF FrameInv, TypeInv, ScoredInv, ActionInv

LEMMA LoadFrame == ASSUME QueryInv, FrameInv, LoadData PROVE FrameInv'
  <1> DEFINE t == "data_loader"
  <1>1. t \in ALLOWED_TOOLS /\ IsNext(t) /\ Ran(t) /\ tries' = tries
    BY Places DEF LoadData, Ran
  <1>2. "risk_scorer" \notin RanTools' /\ "escalation" \notin RanTools'
    BY <1>1, NotYet, OrderFacts, Places
  <1>3. PICK m \in Tables :
           rows' = [k \in DOMAIN FirstOf(m, MaxRows) |-> NewRow(FirstOf(m, MaxRows)[k])]
    BY DEF LoadData
  <1> DEFINE s == FirstOf(m, MaxRows)
  <1>4. s \in Seq(Accounts) /\ Len(s) \in Nat /\ DOMAIN s = 1..Len(s)
        /\ \A k \in 1..Len(s) : s[k] \in Accounts
    <2>1. m \in Seq(Accounts) /\ MaxRows \in Nat
      BY BoundsAssumption
    <2>2. s \in Seq(Accounts)
      BY <2>1, FirstOfFacts
    <2> HIDE DEF s
    <2> QED
      BY <2>2
  <1>5. \A a \in Accounts : NewRow(a) \in Row /\ NewRow(a).fired = 0
    <2>1. 0 \in 0..Full
      BY BoundsAssumption
    <2> QED
      BY <2>1 DEF NewRow, Row
  <1> HIDE DEF s
  <1>6. rows' = [k \in 1..Len(s) |-> NewRow(s[k])]
    BY <1>3, <1>4 DEF s
  <1>7. rows' \in Seq(Row)
    <2>1. rows' \in [1..Len(s) -> Row]
      BY <1>4, <1>5, <1>6
    <2> QED
      BY <1>4, <2>1, SeqDef
  <1>8. FoundInv'
    BY <1>4, <1>5, <1>6 DEF FoundInv
  <1>9. scale' \in Nat \ {0} /\ active' \subseteq Detectors /\ tries' \in 0..MaxAttempts
    BY <1>1 DEF LoadData, FrameInv, TypeInv
  <1> QED
    BY <1>2, <1>7, <1>8, <1>9, FrameUnscored

\* As many rows as before.
LEMMA SameRows ==
    ASSUME rows \in Seq(Row), rows' = [k \in DOMAIN rows |-> rows'[k]],
           \A k \in DOMAIN rows : rows'[k] \in Row
    PROVE  rows' \in Seq(Row) /\ DOMAIN rows' = DOMAIN rows
  <1>1. Len(rows) \in Nat /\ DOMAIN rows = 1..Len(rows)
    BY RowsDomain
  <1>2. rows' \in [1..Len(rows) -> Row]
    BY <1>1
  <1> QED
    BY <1>1, <1>2, SeqDef

\* A detector that writes what it found into every row.
LEMMA DetectorFrame ==
    ASSUME QueryInv, FrameInv, NEW t \in Detectors, IsNext(t), Ran(t),
           UNCHANGED <<active, scale>>,
           rows' = [k \in DOMAIN rows |-> rows'[k]],
           \A k \in DOMAIN rows :
              rows'[k] \in Row /\ (rows'[k].fired = rows[k].fired \/ t = "rule_engine")
    PROVE  FrameInv'
  <1>1. t \in ALLOWED_TOOLS /\ tries' = tries /\ TOOL_ORDER[t] \in 1..7
    BY DetectorFacts, OrderFacts, Places DEF Ran
  <1>2. "risk_scorer" \notin RanTools' /\ "escalation" \notin RanTools'
    BY <1>1, NotYet, OrderFacts, Places
  <1>3. RanTools' = RanTools \cup {t}
    BY <1>1, RunKeepsOrder DEF QueryInv
  <1>5. rows' \in Seq(Row) /\ DOMAIN rows' = DOMAIN rows
    BY SameRows DEF FrameInv, TypeInv
  <1>6. FoundInv'
    BY <1>3, <1>5 DEF FrameInv, FoundInv
  <1>7. scale' \in Nat \ {0} /\ active' \subseteq Detectors /\ tries' \in 0..MaxAttempts
    BY <1>1 DEF FrameInv, TypeInv
  <1> QED
    BY <1>2, <1>5, <1>6, <1>7, FrameUnscored

LEMMA DetectorsFrame ==
    ASSUME QueryInv, FrameInv, RunRules \/ RunStatistical \/ RunMl
    PROVE  FrameInv'
  <1>1. rows \in Seq(Row) /\ \A k \in DOMAIN rows : rows[k] \in Row
    BY RowsDomain DEF FrameInv, TypeInv
  <1>2. /\ \A row \in Row, n \in Nat : /\ [row EXCEPT !.fired = n] \in Row
        /\ \A row \in Row, n \in 0..Full :
              /\ [row EXCEPT !.stat = n] \in Row /\ [row EXCEPT !.stat = n].fired = row.fired
              /\ [row EXCEPT !.ml = n] \in Row /\ [row EXCEPT !.ml = n].fired = row.fired
    BY DEF Row
  <1>3. {"rule_engine", "statistical", "ml_engine"} \subseteq Detectors
    BY DetectorFacts
  <1>4. CASE RunRules
    <2> DEFINE n == Cardinality(SelectedRules(intent.pattern_type))
    <2>1. PICK fired \in [DOMAIN rows -> 0..n] :
             rows' = [k \in DOMAIN rows |-> [rows[k] EXCEPT !.fired = fired[k]]]
      BY <1>4 DEF RunRules
    <2>2. n \in Nat
      BY RulesFinite, FS_CardinalityType
    <2> HIDE DEF n
    <2>3. \A k \in DOMAIN rows : fired[k] \in Nat
      BY <2>1, <2>2
    <2>4. \A k \in DOMAIN rows : rows'[k] \in Row
      BY <1>1, <1>2, <2>1, <2>3
    <2>5. rows' = [k \in DOMAIN rows |-> rows'[k]]
      BY <2>1
    <2> QED
      BY <1>3, <1>4, <2>4, <2>5, DetectorFrame DEF RunRules
  <1>5. CASE RunStatistical
    <2>1. PICK score \in [DOMAIN rows -> 0..Full] :
             rows' = [k \in DOMAIN rows |-> [rows[k] EXCEPT !.stat = score[k]]]
      BY <1>5 DEF RunStatistical
    <2>2. \A k \in DOMAIN rows : rows'[k] \in Row /\ rows'[k].fired = rows[k].fired
      BY <1>1, <1>2, <2>1
    <2>3. rows' = [k \in DOMAIN rows |-> rows'[k]]
      BY <2>1
    <2> QED
      BY <1>3, <1>5, <2>2, <2>3, DetectorFrame DEF RunStatistical
  <1>6. CASE RunMl
    <2>1. PICK score \in [DOMAIN rows -> 0..Full] :
             rows' = [k \in DOMAIN rows |-> [rows[k] EXCEPT !.ml = score[k]]]
      BY <1>6 DEF RunMl
    <2>2. \A k \in DOMAIN rows : rows'[k] \in Row /\ rows'[k].fired = rows[k].fired
      BY <1>1, <1>2, <2>1
    <2>3. rows' = [k \in DOMAIN rows |-> rows'[k]]
      BY <2>1
    <2> QED
      BY <1>3, <1>6, <2>2, <2>3, DetectorFrame DEF RunMl
  <1> QED
    BY <1>4, <1>5, <1>6

LEMMA ScoreFrame == ASSUME QueryInv, FrameInv, ScoreRisk PROVE FrameInv'
  <1> DEFINE t == "risk_scorer"
             D == active'
             risk(k) == RiskOf(rows[k], D, Applied)
             label(k) == Label(risk(k), scale')
  <1>1. t \in ALLOWED_TOOLS /\ IsNext(t) /\ Ran(t) /\ tries' = tries /\ intent' = intent
    BY Places DEF ScoreRisk, Ran
  <1>2. "escalation" \notin RanTools'
    BY <1>1, NotYet, OrderFacts, Places
  <1>3. RanTools' = RanTools \cup {t}
    BY <1>1, RunKeepsOrder DEF QueryInv
  <1>4. /\ rows \in Seq(Row) /\ \A k \in DOMAIN rows : rows[k] \in Row
        /\ D \in SUBSET Detectors
    BY RowsDomain DEF FrameInv, TypeInv, ScoreRisk, ActiveDetectors
  <1>5. /\ scale' = Scale(D, Applied)
        /\ rows' = [k \in DOMAIN rows |-> [rows[k] EXCEPT !.risk = risk(k), !.label = label(k)]]
    BY DEF ScoreRisk, Applied
  <1>6. scale' \in Nat \ {0} /\ \A k \in DOMAIN rows : risk(k) \in Nat
    <2> HIDE DEF D
    <2>1. scale' \in Nat \ {0}
      BY <1>4, <1>5, ScaleType DEF Applied
    <2>2. ASSUME NEW k \in DOMAIN rows PROVE risk(k) \in Nat
      BY <1>4, ScoreTypes DEF Applied
    <2> QED
      BY <2>1, <2>2
  <1>7. \A k \in DOMAIN rows : label(k) \in {"low", "medium", "high"}
    BY LabelTypes
  <1>8. ASSUME NEW k \in DOMAIN rows
        PROVE  /\ rows'[k] \in Row /\ rows'[k].risk = risk(k) /\ rows'[k].label = label(k)
               /\ rows'[k].fired = rows[k].fired /\ rows'[k].stat = rows[k].stat
               /\ rows'[k].ml = rows[k].ml
    <2> DEFINE r == risk(k)
               l == label(k)
    <2>1. r \in Nat /\ l \in {"low", "medium", "high"} /\ rows[k] \in Row
      BY <1>4, <1>6, <1>7
    <2> DEFINE new == [rows[k] EXCEPT !.risk = r, !.label = l]
    <2>2. rows'[k] = new
      BY <1>5
    <2> HIDE DEF r, l
    <2>3. /\ new \in Row /\ new.risk = r /\ new.label = l
          /\ new.fired = rows[k].fired /\ new.stat = rows[k].stat /\ new.ml = rows[k].ml
      BY <2>1 DEF Row
    <2> HIDE DEF new
    <2> QED
      BY <2>2, <2>3 DEF r, l
  <1>9. rows' = [k \in DOMAIN rows |-> rows'[k]]
    BY <1>5
  <1>10. rows' \in Seq(Row) /\ DOMAIN rows' = DOMAIN rows
    BY <1>4, <1>8, <1>9, SameRows
  <1>11. \A k \in DOMAIN rows : RiskOf(rows'[k], D, Applied) = risk(k)
    BY <1>8 DEF RiskOf
  <1>12. TypeInv'
    BY <1>1, <1>4, <1>6, <1>10 DEF FrameInv, TypeInv
  <1>13. FoundInv'
    BY <1>3, <1>8, <1>10 DEF FrameInv, FoundInv
  <1>14. Applied' = Applied
    BY <1>1 DEF Applied
  <1> HIDE DEF D
  <1>15. ScoredInv'
    BY <1>5, <1>8, <1>10, <1>11, <1>14 DEF ScoredInv, D
  <1> QED
    BY <1>2, <1>12, <1>13, <1>15 DEF FrameInv, ActionInv

LEMMA EscalateFrame == ASSUME QueryInv, FrameInv, Escalate PROVE FrameInv'
  <1> DEFINE t == "escalation"
  <1>1. t \in ALLOWED_TOOLS /\ IsNext(t) /\ Ran(t) /\ tries' = tries /\ intent' = intent
        /\ UNCHANGED <<active, scale>>
    BY Places DEF Escalate, Ran
  <1>2. RanTools' = RanTools \cup {t}
    BY <1>1, RunKeepsOrder DEF QueryInv
  <1>3. rows \in Seq(Row) /\ \A k \in DOMAIN rows : rows[k] \in Row
    BY RowsDomain DEF FrameInv, TypeInv
  <1>4. ASSUME NEW k \in DOMAIN rows
        PROVE  /\ rows'[k] \in Row
               /\ rows'[k].action = ActionFor(rows'[k].risk, scale)
               /\ rows'[k].fired = rows[k].fired /\ rows'[k].stat = rows[k].stat
               /\ rows'[k].ml = rows[k].ml /\ rows'[k].risk = rows[k].risk
               /\ rows'[k].label = rows[k].label
    <2> DEFINE a == ActionFor(rows[k].risk, scale)
    <2>1. a \in {"monitor", "flag_for_review", "report"} /\ rows[k] \in Row
      BY <1>3, LabelTypes
    <2>2. rows'[k] = [rows[k] EXCEPT !.action = a]
      BY DEF Escalate
    <2> HIDE DEF a
    <2>3. /\ rows'[k] \in Row /\ rows'[k].action = a /\ rows'[k].risk = rows[k].risk
          /\ rows'[k].fired = rows[k].fired /\ rows'[k].stat = rows[k].stat
          /\ rows'[k].ml = rows[k].ml /\ rows'[k].label = rows[k].label
      BY <2>1, <2>2 DEF Row
    <2> QED
      BY <2>3 DEF a
  <1>5. rows' = [k \in DOMAIN rows |-> rows'[k]]
    BY DEF Escalate
  <1>6. rows' \in Seq(Row) /\ DOMAIN rows' = DOMAIN rows
    BY <1>3, <1>4, <1>5, SameRows
  <1>7. TypeInv'
    BY <1>1, <1>6 DEF FrameInv, TypeInv
  <1>8. FoundInv'
    BY <1>2, <1>4, <1>6 DEF FrameInv, FoundInv
  <1>9. Applied' = Applied
    BY <1>1 DEF Applied
  <1>10. \A k \in DOMAIN rows : RiskOf(rows'[k], active, Applied) = RiskOf(rows[k], active, Applied)
    BY <1>4 DEF RiskOf
  <1>11. ScoredInv'
    BY <1>1, <1>2, <1>4, <1>6, <1>9, <1>10 DEF FrameInv, ScoredInv
  <1>12. ActionInv'
    BY <1>1, <1>4, <1>6 DEF ActionInv
  <1> QED
    BY <1>7, <1>8, <1>11, <1>12 DEF FrameInv

\* A row that gets its text keeps everything else.
LEMMA ExplainedRow ==
    ASSUME rows \in Seq(Row), NEW text \in {"grounded", "template"}, Explained(text)
    PROVE  /\ rows' \in Seq(Row) /\ DOMAIN rows' = DOMAIN rows
           /\ \A k \in DOMAIN rows :
                 /\ rows'[k].account = rows[k].account
                 /\ rows'[k].fired = rows[k].fired /\ rows'[k].stat = rows[k].stat
                 /\ rows'[k].ml = rows[k].ml /\ rows'[k].risk = rows[k].risk
                 /\ rows'[k].label = rows[k].label /\ rows'[k].action = rows[k].action
                 /\ rows'[k].explanation =
                       IF k = Head(gen.todo) THEN text ELSE rows[k].explanation
  <1> DEFINE h == Head(gen.todo)
  <1>1. rows' = [rows EXCEPT ![h].explanation = text]
    BY DEF Explained
  <1>2. \A k \in DOMAIN rows : rows[k] \in Row
    BY RowsDomain
  <1> HIDE DEF h
  <1>3. ASSUME NEW k \in DOMAIN rows
        PROVE  /\ rows'[k] \in Row
               /\ rows'[k].account = rows[k].account
               /\ rows'[k].fired = rows[k].fired /\ rows'[k].stat = rows[k].stat
               /\ rows'[k].ml = rows[k].ml /\ rows'[k].risk = rows[k].risk
               /\ rows'[k].label = rows[k].label /\ rows'[k].action = rows[k].action
               /\ rows'[k].explanation = IF k = h THEN text ELSE rows[k].explanation
    <2>1. CASE k = h
      <3>1. rows'[k] = [rows[k] EXCEPT !.explanation = text]
        BY <1>1, <2>1
      <3> QED
        BY <1>2, <2>1, <3>1 DEF Row
    <2>2. CASE k # h
      BY <1>1, <1>2, <2>2
    <2> QED
      BY <2>1, <2>2
  <1>4. rows' = [k \in DOMAIN rows |-> rows'[k]]
    BY <1>1
  <1>5. rows' \in Seq(Row) /\ DOMAIN rows' = DOMAIN rows
    BY <1>3, <1>4, SameRows
  <1> QED
    BY <1>3, <1>5 DEF h

LEMMA ExplainedFrame ==
    ASSUME FrameInv, NEW text \in {"grounded", "template"}, Explained(text)
    PROVE  FrameInv'
  <1>1. /\ UNCHANGED <<tries, intent, trace, active, scale>>
        /\ rows \in Seq(Row)
    BY DEF Explained, FrameInv, TypeInv
  <1>2. RanTools' = RanTools /\ Applied' = Applied
    BY <1>1 DEF RanTools, Applied
  <1>3. /\ rows' \in Seq(Row) /\ DOMAIN rows' = DOMAIN rows
        /\ \A k \in DOMAIN rows :
              /\ rows'[k].fired = rows[k].fired /\ rows'[k].stat = rows[k].stat
              /\ rows'[k].ml = rows[k].ml /\ rows'[k].risk = rows[k].risk
              /\ rows'[k].label = rows[k].label /\ rows'[k].action = rows[k].action
    BY <1>1, ExplainedRow
  <1>4. TypeInv'
    BY <1>1, <1>3 DEF FrameInv, TypeInv
  <1>5. FoundInv'
    BY <1>2, <1>3 DEF FrameInv, FoundInv
  <1>6. \A k \in DOMAIN rows : RiskOf(rows'[k], active, Applied) = RiskOf(rows[k], active, Applied)
    BY <1>3 DEF RiskOf
  <1>7. ScoredInv'
    BY <1>1, <1>2, <1>3, <1>6 DEF FrameInv, ScoredInv
  <1>8. ActionInv'
    BY <1>1, <1>2, <1>3 DEF FrameInv, ActionInv
  <1> QED
    BY <1>4, <1>5, <1>7, <1>8 DEF FrameInv

\* An empty frame.
LEMMA EmptyFrame ==
    /\ <<>> \in Seq(Row) /\ DOMAIN <<>> = {} /\ 1 \in Nat \ {0} /\ {} \subseteq Detectors
    /\ 0 \in 0..MaxAttempts
  BY EmptySeq, BoundsAssumption

LEMMA FrameInit == Init => FrameInv
  <1> SUFFICES ASSUME Init PROVE FrameInv
    OBVIOUS
  <1>1. rows = <<>> /\ scale = 1 /\ active = {} /\ tries = 0 /\ trace = <<>>
    BY DEF Init
  <1>2. RanTools = {}
    BY <1>1, RangeOfNothing DEF RanTools
  <1> QED
    BY <1>1, <1>2, EmptyFrame DEF FrameInv, TypeInv, FoundInv, ScoredInv, ActionInv

LEMMA FrameStep == QueryInv /\ FrameInv /\ [Next]_vars => FrameInv'
  <1> SUFFICES ASSUME QueryInv, FrameInv, [Next]_vars PROVE FrameInv'
    OBVIOUS
  <1>1. tries \in 0..MaxAttempts /\ MaxAttempts \in Nat \ {0}
    BY BoundsAssumption DEF FrameInv, TypeInv
  <1>2. ASSUME UNCHANGED <<trace, rows, active, scale, tries, intent>>
        PROVE  FrameInv'
    <2>1. RanTools' = RanTools
      BY <1>2 DEF RanTools
    <2> QED
      BY <1>1, <1>2, <2>1, FrameKept
  <1>3. CASE \/ ModelCallFails \/ ExtractWithModel \/ ModelIntentInvalid \/ MakePlan
             \/ ExtractByRules
    <2>1. CASE Fail
      BY <1>2, <2>1 DEF Fail, frame
    <2>2. CASE ~Fail
      <3>1. /\ UNCHANGED <<trace, rows, active, scale>> /\ tries' \in 0..MaxAttempts
            /\ stage \in {"extract", "plan"}
        BY <1>1, <1>3, <2>2 DEF ModelCallFails, ExtractWithModel, ModelIntentInvalid, MakePlan,
           ExtractByRules, EndExtraction, frame
      <3>2. RanTools' = RanTools /\ RanTools = {}
        BY <3>1, BeforeThePlan, RangeOfNothing DEF RanTools
      <3> QED
        BY <3>1, <3>2, FrameKept
    <2> QED
      BY <2>1, <2>2
  <1>4. ASSUME NEW t \in {"aggregation", "eda", "graph_tool", "feature_engineering",
                          "explanation"},
               IsNext(t), Ran(t), UNCHANGED <<rows, active, scale>>
        PROVE  FrameInv'
    <2>1. t \in ALLOWED_TOOLS /\ tries' = tries /\ intent' = intent
      BY <1>4, Places DEF Ran
    <2>2. RanTools' = RanTools \cup {t}
      BY <1>4, <2>1, RunKeepsOrder DEF QueryInv
    <2> QED
      BY <1>1, <1>4, <2>1, <2>2, FrameKept
  <1>5. CASE LoadData
    BY <1>5, LoadFrame
  <1>6. CASE Aggregate \/ Survey \/ EngineerFeatures \/ EndExplaining
    BY <1>4, <1>6 DEF Aggregate, Survey, EngineerFeatures, EndExplaining, frame
  <1>7. CASE RunRules \/ RunStatistical \/ RunMl
    BY <1>7, DetectorsFrame
  <1>8. CASE ScoreRisk
    BY <1>8, ScoreFrame
  <1>9. CASE Escalate
    BY <1>9, EscalateFrame
  <1>10. CASE ModelExplains \/ ExplainByTemplate
    BY <1>10, ExplainedFrame DEF ModelExplains, ExplainByTemplate
  <1>11. CASE StartExplaining \/ ModelStrays \/ ModelUnavailable \/ Assemble \/ ToolRaises
    BY <1>2, <1>11 DEF StartExplaining, ModelStrays, ModelUnavailable, CallNext, Assemble,
       ToolRaises, Fail, frame
  <1>12. CASE NextQuery
    <2>1. rows' = <<>> /\ scale' = 1 /\ active' = {} /\ tries' = 0 /\ trace' = <<>>
      BY <1>12 DEF NextQuery
    <2>2. RanTools' = {}
      BY <2>1, RangeOfNothing DEF RanTools
    <2> QED
      BY <2>1, <2>2, EmptyFrame DEF FrameInv, TypeInv, FoundInv, ScoredInv, ActionInv
  <1>13. CASE UNCHANGED vars
    BY <1>2, <1>13 DEF vars, frame
  <1> QED
    BY <1>3, <1>5, <1>6, <1>7, <1>8, <1>9, <1>10, <1>11, <1>12, <1>13 DEF Next

-----------------------------------------------------------------------------
(* The rows that are explained *)

Calls == {"none", "template", "correction", "fallback", "primary"}

Texts == {"grounded", "template"}

\* Rows are explained by the last tool of the plan, and by no other.
GenInv ==
    /\ gen \in [todo: Seq(Nat), call: Calls]
    /\ gen.call = "none" => gen.todo = <<>>
    /\ stage \in {"extract", "plan", "answered"} => gen.call = "none"
    /\ stage = "run" /\ gen.call # "none" => IsFirst("explanation", steps)

\* The rows left to explain are the last of those chosen at first, which the
\* texts written since do not change; the others have their texts.
ExplainInv ==
    /\ stage = "run" /\ gen.call # "none" =>
          /\ Len(gen.todo) <= Len(ToExplain)
          /\ \A i \in 1..Len(gen.todo) :
                gen.todo[i] = ToExplain[Len(ToExplain) - Len(gen.todo) + i]
          /\ \A i \in 1..(Len(ToExplain) - Len(gen.todo)) :
                rows[ToExplain[i]].explanation \in Texts
    /\ "explanation" \in RanTools =>
          \A i \in 1..Len(ToExplain) : rows[ToExplain[i]].explanation \in Texts

LEMMA ToExplainFacts ==
    ASSUME rows \in Seq(Row)
    PROVE  /\ ToExplain \in Seq(DOMAIN rows) /\ ToExplain \in Seq(Nat)
           /\ Len(ToExplain) \in 0..MaxExplained
           /\ \A i \in 1..Len(ToExplain) : ToExplain[i] \in DOMAIN rows
           /\ Len(ToExplain) =
                 (IF Len(Worst(35)) > MaxExplained THEN MaxExplained ELSE Len(Worst(35)))
           /\ \A i \in 1..Len(ToExplain) : ToExplain[i] = Worst(35)[i]
  <1> DEFINE w == Worst(35)
  <1>1. w \in Seq(DOMAIN rows) /\ Len(w) \in Nat
    BY WorstFacts
  <1>2. MaxExplained \in Nat
    BY BoundsAssumption
  <1>3. ToExplain = FirstOf(w, MaxExplained)
    BY DEF ToExplain
  <1> HIDE DEF w
  <1>4. /\ ToExplain \in Seq(DOMAIN rows)
        /\ Len(ToExplain) = (IF Len(w) > MaxExplained THEN MaxExplained ELSE Len(w))
        /\ \A i \in 1..Len(ToExplain) : ToExplain[i] = w[i]
    BY <1>1, <1>2, <1>3, FirstOfFacts
  <1>5. Len(ToExplain) \in 0..MaxExplained
    BY <1>1, <1>2, <1>4
  <1>6. \A i \in 1..Len(ToExplain) : ToExplain[i] \in DOMAIN rows
    BY <1>4, ElementOfSeq
  <1>7. ToExplain \in Seq(Nat)
    BY <1>4, RowsDomain, SeqMonotonic
  <1> QED
    BY <1>4, <1>5, <1>6, <1>7 DEF w

LEMMA SameToExplain ==
    ASSUME DOMAIN rows' = DOMAIN rows, scale' = scale,
           \A k \in DOMAIN rows : /\ rows'[k].account = rows[k].account
                                  /\ rows'[k].risk = rows[k].risk
    PROVE  ToExplain' = ToExplain
  BY SameWorst DEF ToExplain, FirstOf

\* While rows are explained no other tool is next, and the explanation has not run.
LEMMA OnlyExplaining ==
    ASSUME QueryInv, GenInv, NEW t \in ALLOWED_TOOLS, IsNext(t), t # "explanation"
    PROVE  gen.call = "none"
  <1> SUFFICES ASSUME gen.call # "none" PROVE FALSE
    OBVIOUS
  <1>1. IsFirst("explanation", steps)
    BY DEF GenInv, IsNext
  <1>2. TOOL_ORDER["explanation"] <= TOOL_ORDER[t]
    BY <1>1 DEF IsFirst, IsNext
  <1>3. TOOL_ORDER[t] < TOOL_ORDER["explanation"]
    BY <1>1, NextTool DEF IsFirst, QueryInv
  <1> QED
    BY <1>2, <1>3, OrderFacts, Places

\* After a step of another tool nothing has been explained.
LEMMA OtherToolExplains ==
    ASSUME QueryInv, GenInv, ExplainInv,
           NEW t \in ALLOWED_TOOLS, IsNext(t), t # "explanation", Ran(t), gen' = gen
    PROVE  GenInv' /\ ExplainInv'
  <1>1. gen.call = "none" /\ stage = "run" /\ stage' = "run"
    BY OnlyExplaining DEF Ran, IsNext
  <1>2. "explanation" \notin RanTools'
    <2>1. t \in ALLOWED_TOOLS /\ "explanation" \in ALLOWED_TOOLS \ {t}
      BY Places
    <2>2. TOOL_ORDER[t] < TOOL_ORDER["explanation"]
      BY <2>1, OrderFacts, Places
    <2> QED
      BY <2>1, <2>2, NotYet
  <1> QED
    BY <1>1, <1>2 DEF GenInv, ExplainInv

\* A step that changes neither the frame nor what is being explained.
LEMMA ExplainKept ==
    ASSUME GenInv, ExplainInv, UNCHANGED <<rows, scale, gen, trace>>,
           \/ stage' = stage /\ steps' = steps
           \/ stage' = "failed"
           \/ gen.call = "none" /\ "explanation" \notin RanTools
           \/ gen.call = "none" /\ stage' = "answered"
    PROVE  GenInv' /\ ExplainInv'
  <1>1. ToExplain' = ToExplain
    BY SameToExplain
  <1>2. RanTools' = RanTools
    BY DEF RanTools
  <1>3. GenInv'
    BY <1>2 DEF GenInv
  <1>4. ExplainInv'
    BY <1>1, <1>2 DEF ExplainInv, GenInv
  <1> QED
    BY <1>3, <1>4

LEMMA StartExplains ==
    ASSUME QueryInv, FrameInv, GenInv, ExplainInv, StartExplaining
    PROVE  GenInv' /\ ExplainInv'
  <1> DEFINE e == ToExplain
  <1>1. e \in Seq(Nat) /\ Len(e) \in Nat
    BY ToExplainFacts DEF FrameInv, TypeInv
  <1>2. /\ gen' = [todo |-> e, call |-> FirstCall] /\ FirstCall \in Calls \ {"none"}
        /\ UNCHANGED <<stage, steps, trace, rows, scale>>
        /\ IsFirst("explanation", steps) /\ stage = "run"
    BY DEF StartExplaining, FirstCall, Calls, IsNext, frame
  <1>3. RanTools' = RanTools
    BY <1>2 DEF RanTools
  <1>4. ToExplain' = ToExplain
    BY <1>2, SameToExplain
  <1>5. "explanation" \notin RanTools
    BY <1>2, OrderFacts, Places DEF QueryInv, OrderInv, IsFirst
  <1>6. gen'.todo = e /\ gen'.call \in Calls \ {"none"}
    BY <1>2
  <1> HIDE DEF e
  <1>7. GenInv'
    BY <1>1, <1>2, <1>6 DEF GenInv
  <1>8. ExplainInv'
    BY <1>1, <1>3, <1>4, <1>5, <1>6 DEF ExplainInv, e
  <1> QED
    BY <1>7, <1>8

LEMMA CallExplains ==
    ASSUME QueryInv, FrameInv, GenInv, ExplainInv, ModelStrays \/ ModelUnavailable
    PROVE  GenInv' /\ ExplainInv'
  <1>1. PICK call \in Calls \ {"none"} : gen' = [gen EXCEPT !.call = call]
    BY DEF ModelStrays, ModelUnavailable, CallNext, Calls
  <1>2. /\ stage = "run" /\ gen.call \in Calls \ {"none"}
        /\ UNCHANGED <<stage, steps, trace, rows, scale>>
    BY DEF ModelStrays, ModelUnavailable, Generating, CallNext, Calls, frame
  <1>3. gen' \in [todo: Seq(Nat), call: Calls] /\ gen'.todo = gen.todo /\ gen'.call = call
    BY <1>1 DEF GenInv
  <1>4. RanTools' = RanTools
    BY <1>2 DEF RanTools
  <1>5. ToExplain' = ToExplain
    BY <1>2, SameToExplain
  <1>6. GenInv'
    BY <1>1, <1>2, <1>3 DEF GenInv
  <1>7. ExplainInv'
    BY <1>1, <1>2, <1>3, <1>4, <1>5 DEF ExplainInv
  <1> QED
    BY <1>6, <1>7

LEMMA TextExplains ==
    ASSUME QueryInv, FrameInv, GenInv, ExplainInv, ModelExplains \/ ExplainByTemplate
    PROVE  GenInv' /\ ExplainInv'
  <1> DEFINE e == ToExplain
             todo == gen.todo
             h == Head(gen.todo)
  <1>1. PICK text \in Texts : Explained(text)
    BY DEF ModelExplains, ExplainByTemplate, Texts
  <1>2. /\ stage = "run" /\ gen.call \in Calls \ {"none"} /\ todo # <<>>
        /\ UNCHANGED <<stage, steps, trace, scale>>
        /\ gen' = [todo |-> Tail(todo), call |-> FirstCall]
        /\ FirstCall \in Calls \ {"none"}
    BY DEF ModelExplains, ExplainByTemplate, Generating, Explained, Calls, FirstCall
  <1>3. rows \in Seq(Row)
    BY DEF FrameInv, TypeInv
  <1>4. /\ DOMAIN rows' = DOMAIN rows
        /\ \A k \in DOMAIN rows :
              /\ rows'[k].account = rows[k].account
              /\ rows'[k].risk = rows[k].risk
              /\ rows'[k].explanation = IF k = h THEN text ELSE rows[k].explanation
    BY <1>1, <1>3, ExplainedRow DEF Texts
  <1>5. ToExplain' = ToExplain
    BY <1>2, <1>4, SameToExplain
  <1>6. RanTools' = RanTools
    BY <1>2 DEF RanTools
  <1>7. /\ todo \in Seq(Nat) /\ Len(todo) \in Nat \ {0}
        /\ Tail(todo) \in Seq(Nat) /\ Len(Tail(todo)) = Len(todo) - 1
        /\ h = todo[1]
        /\ \A i \in 1..Len(Tail(todo)) : Tail(todo)[i] = todo[i + 1]
    <2>1. todo \in Seq(Nat) /\ todo # <<>>
      BY <1>2 DEF GenInv
    <2> HIDE DEF todo
    <2> QED
      BY <2>1 DEF h, todo
  <1>8. gen'.todo = Tail(todo) /\ gen'.call \in Calls \ {"none"}
        /\ gen' \in [todo: Seq(Nat), call: Calls]
    BY <1>2, <1>7
  <1>9. GenInv'
    BY <1>2, <1>8 DEF GenInv
  <1>10. Len(e) \in Nat /\ \A i \in 1..Len(e) : e[i] \in DOMAIN rows
    BY <1>3, ToExplainFacts
  <1> DEFINE n == Len(e) - Len(todo)
             m == Len(todo)
             l == Len(e)
  <1>11. /\ m <= l
         /\ \A i \in 1..m : todo[i] = e[n + i]
         /\ \A i \in 1..n : rows[e[i]].explanation \in Texts
    BY <1>2 DEF ExplainInv
  <1>12. /\ Len(gen'.todo) = m - 1
         /\ \A i \in 1..(m - 1) : gen'.todo[i] = todo[i + 1]
    BY <1>7, <1>8
  <1>13. "explanation" \notin RanTools
    BY <1>2, OrderFacts, Places DEF QueryInv, OrderInv, IsFirst, GenInv
  <1>14. m \in Nat \ {0} /\ l \in Nat /\ n = l - m
    BY <1>7, <1>10
  <1>15. /\ \A i \in 1..l : e[i] \in DOMAIN rows
         /\ h = todo[1]
    BY <1>7, <1>10
  <1> HIDE DEF e, todo, h, n, m, l
  <1>16. /\ n \in Nat /\ m - 1 \in Nat /\ m - 1 <= l
         /\ l - (m - 1) = n + 1 /\ n + 1 \in 1..l
         /\ \A i \in 1..n : i \in 1..l
         /\ \A i \in 1..(m - 1) : i + 1 \in 1..m /\ n + (i + 1) = n + 1 + i
    BY <1>11, <1>14
  <1>17. h = e[n + 1]
    BY <1>11, <1>14, <1>15
  <1>18. \A i \in 1..(n + 1) : rows'[e[i]].explanation \in Texts
    <2> SUFFICES ASSUME NEW i \in 1..(n + 1) PROVE rows'[e[i]].explanation \in Texts
      OBVIOUS
    <2>1. CASE i = n + 1
      BY <2>1, <1>1, <1>4, <1>15, <1>16, <1>17
    <2>2. CASE i # n + 1
      <3>1. i \in 1..n
        BY <2>2, <1>16
      <3> QED
        BY <3>1, <1>1, <1>4, <1>11, <1>15, <1>16
    <2> QED
      BY <2>1, <2>2
  <1>19. \A i \in 1..(m - 1) : gen'.todo[i] = e[n + 1 + i]
    <2> SUFFICES ASSUME NEW i \in 1..(m - 1) PROVE gen'.todo[i] = e[n + 1 + i]
      OBVIOUS
    <2>1. i + 1 \in 1..m /\ n + (i + 1) = n + 1 + i
      BY <1>16
    <2>2. gen'.todo[i] = e[n + (i + 1)]
      BY <2>1, <1>11, <1>12
    <2> QED
      BY <2>1, <2>2
  <1>20. /\ Len(gen'.todo) <= l
         /\ \A i \in 1..(l - Len(gen'.todo)) : rows'[e[i]].explanation \in Texts
         /\ \A i \in 1..Len(gen'.todo) : gen'.todo[i] = e[l - Len(gen'.todo) + i]
    BY <1>12, <1>16, <1>18, <1>19
  <1>21. ExplainInv'
    BY <1>2, <1>5, <1>6, <1>8, <1>13, <1>20 DEF ExplainInv, e, l
  <1> QED
    BY <1>9, <1>21

LEMMA EndExplains ==
    ASSUME QueryInv, FrameInv, GenInv, ExplainInv, EndExplaining
    PROVE  GenInv' /\ ExplainInv'
  <1>1. /\ gen' = NotGenerating /\ gen.todo = <<>> /\ gen.call # "none"
        /\ stage = "run" /\ UNCHANGED <<rows, scale>>
    BY DEF EndExplaining, frame, IsNext
  <1>2. gen' \in [todo: Seq(Nat), call: Calls] /\ gen'.call = "none" /\ gen'.todo = <<>>
    BY <1>1, EmptySeq DEF NotGenerating, Calls
  <1>3. ToExplain' = ToExplain
    BY <1>1, SameToExplain
  <1>4. Len(ToExplain) \in Nat /\ Len(gen.todo) = 0
    BY <1>1, ToExplainFacts, EmptySeq DEF FrameInv, TypeInv
  <1>5. \A i \in 1..Len(ToExplain) : rows[ToExplain[i]].explanation \in Texts
    BY <1>1, <1>4 DEF ExplainInv
  <1>6. GenInv'
    BY <1>2 DEF GenInv
  <1>7. ExplainInv'
    BY <1>1, <1>2, <1>3, <1>5 DEF ExplainInv
  <1> QED
    BY <1>6, <1>7

LEMMA ExplainInit == Init => GenInv /\ ExplainInv
  <1> SUFFICES ASSUME Init PROVE GenInv /\ ExplainInv
    OBVIOUS
  <1>1. gen = NotGenerating /\ trace = <<>> /\ stage = "extract"
    BY DEF Init
  <1>2. RanTools = {}
    BY <1>1, RangeOfNothing DEF RanTools
  <1> QED
    BY <1>1, <1>2, EmptySeq DEF GenInv, ExplainInv, NotGenerating, Calls

LEMMA ExplainStep ==
    QueryInv /\ FrameInv /\ GenInv /\ ExplainInv /\ [Next]_vars => GenInv' /\ ExplainInv'
  <1> SUFFICES ASSUME QueryInv, FrameInv, GenInv, ExplainInv, [Next]_vars
               PROVE  GenInv' /\ ExplainInv'
    OBVIOUS
  <1>1. CASE Fail
    BY <1>1, ExplainKept DEF Fail, frame
  <1>2. CASE \/ ModelCallFails \/ ExtractWithModel \/ ModelIntentInvalid \/ MakePlan
             \/ ExtractByRules /\ ~Fail
    <2>1. /\ UNCHANGED <<trace, rows, scale, gen>> /\ stage \in {"extract", "plan"}
      BY <1>2 DEF ModelCallFails, ExtractWithModel, ModelIntentInvalid, MakePlan,
         ExtractByRules, EndExtraction, frame
    <2>2. gen.call = "none"
      BY <2>1 DEF GenInv
    <2>3. "explanation" \notin RanTools
      BY <2>1, BeforeThePlan, RangeOfNothing DEF RanTools
    <2> QED
      BY <2>1, <2>2, <2>3, ExplainKept
  <1>3. ASSUME NEW t \in {"data_loader", "aggregation", "eda", "graph_tool",
                          "feature_engineering", "rule_engine", "statistical", "ml_engine",
                          "risk_scorer", "escalation"},
               IsNext(t), Ran(t), gen' = gen
        PROVE  GenInv' /\ ExplainInv'
    BY <1>3, OtherToolExplains, Places
  <1>4. CASE \/ LoadData \/ Aggregate \/ Survey \/ EngineerFeatures \/ RunRules
             \/ RunStatistical \/ RunMl \/ ScoreRisk \/ Escalate
    BY <1>3, <1>4 DEF LoadData, Aggregate, Survey, EngineerFeatures, RunRules, RunStatistical,
       RunMl, ScoreRisk, Escalate
  <1>5. CASE StartExplaining
    BY <1>5, StartExplains
  <1>6. CASE ModelStrays \/ ModelUnavailable
    BY <1>6, CallExplains
  <1>7. CASE ModelExplains \/ ExplainByTemplate
    BY <1>7, TextExplains
  <1>8. CASE EndExplaining
    BY <1>8, EndExplains
  <1>9. CASE Assemble
    <2>1. /\ stage = "run" /\ steps = {} /\ stage' = "answered"
          /\ UNCHANGED <<rows, scale, gen, trace>>
      BY <1>9 DEF Assemble, frame
    <2>2. gen.call = "none"
      BY <2>1 DEF GenInv, IsFirst
    <2> QED
      BY <2>1, <2>2, ExplainKept
  <1>10. CASE NextQuery
    <2>1. gen' = NotGenerating /\ trace' = <<>> /\ stage' = "extract"
      BY <1>10 DEF NextQuery
    <2>2. RanTools' = {}
      BY <2>1, RangeOfNothing DEF RanTools
    <2> QED
      BY <2>1, <2>2, EmptySeq DEF GenInv, ExplainInv, NotGenerating, Calls
  <1>11. CASE UNCHANGED vars
    BY <1>11, ExplainKept DEF vars, frame
  <1> QED
    BY <1>1, <1>2, <1>4, <1>5, <1>6, <1>7, <1>8, <1>9, <1>10, <1>11 DEF Next, ToolRaises

-----------------------------------------------------------------------------
(* The answer *)

\* Only assembling answers a query.
LEMMA OnlyAssembleAnswers == Next /\ ~Assemble => stage' # "answered"
  <1> SUFFICES ASSUME Next, ~Assemble PROVE stage' # "answered"
    OBVIOUS
  <1>1. ASSUME Fail PROVE stage' # "answered"
    BY <1>1 DEF Fail
  <1>2. CASE \/ ModelCallFails \/ ExtractWithModel \/ ModelIntentInvalid \/ MakePlan
             \/ ExtractByRules
    BY <1>1, <1>2 DEF ModelCallFails, ExtractWithModel, ModelIntentInvalid, MakePlan,
       ExtractByRules, EndExtraction
  <1>3. ASSUME NEW t, IsNext(t), Ran(t) PROVE stage' # "answered"
    BY <1>3 DEF IsNext, Ran
  <1>4. CASE \/ LoadData \/ Aggregate \/ Survey \/ EngineerFeatures \/ RunRules
             \/ RunStatistical \/ RunMl \/ ScoreRisk \/ Escalate \/ EndExplaining
    BY <1>3, <1>4 DEF LoadData, Aggregate, Survey, EngineerFeatures, RunRules, RunStatistical,
       RunMl, ScoreRisk, Escalate, EndExplaining
  <1>5. CASE \/ StartExplaining \/ ModelExplains \/ ModelStrays \/ ModelUnavailable
             \/ ExplainByTemplate
    BY <1>5 DEF StartExplaining, ModelExplains, ModelStrays, ModelUnavailable,
       ExplainByTemplate, Explained, CallNext, Generating, IsNext
  <1>6. CASE ToolRaises
    BY <1>1, <1>6 DEF ToolRaises
  <1>7. CASE NextQuery
    BY <1>7 DEF NextQuery
  <1> QED
    BY <1>2, <1>4, <1>5, <1>6, <1>7 DEF Next

LEMMA AnswerStep == AnswerInv /\ [Next]_vars => AnswerInv'
  <1> SUFFICES ASSUME AnswerInv, [Next]_vars, stage' = "answered" PROVE AnswerInv'
    BY DEF AnswerInv
  <1>1. ASSUME UNCHANGED <<rows, scale>>
        PROVE  Worst(35)' = Worst(35)
    BY <1>1, SameWorst
  <1>2. CASE Assemble
    <2>1. /\ UNCHANGED <<rows, scale>>
          /\ response'.top = [k \in DOMAIN FirstOf(Worst(35), MaxListed) |-> rows[Worst(35)[k]]]
          /\ response'.flagged = Len(Worst(35))
          /\ response'.high_risk = Cardinality({k \in DOMAIN Worst(35) :
                                                  rows[Worst(35)[k]].label = "high"})
      BY <1>2 DEF Assemble, frame
    <2>2. Worst(35)' = Worst(35)
      BY <1>1, <2>1
    <2> QED
      BY <2>1, <2>2 DEF AnswerInv, FirstOf
  <1>3. CASE UNCHANGED vars
    <2>1. UNCHANGED <<stage, rows, scale, response>>
      BY <1>3 DEF vars, frame
    <2>2. Worst(35)' = Worst(35)
      BY <1>1, <2>1
    <2> QED
      BY <2>1, <2>2 DEF AnswerInv, FirstOf
  <1> QED
    BY <1>2, <1>3, OnlyAssembleAnswers

PipelineInv == QueryInv /\ FrameInv /\ GenInv /\ ExplainInv /\ AnswerInv

\* The frame's rows and scores, the explanations under way and the answer are
\* what the tools that ran have made them.
THEOREM FrameInvariant == Spec => []PipelineInv
  <1>1. Init => PipelineInv
    BY QueryInit, FrameInit, ExplainInit DEF PipelineInv, AnswerInv, Init
  <1>2. PipelineInv /\ [Next]_vars => PipelineInv'
    BY QueryStep, FrameStep, ExplainStep, AnswerStep DEF PipelineInv
  <1> QED
    BY <1>1, <1>2, PTL DEF Spec

\* For every table, all findings and all limits: the response lists the worst
\* accounts, each once and by falling risk, and leaves out none that is worse
\* than one it lists.
THEOREM ListsTheWorstTheorem == Spec => []ListsTheWorst
  <1>1. PipelineInv => ListsTheWorst
    BY ListedWorst DEF PipelineInv, FrameInv, TypeInv
  <1> QED
    BY <1>1, FrameInvariant, PTL

\* The scorer, the escalation and the explanation are in every plan.
LEMMA AnsweredRan ==
    ASSUME PipelineInv, stage = "answered"
    PROVE  {"risk_scorer", "escalation", "explanation"} \subseteq RanTools
  BY SelectedFacts DEF PipelineInv, QueryInv, OrderInv

\* What is listed is among what is explained, as long as explanations are made
\* for at least as many accounts as a response can list.
THEOREM ListedAreExplainedTheorem ==
    ASSUME MaxListed <= MaxExplained
    PROVE  Spec => []ListedAreExplained
  <1>1. ASSUME PipelineInv, stage = "answered", NEW k \in DOMAIN response.top
        PROVE  response.top[k].explanation \in {"grounded", "template"}
    <2> DEFINE w == Worst(35)
    <2>1. rows \in Seq(Row) /\ AnswerInv
      BY <1>1 DEF PipelineInv, FrameInv, TypeInv
    <2>2. /\ k \in 1..(IF Len(w) > MaxListed THEN MaxListed ELSE Len(w))
          /\ k \in 1..Len(w)
          /\ response.top[k] = rows[w[k]]
      BY <1>1, <2>1, TopFacts
    <2>3. /\ Len(ToExplain) = (IF Len(w) > MaxExplained THEN MaxExplained ELSE Len(w))
          /\ \A i \in 1..Len(ToExplain) : ToExplain[i] = w[i]
      BY <2>1, ToExplainFacts
    <2>4. MaxListed \in Nat /\ MaxExplained \in Nat /\ Len(w) \in Nat
      BY <2>1, WorstFacts, BoundsAssumption
    <2> HIDE DEF w
    <2>5. k \in 1..Len(ToExplain) /\ ToExplain[k] = w[k]
      BY <2>2, <2>3, <2>4
    <2>6. rows[ToExplain[k]].explanation \in Texts
      BY <1>1, <2>5, AnsweredRan DEF PipelineInv, ExplainInv
    <2> QED
      BY <2>2, <2>5, <2>6 DEF Texts
  <1>2. PipelineInv => ListedAreExplained
    BY <1>1 DEF ListedAreExplained
  <1> QED
    BY <1>2, FrameInvariant, PTL

\* With the bands of a default installation, for every table and all findings:
\* what is listed as high risk is what is recommended for a report.
THEOREM BandsAgreeTheorem ==
    ASSUME RISK_LOW_THRESHOLD = 35, RISK_HIGH_THRESHOLD = 70
    PROVE  Spec => []BandsAgree
  <1>1. ASSUME PipelineInv, stage = "answered", NEW k \in DOMAIN response.top
        PROVE  /\ response.top[k].label \in {"medium", "high"}
               /\ response.top[k].label = "high" <=> response.top[k].action = "report"
    <2>1. rows \in Seq(Row) /\ scale \in Nat /\ AnswerInv
      BY <1>1 DEF PipelineInv, FrameInv, TypeInv
    <2>2. PICK j \in DOMAIN rows : j \in Best(35) /\ response.top[k] = rows[j]
      BY <1>1, <2>1, TopFacts
    <2>3. /\ rows[j].label = Label(rows[j].risk, scale)
          /\ rows[j].action = ActionFor(rows[j].risk, scale)
      BY <1>1, AnsweredRan DEF PipelineInv, FrameInv, ScoredInv, ActionInv
    <2>4. AtLeast(rows[j].risk, scale, 35)
      BY <2>2 DEF Best, High
    <2>5. rows[j].risk \in Nat
      BY <2>1, RowsDomain
    <2>6. AtLeast(rows[j].risk, scale, 70) => AtLeast(rows[j].risk, scale, 40)
      BY <2>1, <2>5 DEF AtLeast
    <2> QED
      BY <2>2, <2>3, <2>4, <2>6 DEF Label, ActionFor
  <1>2. PipelineInv => BandsAgree
    BY <1>1 DEF BandsAgree
  <1> QED
    BY <1>2, FrameInvariant, PTL

\* A rule that fired for the pattern that was asked for is worth a review by
\* itself: 8 twentieths of all that the detectors can weigh are 40 percent.
LEMMA HitIsAtLeast ==
    ASSUME PipelineInv, stage = "answered", intent.pattern_type \in RULE_PATTERNS,
           NEW k \in DOMAIN rows, rows[k].fired > 0
    PROVE  AtLeast(rows[k].risk, scale, 40)
  <1> DEFINE row == rows[k]
             weight == IF active = {} THEN 1 ELSE Weight(active)
             fired == rows[k].fired
             risk == rows[k].risk
  <1>1. row \in Row /\ Full \in Nat \ {0} /\ active \subseteq Detectors
    BY RowsDomain, BoundsAssumption DEF PipelineInv, FrameInv, TypeInv
  <1>2. "rule_engine" \in active
    BY AnsweredRan, DetectorFacts
    DEF PipelineInv, FrameInv, FoundInv, QueryInv, ColumnInv
  <1>3. Applied = {PATTERN_TO_RULE[intent.pattern_type]}
    <2>1. /\ intent.pattern_type \in DOMAIN PATTERN_TO_RULE
          /\ intent.pattern_type # NoPattern
      BY DEF RULE_PATTERNS, PATTERN_TO_RULE, NoPattern
    <2> QED
      BY <2>1 DEF Applied, SelectedRules
  <1>4. Share(Applied) = 1
    BY <1>3, FS_Singleton DEF Share
  <1>5. scale = Scale(active, Applied) /\ risk = RiskOf(row, active, Applied)
    BY AnsweredRan DEF PipelineInv, FrameInv, ScoredInv
  <1>6. weight \in 0..20
    BY <1>1, WeightFacts
  <1>7. scale = 1 * Full * weight
    BY <1>4, <1>5 DEF Scale
  <1>8. risk \in Nat /\ risk >= 8 * (fired * Full)
    BY <1>1, <1>2, <1>5, ScoreTypes DEF Applied
  <1>9. fired \in Nat \ {0}
    BY <1>1 DEF Row
  <1> HIDE DEF row, weight, fired, risk
  <1>10. fired * Full >= Full /\ fired * Full \in Nat
    BY <1>1, <1>9
  <1>11. scale \in Nat /\ scale <= 20 * Full
    BY <1>1, <1>6, <1>7
  <1>12. 100 * risk >= 40 * scale
    BY <1>1, <1>8, <1>10, <1>11
  <1> QED
    BY <1>12 DEF AtLeast, risk

\* For every table, all findings and all limits: an account in whose rows the
\* rule of the pattern fired is recommended for review at least, and is listed
\* unless the response is full.
THEOREM RuleHitIsReviewedTheorem == Spec => []RuleHitIsReviewed
  <1>1. ASSUME PipelineInv, stage = "answered", intent.pattern_type \in RULE_PATTERNS,
               NEW k \in DOMAIN rows, rows[k].fired > 0
        PROVE  /\ rows[k].action \in {"flag_for_review", "report"}
               /\ \/ \E j \in DOMAIN response.top :
                        response.top[j].account = rows[k].account
                  \/ Len(response.top) = MaxListed
    <2>1. rows \in Seq(Row) /\ scale \in Nat /\ AnswerInv
      BY <1>1 DEF PipelineInv, FrameInv, TypeInv
    <2>2. AtLeast(rows[k].risk, scale, 40)
      BY <1>1, HitIsAtLeast
    <2>3. rows[k].action \in {"flag_for_review", "report"}
      BY <1>1, <2>2, AnsweredRan DEF PipelineInv, FrameInv, ActionInv, ActionFor
    <2>4. rows[k].risk \in Nat
      BY <2>1, RowsDomain
    <2>5. AtLeast(rows[k].risk, scale, 35)
      BY <2>1, <2>2, <2>4 DEF AtLeast
    <2>6. CASE Len(response.top) < MaxListed
      <3>1. {response.top[j].account : j \in DOMAIN response.top} = AtRisk
        BY <1>1, <2>1, <2>6, ListedWorst DEF ListsTheWorst, AtRisk
      <3>2. rows[k].account \in AtRisk
        BY <2>5 DEF AtRisk
      <3> QED
        BY <2>3, <3>1, <3>2
    <2>7. CASE ~(Len(response.top) < MaxListed)
      <3>1. /\ Len(response.top) =
                 (IF Len(Worst(35)) > MaxListed THEN MaxListed ELSE Len(Worst(35)))
            /\ Len(Worst(35)) \in Nat /\ MaxListed \in Nat
        BY <1>1, <2>1, TopFacts, WorstFacts, BoundsAssumption
      <3> QED
        BY <2>3, <2>7, <3>1
    <2> QED
      BY <2>6, <2>7
  <1>2. PipelineInv => RuleHitIsReviewed
    BY <1>1 DEF RuleHitIsReviewed
  <1> QED
    BY <1>2, FrameInvariant, PTL

-----------------------------------------------------------------------------
(* Every step of a query brings it nearer to its end *)

PerTool == 5 * MaxExplained + 6
ToolCount == Cardinality(ALLOWED_TOOLS)
StepsLeft == Cardinality(steps)

\* Plans are finite.
LEMMA ToolsFinite == IsFiniteSet(ALLOWED_TOOLS) /\ ToolCount \in Nat
  <1>1. PICK n \in Nat : n = 11
    OBVIOUS
  <1>2. IsFiniteSet(1..n)
    BY FS_Interval
  <1>3. [t \in ALLOWED_TOOLS |-> TOOL_ORDER[t]] \in Injection(ALLOWED_TOOLS, 1..n)
    BY <1>1, OrderFacts DEF Injection, IsInjective
  <1>4. IsFiniteSet(ALLOWED_TOOLS)
    BY <1>2, <1>3, FS_Injection
  <1> QED
    BY <1>4, FS_CardinalityType DEF ToolCount

LEMMA PerToolType ==
    /\ PerTool \in Nat /\ MaxExplained \in Nat /\ PerTool = 5 * MaxExplained + 6
    /\ PerTool >= 6
  BY BoundsAssumption DEF PerTool

PlanIsFinite ==
    steps \subseteq ALLOWED_TOOLS => StepsLeft \in Nat /\ StepsLeft <= ToolCount

LEMMA StepsFinite == PlanIsFinite
  BY ToolsFinite, FS_Subset, FS_CardinalityType DEF PlanIsFinite, StepsLeft, ToolCount

LEMMA StepsFiniteNext == PlanIsFinite'
  BY StepsFinite, PTL

LEMMA OneStepLess ==
    ASSUME steps \subseteq ALLOWED_TOOLS, NEW t \in steps
    PROVE  /\ Cardinality(steps \ {t}) = StepsLeft - 1
           /\ StepsLeft \in Nat \ {0} /\ StepsLeft - 1 \in Nat
  <1>1. IsFiniteSet(steps)
    BY ToolsFinite, FS_Subset
  <1>2. StepsLeft \in Nat
    BY StepsFinite DEF PlanIsFinite
  <1>3. StepsLeft # 0
    BY <1>1, FS_EmptySet DEF StepsLeft
  <1>4. Cardinality(steps \ {t}) = StepsLeft - 1
    BY <1>1, FS_RemoveElement DEF StepsLeft
  <1> QED
    BY <1>2, <1>3, <1>4

\* What remains, stage by stage.
RemainingIs ==
    /\ stage = "extract" => Remaining = (ToolCount + 1) * PerTool + (MaxAttempts + 1)
                                          + (MaxAttempts - tries)
    /\ stage = "plan" => Remaining = (ToolCount + 1) * PerTool + (MaxAttempts - tries)
    /\ stage = "run" /\ gen.call = "none" => Remaining = 1 + PerTool * StepsLeft
    /\ stage = "run" /\ gen.call # "none" =>
          Remaining = 2 + PerTool * (StepsLeft - 1) + 5 * Len(gen.todo) + CallsLeft[gen.call]
    /\ stage \in {"answered", "failed"} => Remaining = 0

LEMMA RemainingFacts == RemainingIs
  BY DEF RemainingIs, Remaining, PerTool, ToolCount, StepsLeft

LEMMA RemainingFactsNext == RemainingIs'
  BY RemainingFacts, PTL

LEMMA CallsLeftFacts ==
    /\ CallsLeft["none"] = 0 /\ CallsLeft["template"] = 1 /\ CallsLeft["correction"] = 2
    /\ CallsLeft["fallback"] = 3 /\ CallsLeft["primary"] = 4
  BY DEF CallsLeft

LEMMA Scaled ==
    ASSUME NEW p \in Nat, NEW c \in Nat, NEW a \in Nat
    PROVE  /\ p * c \in Nat /\ p * (c - 1) = p * c - p
           /\ c <= a => p * c <= p * a
           /\ (a + 1) * p = p * a + p
  <1>1. c <= a => p * c <= p * a
    <2> SUFFICES ASSUME c <= a PROVE p * c <= p * a
      OBVIOUS
    <2>1. PICK d \in Nat : a = c + d
      OBVIOUS
    <2>2. p * a = p * c + p * d /\ p * d \in Nat /\ p * c \in Nat
      BY <2>1
    <2> QED
      BY <2>2
  <1> QED
    BY <1>1

\* A query that is failing gives up what remained.
LEMMA RemainingPositive ==
    ASSUME PipelineInv, ~Ended PROVE Remaining \in Nat \ {0}
  <1>1. /\ steps \subseteq ALLOWED_TOOLS /\ stage \in {"extract", "plan", "run"}
        /\ tries \in 0..MaxAttempts /\ MaxAttempts \in Nat \ {0}
    BY BoundsAssumption
    DEF PipelineInv, QueryInv, OrderInv, FrameInv, TypeInv, Stages, Ended
  <1>2. /\ ToolCount \in Nat /\ StepsLeft \in Nat /\ PerTool \in Nat /\ PerTool >= 6
    BY <1>1, StepsFinite, ToolsFinite, PerToolType DEF PlanIsFinite
  <1>3. (ToolCount + 1) * PerTool \in Nat
    BY <1>2, Product
  <1>4. CASE stage = "extract"
    BY <1>1, <1>3, <1>4, RemainingFacts DEF RemainingIs
  <1>5. CASE stage = "plan"
    <2>1. (ToolCount + 1) * PerTool = PerTool * ToolCount + PerTool
          /\ PerTool * ToolCount \in Nat
      BY <1>2, Scaled
    <2> QED
      BY <1>1, <1>2, <1>5, <2>1, RemainingFacts DEF RemainingIs
  <1>6. CASE stage = "run" /\ gen.call = "none"
    BY <1>2, <1>6, RemainingFacts, Product DEF RemainingIs
  <1>7. CASE stage = "run" /\ gen.call # "none"
    <2>1. "explanation" \in steps
      BY <1>7 DEF PipelineInv, GenInv, IsFirst
    <2>2. StepsLeft - 1 \in Nat
      BY <1>1, <2>1, OneStepLess
    <2>3. PerTool * (StepsLeft - 1) \in Nat
      BY <1>2, <2>2, Product
    <2>4. Len(gen.todo) \in Nat /\ CallsLeft[gen.call] \in Nat
      BY CallsLeftFacts DEF PipelineInv, GenInv, Calls
    <2> QED
      BY <1>7, <2>3, <2>4, RemainingFacts DEF RemainingIs
  <1> QED
    BY <1>1, <1>4, <1>5, <1>6, <1>7

LEMMA FailProgresses ==
    ASSUME PipelineInv, ~Ended, stage' \in {"answered", "failed"}
    PROVE  Remaining' < Remaining
  <1>1. Remaining' = 0
    BY RemainingFactsNext DEF RemainingIs
  <1> QED
    BY <1>1, RemainingPositive

\* A tool that ran leaves one fewer, whatever was left of explaining.
LEMMA RunProgresses ==
    ASSUME PipelineInv, NEW t \in ALLOWED_TOOLS, IsNext(t), Ran(t),
           \/ gen.call = "none"
           \/ gen.todo = <<>>,
           gen'.call = "none"
    PROVE  Remaining' < Remaining
  <1> DEFINE left == StepsLeft
  <1>1. /\ steps \subseteq ALLOWED_TOOLS /\ t \in steps
        /\ stage = "run" /\ stage' = "run" /\ steps' = steps \ {t}
    BY DEF PipelineInv, QueryInv, OrderInv, IsNext, IsFirst, Ran
  <1>2. left \in Nat /\ left - 1 \in Nat /\ StepsLeft' = left - 1 /\ PerTool' = PerTool
    BY <1>1, OneStepLess DEF StepsLeft, PerTool
  <1>3. Remaining' = 1 + PerTool * (left - 1)
    <2>1. Remaining' = 1 + PerTool' * StepsLeft'
      BY <1>1, RemainingFactsNext DEF RemainingIs
    <2> QED
      BY <1>2, <2>1
  <1>4. CASE gen.call = "none"
    <2>1. Remaining = 1 + PerTool * left
      BY <1>1, <1>4, RemainingFacts DEF RemainingIs
    <2> HIDE DEF left
    <2>2. PerTool * (left - 1) = PerTool * left - PerTool /\ PerTool * left \in Nat
      BY <1>2, PerToolType, Scaled
    <2> QED
      BY <1>3, <2>1, <2>2, PerToolType
  <1>5. CASE gen.call # "none" /\ gen.todo = <<>>
    <2>1. Len(gen.todo) = 0 /\ CallsLeft[gen.call] \in Nat
      BY <1>5, EmptySeq, CallsLeftFacts DEF PipelineInv, GenInv, Calls
    <2>2. Remaining = 2 + PerTool * (left - 1) + 5 * Len(gen.todo) + CallsLeft[gen.call]
      BY <1>1, <1>5, RemainingFacts DEF RemainingIs
    <2> HIDE DEF left
    <2>3. PerTool * (left - 1) \in Nat
      BY <1>2, PerToolType, Product
    <2> QED
      BY <1>3, <2>1, <2>2, <2>3
  <1> QED
    BY <1>4, <1>5

LEMMA StartProgresses ==
    ASSUME PipelineInv, StartExplaining PROVE Remaining' < Remaining
  <1> DEFINE left == StepsLeft
             l == Len(ToExplain)
  <1>1. /\ steps \subseteq ALLOWED_TOOLS /\ "explanation" \in steps
        /\ stage = "run" /\ stage' = "run" /\ steps' = steps
        /\ gen.call = "none" /\ gen'.todo = ToExplain /\ gen'.call = FirstCall
        /\ rows \in Seq(Row)
    BY DEF PipelineInv, QueryInv, OrderInv, IsNext, IsFirst, StartExplaining, FrameInv, TypeInv
  <1>2. FirstCall \in {"primary", "template"}
    BY DEF FirstCall
  <1>3. left \in Nat /\ left - 1 \in Nat /\ StepsLeft' = left /\ PerTool' = PerTool
    BY <1>1, OneStepLess DEF StepsLeft, PerTool
  <1>4. l \in Nat /\ l <= MaxExplained
    BY <1>1, PerToolType, ToExplainFacts
  <1>5. CallsLeft[FirstCall] \in Nat /\ CallsLeft[FirstCall] <= 4
    BY <1>2, CallsLeftFacts
  <1>6. Remaining' = 2 + PerTool * (left - 1) + 5 * l + CallsLeft[FirstCall]
    <2>1. Remaining' = 2 + PerTool' * (StepsLeft' - 1) + 5 * Len(gen'.todo)
                         + CallsLeft'[gen'.call]
      BY <1>1, <1>2, RemainingFactsNext DEF RemainingIs
    <2>2. CallsLeft' = CallsLeft
      BY DEF CallsLeft
    <2> QED
      BY <1>1, <1>3, <2>1, <2>2
  <1>7. Remaining = 1 + PerTool * left
    BY <1>1, RemainingFacts DEF RemainingIs
  <1> HIDE DEF left, l
  <1>8. PerTool * (left - 1) = PerTool * left - PerTool /\ PerTool * left \in Nat
    BY <1>3, PerToolType, Scaled
  <1> QED
    BY <1>4, <1>5, <1>6, <1>7, <1>8, PerToolType

\* While rows are explained, what remains falls with the rows or with the calls.
LEMMA GeneratingProgresses ==
    ASSUME PipelineInv, Generating(Calls \ {"none"}), stage' = "run", steps' = steps,
           gen'.call \in Calls \ {"none"},
           \/ gen'.todo = Tail(gen.todo)
           \/ gen'.todo = gen.todo /\ CallsLeft[gen'.call] < CallsLeft[gen.call]
    PROVE  Remaining' < Remaining
  <1> DEFINE todo == gen.todo
             rest == gen'.todo
             now  == CallsLeft[gen.call]
             then == CallsLeft[gen'.call]
             base == 2 + PerTool * (StepsLeft - 1)
  <1>1. /\ steps \subseteq ALLOWED_TOOLS /\ "explanation" \in steps
        /\ stage = "run" /\ gen.call \in Calls \ {"none"}
        /\ todo \in Seq(Nat) /\ todo # <<>>
    BY DEF PipelineInv, QueryInv, OrderInv, GenInv, IsFirst, Generating
  <1>2. base \in Nat /\ StepsLeft' = StepsLeft /\ PerTool' = PerTool
    <2>1. StepsLeft - 1 \in Nat
      BY <1>1, OneStepLess
    <2>2. PerTool * (StepsLeft - 1) \in Nat
      BY <2>1, PerToolType, Product
    <2> QED
      BY <2>2 DEF StepsLeft, PerTool
  <1>3. now \in 1..4 /\ then \in 1..4
    BY <1>1, CallsLeftFacts DEF Calls
  <1>4. Remaining = base + 5 * Len(todo) + now
    BY <1>1, RemainingFacts DEF RemainingIs
  <1>5. Remaining' = base + 5 * Len(rest) + then
    <2>1. Remaining' = 2 + PerTool' * (StepsLeft' - 1) + 5 * Len(gen'.todo)
                         + CallsLeft'[gen'.call]
      BY RemainingFactsNext DEF RemainingIs
    <2>2. CallsLeft' = CallsLeft
      BY DEF CallsLeft
    <2> QED
      BY <1>2, <2>1, <2>2
  <1>6. rest = Tail(todo) \/ (rest = todo /\ then < now)
    OBVIOUS
  <1> HIDE DEF todo, rest, now, then, base
  <1>7. Len(todo) \in Nat \ {0} /\ Len(Tail(todo)) = Len(todo) - 1
    BY <1>1
  <1> QED
    BY <1>2, <1>3, <1>4, <1>5, <1>6, <1>7

LEMMA ExplainingProgresses ==
    ASSUME PipelineInv,
           ModelExplains \/ ExplainByTemplate \/ ModelStrays \/ ModelUnavailable
    PROVE  Remaining' < Remaining
  <1>1. /\ Generating(Calls \ {"none"}) /\ stage' = "run" /\ steps' = steps
        /\ gen \in [todo: Seq(Nat), call: Calls]
    BY DEF ModelExplains, ExplainByTemplate, ModelStrays, ModelUnavailable, Explained, CallNext,
       Generating, Calls, PipelineInv, GenInv
  <1>2. CASE ModelExplains \/ ExplainByTemplate
    <2>1. gen' = [todo |-> Tail(gen.todo), call |-> FirstCall]
      BY <1>2 DEF ModelExplains, ExplainByTemplate, Explained
    <2>2. gen'.todo = Tail(gen.todo) /\ gen'.call \in Calls \ {"none"}
      BY <2>1 DEF FirstCall, Calls
    <2> QED
      BY <1>1, <2>2, GeneratingProgresses
  <1>3. ASSUME NEW call \in Calls \ {"none"}, gen' = [gen EXCEPT !.call = call],
               CallsLeft[call] < CallsLeft[gen.call]
        PROVE  Remaining' < Remaining
    <2>1. gen'.todo = gen.todo /\ gen'.call = call
      BY <1>1, <1>3
    <2> QED
      BY <1>1, <1>3, <2>1, GeneratingProgresses
  <1>4. CASE ModelStrays
    <2>1. gen.call \in {"primary", "fallback", "correction"}
      BY <1>4 DEF ModelStrays, Generating
    <2>2. gen' = [gen EXCEPT !.call =
                    IF gen.call = "correction" THEN "template" ELSE "correction"]
      BY <1>4 DEF ModelStrays, CallNext
    <2> QED
      BY <1>3, <2>1, <2>2, CallsLeftFacts DEF Calls
  <1>5. CASE ModelUnavailable
    <2>1. gen.call \in {"primary", "fallback", "correction"}
      BY <1>5 DEF ModelUnavailable, Generating
    <2>2. gen' = [gen EXCEPT !.call =
                    IF gen.call = "primary" THEN "fallback" ELSE "template"]
      BY <1>5 DEF ModelUnavailable, CallNext
    <2> QED
      BY <1>3, <2>1, <2>2, CallsLeftFacts DEF Calls
  <1> QED
    BY <1>2, <1>4, <1>5

\* Extracting and planning end after as many failed calls as are made.
LEMMA BeforeTheRunProgresses ==
    ASSUME PipelineInv, ~Fail,
           \/ ModelCallFails \/ ExtractWithModel \/ ModelIntentInvalid \/ ExtractByRules
           \/ MakePlan
    PROVE  Remaining' < Remaining
  <1> DEFINE R == (ToolCount + 1) * PerTool
  <1>1. /\ steps \subseteq ALLOWED_TOOLS /\ intent \in Intents
        /\ tries \in 0..MaxAttempts /\ MaxAttempts \in Nat \ {0}
    BY BoundsAssumption DEF PipelineInv, QueryInv, OrderInv, FrameInv, TypeInv
  <1>2. /\ ToolCount \in Nat /\ PerTool \in Nat /\ PerTool >= 6
    BY ToolsFinite, PerToolType
  <1>3. R = PerTool * ToolCount + PerTool /\ PerTool * ToolCount \in Nat
    BY <1>2, Scaled
  <1>4. /\ stage = "extract" => Remaining = R + (MaxAttempts + 1) + (MaxAttempts - tries)
        /\ stage = "plan" => Remaining = R + (MaxAttempts - tries)
    BY RemainingFacts DEF RemainingIs
  <1>5. /\ stage' = "extract" => Remaining' = R + (MaxAttempts + 1) + (MaxAttempts - tries')
        /\ stage' = "plan" => Remaining' = R + (MaxAttempts - tries')
        /\ stage' = "run" /\ gen'.call = "none" => Remaining' = 1 + PerTool * StepsLeft'
    <2>1. ToolCount' = ToolCount /\ PerTool' = PerTool
      BY DEF ToolCount, PerTool, ALLOWED_TOOLS
    <2> QED
      BY <2>1, RemainingFactsNext DEF RemainingIs
  <1> HIDE DEF R
  <1>6. R \in Nat
    BY <1>2, <1>3
  <1>7. CASE ModelCallFails
    <2>1. stage \in {"extract", "plan"} /\ stage' = stage /\ tries' = tries + 1
      BY <1>7 DEF ModelCallFails
    <2> QED
      BY <1>1, <1>4, <1>5, <1>6, <2>1
  <1>8. CASE ModelIntentInvalid
    <2>1. stage = "extract" /\ stage' = stage /\ tries' = MaxAttempts /\ tries < MaxAttempts
      BY <1>8 DEF ModelIntentInvalid
    <2> QED
      BY <1>1, <1>4, <1>5, <1>6, <2>1
  <1>9. CASE ExtractWithModel \/ ExtractByRules
    <2>1. stage = "extract" /\ stage' = "plan" /\ tries' = 0
      BY <1>9 DEF ExtractWithModel, ExtractByRules, EndExtraction
    <2> QED
      BY <1>1, <1>4, <1>5, <1>6, <2>1
  <1>10. CASE MakePlan
    <2>1. stage = "plan" /\ stage' = "run" /\ gen' = gen /\ steps' = Selected(intent)
      BY <1>1, <1>10, PlanIsSelected DEF MakePlan
    <2>2. gen'.call = "none" /\ steps' \subseteq ALLOWED_TOOLS
      BY <1>1, <2>1, SelectedFacts DEF PipelineInv, GenInv
    <2>3. Remaining' = 1 + PerTool * StepsLeft'
      BY <1>5, <2>1, <2>2
    <2>4. StepsLeft' \in Nat /\ StepsLeft' <= ToolCount
      <3>1. PlanIsFinite' /\ ToolCount' = ToolCount /\ ALLOWED_TOOLS' = ALLOWED_TOOLS
        BY StepsFiniteNext DEF ToolCount, ALLOWED_TOOLS
      <3> QED
        BY <2>2, <3>1 DEF PlanIsFinite
    <2>5. PerTool * StepsLeft' <= PerTool * ToolCount /\ PerTool * StepsLeft' \in Nat
      BY <1>2, <2>4, Scaled
    <2> QED
      BY <1>1, <1>2, <1>3, <1>4, <2>1, <2>3, <2>5
  <1> QED
    BY <1>7, <1>8, <1>9, <1>10

\* For all limits and whatever the language model does: every step of a query
\* that has not ended brings it nearer to its end.
THEOREM EveryStepProgressesTheorem == Spec => EveryStepProgresses
  <1>1. ASSUME PipelineInv, Next, ~Ended PROVE Remaining' < Remaining
    <2>1. CASE Fail
      BY <1>1, <2>1, FailProgresses DEF Fail
    <2>2. CASE ~Fail /\ (\/ ModelCallFails \/ ExtractWithModel \/ ModelIntentInvalid
                         \/ ExtractByRules \/ MakePlan)
      BY <1>1, <2>2, BeforeTheRunProgresses
    <2>3. CASE \/ LoadData \/ Aggregate \/ Survey \/ EngineerFeatures \/ RunRules
               \/ RunStatistical \/ RunMl \/ ScoreRisk \/ Escalate
      <3>1. PICK t \in ALLOWED_TOOLS \ {"explanation"} : IsNext(t) /\ Ran(t)
        BY <2>3, Places DEF LoadData, Aggregate, Survey, EngineerFeatures, RunRules,
           RunStatistical, RunMl, ScoreRisk, Escalate
      <3>2. gen' = gen
        BY <2>3 DEF LoadData, Aggregate, Survey, EngineerFeatures, RunRules,
           RunStatistical, RunMl, ScoreRisk, Escalate
      <3>3. gen.call = "none"
        BY <1>1, <3>1, OnlyExplaining DEF PipelineInv
      <3> QED
        BY <1>1, <3>1, <3>2, <3>3, RunProgresses
    <2>4. CASE StartExplaining
      BY <1>1, <2>4, StartProgresses
    <2>5. CASE ModelExplains \/ ExplainByTemplate \/ ModelStrays \/ ModelUnavailable
      BY <1>1, <2>5, ExplainingProgresses
    <2>6. CASE EndExplaining
      <3>1. /\ IsNext("explanation") /\ Ran("explanation")
            /\ gen.todo = <<>> /\ gen'.call = "none"
        BY <2>6 DEF EndExplaining, NotGenerating
      <3> QED
        BY <1>1, <3>1, Places, RunProgresses
    <2>7. CASE Assemble
      BY <1>1, <2>7, FailProgresses DEF Assemble
    <2>8. CASE NextQuery
      BY <1>1, <2>8 DEF NextQuery
    <2> QED
      BY <1>1, <2>1, <2>2, <2>3, <2>4, <2>5, <2>6, <2>7, <2>8 DEF Next, ToolRaises
  <1>2. PipelineInv /\ [Next]_vars => [~Ended => Remaining' < Remaining]_vars
    BY <1>1
  <1> QED
    BY <1>2, FrameInvariant, PTL DEF Spec, EveryStepProgresses
=============================================================================
