---------------------------- MODULE AdaptivePlan ----------------------------
(***************************************************************************)
(* The alternate planner and the coordinator of the alternate detectors:   *)
(* agent/orchestration/dynamic_planner.py and contracts.py build a plan of *)
(* bounded length for an intent whose flags are taken as given (QueryPlan  *)
(* is the planner the server runs, which derives them), and                *)
(* agent/detection/aml_detector.py runs the adapters of the plan and       *)
(* groups their signals by entity.  Both are functions: they keep no       *)
(* state.  Reasons, parameters and rationale are wording.                  *)
(***************************************************************************)
EXTENDS QueryPlan, BoundedExecution

ToolName ==
    {"data_loader", "eda", "entity_lookup", "aggregation",
     "feature_engineering", "rule_engine", "statistical_engine", "ml_engine",
     "graph_engine", "risk_engine", "knowledge_retriever"}

OptionalTools == ToolName \ {"data_loader"}

GraphPatterns ==
    {"layering", "cycle", "fan_in", "fan_out", "bipartite", "gather_scatter",
     "scatter_gather"}

StatisticalPatterns == {"behavioural_change", "rapid_cashout", "single_large"}

AdaptiveIntents ==
    [intent : IntentNames, pattern_type : PatternTypes \cup {NoPattern},
     require_ml : BOOLEAN, require_graph : BOOLEAN]

\* PlanningLimits: what is accepted as a limit, and the limit by default.
ValidLimit(max_steps) == max_steps \in Nat /\ max_steps >= 2
DefaultSteps == 8

\* A query is its words and whether anything but single spaces separates them.
Blank(query) == query.words = <<>>
TidiedQuery(query) == [query EXCEPT !.tidy = TRUE]

When(condition, tool) == IF condition THEN <<tool>> ELSE <<>>

PatternSteps(i) ==
    <<"feature_engineering", "rule_engine">>
        \o When(i.pattern_type \in StatisticalPatterns, "statistical_engine")
        \o When(i.require_ml, "ml_engine")
        \o When(i.require_graph \/ i.pattern_type \in GraphPatterns, "graph_engine")
        \o <<"risk_engine", "knowledge_retriever">>

StepsFor(i) ==
    <<"data_loader">> \o
    CASE i.intent = "aggregation"   -> <<"aggregation">>
      [] i.intent = "entity_lookup" -> <<"entity_lookup", "risk_engine", "knowledge_retriever">>
      [] i.intent = "broad_eda"     -> <<"eda", "feature_engineering", "statistical_engine",
                                         "ml_engine", "risk_engine">>
      [] OTHER                      -> PatternSteps(i)

SelectedTools(plan) == {plan.steps[n] : n \in DOMAIN plan.steps}

\* build_plan raises a ValueError.
PlanRefused(query, i, max_steps) == Blank(query) \/ Len(StepsFor(i)) > max_steps

\* What it returns otherwise.
BuildPlan(query, i) ==
    LET tools == StepsFor(i)
    IN  [query |-> TidiedQuery(query), steps |-> tools,
         skipped |-> OptionalTools \ {tools[n] : n \in DOMAIN tools}]

-----------------------------------------------------------------------------
(* Detection.  emitted[t] is the sequence of signals the adapter of t        *)
(* answers with; entities are numbers, in the order of their names.          *)

DetectorTools == {"rule_engine", "statistical_engine", "ml_engine", "graph_engine"}

SelectedDetectors(plan) == SelectedTools(plan) \cap DetectorTools

\* The signals of some tools, as the tool and the place in its answer.
SignalsOf(tools, emitted) == UNION {{t} \X DOMAIN emitted[t] : t \in tools}

Signal(s, emitted) == emitted[s[1]][s[2]]

\* A signal that fails validation or comes under another detector's name.
Unacceptable(s, emitted) ==
    \/ Signal(s, emitted).score \notin 0 .. One
    \/ Signal(s, emitted).detector # s[1]

Finding(entity, tools, emitted) ==
    LET own == {s \in SignalsOf(tools, emitted) : Signal(s, emitted).entity_id = entity}
    IN  [entity_id |-> entity, signals |-> own,
         strongest_score |-> CHOOSE x \in {Signal(s, emitted).score : s \in own} :
                                 \A s \in own : Signal(s, emitted).score <= x,
         flags |-> UNION {Signal(s, emitted).flags : s \in own}]

\* detect raises: the request is for another text than the plan's, an adapter the
\* plan selects is missing, or one of all their signals is unacceptable.
DetectRefused(query, plan, adapters, emitted) ==
    \/ query # plan.query
    \/ ~(SelectedDetectors(plan) \subseteq adapters)
    \/ \E s \in SignalsOf(SelectedDetectors(plan), emitted) : Unacceptable(s, emitted)

\* What it returns otherwise, to be put in the order RankedBefore.
Detect(plan, emitted) ==
    LET selected == SelectedDetectors(plan)
    IN  {Finding(e, selected, emitted) :
            e \in {Signal(s, emitted).entity_id : s \in SignalsOf(selected, emitted)}}

\* The order findings are returned in.
RankedBefore(f, g) ==
    \/ f.strongest_score > g.strongest_score
    \/ f.strongest_score = g.strongest_score /\ f.entity_id < g.entity_id

-----------------------------------------------------------------------------
(* Properties *)

\* A plan starts by loading, names no tool twice, and each tool is either one
\* of its steps or reported as skipped; nothing is cut off to fit the limit.
PlanComplete(query, i, max_steps) ==
    LET plan == BuildPlan(query, i)
    IN  ~PlanRefused(query, i, max_steps) =>
        /\ plan.steps[1] = "data_loader"
        /\ \A m, n \in DOMAIN plan.steps : plan.steps[m] = plan.steps[n] => m = n
        /\ SelectedTools(plan) \cup plan.skipped = ToolName
        /\ SelectedTools(plan) \cap plan.skipped = {}
        /\ Len(plan.steps) <= max_steps

\* Every signal of a finding is about its entity and comes from a detector that
\* the plan runs and does not report as skipped; the finding claims the highest
\* of their scores and no less, which is a score; and every signal of those
\* detectors is in the finding of its entity.
FindingsAccountable(query, i, adapters, emitted) ==
    LET plan == BuildPlan(query, i)
        found == Detect(plan, emitted)
    IN  ~DetectRefused(plan.query, plan, adapters, emitted) =>
        /\ \A f \in found :
              /\ \A s \in f.signals :
                    /\ Signal(s, emitted).entity_id = f.entity_id
                    /\ s[1] = Signal(s, emitted).detector
                    /\ s[1] \in SelectedTools(plan) \ plan.skipped
                    /\ Signal(s, emitted).score <= f.strongest_score
              /\ \E s \in f.signals : Signal(s, emitted).score = f.strongest_score
              /\ f.strongest_score \in 0 .. One
        /\ \A s \in SignalsOf(SelectedDetectors(plan), emitted) : \E f \in found : s \in f.signals
        /\ \A f, g \in found : f # g => (RankedBefore(f, g) <=> ~RankedBefore(g, f))
=============================================================================
