---------------------------- MODULE QueryPipeline ----------------------------
(***************************************************************************)
(* One query of an analyst on its way through AgentRunner (agent/runner.py *)
(* and the tools it calls): the intent is extracted, by the language model *)
(* or by rules; the planner turns it into a list of tools; the tools run   *)
(* in order over one frame of transactions, each adding columns to it; and *)
(* the response lists the worst accounts of the frame.  Any tool may       *)
(* raise, and then the query fails as a whole.                             *)
(*                                                                         *)
(* A row of the frame is reduced to its account and to what the detectors  *)
(* found in it: how many rules fired and two scores in units of 1/Full.    *)
(* What they find is data and is chosen freely; how the scores are         *)
(* weighed, compared and cut off is computed exactly, in integers.         *)
(***************************************************************************)
EXTENDS QueryPlan, Functions

CONSTANTS
    Accounts,              \* accounts that appear in the primary dataset
    Tables,                \* rows that match a query's filters, as accounts in table order
    MinCounts,             \* thresholds of an aggregation query
    Full,                  \* the score 1.0 of a detector, in its units
    MaxRows,               \* AgentRunner.max_rows
    MaxAttempts,           \* attempts of a language model call, stop_after_attempt
    MaxListed,             \* accounts in a response: head(20) in runner.py
    MaxExplained,          \* explain's max_entities
    RISK_LOW_THRESHOLD,    \* percent, from the environment
    RISK_HIGH_THRESHOLD    \* percent, from the environment

ASSUME BoundsAssumption ==
    /\ Tables \subseteq Seq(Accounts)
    /\ MinCounts \subseteq Nat \ {0}
    /\ {Full, MaxRows, MaxAttempts, MaxListed, MaxExplained} \subseteq Nat \ {0}

\* config.py refuses to start otherwise.
ASSUME ThresholdAssumption ==
    /\ {RISK_LOW_THRESHOLD, RISK_HIGH_THRESHOLD} \subseteq 0..100
    /\ RISK_LOW_THRESHOLD < RISK_HIGH_THRESHOLD

VARIABLES
    stage,        \* where the query is
    use_llm,      \* whether a language model is configured
    tries,        \* failed attempts of the current language model call
    intent,       \* the validated intent
    steps,        \* tools of the plan that have not run
    trace,        \* tools that ran, in order
    rows, cols,   \* the frame: its rows and the names of its columns
    active,       \* the detectors that the risk of a row was taken from
    scale,        \* what the risk of a row is a fraction of
    aggregation,  \* the result of the aggregation tool
    gen,          \* explanations under way: the rows to explain and the model to call
    response      \* what the caller gets

frame == <<rows, cols, active, scale>>

vars == <<stage, use_llm, tries, intent, steps, trace, frame,
          aggregation, gen, response>>

Stages == {"extract", "plan", "run", "answered", "failed"}

\* The columns of a primary dataset's table that anything here reads.
BaseColumns ==
    {"timestamp", "from_account", "to_account", "amount_paid", "payment_format"}

NewRow(a) == [account |-> a, fired |-> 0, stat |-> 0, ml |-> 0, risk |-> 0,
              label |-> "none", action |-> "none", explanation |-> "none"]

NoAggregation == [min_count |-> 0, groups |-> {}]
NoResponse    == [top |-> <<>>, total |-> 0, flagged |-> 0, high_risk |-> 0,
                  skipped |-> {}]
NotGenerating == [todo |-> <<>>, call |-> "none"]
NoIntent      == [intent |-> "pattern_search", pattern_type |-> NoPattern]

Init ==
    /\ stage = "extract"
    /\ use_llm \in BOOLEAN
    /\ tries = 0
    /\ intent = NoIntent
    /\ steps = {}
    /\ trace = <<>>
    /\ rows = <<>>
    /\ cols = {}
    /\ active = {}
    /\ scale = 1
    /\ aggregation = NoAggregation
    /\ gen = NotGenerating
    /\ response = NoResponse

-----------------------------------------------------------------------------
(* IntentExtractor.extract *)

EndExtraction(i) ==
    /\ intent' = i
    /\ stage' = "plan"
    /\ tries' = 0

\* An attempt of the model call fails; tenacity makes it MaxAttempts times.
ModelCallFails ==
    /\ use_llm
    /\ stage \in {"extract", "plan"}
    /\ tries < MaxAttempts
    /\ tries' = tries + 1
    /\ UNCHANGED <<stage, use_llm, intent, steps, trace, frame,
                   aggregation, gen, response>>

\* The model answers with an intent that validates.
ExtractWithModel ==
    /\ stage = "extract"
    /\ use_llm
    /\ tries < MaxAttempts
    /\ \E i \in Intents : EndExtraction(i)
    /\ UNCHANGED <<use_llm, steps, trace, frame, aggregation, gen,
                   response>>

\* It answers with one that does not, which is not asked for again.
ModelIntentInvalid ==
    /\ stage = "extract"
    /\ use_llm
    /\ tries < MaxAttempts
    /\ tries' = MaxAttempts
    /\ UNCHANGED <<stage, use_llm, intent, steps, trace, frame,
                   aggregation, gen, response>>

Fail ==
    /\ stage' = "failed"
    /\ UNCHANGED <<use_llm, tries, intent, steps, trace, frame,
                   aggregation, gen, response>>

\* _rule_based_extract: without a model, or when it gave no valid intent.
\* Filters that contradict each other raise.
ExtractByRules ==
    /\ stage = "extract"
    /\ use_llm => tries = MaxAttempts
    /\ \/ /\ \E i \in Intents : EndExtraction(i)
          /\ UNCHANGED <<use_llm, steps, trace, frame, aggregation, gen,
                         response>>
       \/ Fail

(* DynamicPlanner.plan: the model's proposal is compared and dropped. *)
MakePlan ==
    /\ stage = "plan"
    /\ steps' = PolicySteps(intent)
    /\ stage' = "run"
    /\ tries' = 0
    /\ UNCHANGED <<use_llm, intent, trace, frame, aggregation, gen,
                   response>>

-----------------------------------------------------------------------------
(* The tools.  Each handles its step of the plan, and the runner appends it *)
(* to the trace.                                                            *)

IsNext(tool) == stage = "run" /\ IsFirst(tool, steps)

Ran(tool) ==
    /\ steps' = steps \ {tool}
    /\ trace' = Append(trace, tool)
    /\ UNCHANGED <<stage, use_llm, tries, intent>>

\* state["ran_tools"]: the tools of the plan, whether they have run or not.
ran_tools == PolicySteps(intent)

FirstOf(s, n) == IF Len(s) > n THEN SubSeq(s, 1, n) ELSE s

\* load: the first MaxRows of the rows that match.
LoadData ==
    /\ IsNext("data_loader")
    /\ \E m \in Tables :
         LET loaded == FirstOf(m, MaxRows)
         IN  rows' = [k \in DOMAIN loaded |-> NewRow(loaded[k])]
    /\ cols' = BaseColumns
    /\ Ran("data_loader")
    /\ UNCHANGED <<active, scale, aggregation, gen, response>>

RowsOf(a) == {k \in DOMAIN rows : rows[k].account = a}

\* run_aggregation: accounts with at least min_count rows of the frame, all
\* that total_groups counts.
Aggregate ==
    /\ IsNext("aggregation")
    /\ \E n \in MinCounts :
         aggregation' =
           [min_count |-> n,
            groups |-> {a \in Accounts : Cardinality(RowsOf(a)) >= n}]
    /\ Ran("aggregation")
    /\ UNCHANGED <<frame, gen, response>>

\* run_eda and run_graph read the frame; the response carries their results.
Survey ==
    /\ \E tool \in {"eda", "graph_tool"} : IsNext(tool) /\ Ran(tool)
    /\ UNCHANGED <<frame, aggregation, gen, response>>

EngineerFeatures ==
    /\ IsNext("feature_engineering")
    /\ cols' = WithFeatures(cols, intent.pattern_type, "ml_engine" \in ran_tools)
    /\ Ran("feature_engineering")
    /\ UNCHANGED <<rows, active, scale, aggregation, gen, response>>

\* run_rules: any number of the applied rules may fire in a row; its
\* rule_flags names them.
RunRules ==
    /\ IsNext("rule_engine")
    /\ \E fired \in [DOMAIN rows ->
                       0..Cardinality(SelectedRules(intent.pattern_type))] :
         rows' = [k \in DOMAIN rows |-> [rows[k] EXCEPT !.fired = fired[k]]]
    /\ cols' = cols \cup {"rule_flags", "rule_score"}
    /\ Ran("rule_engine")
    /\ UNCHANGED <<active, scale, aggregation, gen, response>>

RunStatistical ==
    /\ IsNext("statistical")
    /\ \E score \in [DOMAIN rows -> 0..Full] :
         rows' = [k \in DOMAIN rows |-> [rows[k] EXCEPT !.stat = score[k]]]
    /\ cols' = cols \cup {"z_score", "iqr_flag", "stat_score"}
    /\ Ran("statistical")
    /\ UNCHANGED <<active, scale, aggregation, gen, response>>

\* run_ml: a frame without the model's features has all features computed anew.
RunMl ==
    /\ IsNext("ml_engine")
    /\ \E score \in [DOMAIN rows -> 0..Full] :
         rows' = [k \in DOMAIN rows |-> [rows[k] EXCEPT !.ml = score[k]]]
    /\ cols' = (IF FEATURES \subseteq cols THEN cols
                ELSE WithFeatures(cols, NoPattern, FALSE))
               \cup {"iso_score", "anomaly_label", "ml_score"}
    /\ Ran("ml_engine")
    /\ UNCHANGED <<active, scale, aggregation, gen, response>>

-----------------------------------------------------------------------------
(* The score.  rule_score is the share of the applied rules that fired, and *)
(* a row's risk is the mean of its detectors' scores by weight, kept as a   *)
(* numerator over the scale that all rows of a query have.                  *)

Share(S) == IF S = {} THEN 1 ELSE Cardinality(S)

Scale(detectors, applied) ==
    Share(applied) * Full * (IF detectors = {} THEN 1 ELSE Weight(detectors))

RiskOf(row, detectors, applied) ==
    LET part(d, s) == IF d \in detectors THEN BASE_WEIGHTS[d] * s ELSE 0
    IN  part("rule_engine", row.fired * Full)
          + part("statistical", row.stat * Share(applied))
          + part("ml_engine", row.ml * Share(applied))

\* Mutant: a boundary counted to the band below it.
MoreThan(risk, unit, percent) == 100 * risk > percent * unit

\* Whether a risk is at least percent/100.
AtLeast(risk, unit, percent) == 100 * risk >= percent * unit

Label(risk, unit) ==
    IF ~AtLeast(risk, unit, RISK_LOW_THRESHOLD) THEN "low"
    ELSE IF ~AtLeast(risk, unit, RISK_HIGH_THRESHOLD) THEN "medium"
    ELSE "high"

ScoreRisk ==
    /\ IsNext("risk_scorer")
    /\ active' = ActiveDetectors(cols, ran_tools)
    /\ LET applied == SelectedRules(intent.pattern_type)
           Risk(row) == RiskOf(row, active', applied)
       IN  /\ scale' = Scale(active', applied)
           /\ rows' = [k \in DOMAIN rows |->
                         [rows[k] EXCEPT !.risk = Risk(rows[k]),
                                         !.label = Label(Risk(rows[k]), scale')]]
    /\ cols' = cols \cup {"risk_score", "risk_label"}
    /\ Ran("risk_scorer")
    /\ UNCHANGED <<aggregation, gen, response>>

\* Mutant: reports begin above the high band.
ActionReportingLate(risk, unit) ==
    IF ~AtLeast(risk, unit, 40) THEN "monitor"
    ELSE IF ~AtLeast(risk, unit, 80) THEN "flag_for_review"
    ELSE "report"

\* get_action.  No rule sets the flags of the politically exposed, which
\* would make it report.
ActionFor(risk, unit) ==
    IF ~AtLeast(risk, unit, 40) THEN "monitor"
    ELSE IF ~AtLeast(risk, unit, 70) THEN "flag_for_review"
    ELSE "report"

Escalate ==
    /\ IsNext("escalation")
    /\ rows' = [k \in DOMAIN rows |->
                  [rows[k] EXCEPT !.action = ActionFor(rows[k].risk, scale)]]
    /\ cols' = cols \cup {"escalation_action"}
    /\ Ran("escalation")
    /\ UNCHANGED <<active, scale, aggregation, gen, response>>

-----------------------------------------------------------------------------
(* The worst rows: at or above the threshold, by falling risk and then in   *)
(* the order of the frame, the first row of each account.                   *)

\* Mutant: sorted the wrong way round.
BeforeAscending(j, k) ==
    \/ rows[j].risk < rows[k].risk
    \/ rows[j].risk = rows[k].risk /\ j < k

Before(j, k) ==
    \/ rows[j].risk > rows[k].risk
    \/ rows[j].risk = rows[k].risk /\ j < k

Worst(percent) ==
    LET high  == {k \in DOMAIN rows : AtLeast(rows[k].risk, scale, percent)}
        first == {k \in high : \A j \in RowsOf(rows[k].account) :
                                  j # k => Before(k, j)}
    IN  CHOOSE w \in [1..Cardinality(first) -> first] :
           \A j, k \in DOMAIN w : j < k => Before(w[j], w[k])

(* explain and ExplanationGenerator.generate *)

\* Mutant: only what is to be reviewed is explained.
ToExplainReviewed == FirstOf(Worst(40), MaxExplained)

ToExplain == FirstOf(Worst(35), MaxExplained)

FirstCall == IF use_llm THEN "primary" ELSE "template"

StartExplaining ==
    /\ IsNext("explanation")
    /\ gen.call = "none"
    /\ gen' = [todo |-> ToExplain, call |-> FirstCall]
    /\ UNCHANGED <<stage, use_llm, tries, intent, steps, trace, frame,
                   aggregation, response>>

\* The row under way gets its text and the next one is begun.
Explained(text) ==
    /\ rows' = [rows EXCEPT ![Head(gen.todo)].explanation = text]
    /\ gen' = [todo |-> Tail(gen.todo), call |-> FirstCall]
    /\ UNCHANGED <<stage, use_llm, tries, intent, steps, trace, cols, active,
                   scale, aggregation, response>>

CallNext(call) ==
    /\ gen' = [gen EXCEPT !.call = call]
    /\ UNCHANGED <<stage, use_llm, tries, intent, steps, trace, frame,
                   aggregation, response>>

Generating(calls) == stage = "run" /\ gen.todo # <<>> /\ gen.call \in calls

\* The model's text has only numbers of the row: it is taken.
ModelExplains ==
    /\ Generating({"primary", "fallback", "correction"})
    /\ Explained("grounded")

\* Mutant: after a failed correction asked from the beginning.
ModelStraysAgain ==
    /\ Generating({"primary", "fallback", "correction"})
    /\ CallNext(IF gen.call = "correction" THEN "primary" ELSE "correction")

\* It has a number the row does not have, or is empty: asked once more.
ModelStrays ==
    /\ Generating({"primary", "fallback", "correction"})
    /\ CallNext(IF gen.call = "correction" THEN "template" ELSE "correction")

ModelUnavailable ==
    /\ Generating({"primary", "fallback", "correction"})
    /\ CallNext(IF gen.call = "primary" THEN "fallback" ELSE "template")

\* _fallback_output: a sentence made of the row's own values.
ExplainByTemplate ==
    /\ Generating({"template"})
    /\ Explained("template")

EndExplaining ==
    /\ IsNext("explanation")
    /\ gen.call # "none"
    /\ gen.todo = <<>>
    /\ gen' = NotGenerating
    /\ Ran("explanation")
    /\ UNCHANGED <<frame, aggregation, response>>

-----------------------------------------------------------------------------
(* _assemble_response; the trace it carries lists the skipped tools too *)

Assemble ==
    /\ stage = "run"
    /\ steps = {}
    /\ LET worst == Worst(35)
       IN  response' =
             [top |-> [k \in DOMAIN FirstOf(worst, MaxListed) |->
                          rows[worst[k]]],
              total |-> Len(rows),
              flagged |-> Len(worst),
              high_risk |-> Cardinality({k \in DOMAIN worst :
                               rows[worst[k]].label = "high"}),
              skipped |-> Skipped(intent)]
    /\ stage' = "answered"
    /\ UNCHANGED <<use_llm, tries, intent, steps, trace, frame,
                   aggregation, gen>>

\* A tool raises.
ToolRaises == stage = "run" /\ Fail

Ended == stage \in {"answered", "failed"}

\* The next query starts from nothing.
NextQuery ==
    /\ Ended
    /\ stage' = "extract"
    /\ tries' = 0
    /\ intent' = NoIntent
    /\ steps' = {}
    /\ trace' = <<>>
    /\ rows' = <<>>
    /\ cols' = {}
    /\ active' = {}
    /\ scale' = 1
    /\ aggregation' = NoAggregation
    /\ gen' = NotGenerating
    /\ response' = NoResponse
    /\ UNCHANGED use_llm

Next ==
    \/ ModelCallFails \/ ExtractWithModel \/ ModelIntentInvalid
    \/ ExtractByRules \/ MakePlan
    \/ LoadData \/ Aggregate \/ Survey \/ EngineerFeatures \/ RunRules
    \/ RunStatistical \/ RunMl \/ ScoreRisk \/ Escalate
    \/ StartExplaining \/ ModelExplains \/ ModelStrays \/ ModelUnavailable
    \/ ExplainByTemplate \/ EndExplaining
    \/ Assemble \/ ToolRaises \/ NextQuery

Spec == Init /\ [][Next]_vars

-----------------------------------------------------------------------------
(* Properties *)

\* A detector never runs on a frame that lacks a column it reads: whatever
\* pattern was asked for, the families computed for it give every rule applied
\* to it its inputs, and give the model all of its features.  The three tables
\* are in three files, and a missing column is read as zero without an error.
InputsPresent ==
    /\ IsNext("rule_engine") =>
         \A r \in SelectedRules(intent.pattern_type) :
            RuleInputs[r] \subseteq cols
    /\ IsNext("ml_engine") => FEATURES \subseteq cols

RanTools == Range(trace)

\* The weights that scores are normalized over are those of the detectors that
\* ran for this query: none that was skipped, and none that the plan ran too
\* late for the scorer to see.
DetectorsCounted ==
    "risk_score" \in cols => active = RanTools \cap Detectors

\* If the query named a pattern that has a rule and was not an aggregation, an
\* account in whose rows the rule fired is recommended for review at least,
\* and is in the response unless the response is full.  The rule's weight is
\* then exactly the threshold of a review: 0.40 of the three detectors' sum.
RuleHitIsReviewed ==
    (stage = "answered" /\ intent.pattern_type \in RULE_PATTERNS) =>
       \A k \in DOMAIN rows : rows[k].fired > 0 =>
          /\ rows[k].action \in {"flag_for_review", "report"}
          /\ \/ \E j \in DOMAIN response.top :
                   response.top[j].account = rows[k].account
             \/ Len(response.top) = MaxListed

\* The response lists accounts by falling risk, each once and with the highest
\* risk of its rows, and leaves out only accounts that are no worse; flagged
\* counts all accounts over the threshold, the listed ones or not.
ListsTheWorst ==
    stage = "answered" =>
      LET top     == response.top
          atRisk  == {rows[k].account : k \in
                        {j \in DOMAIN rows : AtLeast(rows[j].risk, scale, 35)}}
          listed  == {top[k].account : k \in DOMAIN top}
      IN  /\ \A j, k \in DOMAIN top : j < k => /\ top[j].risk >= top[k].risk
                                               /\ top[j].account # top[k].account
          /\ \A k \in DOMAIN top, j \in DOMAIN rows :
               \/ rows[j].risk <= top[k].risk
               \/ rows[j].account \in listed \ {top[k].account}
          /\ listed \subseteq atRisk
          /\ response.flagged = Cardinality(atRisk)
          /\ Len(top) < MaxListed => listed = atRisk
          /\ Cardinality({k \in DOMAIN top : top[k].label = "high"})
               <= response.high_risk

\* Every account of a response has an explanation, made by the template or
\* checked against the account's own numbers: explain and _assemble_response
\* find the same rows, each by its own code.
ListedAreExplained ==
    stage = "answered" =>
      \A k \in DOMAIN response.top :
         response.top[k].explanation \in {"grounded", "template"}

\* With the thresholds of a default installation, the band and the action of a
\* listed account agree: high risk is what is reported, and what is listed is
\* never low.  Four files hold these thresholds.
BandsAgree ==
    stage = "answered" =>
      \A k \in DOMAIN response.top :
         /\ response.top[k].label \in {"medium", "high"}
         /\ response.top[k].label = "high" <=> response.top[k].action = "report"

\* The trace of an answered query accounts for every tool once: those of the
\* plan ran in the planner's order, the scorer, the escalation and the
\* explanation last, and the others are listed as skipped.
TraceComplete ==
    stage = "answered" =>
      /\ RanTools \cup response.skipped = ALLOWED_TOOLS
      /\ RanTools \cap response.skipped = {}
      /\ \A j, k \in DOMAIN trace :
            j < k => TOOL_ORDER[trace[j]] < TOOL_ORDER[trace[k]]
      /\ {"data_loader", "risk_scorer", "escalation", "explanation"}
            \subseteq RanTools

\* How far a query is from its end: the calls of the stages before the plan,
\* then the tools, and within the last tool the rows left to explain and the
\* calls left for the one under way.
CallsLeft == [none |-> 0, template |-> 1, correction |-> 2, fallback |-> 3,
              primary |-> 4]

Remaining ==
    LET perTool == 5 * MaxExplained + 6
        perCall == MaxAttempts + 1
        running == (Cardinality(ALLOWED_TOOLS) + 1) * perTool
    IN  CASE stage = "extract" -> running + perCall + (MaxAttempts - tries)
          [] stage = "plan"    -> running + (MaxAttempts - tries)
          [] stage = "run"     ->
               IF gen.call = "none" THEN 1 + perTool * Cardinality(steps)
               ELSE 2 + perTool * (Cardinality(steps) - 1) + 5 * Len(gen.todo)
                      + CallsLeft[gen.call]
          [] OTHER -> 0

\* Every step of a query that has not ended brings it nearer to its end: no
\* failure of the language model, in either of its uses, is retried for ever.
EveryStepProgresses == [][~Ended => Remaining' < Remaining]_vars
=============================================================================
