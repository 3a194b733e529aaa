------------------------ MODULE AdaptiveAgentsProofs ------------------------
(***************************************************************************)
(* Proofs about the alternate agents: what AdaptivePlan, BoundedExecution  *)
(* and RiskDecision promise holds for all inputs, budgets and policies.    *)
(***************************************************************************)
EXTENDS RiskDecision, FiniteSetTheorems, TLAPS

-----------------------------------------------------------------------------
(* Numbers. *)

\* Induction on numbers, in the form that needs no predicate: the intervals
\* 0 .. n are finite sets, and those are well-founded under inclusion.
LEMMA LeastNatural ==
    ASSUME NEW T \in SUBSET Nat, T # {}
    PROVE  \E m \in T : \A k \in T : m <= k
<1> DEFINE X == {0 .. n : n \in T}
<1>1. \A n \in T : IsFiniteSet(0 .. n)
  BY FS_Interval
<1>2. X \subseteq FiniteSubsetsOf(Nat)
  BY <1>1 DEF FiniteSubsetsOf
<1>3. X # {}
  OBVIOUS
<1>4. IsWellFoundedOn(StrictSubsetOrdering(Nat), FiniteSubsetsOf(Nat))
  BY FS_StrictSubsetOrderingWellFounded
<1> HIDE DEF X
<1>5. PICK x \in X : \A y \in X : <<y, x>> \notin StrictSubsetOrdering(Nat)
  BY <1>2, <1>3, <1>4, WFMin
<1> USE DEF X
<1>6. PICK m \in T : x = 0 .. m
  OBVIOUS
<1>7. ASSUME NEW k \in T, k < m PROVE FALSE
  <2>1. 0 .. k \subseteq 0 .. m /\ 0 .. k # 0 .. m
    BY <1>7
  <2>2. <<0 .. k, 0 .. m>> \in StrictSubsetOrdering(Nat)
    BY <2>1 DEF StrictSubsetOrdering
  <2> QED  BY <1>5, <1>6, <2>2
<1> QED  BY <1>7

LEMMA OneIsNatural == One \in Nat /\ One > 0
BY SMT DEF One

\* A set of scores has a highest one.
LEMMA HighestScore ==
    ASSUME NEW S \in SUBSET (0 .. One), S # {}
    PROVE  \E x \in S : \A y \in S : y <= x
<1> DEFINE T == {One - y : y \in S}
<1>0. One \in Nat /\ One > 0
  BY OneIsNatural
<1>1. T \in SUBSET Nat /\ T # {}
  <2>1. \A y \in S : y \in Nat /\ y <= One
    BY <1>0
  <2>2. \A y \in S : One - y \in Nat
    BY <1>0, <2>1
  <2> QED  BY <2>2
<1> HIDE DEF T
<1>2. PICK m \in T : \A k \in T : m <= k
  BY <1>1, LeastNatural
<1> USE DEF T
<1>3. PICK x \in S : m = One - x
  OBVIOUS
<1>4. ASSUME NEW y \in S PROVE y <= x
  <2>1. One - y \in T /\ y \in 0 .. One /\ x \in 0 .. One
    OBVIOUS
  <2> HIDE DEF T
  <2>2. m <= One - y
    BY <1>2, <2>1
  <2> QED  BY <1>0, <1>3, <2>1, <2>2
<1> QED  BY <1>4

-----------------------------------------------------------------------------
(* Bounded execution. *)

\* score() answers only with what the scorer returned within the budget.
THEOREM ScoreBudgetTheorem ==
    ASSUME NEW b, ValidBudget(b), NEW rows \in Seq(Nat), NEW scores, 
           NEW clock \in [1 .. 3 -> Nat], Monotonic(clock)
    PROVE  ScoredWithinBudget(b, rows, scores, clock)
<1>1. b.max_model_rows \in Nat /\ b.max_model_features \in Nat /\ b.total_seconds \in Nat
  BY DEF ValidBudget
<1>2. clock[1] \in Nat /\ clock[2] \in Nat /\ clock[3] \in Nat
  OBVIOUS
<1>3. Len(rows) \in Nat /\ \A i \in DOMAIN rows : rows[i] \in Nat
  OBVIOUS
<1> DEFINE large == Len(rows) > b.max_model_rows \/ \E i \in DOMAIN rows : rows[i] > b.max_model_features
           wrong == Len(scores) # Len(rows) \/ \E i \in DOMAIN scores : scores[i] \notin 0 .. One
<1>4. CASE large \/ Expired(b, clock, 2)
  <2>1. Score(b, rows, scores, clock) = [result |-> Exceeded, called |-> FALSE]
    BY <1>4 DEF Score
  <2> QED  BY <2>1 DEF ScoredWithinBudget, Exceeded, Done
<1>5. CASE ~large /\ ~Expired(b, clock, 2) /\ Expired(b, clock, 3)
  <2>1. Score(b, rows, scores, clock) = [result |-> Exceeded, called |-> TRUE]
    BY <1>5 DEF Score
  <2> QED  BY <1>1, <1>3, <1>5, <2>1 DEF ScoredWithinBudget, Exceeded, Done
<1>6. CASE ~large /\ ~Expired(b, clock, 2) /\ ~Expired(b, clock, 3) /\ wrong
  <2>1. Score(b, rows, scores, clock) = [result |-> NotScores, called |-> TRUE]
    BY <1>6 DEF Score
  <2> QED  BY <1>1, <1>3, <1>6, <2>1 DEF ScoredWithinBudget, NotScores, Done
<1>7. CASE ~large /\ ~Expired(b, clock, 2) /\ ~Expired(b, clock, 3) /\ ~wrong
  <2>1. Score(b, rows, scores, clock) = [result |-> Done, called |-> TRUE]
    BY <1>7 DEF Score
  <2>2. \A n \in 1 .. 3 : clock[n] <= ExpiresAt(b, clock)
    BY <1>1, <1>2, <1>7 DEF Expired, ExpiresAt
  <2> QED  BY <1>1, <1>3, <1>7, <2>1, <2>2 DEF ScoredWithinBudget
<1> QED  BY <1>4, <1>5, <1>6, <1>7

LEMMA CappedFits ==
    ASSUME NEW b, ValidBudget(b), NEW text \in Texts
    PROVE  Capped(b, text).length <= b.max_explanation_chars
<1>1. b.max_explanation_chars \in Nat /\ text.length \in Nat
  BY DEF ValidBudget, Texts
<1> QED  BY <1>1 DEF Capped

\* render() answers for all entities within the limits or for none, and calls
\* no renderer after a reading past the deadline.
THEOREM RenderBudgetTheorem ==
    ASSUME NEW b, ValidBudget(b), NEW texts \in Seq(Texts),
           NEW clock \in [1 .. Len(texts) + 2 -> Nat], Monotonic(clock)
    PROVE  RenderedWithinBudget(b, texts, clock)
<1> DEFINE n == Len(texts)
           failing == Failing(b, clock, n)
           first == CHOOSE k \in failing : \A j \in failing : k <= j
<1>1. /\ b.max_explanations \in Nat /\ b.max_explanations >= 1 /\ b.total_seconds \in Nat
      /\ b.total_seconds > 0 /\ n \in Nat
  BY DEF ValidBudget
<1>2. \A k \in 1 .. n + 2 : clock[k] \in Nat
  OBVIOUS
<1>3. \A k \in 1 .. n + 1 : k \notin failing => clock[k + 1] <= ExpiresAt(b, clock)
  BY <1>1, <1>2 DEF Failing, Expired, ExpiresAt
<1>4. CASE n > b.max_explanations
  <2>1. Render(b, texts, clock) = [result |-> Exceeded, calls |-> 0, texts |-> <<>>]
    BY <1>4 DEF Render
  <2> QED  BY <1>1, <2>1 DEF RenderedWithinBudget, Exceeded, Done
<1>5. CASE ~(n > b.max_explanations) /\ failing # {}
  <2>1. Render(b, texts, clock) = [result |-> Exceeded, calls |-> first - 1, texts |-> <<>>]
    BY <1>5 DEF Render
  <2>2. failing \in SUBSET Nat /\ failing \subseteq 1 .. n + 1
    BY <1>1 DEF Failing
  <2>3. first \in failing /\ \A j \in failing : first <= j
    BY <1>5, <2>2, LeastNatural
  <2> HIDE DEF failing, first
  <2>4. \A k \in 1 .. first - 1 : k \in 1 .. n + 1 /\ k \notin failing
    BY <1>1, <2>2, <2>3
  <2>5. first - 1 <= b.max_explanations
    BY <1>1, <1>5, <2>2, <2>3
  <2> QED  BY <1>3, <2>1, <2>4, <2>5 DEF RenderedWithinBudget, Exceeded, Done
<1>6. CASE ~(n > b.max_explanations) /\ failing = {}
  <2>1. Render(b, texts, clock) = [result |-> Done, calls |-> n,
                                   texts |-> [k \in DOMAIN texts |-> Capped(b, texts[k])]]
    BY <1>6 DEF Render
  <2>2. \A k \in DOMAIN texts : Capped(b, texts[k]).length <= b.max_explanation_chars
    BY CappedFits
  <2>3. clock[1] <= ExpiresAt(b, clock)
    BY <1>1, <1>2 DEF ExpiresAt
  <2>4. \A k \in 1 .. n + 1 : clock[k + 1] <= ExpiresAt(b, clock)
    BY <1>3, <1>6
  <2>5. ASSUME NEW k \in DOMAIN clock PROVE clock[k] <= ExpiresAt(b, clock)
    <3>1. k = 1 \/ k - 1 \in 1 .. n + 1
      BY <1>1
    <3>2. CASE k = 1
      BY <2>3, <3>2
    <3>3. CASE k - 1 \in 1 .. n + 1
      <4>1. clock[(k - 1) + 1] <= ExpiresAt(b, clock)
        BY <2>4, <3>3
      <4>2. (k - 1) + 1 = k
        BY <1>1
      <4> QED  BY <4>1, <4>2
    <3> QED  BY <3>1, <3>2, <3>3
  <2>6. \A k \in 1 .. n : clock[k + 1] <= ExpiresAt(b, clock)
    BY <1>1, <2>4
  <2> QED  BY <1>1, <1>6, <2>1, <2>2, <2>5, <2>6 DEF RenderedWithinBudget
<1> QED  BY <1>4, <1>5, <1>6

-----------------------------------------------------------------------------
(* Risk decisions. *)

LEMMA EvidenceNumbers ==
    ASSUME NEW policy, ValidPolicy(policy), NEW e, IsEvidence(e)
    PROVE  /\ policy.boost \in Nat /\ policy.medium \in Nat /\ policy.high \in Nat
           /\ policy.medium < policy.high
           /\ \A d \in DetectorTools : policy.weight[d] \in Nat /\ e.count[d] \in Nat /\ e.sum[d] \in Nat
           /\ CountryBoost(policy, e) \in Nat
<1>1. policy.boost \in Nat /\ policy.medium \in Nat /\ policy.high \in Nat /\ policy.medium < policy.high
  BY OneIsNatural DEF ValidPolicy
<1>2. \A d \in DetectorTools : policy.weight[d] \in Nat /\ e.count[d] \in Nat /\ e.sum[d] \in Nat
  BY DEF ValidPolicy, IsEvidence
<1> QED  BY <1>1, <1>2 DEF CountryBoost

\* A weighted number between two multiples of the number of its signals.
LEMMA WeightedBetween ==
    ASSUME NEW w \in Nat, NEW n \in Nat, NEW s \in Nat, NEW low \in Nat, NEW high \in Nat,
           w > 0 => low * n <= s /\ s <= high * n
    PROVE  /\ w * n \in Nat /\ w * s \in Nat
           /\ low * (w * n) <= w * s /\ w * s <= high * (w * n)
<1>1. w * n \in Nat /\ w * s \in Nat
  OBVIOUS
<1>2. CASE w = 0
  BY <1>2
<1>3. CASE w > 0
  <2>1. w * (low * n) <= w * s /\ w * s <= w * (high * n)
    BY <1>3
  <2>2. w * (low * n) = low * (w * n) /\ w * (high * n) = high * (w * n)
    OBVIOUS
  <2> QED  BY <1>1, <2>1, <2>2
<1> QED  BY <1>1, <1>2, <1>3

LEMMA Distributes ==
    ASSUME NEW k \in Nat, NEW p \in Nat, NEW q \in Nat, NEW r \in Nat, NEW s \in Nat
    PROVE  k * (p + q + r + s) = k * p + k * q + k * r + k * s
OBVIOUS

\* A weighted mean lies where the means of the detectors lie.
LEMMA MeanBetween ==
    ASSUME NEW policy, ValidPolicy(policy), NEW e, IsEvidence(e),
           NEW low \in Nat, NEW high \in Nat,
           \A d \in DetectorTools : policy.weight[d] > 0 =>
               low * e.count[d] <= e.sum[d] /\ e.sum[d] <= high * e.count[d]
    PROVE  /\ ActiveWeight(policy, e) \in Nat /\ WeightedSum(policy, e) \in Nat
           /\ low * ActiveWeight(policy, e) <= WeightedSum(policy, e)
           /\ WeightedSum(policy, e) <= high * ActiveWeight(policy, e)
<1> DEFINE n(d) == policy.weight[d] * e.count[d]
           s(d) == policy.weight[d] * e.sum[d]
<1>1. ASSUME NEW d \in DetectorTools
      PROVE  /\ n(d) \in Nat /\ s(d) \in Nat
             /\ low * n(d) <= s(d) /\ s(d) <= high * n(d)
  <2>1. policy.weight[d] \in Nat /\ e.count[d] \in Nat /\ e.sum[d] \in Nat
    BY EvidenceNumbers
  <2> QED  BY <2>1, WeightedBetween
<1>2. {"rule_engine", "statistical_engine", "ml_engine", "graph_engine"} = DetectorTools
  BY DEF DetectorTools
<1>3. /\ ActiveWeight(policy, e) =
             n("rule_engine") + n("statistical_engine") + n("ml_engine") + n("graph_engine")
      /\ WeightedSum(policy, e) =
             s("rule_engine") + s("statistical_engine") + s("ml_engine") + s("graph_engine")
  BY <1>2 DEF ActiveWeight, WeightedSum, Total
<1> HIDE DEF n, s
<1>4. /\ low * ActiveWeight(policy, e) = low * n("rule_engine") + low * n("statistical_engine")
             + low * n("ml_engine") + low * n("graph_engine")
      /\ high * ActiveWeight(policy, e) = high * n("rule_engine") + high * n("statistical_engine")
             + high * n("ml_engine") + high * n("graph_engine")
  BY <1>1, <1>2, <1>3, Distributes
<1>5. \A d \in DetectorTools : low * n(d) \in Int /\ high * n(d) \in Int
  BY <1>1
<1> QED  BY <1>1, <1>2, <1>3, <1>4, <1>5

\* The nearest whole numbers stay between whole numbers.
LEMMA NearestBetween ==
    ASSUME NEW n \in Nat, NEW m \in Nat, m > 0, NEW low \in Nat, NEW high \in Nat,
           low * m <= n, n <= high * m, NEW k \in Nearest(n, m)
    PROVE  k \in Nat /\ low <= k /\ k <= high
<1>1. n \div m \in Nat
  BY Z3
<1>2. k \in Nat /\ 2 * (k * m - n) <= m /\ 2 * (n - k * m) <= m
  BY <1>1 DEF Nearest
<1>3. ASSUME k < low PROVE FALSE
  <2>1. (k + 1) * m <= low * m /\ (k + 1) * m = k * m + m
    BY <1>2, <1>3
  <2> QED  BY <1>2, <2>1
<1>4. ASSUME k > high PROVE FALSE
  <2>1. (high + 1) * m <= k * m /\ (high + 1) * m = high * m + m
    BY <1>2, <1>4
  <2> QED  BY <1>2, <2>1
<1> QED  BY <1>2, <1>3, <1>4

LEMMA RiskScoreBetween ==
    ASSUME NEW policy, ValidPolicy(policy), NEW e, IsEvidence(e),
           NEW low \in 0 .. One, NEW high \in Nat,
           ActiveWeight(policy, e) > 0,
           \A d \in DetectorTools : policy.weight[d] > 0 =>
               low * e.count[d] <= e.sum[d] /\ e.sum[d] <= high * e.count[d],
           NEW score \in RiskScores(policy, e)
    PROVE  /\ score \in 0 .. One /\ low <= score
           /\ score <= high + CountryBoost(policy, e)
<1> DEFINE W == ActiveWeight(policy, e)
           S == WeightedSum(policy, e)
           B == CountryBoost(policy, e)
<1>1. One \in Nat /\ low \in Nat /\ low <= One
  BY OneIsNatural
<1>2. W \in Nat /\ W > 0 /\ S \in Nat /\ low * W <= S /\ S <= high * W
  BY <1>1, MeanBetween
<1>3. B \in Nat
  BY EvidenceNumbers
<1>4. score \in (IF S + B * W >= One * W THEN {One} ELSE Nearest(S + B * W, W))
  BY <1>2 DEF RiskScores
<1> HIDE DEF W, S, B
<1>5. (high + B) * W = high * W + B * W
  BY <1>2, <1>3
<1>6. /\ B * W \in Nat /\ S + B * W \in Nat
      /\ low * W <= S + B * W /\ S + B * W <= (high + B) * W
  BY <1>2, <1>3, <1>5
<1>7. CASE S + B * W >= One * W
  <2>1. One * W <= (high + B) * W
    BY <1>1, <1>2, <1>3, <1>6, <1>7
  <2>2. ASSUME high + B < One PROVE FALSE
    <3>1. (high + B + 1) * W <= One * W /\ (high + B + 1) * W = (high + B) * W + W
      BY <1>1, <1>2, <1>3, <2>2
    <3> QED  BY <1>1, <1>2, <1>3, <2>1, <3>1
  <2>3. One <= high + B
    BY <1>1, <1>3, <2>2
  <2> QED  BY <1>1, <1>4, <1>7, <2>3 DEF B
<1>8. CASE S + B * W < One * W
  <2>1. score \in Nearest(S + B * W, W)
    BY <1>1, <1>2, <1>4, <1>6, <1>8
  <2>2. score \in Nat /\ low <= score /\ score <= high + B
    BY <1>2, <1>3, <1>6, <2>1, <1>1, NearestBetween
  <2>3. score <= One
    BY <1>1, <1>2, <1>6, <1>8, <2>1, NearestBetween
  <2> QED  BY <1>1, <2>2, <2>3 DEF B
<1> QED  BY <1>1, <1>2, <1>6, <1>7, <1>8

\* A decision lies where its evidence lies, for every policy: what was not
\* selected cannot lower it.
THEOREM WithinEvidenceTheorem ==
    ASSUME NEW policy, ValidPolicy(policy), NEW e, IsEvidence(e),
           NEW low \in 0 .. One, NEW high \in 0 .. One
    PROVE  WithinEvidence(policy, e, low, high)
<1>1. high \in Nat
  BY OneIsNatural
<1> QED  BY <1>1, RiskScoreBetween DEF WithinEvidence, Decisions

\* Scores are between 0 and 1, and labels and actions are those of their bands,
\* for every policy.
THEOREM BandsFollowScoreTheorem ==
    ASSUME NEW policy, ValidPolicy(policy), NEW e, IsEvidence(e)
    PROVE  BandsFollowScore(policy, e)
<1>1. One \in Nat /\ One > 0
  BY OneIsNatural
<1>2. /\ policy.medium \in Nat /\ policy.high \in Nat /\ policy.medium < policy.high
      /\ \A d \in DetectorTools : e.count[d] \in Nat /\ e.sum[d] \in Nat
  BY EvidenceNumbers
<1>3. \A d \in DetectorTools : 0 * e.count[d] <= e.sum[d] /\ e.sum[d] <= One * e.count[d]
  BY <1>1, <1>2 DEF IsEvidence
<1>4. ASSUME NEW score \in RiskScores(policy, e) PROVE score \in 0 .. One
  <2>1. ActiveWeight(policy, e) \in Nat
    BY <1>1, <1>3, MeanBetween
  <2>2. CASE ActiveWeight(policy, e) = 0
    BY <1>1, <2>2 DEF RiskScores
  <2>3. CASE ActiveWeight(policy, e) > 0
    BY <1>1, <1>3, <2>3, RiskScoreBetween
  <2> QED  BY <2>1, <2>2, <2>3
<1>5. ASSUME NEW score \in 0 .. One
      PROVE  LET action == EscalationFor[RiskLabel(policy, score)]
             IN  /\ action = "report" <=> score >= policy.high
                 /\ action = "monitor" <=> score < policy.medium
                 /\ action \in {"report", "flag_for_review", "monitor"}
  <2>1. CASE score >= policy.high
    BY <1>1, <1>2, <2>1 DEF EscalationFor, RiskLabel
  <2>2. CASE score < policy.high /\ score >= policy.medium
    BY <1>1, <1>2, <2>2 DEF EscalationFor, RiskLabel
  <2>3. CASE score < policy.medium
    BY <1>1, <1>2, <2>3 DEF EscalationFor, RiskLabel
  <2> QED  BY <1>1, <1>2, <2>1, <2>2, <2>3
<1> QED  BY <1>4, <1>5 DEF BandsFollowScore, Decisions

-----------------------------------------------------------------------------
(* Plans. *)

\* A sequence of tools without repetitions, and its tools.
Chain(s) == s \in Seq(ToolName) /\ \A m, n \in DOMAIN s : s[m] = s[n] => m = n
Tools(s) == {s[n] : n \in DOMAIN s}

LEMMA ChainConcat ==
    ASSUME NEW s, NEW t, Chain(s), Chain(t), Tools(s) \cap Tools(t) = {}
    PROVE  /\ Chain(s \o t) /\ Tools(s \o t) = Tools(s) \cup Tools(t)
           /\ Len(s \o t) = Len(s) + Len(t)
           /\ Len(s) > 0 => (s \o t)[1] = s[1]
<1> DEFINE u == s \o t
<1>1. s \in Seq(ToolName) /\ t \in Seq(ToolName) /\ Len(s) \in Nat /\ Len(t) \in Nat
  BY DEF Chain
<1>2. /\ u \in Seq(ToolName) /\ Len(u) = Len(s) + Len(t)
      /\ DOMAIN u = 1 .. Len(s) + Len(t) /\ DOMAIN s = 1 .. Len(s) /\ DOMAIN t = 1 .. Len(t)
      /\ \A n \in 1 .. Len(s) : u[n] = s[n]
      /\ \A n \in Len(s) + 1 .. Len(s) + Len(t) : u[n] = t[n - Len(s)]
  BY <1>1
<1> HIDE DEF u
<1>3. \A n \in DOMAIN u :
        \/ n \in DOMAIN s /\ u[n] = s[n]
        \/ n - Len(s) \in DOMAIN t /\ u[n] = t[n - Len(s)]
  BY <1>1, <1>2
<1>4. \A n \in DOMAIN t : n + Len(s) \in DOMAIN u /\ u[n + Len(s)] = t[n]
  BY <1>1, <1>2
<1>5. Tools(u) = Tools(s) \cup Tools(t)
  <2>1. Tools(u) \subseteq Tools(s) \cup Tools(t)
    BY <1>3 DEF Tools
  <2>2. Tools(s) \subseteq Tools(u)
    BY <1>1, <1>2 DEF Tools
  <2>3. Tools(t) \subseteq Tools(u)
    BY <1>4 DEF Tools
  <2> QED  BY <2>1, <2>2, <2>3
<1>6. ASSUME NEW m \in DOMAIN u, NEW n \in DOMAIN u, u[m] = u[n] PROVE m = n
  <2>1. CASE m \in DOMAIN s /\ n \in DOMAIN s
    BY <1>2, <1>6, <2>1 DEF Chain
  <2>2. CASE m - Len(s) \in DOMAIN t /\ n - Len(s) \in DOMAIN t
    <3>1. t[m - Len(s)] = t[n - Len(s)]
      BY <1>1, <1>2, <1>6, <2>2
    <3>2. m - Len(s) = n - Len(s)
      BY <2>2, <3>1 DEF Chain
    <3> QED  BY <1>1, <1>2, <3>2
  <2>3. CASE \/ m \in DOMAIN s /\ n - Len(s) \in DOMAIN t
             \/ n \in DOMAIN s /\ m - Len(s) \in DOMAIN t
    <3>1. \A k \in DOMAIN s, l \in DOMAIN t : s[k] # t[l]
      BY DEF Tools
    <3>2. CASE m \in DOMAIN s /\ n - Len(s) \in DOMAIN t
      BY <1>1, <1>2, <1>6, <3>1, <3>2
    <3>3. CASE n \in DOMAIN s /\ m - Len(s) \in DOMAIN t
      BY <1>1, <1>2, <1>6, <3>1, <3>3
    <3> QED  BY <2>3, <3>2, <3>3
  <2> QED  BY <1>3, <2>1, <2>2, <2>3
<1>7. Len(s) > 0 => u[1] = s[1]
  BY <1>1, <1>2
<1> QED  BY <1>2, <1>5, <1>6, <1>7 DEF Chain, u

LEMMA ChainWhen ==
    ASSUME NEW c, NEW tool \in ToolName
    PROVE  /\ Chain(When(c, tool)) /\ Tools(When(c, tool)) \subseteq {tool}
           /\ Len(When(c, tool)) \in 0 .. 1
BY DEF Chain, Tools, When

LEMMA PatternChain ==
    ASSUME NEW i
    PROVE  /\ Chain(PatternSteps(i)) /\ Tools(PatternSteps(i)) \subseteq OptionalTools
           /\ Len(PatternSteps(i)) \in 4 .. 7
<1> DEFINE s == <<"feature_engineering", "rule_engine">>
           stat == When(i.pattern_type \in StatisticalPatterns, "statistical_engine")
           ml == When(i.require_ml, "ml_engine")
           graph == When(i.require_graph \/ i.pattern_type \in GraphPatterns, "graph_engine")
           t == <<"risk_engine", "knowledge_retriever">>
<1>1. /\ Chain(s) /\ Tools(s) = {"feature_engineering", "rule_engine"} /\ Len(s) = 2
      /\ Chain(t) /\ Tools(t) = {"risk_engine", "knowledge_retriever"} /\ Len(t) = 2
  BY DEF Chain, Tools, ToolName
<1>2. {"statistical_engine", "ml_engine", "graph_engine"} \subseteq ToolName
  BY DEF ToolName
<1>3. /\ Chain(stat) /\ Tools(stat) \subseteq {"statistical_engine"} /\ Len(stat) \in 0 .. 1
      /\ Chain(ml) /\ Tools(ml) \subseteq {"ml_engine"} /\ Len(ml) \in 0 .. 1
      /\ Chain(graph) /\ Tools(graph) \subseteq {"graph_engine"} /\ Len(graph) \in 0 .. 1
  BY <1>2, ChainWhen
<1>4. PatternSteps(i) = (((s \o stat) \o ml) \o graph) \o t
  BY DEF PatternSteps
<1> HIDE DEF s, stat, ml, graph, t
<1>5. /\ Chain(s \o stat) /\ Tools(s \o stat) = Tools(s) \cup Tools(stat)
      /\ Len(s \o stat) = Len(s) + Len(stat)
  BY <1>1, <1>3, ChainConcat
<1> DEFINE s1 == s \o stat
<1> HIDE DEF s1
<1>6. /\ Chain(s1 \o ml) /\ Tools(s1 \o ml) = Tools(s1) \cup Tools(ml)
      /\ Len(s1 \o ml) = Len(s1) + Len(ml)
  BY <1>1, <1>3, <1>5, ChainConcat DEF s1
<1> DEFINE s2 == s1 \o ml
<1> HIDE DEF s2
<1>7. /\ Chain(s2 \o graph) /\ Tools(s2 \o graph) = Tools(s2) \cup Tools(graph)
      /\ Len(s2 \o graph) = Len(s2) + Len(graph)
  <2>1. Tools(s2) \subseteq {"feature_engineering", "rule_engine", "statistical_engine", "ml_engine"}
    BY <1>1, <1>3, <1>5, <1>6 DEF s1, s2
  <2> QED  BY <1>3, <1>6, <2>1, ChainConcat DEF s2
<1> DEFINE s3 == s2 \o graph
<1> HIDE DEF s3
<1>8. /\ Chain(s3 \o t) /\ Tools(s3 \o t) = Tools(s3) \cup Tools(t)
      /\ Len(s3 \o t) = Len(s3) + Len(t)
  <2>1. Tools(s3) \subseteq {"feature_engineering", "rule_engine", "statistical_engine", "ml_engine",
                            "graph_engine"}
    BY <1>1, <1>3, <1>5, <1>6, <1>7 DEF s1, s2, s3
  <2> QED  BY <1>1, <1>7, <2>1, ChainConcat DEF s3
<1>9. Tools(s3 \o t) \subseteq OptionalTools
  BY <1>1, <1>3, <1>5, <1>6, <1>7, <1>8 DEF s1, s2, s3, OptionalTools, ToolName
<1>10. Len(s3 \o t) \in 4 .. 7
  <2>1. Len(s1) = 2 + Len(stat)
    BY <1>1, <1>5 DEF s1
  <2>2. Len(s2) = Len(s1) + Len(ml)
    BY <1>6 DEF s2
  <2>3. Len(s3) = Len(s2) + Len(graph)
    BY <1>7 DEF s3
  <2>4. \A a, b, c \in 0 .. 1 : (((2 + a) + b) + c) + 2 \in 4 .. 7
    OBVIOUS
  <2>5. Len(stat) \in 0 .. 1 /\ Len(ml) \in 0 .. 1 /\ Len(graph) \in 0 .. 1
    BY <1>3
  <2>6. Len(s3 \o t) = Len(s3) + 2
    BY <1>1, <1>8
  <2>7. Len(s3 \o t) = (((2 + Len(stat)) + Len(ml)) + Len(graph)) + 2
    BY <2>1, <2>2, <2>3, <2>6
  <2> QED  BY <2>4, <2>5, <2>7
<1> QED  BY <1>4, <1>8, <1>9, <1>10 DEF s1, s2, s3

LEMMA StepsFacts ==
    ASSUME NEW i \in AdaptiveIntents
    PROVE  /\ Chain(StepsFor(i)) /\ StepsFor(i)[1] = "data_loader"
           /\ Len(StepsFor(i)) \in 2 .. 8
<1> DEFINE tail == CASE i.intent = "aggregation"   -> <<"aggregation">>
                     [] i.intent = "entity_lookup" -> <<"entity_lookup", "risk_engine", "knowledge_retriever">>
                     [] i.intent = "broad_eda"     -> <<"eda", "feature_engineering", "statistical_engine",
                                                        "ml_engine", "risk_engine">>
                     [] OTHER                      -> PatternSteps(i)
<1>1. Chain(tail) /\ Tools(tail) \subseteq OptionalTools /\ Len(tail) \in 1 .. 7
  <2>1. CASE i.intent = "aggregation"
    BY <2>1 DEF Chain, Tools, OptionalTools, ToolName
  <2>2. CASE i.intent = "entity_lookup"
    BY <2>2 DEF Chain, Tools, OptionalTools, ToolName
  <2>3. CASE i.intent = "broad_eda"
    BY <2>3 DEF Chain, Tools, OptionalTools, ToolName
  <2>4. CASE i.intent \notin {"aggregation", "entity_lookup", "broad_eda"}
    <3>1. tail = PatternSteps(i)
      BY <2>4
    <3> QED  BY <3>1, PatternChain
  <2> QED  BY <2>1, <2>2, <2>3, <2>4
<1>2. StepsFor(i) = <<"data_loader">> \o tail
  BY DEF StepsFor
<1> HIDE DEF tail
<1> DEFINE head == <<"data_loader">>
<1>3. Chain(head) /\ Tools(head) = {"data_loader"} /\ Len(head) = 1 /\ head[1] = "data_loader"
  BY DEF Chain, Tools, ToolName
<1>4. Tools(head) \cap Tools(tail) = {}
  BY <1>1, <1>3 DEF OptionalTools
<1> HIDE DEF head
<1>5. /\ Chain(head \o tail) /\ Len(head \o tail) = Len(head) + Len(tail)
      /\ (head \o tail)[1] = head[1]
  <2>1. Chain(head) /\ Chain(tail) /\ Len(head) > 0
    BY <1>1, <1>3
  <2> QED  BY <1>4, <2>1, ChainConcat
<1>6. StepsFor(i) = head \o tail
  BY <1>2 DEF head
<1>7. Len(head \o tail) \in 2 .. 8
  <2>1. \A n \in 1 .. 7 : 1 + n \in 2 .. 8
    OBVIOUS
  <2> QED  BY <1>1, <1>3, <1>5, <2>1
<1> QED  BY <1>3, <1>5, <1>6, <1>7

\* Whatever the limit, a plan that is not refused is whole: it loads first,
\* names no tool twice, and runs or reports every tool.
THEOREM PlanCompleteTheorem ==
    ASSUME NEW query, NEW i \in AdaptiveIntents, NEW max_steps \in Nat
    PROVE  PlanComplete(query, i, max_steps)
<1> DEFINE plan == BuildPlan(query, i)
<1>1. plan.steps = StepsFor(i) /\ plan.skipped = OptionalTools \ Tools(StepsFor(i))
  BY DEF BuildPlan, Tools
<1>2. SelectedTools(plan) = Tools(plan.steps)
  BY DEF SelectedTools, Tools
<1>3. Chain(plan.steps) /\ plan.steps[1] = "data_loader" /\ Len(plan.steps) \in 2 .. 8
  BY <1>1, StepsFacts
<1> HIDE DEF plan
<1>4. "data_loader" \in Tools(plan.steps) /\ Tools(plan.steps) \subseteq ToolName
  BY <1>3 DEF Chain, Tools
<1>5. SelectedTools(plan) \cup plan.skipped = ToolName /\ SelectedTools(plan) \cap plan.skipped = {}
  BY <1>1, <1>2, <1>4 DEF OptionalTools
<1>6. \A m, n \in DOMAIN plan.steps : plan.steps[m] = plan.steps[n] => m = n
  BY <1>3 DEF Chain
<1>7. ~PlanRefused(query, i, max_steps) => Len(plan.steps) <= max_steps
  BY <1>1, <1>3 DEF PlanRefused
<1> QED  BY <1>3, <1>5, <1>6, <1>7 DEF PlanComplete, plan

\* The default limit of eight steps is met exactly by the longest plan and
\* refuses nothing but a blank query.
THEOREM DefaultLimitFits ==
    ASSUME NEW query, NEW i \in AdaptiveIntents
    PROVE  PlanRefused(query, i, DefaultSteps) <=> Blank(query)
<1>1. Len(StepsFor(i)) \in 2 .. 8
  BY StepsFacts
<1>2. \A n \in 2 .. 8 : ~(n > DefaultSteps)
  BY DEF DefaultSteps
<1> HIDE DEF DefaultSteps
<1> QED  BY <1>1, <1>2 DEF PlanRefused

-----------------------------------------------------------------------------
(* Detection. *)


LEMMA FindingFacts ==
    ASSUME NEW tools, NEW emitted,
           \A s \in SignalsOf(tools, emitted) : ~Unacceptable(s, emitted),
           NEW t \in SignalsOf(tools, emitted)
    PROVE  LET f == Finding(Signal(t, emitted).entity_id, tools, emitted)
           IN  /\ f.entity_id = Signal(t, emitted).entity_id
               /\ f.signals = {s \in SignalsOf(tools, emitted) : Signal(s, emitted).entity_id = f.entity_id}
               /\ f.strongest_score \in 0 .. One
               /\ \A s \in f.signals : Signal(s, emitted).score <= f.strongest_score
               /\ \E s \in f.signals : Signal(s, emitted).score = f.strongest_score
<1> DEFINE e == Signal(t, emitted).entity_id
           own == {s \in SignalsOf(tools, emitted) : Signal(s, emitted).entity_id = e}
           scores == {Signal(s, emitted).score : s \in own}
           best == CHOOSE x \in scores : \A s \in own : Signal(s, emitted).score <= x
           f == Finding(e, tools, emitted)
<1>1. f.entity_id = e /\ f.signals = own /\ f.strongest_score = best
  BY DEF Finding
<1>2. t \in own
  OBVIOUS
<1>3. \A s \in own : Signal(s, emitted).score \in 0 .. One
  BY DEF Unacceptable
<1>4. scores \in SUBSET (0 .. One) /\ scores # {}
  BY <1>2, <1>3
<1> HIDE DEF e, own, f
<1>5. PICK x \in scores : \A y \in scores : y <= x
  <2> HIDE DEF scores
  <2> QED  BY <1>4, HighestScore
<1>6. \A s \in own : Signal(s, emitted).score <= x
  BY <1>5
<1>7. best \in scores /\ \A s \in own : Signal(s, emitted).score <= best
  <2> HIDE DEF scores
  <2> QED  BY <1>5, <1>6
<1> HIDE DEF best
<1>8. best \in 0 .. One /\ \E s \in own : Signal(s, emitted).score = best
  BY <1>4, <1>7
<1> QED  BY <1>1, <1>7, <1>8 DEF f, e, own

\* Whatever detectors answer, an accepted detection accounts for every signal,
\* claims no signal of a detector that the plan skipped, and its order is total.
THEOREM FindingsAccountableTheorem ==
    ASSUME NEW query, NEW i, NEW adapters, NEW emitted,
           \A s \in SignalsOf(DetectorTools, emitted) : Signal(s, emitted).entity_id \in Nat
    PROVE  FindingsAccountable(query, i, adapters, emitted)
<1> DEFINE plan == BuildPlan(query, i)
           tools == SelectedDetectors(plan)
           signals == SignalsOf(tools, emitted)
           found == Detect(plan, emitted)
<1> SUFFICES ASSUME ~DetectRefused(plan.query, plan, adapters, emitted)
             PROVE  FindingsAccountable(query, i, adapters, emitted)
  BY DEF FindingsAccountable
<1>1. \A s \in signals : ~Unacceptable(s, emitted)
  BY DEF DetectRefused
<1>2. tools \subseteq DetectorTools /\ tools \subseteq SelectedTools(plan) \ plan.skipped
  <2>1. tools = SelectedTools(plan) \cap DetectorTools
    BY DEF SelectedDetectors
  <2>2. plan.skipped = OptionalTools \ SelectedTools(plan)
    BY DEF BuildPlan, SelectedTools
  <2> HIDE DEF tools, plan
  <2> QED  BY <2>1, <2>2
<1>3. \A s \in signals : s[1] \in tools /\ s[1] = Signal(s, emitted).detector
  <2>1. \A s \in signals : s[1] \in tools
    BY DEF SignalsOf
  <2> QED  BY <1>1, <2>1 DEF Unacceptable
<1>4. \A s \in signals : Signal(s, emitted).entity_id \in Nat
  BY <1>2 DEF SignalsOf
<1>5. found = {Finding(e, tools, emitted) : e \in {Signal(s, emitted).entity_id : s \in signals}}
  BY DEF Detect
<1> HIDE DEF plan, tools, signals
<1>6. ASSUME NEW f \in found
      PROVE  /\ f.entity_id \in Nat /\ f = Finding(f.entity_id, tools, emitted)
             /\ f.signals = {s \in signals : Signal(s, emitted).entity_id = f.entity_id}
             /\ f.strongest_score \in 0 .. One
             /\ \A s \in f.signals : Signal(s, emitted).score <= f.strongest_score
             /\ \E s \in f.signals : Signal(s, emitted).score = f.strongest_score
  <2>1. PICK t \in signals : f = Finding(Signal(t, emitted).entity_id, tools, emitted)
    BY <1>5
  <2>2. Signal(t, emitted).entity_id \in Nat
    BY <1>4
  <2> QED  BY <1>1, <2>1, <2>2, FindingFacts DEF signals
<1>7. ASSUME NEW s \in signals PROVE \E f \in found : s \in f.signals
  <2>1. Finding(Signal(s, emitted).entity_id, tools, emitted) \in found
    BY <1>5
  <2>2. Finding(Signal(s, emitted).entity_id, tools, emitted).entity_id = Signal(s, emitted).entity_id
    BY DEF Finding
  <2> QED  BY <1>6, <2>1, <2>2
<1> HIDE DEF found
<1>8. ASSUME NEW f \in found, NEW g \in found, f # g
      PROVE  RankedBefore(f, g) <=> ~RankedBefore(g, f)
  <2>1. f.entity_id # g.entity_id
    BY <1>6, <1>8
  <2>2. /\ f.entity_id \in Nat /\ g.entity_id \in Nat
        /\ f.strongest_score \in Int /\ g.strongest_score \in Int
    BY <1>6
  <2> QED  BY <2>1, <2>2 DEF RankedBefore
<1>9. ASSUME NEW f \in found, NEW s \in f.signals
      PROVE  /\ Signal(s, emitted).entity_id = f.entity_id
             /\ s[1] = Signal(s, emitted).detector
             /\ s[1] \in SelectedTools(plan) \ plan.skipped
  <2>1. s \in signals /\ Signal(s, emitted).entity_id = f.entity_id
    BY <1>6
  <2> QED  BY <1>2, <1>3, <2>1
<1> QED  BY <1>6, <1>7, <1>8, <1>9 DEF FindingsAccountable, plan, tools, signals, found
=============================================================================
