---------------------------- MODULE RiskDecision ----------------------------
(***************************************************************************)
(* agent/risk: the alternate risk decision.  The signals of a finding are  *)
(* weighted by their detector, weights are normalised over the signals     *)
(* that are there, a country boost is added, and a versioned policy turns  *)
(* the score into a label and an action.  Weights are in hundredths.  A    *)
(* decision depends on a finding only through its evidence: how many       *)
(* signals each detector has for the entity, the sum of their scores, and  *)
(* which detectors saw a high-risk country.                                *)
(***************************************************************************)
EXTENDS AdaptivePlan, FiniteSetsExt

IsEvidence(e) ==
    /\ e \in [count : [DetectorTools -> Nat], sum : [DetectorTools -> Nat],
              country : SUBSET DetectorTools]
    /\ \A d \in DetectorTools :
          e.sum[d] <= e.count[d] * One /\ (d \in e.country => e.count[d] > 0)

EvidenceOf(finding, emitted) ==
    LET own(d) == {s \in finding.signals : s[1] = d}
        score(s) == Signal(s, emitted).score
    IN  [count   |-> [d \in DetectorTools |-> Cardinality(own(d))],
         sum     |-> [d \in DetectorTools |-> MapThenSumSet(score, own(d))],
         country |-> {d \in DetectorTools :
                        \E s \in own(d) : Signal(s, emitted).high_risk_country}]

-----------------------------------------------------------------------------

\* RiskPolicy. A detector the policy does not name has weight 0 here; weights
\* it names are positive.
ValidPolicy(policy) ==
    /\ policy \in [weight : [DetectorTools -> Nat], medium : 0 .. One, high : 0 .. One,
                   boost : 0 .. One \div 4]
    /\ policy.medium < policy.high
    /\ \E d \in DetectorTools : policy.weight[d] > 0

DefaultPolicy ==
    [weight |-> [rule_engine |-> 40, statistical_engine |-> 20, ml_engine |-> 25,
                 graph_engine |-> 15],
     medium |-> 450000, high |-> 750000, boost |-> 80000]

RiskLabel(policy, score) ==
    IF score >= policy.high THEN "high"
    ELSE IF score >= policy.medium THEN "medium"
    ELSE "low"

EscalationFor == [high |-> "report", medium |-> "flag_for_review", low |-> "monitor"]

-----------------------------------------------------------------------------

\* A sum over the detectors.
Total(f) == f["rule_engine"] + f["statistical_engine"] + f["ml_engine"] + f["graph_engine"]

\* The weight of all signals that count, and the sum of their weighted scores.
ActiveWeight(policy, e) ==
    Total([d \in DetectorTools |-> policy.weight[d] * e.count[d]])

WeightedSum(policy, e) ==
    Total([d \in DetectorTools |-> policy.weight[d] * e.sum[d]])

CountryBoost(policy, e) ==
    IF \E d \in e.country : policy.weight[d] > 0 THEN policy.boost ELSE 0

\* The whole numbers next to n / m: two where it lies between them, because
\* the floating-point sum may fall to either side.
Nearest(n, m) ==
    {k \in {n \div m, n \div m + 1} : 2 * (k * m - n) <= m /\ 2 * (n - k * m) <= m}

\* The scores a decision can have.
RiskScores(policy, e) ==
    LET weight == ActiveWeight(policy, e)
        raw == WeightedSum(policy, e) + CountryBoost(policy, e) * weight
    IN  IF weight = 0 THEN {0}
        ELSE IF raw >= One * weight THEN {One}
        ELSE Nearest(raw, weight)

Decisions(policy, e) ==
    {[risk_score |-> s, risk_label |-> RiskLabel(policy, s),
      escalation_action |-> EscalationFor[RiskLabel(policy, s)],
      country_boost |-> CountryBoost(policy, e)] : s \in RiskScores(policy, e)}

-----------------------------------------------------------------------------
(* Properties *)

\* Where every signal that counts scores between low and high, so does the
\* decision, up to the country boost: a detector that was not selected, or has
\* nothing on the entity, does not pull the score down (policy.py:10).
WithinEvidence(policy, e, low, high) ==
    (/\ ActiveWeight(policy, e) > 0
     /\ \A d \in DetectorTools : policy.weight[d] > 0 =>
            low * e.count[d] <= e.sum[d] /\ e.sum[d] <= high * e.count[d])
    => \A decision \in Decisions(policy, e) :
          /\ low <= decision.risk_score
          /\ decision.risk_score <= high + decision.country_boost

\* The recorded score is one, and the label and the action follow the policy's
\* bands from it: nothing is reported below the upper threshold, nothing at or
\* above it is merely monitored or reviewed.
BandsFollowScore(policy, e) ==
    \A decision \in Decisions(policy, e) :
        /\ decision.risk_score \in 0 .. One
        /\ decision.escalation_action = "report" <=> decision.risk_score >= policy.high
        /\ decision.escalation_action = "monitor" <=> decision.risk_score < policy.medium
        /\ decision.escalation_action \in {"report", "flag_for_review", "monitor"}
=============================================================================
