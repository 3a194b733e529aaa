-------------------------- MODULE BoundedExecution --------------------------
(***************************************************************************)
(* agent/runtime/bounded_execution.py: scoring and explaining under a      *)
(* budget.  The deadline is cooperative: nothing is interrupted, the clock *)
(* is read between calls.  An execution is determined by its inputs and by *)
(* what the clock shows each time it is read, so that clock is a sequence: *)
(* the first reading sets the deadline, the k-th checkpoint takes reading  *)
(* k + 1.                                                                  *)
(***************************************************************************)
EXTENDS Integers, Sequences

One == 1000000   \* the score 1.0, in units of the last digit scores are rounded to

Exceeded == "exceeded"    \* ExecutionBudgetExceeded
NotScores == "not_scores" \* ValueError
Done == "done"            \* the answer is returned

ValidBudget(b) ==
    /\ b \in [max_model_rows : Nat, max_model_features : Nat, max_explanations : Nat,
              max_explanation_chars : Nat, total_seconds : Nat]
    /\ b.max_model_rows >= 1 /\ b.max_model_features >= 1 /\ b.max_explanations >= 1
    /\ b.max_explanation_chars >= 80
    /\ b.total_seconds > 0

DefaultBudget ==
    [max_model_rows |-> 25000, max_model_features |-> 64, max_explanations |-> 100,
     max_explanation_chars |-> 2000, total_seconds |-> 15]

ExpiresAt(b, clock) == clock[1] + b.total_seconds

\* The checkpoint that takes the n-th reading raises.
Expired(b, clock, n) == clock[n] > ExpiresAt(b, clock)

-----------------------------------------------------------------------------

\* rows[i] is the number of features of a row, scores what the scorer returns
\* and Done passes on (anything that is no number between 0 and 1 is outside
\* 0..One). The clock is read for the deadline, before the scorer and after it.
Score(b, rows, scores, clock) ==
    IF \/ Len(rows) > b.max_model_rows
       \/ \E i \in DOMAIN rows : rows[i] > b.max_model_features
       \/ Expired(b, clock, 2)
    THEN [result |-> Exceeded, called |-> FALSE]
    ELSE IF Expired(b, clock, 3) THEN [result |-> Exceeded, called |-> TRUE]
    ELSE IF \/ Len(scores) # Len(rows)
            \/ \E i \in DOMAIN scores : scores[i] \notin 0 .. One
    THEN [result |-> NotScores, called |-> TRUE]
    ELSE [result |-> Done, called |-> TRUE]

-----------------------------------------------------------------------------

\* A rendered text after split and join: its length and where its spaces are.
\* They are single ones, and neither first nor last.
Texts ==
    {t \in [length : Nat, spaces : SUBSET Nat] :
        \A p \in t.spaces : 1 < p /\ p < t.length /\ p + 1 \notin t.spaces}

\* A long text loses its end, and the space before it, to an ellipsis.
Capped(b, text) ==
    IF text.length <= b.max_explanation_chars THEN text
    ELSE LET cut == b.max_explanation_chars - 1
             end == IF cut \in text.spaces THEN cut - 1 ELSE cut
         IN  [length |-> end + 1, spaces |-> {p \in text.spaces : p < end}]

\* The checkpoints of a call for n entities that raise: one comes before every
\* entity, one after the last.
Failing(b, clock, n) == {k \in 1 .. n + 1 : Expired(b, clock, k + 1)}

\* texts[k] is what the renderer returns for the k-th entity.
Render(b, texts, clock) ==
    LET failing == Failing(b, clock, Len(texts))
    IN  IF Len(texts) > b.max_explanations THEN [result |-> Exceeded, calls |-> 0, texts |-> <<>>]
        ELSE IF failing # {}
        THEN [result |-> Exceeded,
              calls |-> (CHOOSE k \in failing : \A j \in failing : k <= j) - 1, texts |-> <<>>]
        ELSE [result |-> Done, calls |-> Len(texts),
              texts |-> [k \in DOMAIN texts |-> Capped(b, texts[k])]]

-----------------------------------------------------------------------------
(* Properties *)

\* time.monotonic never goes back.
Monotonic(clock) == \A m, n \in DOMAIN clock : m <= n => clock[m] <= clock[n]

\* Only a full answer within the budget gets out of score(): one number between
\* 0 and 1 for each row, no more rows and features than allowed, and no moment
\* between the first and the last reading of the clock after the deadline. The
\* scorer never sees an input that is too large.
ScoredWithinBudget(b, rows, scores, clock) ==
    LET outcome == Score(b, rows, scores, clock)
        small == Len(rows) <= b.max_model_rows
                     /\ \A i \in DOMAIN rows : rows[i] <= b.max_model_features
    IN  /\ outcome.called => small
        /\ outcome.result = Done =>
               /\ small
               /\ Len(scores) = Len(rows)
               /\ \A i \in DOMAIN scores : scores[i] \in 0 .. One
               /\ \A n \in 1 .. 3 : clock[n] <= ExpiresAt(b, clock)

\* render() answers for every entity or for none, with texts within the limit;
\* and no renderer is called after a reading past the deadline, so that at most
\* the call that was running when time ran out is late.
RenderedWithinBudget(b, texts, clock) ==
    LET outcome == Render(b, texts, clock)
    IN  /\ \A k \in 1 .. outcome.calls : clock[k + 1] <= ExpiresAt(b, clock)
        /\ outcome.calls <= b.max_explanations
        /\ outcome.result = Done =>
               /\ DOMAIN outcome.texts = DOMAIN texts
               /\ \A k \in DOMAIN texts : outcome.texts[k].length <= b.max_explanation_chars
               /\ \A n \in DOMAIN clock : clock[n] <= ExpiresAt(b, clock)
=============================================================================
