----------------------------- MODULE Evaluation -----------------------------
(***************************************************************************)
(* How a trial is judged: structured assertions on what it left behind, a  *)
(* language model's opinion, and their weighted combination.  An evaluator *)
(* that fails gives None, which is not a verdict.                          *)
(*                                                                         *)
(* Scores are floats, and sums of floats are rounded, so they are numbers  *)
(* num/den of Precision significant bits here (53 in the code).            *)
(***************************************************************************)
EXTENDS Naturals, SequencesExt

CONSTANTS
  Precision,   \* bound: significant bits of a float
  None

ASSUME EvaluationAssumption == Precision \in Nat \ {0}

Zero == [num |-> 0, den |-> 1]
One  == [num |-> 1, den |-> 1]

\* The float nearest to n/d, the even one of two, for n/d between 2^(-Precision)
\* or so and 2^(Precision - 1).
Float(n, d) ==
  IF n = 0 THEN Zero ELSE
  LET k == CHOOSE e \in 0..(2 * Precision) :
             2^(Precision - 1) * d <= n * 2^e /\ n * 2^e < 2^Precision * d
      q == (n * 2^k) \div d
      r == (n * 2^k) % d
  IN  [num |-> IF 2 * r > d \/ (2 * r = d /\ q % 2 = 1) THEN q + 1 ELSE q, den |-> 2^k]

Plus(x, y)  == Float(x.num * y.den + y.num * x.den, x.den * y.den)
Times(x, y) == Float(x.num * y.num, x.den * y.den)

\* EvaluationResult.__post_init__
InRange(score) == score.num <= score.den

----------------------------------------------------------------------------
(* Single evaluators *)

\* StructuredEvaluator.evaluate: every fact is there, with the value expected.
StructuredVerdict(expected, board) ==
  LET met == expected \subseteq board IN
  [success |-> met, score |-> IF met THEN One ELSE Zero]

\* LLMJudgeEvaluator.evaluate; an answer is None (no connection, an HTTP error, no
\* JSON object, a field of another type) or has success and a score, or None.
JudgeVerdict(answer) ==
  IF answer = None \/ (answer.score # None /\ ~InRange(answer.score)) THEN None ELSE answer

----------------------------------------------------------------------------
(* CompositeEvaluator *)

Total(weights) == FoldLeft(LAMBDA sum, w : sum + w, 0, weights)

\* What its constructor accepts
Acceptable(weights) == weights # <<>> /\ Total(weights) > 0

ScoreOf(verdict) ==
  IF verdict.score # None THEN verdict.score ELSE IF verdict.success THEN One ELSE Zero

\* Weights are divided by their total, weighted scores are added in order.
Quality(weights, verdicts) ==
  FoldLeftDomain(LAMBDA sum, i :
      Plus(sum, Times(Float(weights[i], Total(weights)), ScoreOf(verdicts[i]))),
    Zero, weights)

\* Faulty form: a component that fails counts as one that is not content.
CompositeVerdictLenient(weights, verdicts) ==
  [success |-> \A i \in DOMAIN verdicts : verdicts[i] # None /\ verdicts[i].success,
   criteria |-> [i \in DOMAIN verdicts |-> verdicts[i] # None /\ verdicts[i].success]]

\* All components have to be content.  None where one of them fails, and where the
\* quality is not in range.
CompositeVerdict(weights, verdicts) ==
  IF \/ \E i \in DOMAIN verdicts : verdicts[i] = None
     \/ ~InRange(Quality(weights, verdicts))
  THEN None
  ELSE [success |-> \A i \in DOMAIN verdicts : verdicts[i].success,
        criteria |-> [i \in DOMAIN verdicts |-> verdicts[i].success]]

=============================================================================
