-------------------------- MODULE ModelEvaluation --------------------------
(***************************************************************************)
(* The two verdicts that a candidate of the learning service needs:         *)
(* evaluate_models (learning_evaluation.py) over the frozen validation      *)
(* split, and evaluate_continual_retention (continual_learning.py) over a   *)
(* matrix of scores, one row per stage.                                     *)
(*                                                                          *)
(* A model is what it predicts: in each category the true positives and the *)
(* false positives among the pixels of the split.  Rates are pairs          *)
(* <<numerator, denominator>>, with denominator 0 where the code has None.  *)
(* Approvals follow each other, each against the champion of the last.      *)
(***************************************************************************)
EXTENDS Integers, FiniteSets, Sequences, FiniteSetsExt

CONSTANTS
  Categories,
  MaxPixels,   \* bound: positive, and negative, pixels of a category
  Policies,    \* evaluation policies
  MaxScore,    \* bound: scores are 0 .. MaxScore
  Retentions   \* retention policies of one metric, HIGHER_IS_BETTER

VARIABLES
  policy,    \* EvaluationPolicy of the cycle
  truth,     \* pixels of each category in the validation split
  first,     \* the untrained model
  champion,  \* champion_model_id
  retention, \* RetentionMetricPolicy
  scores,    \* scores[s][o]: score of object o after stage s
  verdict    \* decision of the retention receipt, or "NONE"

vars == <<policy, truth, first, champion, retention, scores, verdict>>

-----------------------------------------------------------------------------
(* evaluate_models *)

Rate(n, d) == <<n, d>>
Measured(f) == f[2] # 0
Exceeds(f, g) == f[1] * g[2] > g[1] * f[2]
Minus(f, g) == <<f[1] * g[2] - g[1] * f[2], f[2] * g[2]>>

\* _pixel_counts of a prediction in one category.
Counts(model, c) ==
  [tp |-> model[c].tp, fp |-> model[c].fp,
   fn |-> truth[c].pos - model[c].tp, tn |-> truth[c].neg - model[c].fp]

\* The pixels of all categories together, f[c] of them in category c.
PixelsOf(f) == Cardinality({p \in Categories \X (1 .. MaxPixels) : p[2] <= f[p[1]]})

\* total_counts
Total(model) ==
  [tp |-> PixelsOf([c \in Categories |-> Counts(model, c).tp]),
   fp |-> PixelsOf([c \in Categories |-> Counts(model, c).fp]),
   fn |-> PixelsOf([c \in Categories |-> Counts(model, c).fn]),
   tn |-> PixelsOf([c \in Categories |-> Counts(model, c).tn])]

\* _metrics
Dice(k) == Rate(2 * k.tp, 2 * k.tp + k.fp + k.fn)
FalseNegativeRate(k) == Rate(k.fn, k.tp + k.fn)
FalsePositiveRate(k) == Rate(k.fp, k.fp + k.tn)

\* _unmeasured_blockers
AllMeasured(k) == Measured(Dice(k)) /\ Measured(FalseNegativeRate(k)) /\ Measured(FalsePositiveRate(k))

\* Mutant of Gains: only the configured minimum counts.
GainsEnough(candidate, baseline) == ~Exceeds(policy.minGain, Minus(candidate, baseline))

\* INSUFFICIENT_DICE_GAIN: more than nothing and at least the minimum.
Gains(candidate, baseline) ==
  LET gain == Minus(candidate, baseline)
  IN gain[1] > 0 /\ ~Exceeds(policy.minGain, gain)

\* Mutant of Regresses: the baseline is compared with the limit itself.
RegressesBelow(candidate, baseline) == Exceeds(policy.regression, candidate)

\* CATEGORY_DICE_REGRESSION
Regresses(candidate, baseline) == Exceeds(Minus(baseline, candidate), policy.regression)

\* Mutant of Eligible: what could not be measured does not block.
EligibleUnmeasured(model, baseline) ==
  LET k == Total(model) b == Total(baseline)
  IN /\ ~Exceeds(FalseNegativeRate(k), policy.fnr) /\ ~Exceeds(FalsePositiveRate(k), policy.fpr)
     /\ ~Exceeds(policy.minDice, Dice(k))
     /\ Gains(Dice(k), Dice(b))
     /\ \A c \in Categories : ~Regresses(Dice(Counts(model, c)), Dice(Counts(baseline, c)))

\* decision = "ELIGIBLE": no blocker (the latency budget is left out).
Eligible(model, baseline) ==
  LET k == Total(model) b == Total(baseline)
  IN /\ AllMeasured(k) /\ AllMeasured(b)
     /\ ~Exceeds(FalseNegativeRate(k), policy.fnr) /\ ~Exceeds(FalsePositiveRate(k), policy.fpr)
     /\ ~Exceeds(policy.minDice, Dice(k))
     /\ Gains(Dice(k), Dice(b))
     /\ \A c \in Categories :
          /\ AllMeasured(Counts(model, c)) /\ AllMeasured(Counts(baseline, c))
          /\ ~Regresses(Dice(Counts(model, c)), Dice(Counts(baseline, c)))

Predictions == {m \in [Categories -> [tp : 0 .. MaxPixels, fp : 0 .. MaxPixels]] :
                  \A c \in Categories : m[c].tp <= truth[c].pos /\ m[c].fp <= truth[c].neg}

\* initial_model: every pixel has probability one half, so it marks all or none.
InitialModels == {[c \in Categories |-> [tp |-> truth[c].pos, fp |-> truth[c].neg]],
                  [c \in Categories |-> [tp |-> 0, fp |-> 0]]}

\* A candidate is trained from the champion, evaluated against it and approved.
ApproveRound(m) ==
  /\ verdict = "NONE" /\ Eligible(m, champion)
  /\ champion' = m
  /\ UNCHANGED <<policy, truth, first, retention, scores, verdict>>

-----------------------------------------------------------------------------
(* evaluate_continual_retention, for one metric *)

Stages == 1 .. Len(scores)
Prior == 1 .. Len(scores) - 1
\* Object o is trained in stage o and measured from then on.
History(m, o) == {m[s][o] : s \in o .. Len(scores)}
Final(m, o) == m[Len(scores)][o]

\* Mutant of Forgetting: what was lost since the object was trained.
ForgettingSinceTrained(m, o) == IF m[o][o] > Final(m, o) THEN m[o][o] - Final(m, o) ELSE 0

\* _forgetting, HIGHER_IS_BETTER: what was lost since the best stage.
Forgetting(m, o) == Max(History(m, o)) - Final(m, o)

\* Mutant of ForgettingLower: the best score of a loss is its highest.
ForgettingLowerFlipped(m, o) == Max(History(m, o)) - Final(m, o)

\* _forgetting, LOWER_IS_BETTER.
ForgettingLower(m, o) == Final(m, o) - Min(History(m, o))

SumOver(f, S) == MapThenSumSet(LAMBDA o : f[o], S)

\* No blocker of a metric: lost[o] is what was forgotten of object o, and
\* failing are the objects beyond their final limit.
Retained(lost, failing) ==
  /\ failing = {}
  /\ SumOver(lost, Prior) <= retention.average * Cardinality(Prior)
  /\ \A o \in Prior : lost[o] <= retention.worst

RetainedHigher(m) ==
  Retained([o \in Stages |-> Forgetting(m, o)], {o \in Stages : Final(m, o) < retention.limit})
RetainedLower(m) ==
  Retained([o \in Stages |-> ForgettingLower(m, o)],
           {o \in Stages : Final(m, o) > MaxScore - retention.limit})

EvaluateRetention ==
  /\ verdict = "NONE"
  /\ verdict' = IF RetainedHigher(scores) THEN "ELIGIBLE_FOR_SANDBOX_REVIEW"
                ELSE "HOLD_CATASTROPHIC_FORGETTING"
  /\ UNCHANGED <<policy, truth, first, champion, retention, scores>>

-----------------------------------------------------------------------------

Init ==
  /\ policy \in Policies
  /\ truth \in [Categories -> [pos : 0 .. MaxPixels, neg : 0 .. MaxPixels]]
  /\ first \in InitialModels
  /\ champion = first
  /\ retention \in Retentions
  /\ scores \in {m \in [1 .. 3 -> [1 .. 3 -> 0 .. MaxScore]] :
                   \A s \in 1 .. 3, o \in 1 .. 3 : s < o => m[s][o] = 0}
  /\ verdict = "NONE"

Next == EvaluateRetention \/ \E m \in Predictions : ApproveRound(m)

Spec == Init /\ [][Next]_vars

-----------------------------------------------------------------------------
(* Properties *)

\* evaluate_models: the champions of a cycle get strictly better on the frozen
\* validation split, so no sequence of approvals returns to an earlier model.
Improves == champion' # champion => Exceeds(Dice(Total(champion')), Dice(Total(champion)))
ChampionsImprove == [][Improves]_vars

\* The same verdict says what it does not see: an aggregate improves while a
\* category is lost only as far as the policy allows.  With a regression limit
\* of zero no category is ever worse than under the untrained model, however
\* many rounds were approved.
NoCategoryIsTraded ==
  policy.regression[1] = 0 =>
    \A c \in Categories : champion # first =>
      ~Exceeds(Dice(Counts(first, c)), Dice(Counts(champion, c)))

\* METRIC_NOT_MEASURED: nothing is approved on a split where some category has
\* no positive or no negative pixels.
UnmeasuredIsHeld ==
  champion # first => \A c \in Categories : truth[c].pos > 0 /\ truth[c].neg > 0

\* evaluate_continual_retention: a drop of an earlier object from any stage at
\* which it was measured, larger than the limit, is never let through by a good
\* average or a good start.
NoPeakIsForgotten ==
  verdict = "ELIGIBLE_FOR_SANDBOX_REVIEW" =>
    \A o \in Prior : \A s \in o .. Len(scores) : scores[s][o] - Final(scores, o) <= retention.worst

\* The two directions agree: a metric and its mirror image get one verdict.
DirectionsAgree ==
  verdict # "NONE" =>
    (verdict = "ELIGIBLE_FOR_SANDBOX_REVIEW"
       <=> RetainedLower([s \in Stages |-> [o \in Stages |-> MaxScore - scores[s][o]]]))
=============================================================================
