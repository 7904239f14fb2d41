------------------------------- MODULE Threshold -------------------------------
(* How the confidence cutoff is chosen offline and used online.               *)
(* ml/thresholds.py scans the candidates 0.50, 0.51 .. 0.99 on the validation *)
(* split; ml/evaluate.py gates a model at the chosen one; the gateway flags a *)
(* pull request with it (model/inference.py, webhook.go).  Candidates are in  *)
(* hundredths and probabilities in thousandths, so that a probability can lie *)
(* on a candidate and between two; precisions are compared as fractions.      *)
EXTENDS Integers, FiniteSets, FiniteSetsExt

CONSTANTS Samples,  \* the labelled pull requests
          Probs,    \* the SLOP probabilities they can have, in thousandths
          Bar       \* PRECISION_BAR, in hundredths

ASSUME ThresholdAssumption ==
  IsFiniteSet(Samples) /\ Probs \subseteq 0 .. 1000 /\ Bar \in 1 .. 100

VARIABLES prob,   \* sample -> its SLOP probability
          truth,  \* the samples labelled SLOP
          t,      \* the candidate under consideration
          best,   \* best_clearing, 0 for None
          most    \* most_precise: a candidate, 0 for None

vars == <<prob, truth, t, best, most>>

Candidates == 50 .. 99

(* pred = slop_probs >= t, and the counts made from it. *)
Flagged(c) == {s \in Samples : prob[s] >= 10 * c}
TP(F) == Cardinality(F \intersect truth)
FP(F) == Cardinality(F \ truth)

Clears(F) == 100 * TP(F) >= Bar * (TP(F) + FP(F))

MorePrecise(c, d) ==
  TP(Flagged(c)) * Cardinality(Flagged(d)) > TP(Flagged(d)) * Cardinality(Flagged(c))

Init == /\ prob \in [Samples -> Probs]
        /\ truth \in SUBSET Samples
        /\ t = 50
        /\ best = 0
        /\ most = 0

(* Mutant of TakesBest: a later candidate replaces an earlier one. *)
TakesBestLast == Clears(Flagged(t))

TakesBest == Clears(Flagged(t)) /\ best = 0

(* One turn of the loop; a cutoff that flags nothing is passed over. *)
Consider == /\ t \in Candidates /\ Flagged(t) # {}
            /\ most' = IF most = 0 \/ MorePrecise(t, most) THEN t ELSE most
            /\ best' = IF TakesBest THEN t ELSE best
            /\ t' = t + 1
            /\ UNCHANGED <<prob, truth>>

PassOver == /\ t \in Candidates /\ Flagged(t) = {}
            /\ t' = t + 1
            /\ UNCHANGED <<prob, truth, best, most>>

Next == Consider \/ PassOver

Spec == Init /\ [][Next]_vars

Scanned == t \notin Candidates

(* What select_threshold returns: a candidate, or 0.99 when none ever flags.  *)
Selected == IF best # 0 THEN best ELSE IF most # 0 THEN most ELSE 99

(* Mutant of GatePasses: a model that flags nothing has a perfect precision.  *)
GatePassesEmpty(c) == Clears(Flagged(c))

(* evaluate.py at cutoff c: the precision of nothing flagged counts as 0.     *)
GatePasses(c) == Flagged(c) # {} /\ Clears(Flagged(c))

(* predict: argmax (a tie is LEGIT) and the probability of the class; the     *)
(* gateway acts on slop whose confidence is not below the threshold.          *)
IsSlop(s) == prob[s] > 1000 - prob[s]
Confidence(s) == IF IsSlop(s) THEN prob[s] ELSE 1000 - prob[s]

(* Mutant of GatewayFlags: the verdict is not looked at. *)
GatewayFlagsConfident(c) == {s \in Samples : Confidence(s) >= 10 * c}

GatewayFlags(c) == {s \in Samples : IsSlop(s) /\ Confidence(s) >= 10 * c}
-----------------------------------------------------------------------------
(* "Pick the LOWEST threshold whose SLOP precision on validation clears bar": *)
(* the scan returns the least clearing candidate, and so the one that flags   *)
(* the most; without any, the least of the most precise ones.                 *)
SelectsLowestClearing ==
  Scanned =>
    LET flagging == {c \in Candidates : Flagged(c) # {}}
        clearing == {c \in flagging : Clears(Flagged(c))}
        precise == {c \in flagging : \A d \in flagging : ~ MorePrecise(d, c)}
    IN  Selected = IF clearing # {} THEN Min(clearing)
                   ELSE IF precise # {} THEN Min(precise) ELSE 99

(* A cutoff that did not clear the bar does not get past the gate on the same *)
(* data, whatever the fallback chose ("so the caller still gates honestly").  *)
GateIsHonest == Scanned => (GatePasses(Selected) <=> best # 0)

(* "Applying the same data-chosen threshold the model service will use": at   *)
(* every candidate the gateway flags what evaluate.py counted as flagged,     *)
(* except a probability of exactly one half at a cutoff of exactly one half.  *)
ServedAsEvaluated ==
  \A c \in Candidates :
    GatewayFlags(c) = Flagged(c) \ {s \in Samples : prob[s] = 500 /\ c = 50}
=============================================================================
