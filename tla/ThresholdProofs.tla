---------------------------- MODULE ThresholdProofs ----------------------------
(* Theorems about the choice of the cutoff, for any samples, any              *)
(* probabilities and any bar.                                                 *)
EXTENDS Threshold, FiniteSetTheorems, TLAPS

(* Fractions are compared by cross-multiplication; this is their order.       *)
LEMMA Scaled ==
  ASSUME NEW x \in Nat, NEW y \in Nat, NEW k \in Nat, k > 0
  PROVE  /\ x > y <=> x * k > y * k
         /\ x <= y <=> x * k <= y * k
  BY SMTT(30)

LEMMA FractionOrder ==
  ASSUME NEW a \in Nat, NEW b \in Nat, NEW c \in Nat, NEW d \in Nat, NEW e \in Nat, NEW f \in Nat,
         b > 0, d > 0, f > 0,
         a * d > c * b,   \* a/b > c/d
         e * d <= c * f   \* e/f <= c/d
  PROVE  a * f > e * b
<1>1. (a * d) * f > (c * b) * f
  <2>1. a * d \in Nat /\ c * b \in Nat
    OBVIOUS
  <2> QED
    BY <2>1, Scaled
<1>2. (e * d) * b <= (c * f) * b
  <2>1. e * d \in Nat /\ c * f \in Nat
    OBVIOUS
  <2> QED
    BY <2>1, Scaled
<1>3. (a * d) * f = (a * f) * d /\ (c * b) * f = (c * f) * b /\ (e * d) * b = (e * b) * d
  BY SMTT(30)
<1>4. (a * f) * d > (e * b) * d
  <2> DEFINE u == (a * d) * f
             v == (c * f) * b
             w == (e * b) * d
  <2>1. u \in Nat /\ v \in Nat /\ w \in Nat
    OBVIOUS
  <2>2. u > v /\ w <= v
    BY <1>1, <1>2, <1>3
  <2> HIDE DEF u, v, w
  <2>3. u > w
    BY <2>1, <2>2
  <2> QED
    BY <1>3, <2>3 DEF u, w
<1>5. a * f \in Nat /\ e * b \in Nat
  OBVIOUS
<1> QED
  BY <1>4, <1>5, Scaled
-----------------------------------------------------------------------------
Flags(c) == Flagged(c) # {}

(* What the scan has found among the candidates before t: the least clearing  *)
(* one, and the least of the most precise ones.                               *)
Typed ==
  /\ prob \in [Samples -> Probs] /\ truth \subseteq Samples
  /\ t \in 50 .. 100
  /\ best \in {0} \union {c \in Candidates : c < t}
  /\ most \in {0} \union {c \in Candidates : c < t}

BestFound ==
  /\ best # 0 => Flags(best) /\ Clears(Flagged(best))
  /\ \A c \in Candidates :
       c < t /\ (best = 0 \/ c < best) /\ Flags(c) => ~ Clears(Flagged(c))

MostFound ==
  /\ most # 0 => Flags(most)
  /\ \A c \in Candidates :
       c < t /\ Flags(c) =>
         /\ most # 0
         /\ ~ MorePrecise(c, most)
         /\ c < most => MorePrecise(most, c)

IInv == Typed /\ BestFound /\ MostFound

(* The counts of a cutoff. *)
LEMMA CountsOf ==
  ASSUME Typed, NEW c \in Candidates
  PROVE  /\ TP(Flagged(c)) \in Nat /\ Cardinality(Flagged(c)) \in Nat
         /\ Flags(c) => Cardinality(Flagged(c)) > 0
<1>1. IsFiniteSet(Flagged(c)) /\ IsFiniteSet(Flagged(c) \intersect truth)
  BY ThresholdAssumption, FS_Subset DEF Flagged
<1> QED
  BY <1>1, FS_CardinalityType, FS_EmptySet DEF TP, Flags

(* To be more precise is a strict order in which what is not below is above.  *)
LEMMA PreciseOrder ==
  ASSUME Typed, NEW c \in Candidates, NEW d \in Candidates, NEW e \in Candidates,
         Flags(c), Flags(d), Flags(e), MorePrecise(c, d), ~ MorePrecise(e, d)
  PROVE  MorePrecise(c, e) /\ ~ MorePrecise(e, c)
<1>1. PICK a \in Nat, b \in Nat : a = TP(Flagged(c)) /\ b = Cardinality(Flagged(c)) /\ b > 0
  BY CountsOf
<1>2. PICK g \in Nat, h \in Nat : g = TP(Flagged(d)) /\ h = Cardinality(Flagged(d)) /\ h > 0
  BY CountsOf
<1>3. PICK i \in Nat, j \in Nat : i = TP(Flagged(e)) /\ j = Cardinality(Flagged(e)) /\ j > 0
  BY CountsOf
<1>4. a * h > g * b /\ ~ (i * h > g * j) /\ i * h \in Nat /\ g * j \in Nat
  BY <1>1, <1>2, <1>3 DEF MorePrecise
<1>5. i * h <= g * j
  BY <1>4
<1>6. a * j > i * b
  BY <1>1, <1>2, <1>3, <1>4, <1>5, FractionOrder
<1>7. ~ (i * b > a * j)
  <2>1. a * j \in Nat /\ i * b \in Nat
    OBVIOUS
  <2> QED
    BY <1>6, <2>1
<1> QED
  BY <1>1, <1>3, <1>6, <1>7 DEF MorePrecise

(* One turn of the loop. *)
LEMMA ConsiderIInv ==
  ASSUME IInv, Consider
  PROVE  IInv'
<1> USE DEF IInv
<1>1. /\ t \in Candidates /\ Flags(t) /\ t \in Nat
      /\ \A c \in Candidates : c < t + 1 <=> c < t \/ c = t
  BY DEF Consider, Flags, Candidates
<1>2. /\ \A c : Flagged(c)' = Flagged(c) /\ (Flags(c)' <=> Flags(c))
      /\ \A F : Clears(F)' <=> Clears(F)
      /\ \A c, d : MorePrecise(c, d)' <=> MorePrecise(c, d)
      /\ t' = t + 1
  BY DEF Consider, Flagged, Flags, Clears, TP, FP, MorePrecise
<1>3. Typed'
  BY <1>1 DEF Consider, Typed, Candidates
<1>4. BestFound'
  BY <1>1, <1>2 DEF Consider, BestFound, Typed, TakesBest, Candidates
<1>5. MostFound'
  <2>1. CASE most = 0
    <3>1. most' = t /\ \A c \in Candidates : c < t => ~ Flags(c)
      BY <2>1 DEF Consider, MostFound
    <3>2. ~ MorePrecise(t, t)
      <4>1. TP(Flagged(t)) * Cardinality(Flagged(t)) \in Nat
        BY <1>1, CountsOf
      <4> QED
        BY <4>1 DEF MorePrecise
    <3> QED
      BY <1>1, <1>2, <3>1, <3>2 DEF MostFound, Candidates
  <2>2. CASE most # 0 /\ MorePrecise(t, most)
    <3>1. most' = t /\ most \in Candidates /\ Flags(most) /\ t # 0
      BY <1>1, <2>2 DEF Consider, MostFound, Typed, Candidates
    <3>2. ASSUME NEW c \in Candidates, c < t, Flags(c)
          PROVE  MorePrecise(t, c) /\ ~ MorePrecise(c, t)
      BY <1>1, <2>2, <3>1, <3>2, PreciseOrder DEF MostFound
    <3>3. ~ MorePrecise(t, t)
      <4>1. TP(Flagged(t)) * Cardinality(Flagged(t)) \in Nat
        BY <1>1, CountsOf
      <4> QED
        BY <4>1 DEF MorePrecise
    <3> QED
      BY <1>1, <1>2, <3>1, <3>2, <3>3 DEF MostFound, Candidates
  <2>3. CASE most # 0 /\ ~ MorePrecise(t, most)
    <3>1. most' = most /\ most \in Nat /\ most < t
      BY <2>3 DEF Consider, Typed, Candidates
    <3> QED
      BY <1>1, <1>2, <2>3, <3>1 DEF MostFound, Candidates
  <2> QED
    BY <2>1, <2>2, <2>3
<1> QED
  BY <1>3, <1>4, <1>5

LEMMA PassOverIInv ==
  ASSUME IInv, PassOver
  PROVE  IInv'
<1>1. /\ t \in Candidates /\ ~ Flags(t) /\ t \in Nat /\ t' = t + 1
      /\ \A c \in Candidates : c < t + 1 <=> c < t \/ c = t
  BY DEF PassOver, Flags, Candidates
<1>2. /\ \A c : Flagged(c)' = Flagged(c) /\ (Flags(c)' <=> Flags(c))
      /\ \A F : Clears(F)' <=> Clears(F)
      /\ \A c, d : MorePrecise(c, d)' <=> MorePrecise(c, d)
      /\ UNCHANGED <<best, most>>
  BY DEF PassOver, Flagged, Flags, Clears, TP, FP, MorePrecise
<1>3. Typed'
  BY <1>1 DEF PassOver, IInv, Typed, Candidates
<1> QED
  BY <1>1, <1>2, <1>3 DEF IInv, BestFound, MostFound

(* In every state the scan has found the least clearing and the least of the  *)
(* most precise candidates it passed (thresholds.py:36-63).                   *)
THEOREM ThresholdInvariant == Spec => []IInv
<1>1. Init => IInv
  BY DEF Init, IInv, Typed, BestFound, MostFound, Candidates
<1>2. IInv /\ [Next]_vars => IInv'
  <2>1. IInv /\ UNCHANGED vars => IInv'
    BY DEF IInv, Typed, BestFound, MostFound, vars, Flags, Flagged, Clears, TP, FP, MorePrecise
  <2> QED
    BY <2>1, ConsiderIInv, PassOverIInv DEF Next
<1> QED
  BY <1>1, <1>2, PTL DEF Spec

(* At the end nothing is left to scan. *)
LEMMA ScannedAll ==
  ASSUME IInv, Scanned
  PROVE  \A c \in Candidates : c < t
  BY DEF IInv, Typed, Scanned, Candidates

(* Min by what is least. *)
LEMMA LeastOf ==
  ASSUME NEW S \in SUBSET Candidates, NEW m \in S, \A c \in S : ~ (c < m)
  PROVE  Min(S) = m
<1>1. \A c \in S : c \in Int
  BY DEF Candidates
<1>2. (\A c \in S : m <= c) /\ \A n \in S : (\A c \in S : n <= c) => n = m
  BY <1>1
<1> QED
  BY <1>2 DEF Min

(* The scan returns the least candidate that clears the bar, or the least of  *)
(* the most precise, or 0.99 (thresholds.py:36-63).                           *)
THEOREM ThresholdSelectsLowestClearing == Spec => []SelectsLowestClearing
<1>1. IInv => SelectsLowestClearing
  <2> SUFFICES ASSUME IInv, Scanned PROVE SelectsLowestClearing
    BY DEF SelectsLowestClearing
  <2> DEFINE flagging == {c \in Candidates : Flagged(c) # {}}
             clearing == {c \in flagging : Clears(Flagged(c))}
             precise == {c \in flagging : \A d \in flagging : ~ MorePrecise(d, c)}
  <2>1. \A c \in Candidates : c < t
    BY ScannedAll
  <2>2. CASE best # 0
    <3>1. best \in clearing /\ \A c \in clearing : ~ (c < best)
      BY <2>1, <2>2 DEF IInv, Typed, BestFound, Flags
    <3>2. clearing \in SUBSET Candidates
      OBVIOUS
    <3>3. Min(clearing) = best
      BY <3>1, <3>2, LeastOf
    <3> QED
      BY <2>2, <3>1, <3>3 DEF SelectsLowestClearing, Selected
  <2>3. CASE best = 0
    <3>1. clearing = {}
      BY <2>1, <2>3 DEF IInv, BestFound, Flags
    <3>2. CASE most # 0
      <4>1. most \in precise /\ \A c \in precise : ~ (c < most)
        BY <2>1, <3>2 DEF IInv, Typed, MostFound, Flags
      <4>2. precise \in SUBSET Candidates
        OBVIOUS
      <4>3. Min(precise) = most
        BY <4>1, <4>2, LeastOf
      <4> QED
        BY <2>3, <3>1, <3>2, <4>1, <4>3 DEF SelectsLowestClearing, Selected
    <3>3. CASE most = 0
      <4>1. flagging = {}
        BY <2>1, <3>3 DEF IInv, MostFound, Flags
      <4> QED
        BY <2>3, <3>1, <3>3, <4>1 DEF SelectsLowestClearing, Selected
    <3> QED
      BY <3>2, <3>3
  <2> QED
    BY <2>2, <2>3
<1> QED
  BY <1>1, ThresholdInvariant, PTL

(* A cutoff that was only a fallback does not get past the gate on the data   *)
(* it was chosen on (thresholds.py:57-63, evaluate.py).                       *)
THEOREM ThresholdGateIsHonest == Spec => []GateIsHonest
<1>1. IInv => GateIsHonest
  <2> SUFFICES ASSUME IInv, Scanned PROVE GatePasses(Selected) <=> best # 0
    BY DEF GateIsHonest
  <2>1. \A c \in Candidates : c < t
    BY ScannedAll
  <2>2. CASE best # 0
    BY <2>2 DEF IInv, BestFound, Selected, GatePasses, Flags
  <2>3. CASE best = 0 /\ most # 0
    BY <2>1, <2>3 DEF IInv, Typed, BestFound, Selected, GatePasses, Flags
  <2>4. CASE best = 0 /\ most = 0
    <3>1. 99 \in Candidates
      BY DEF Candidates
    <3> QED
      BY <2>1, <2>4, <3>1 DEF IInv, MostFound, Selected, GatePasses, Flags
  <2> QED
    BY <2>2, <2>3, <2>4
<1> QED
  BY <1>1, ThresholdInvariant, PTL

(* The gateway flags what the evaluation counted as flagged, but for the tie  *)
(* at one half (inference.py, webhook.go:361-366, evaluate.py).               *)
THEOREM ThresholdServedAsEvaluated == Spec => []ServedAsEvaluated
<1>1. IInv => ServedAsEvaluated
  <2> SUFFICES ASSUME IInv, NEW c \in Candidates, NEW s \in Samples
               PROVE  s \in GatewayFlags(c) <=>
                        s \in Flagged(c) /\ ~ (prob[s] = 500 /\ c = 50)
    BY DEF ServedAsEvaluated, GatewayFlags, Flagged
  <2>1. prob[s] \in Probs
    BY DEF IInv, Typed
  <2>2. PICK p \in 0 .. 1000 : p = prob[s]
    BY <2>1, ThresholdAssumption
  <2>3. PICK k \in 50 .. 99 : k = c
    BY DEF Candidates
  <2>4. s \in Flagged(c) <=> p >= 10 * k
    BY <2>2, <2>3 DEF Flagged
  <2>5. s \in GatewayFlags(c) <=> p > 1000 - p /\ p >= 10 * k
    BY <2>2, <2>3 DEF GatewayFlags, IsSlop, Confidence
  <2>6. p > 1000 - p /\ p >= 10 * k <=> p >= 10 * k /\ ~ (p = 500 /\ k = 50)
    OBVIOUS
  <2> QED
    BY <2>2, <2>3, <2>4, <2>5, <2>6
<1> QED
  BY <1>1, ThresholdInvariant, PTL
=============================================================================
