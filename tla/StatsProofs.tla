------------------------------ MODULE StatsProofs ------------------------------
(* Theorems about the lock-free counters, for any number of runs, durations   *)
(* and snapshots.                                                             *)
EXTENDS Stats, FiniteSetTheorems, TLAPS

CountersTyped ==
  /\ at \in [Triages -> {"sum", "count", "load", "cas", "triaged", "flagged", "skipped",
                         "done", "failed"}]
  /\ nanos \in [Triages -> Nanos]
  /\ cur \in [Triages -> Nat]
  /\ ctr \in [Fields -> Nat]

(* A run is about to swap only if it loaded a smaller maximum than its own    *)
(* duration: what a swap that goes through replaces.                          *)
SwapRaises == \A t \in Triages : at[t] = "cas" => cur[t] < nanos[t]

MaxInv == CountersTyped /\ SwapRaises /\ MaxIsMax

(* Adding to another counter leaves the maximum alone.                        *)
LEMMA BumpKeepsMax ==
  ASSUME MaxInv, NEW t \in Triages, NEW f \in Fields \ {"max"}, NEW n \in Nat,
         NEW next \in {"count", "load", "flagged", "skipped", "done", "failed"},
         Bump(t, f, n, next),
         next \in {"flagged", "skipped", "done"} => at[t] \in {"triaged", "flagged", "skipped"}
  PROVE  MaxInv'
<1> USE DEF Bump
<1>1. CountersTyped'
  <2>1. ctr[f] + n \in Nat
    BY DEF MaxInv, CountersTyped
  <2> QED
    BY <2>1 DEF MaxInv, CountersTyped
<1>2. ctr'["max"] = ctr["max"] /\ nanos' = nanos /\ cur' = cur
  BY DEF MaxInv, CountersTyped
<1>3. PastMax' \subseteq PastMax
  BY DEF MaxInv, CountersTyped, PastMax
<1>4. SwapRaises'
  BY DEF MaxInv, CountersTyped, SwapRaises
<1> QED
  BY <1>1, <1>2, <1>3, <1>4 DEF MaxInv, MaxIsMax

LEMMA ObserveKeepsMax ==
  ASSUME MaxInv, NEW t \in Triages, Observe(t)
  PROVE  MaxInv'
<1> USE DEF MaxInv
<1>1. nanos[t] \in Nat
  BY StatsAssumption DEF CountersTyped
<1>2. CASE AddReceived(t)
  <2>1. ctr'["max"] = ctr["max"] /\ ctr' \in [Fields -> Nat]
    BY <1>2 DEF AddReceived, CountersTyped, Fields
  <2> QED
    BY <1>2, <2>1 DEF AddReceived, CountersTyped, SwapRaises, MaxIsMax, PastMax
<1>3. CASE AddFailed(t) \/ AddSum(t) \/ AddCount(t) \/ AddTriaged(t) \/ AddVerdict(t)
  BY <1>1, <1>3, BumpKeepsMax
     DEF AddFailed, AddSum, AddCount, AddTriaged, AddVerdict, Fields
<1>4. CASE LoadMax(t)
  <2>1. ctr["max"] \in Nat /\ (nanos[t] <= ctr["max"] \/ ctr["max"] < nanos[t])
    BY <1>1 DEF CountersTyped, Fields
  <2>2. CountersTyped'
    BY <1>4, <2>1 DEF LoadMax, CountersTyped
  <2>3. SwapRaises'
    BY <1>4, <2>1 DEF LoadMax, CountersTyped, SwapRaises
  <2>4. MaxIsMax'
    BY <1>4 DEF LoadMax, CountersTyped, MaxIsMax, PastMax
  <2> QED
    BY <2>2, <2>3, <2>4
<1>5. CASE SwapMax(t)
  <2>1. ctr["max"] \in Nat /\ cur[t] < nanos[t] /\ \A u \in Triages : nanos[u] \in Nat
    BY <1>5, StatsAssumption DEF SwapMax, CountersTyped, Fields, SwapRaises
  <2>2. CountersTyped'
    BY <1>1, <1>5, <2>1 DEF SwapMax, AfterLostSwap, CountersTyped
  <2>3. SwapRaises'
    BY <1>5 DEF SwapMax, AfterLostSwap, CountersTyped, SwapRaises
  <2>4. CASE SwapSucceeds(t)
    <3>1. ctr'["max"] = nanos[t] /\ ctr["max"] < nanos[t] /\ nanos' = nanos
      BY <1>5, <2>1, <2>4 DEF SwapMax, SwapSucceeds, CountersTyped, Fields
    <3>2. PastMax' = PastMax \union {t}
      BY <1>5, <2>4 DEF SwapMax, CountersTyped, PastMax
    <3>3. \A u \in PastMax : nanos[u] \in Nat /\ nanos[u] <= ctr["max"]
      BY <2>1 DEF MaxIsMax, PastMax
    <3>4. \A u \in PastMax' : nanos[u] <= nanos[t]
      BY <1>1, <2>1, <3>1, <3>2, <3>3
    <3> QED
      BY <2>2, <2>3, <3>1, <3>4 DEF MaxIsMax
  <2>5. CASE ~ SwapSucceeds(t)
    <3>1. ctr'["max"] = ctr["max"] /\ nanos' = nanos /\ PastMax' \subseteq PastMax
      BY <1>5, <2>5 DEF SwapMax, AfterLostSwap, CountersTyped, PastMax
    <3> QED
      BY <2>2, <2>3, <3>1 DEF MaxIsMax
  <2> QED
    BY <2>4, <2>5
<1> QED
  BY <1>2, <1>3, <1>4, <1>5 DEF Observe

(* The maximum and what the loads and swaps are about, in every behaviour.    *)
THEOREM StatsMaxInvariant == Spec => []MaxInv
<1>1. Init => MaxInv
  <2>1. Init => Zero["max"] = 0 /\ Zero \in [Fields -> Nat]
    BY DEF Zero, Fields
  <2> QED
    BY <2>1 DEF Init, MaxInv, CountersTyped, SwapRaises, MaxIsMax, PastMax
<1>2. MaxInv /\ [Next]_vars => MaxInv'
  <2> SUFFICES ASSUME MaxInv, [Next]_vars PROVE MaxInv'
    OBVIOUS
  <2>1. CASE BeginSnapshot \/ Load \/ UNCHANGED vars
    BY <2>1 DEF BeginSnapshot, Load, vars, MaxInv, CountersTyped, SwapRaises, MaxIsMax, PastMax
  <2> QED
    BY <2>1, ObserveKeepsMax DEF Next
<1> QED
  BY <1>1, <1>2, PTL DEF Spec

(* However the loads and swaps of any number of runs interleave, the maximum  *)
(* is that of some run and no run past the loop had a longer one              *)
(* (stats.go:46-58).                                                          *)
THEOREM StatsMaxIsMax == Spec => []MaxIsMax
<1>1. MaxInv => MaxIsMax
  BY DEF MaxInv
<1> QED
  BY <1>1, StatsMaxInvariant, PTL
-----------------------------------------------------------------------------
(* The snapshot. *)

(* m is the total duration of every set of runs: what a sum over finite sets  *)
(* is, said without the recursion that computes it.                           *)
Total(m) == /\ m \in [SUBSET Triages -> Nat]
            /\ \A t \in Triages : m[{t}] = nanos[t]
            /\ \A S, T \in SUBSET Triages : S \intersect T = {} => m[S \union T] = m[S] + m[T]

(* The runs the sum has, and those of them the count has. *)
Summed == {t \in Triages : at[t] \notin {"sum", "failed"}}
CountedIn == {t \in Triages : at[t] \notin {"sum", "failed", "count"}}

(* What the snapshot has read of the count is the number of some runs that    *)
(* the sum has, and what it has read of the sum is as much as they took.      *)
Read == /\ readAt \in 0 .. 8
        /\ readAt >= 1 /\ snaps > 0 =>
             \E T \in SUBSET Summed :
               /\ Cardinality(T) = snap["count"]
               /\ readAt >= 2 => \A m : Total(m) => m[T] <= snap["sum"]

SumInv == /\ \A m : Total(m) => ctr["sum"] = m[Summed]
          /\ ctr["count"] = Cardinality(CountedIn)
          /\ snap \in [Fields -> Nat] /\ snaps \in Nat
          /\ Read

(* More runs have taken longer. *)
LEMMA TotalGrows ==
  ASSUME NEW m, Total(m), NEW S \in SUBSET Triages, NEW T \in SUBSET S
  PROVE  m[T] <= m[S] /\ m[T] \in Nat /\ m[S] \in Nat
<1>1. /\ T \in SUBSET Triages /\ S \ T \in SUBSET Triages
      /\ T \intersect (S \ T) = {} /\ T \union (S \ T) = S
  OBVIOUS
<1>2. m[S] = m[T] + m[S \ T] /\ m[S] \in Nat /\ m[T] \in Nat /\ m[S \ T] \in Nat
  BY <1>1 DEF Total
<1> QED
  BY <1>2

(* A run more, and its time more. *)
LEMMA TotalOfOneMore ==
  ASSUME NEW m, Total(m), NEW S \in SUBSET Triages, NEW t \in Triages \ S
  PROVE  m[S \union {t}] = m[S] + nanos[t]
<1>1. {t} \in SUBSET Triages /\ S \intersect {t} = {}
  OBVIOUS
<1> QED
  BY <1>1 DEF Total

(* The loads, in the order of Snapshot. *)
LEMMA ReadsAre ==
  Len(Reads) = 8 /\ Reads[1] = "count" /\ Reads[2] = "sum"
    /\ \A i \in 3 .. 8 : Reads[i] \in Fields \ {"count", "sum"}
<1>1. Len(Reads) = 8 /\ Reads[1] = "count" /\ Reads[2] = "sum"
  BY DEF Reads, ReadOrder
<1>2. /\ Reads[3] = "received" /\ Reads[4] = "triaged" /\ Reads[5] = "flagged"
      /\ Reads[6] = "skipped" /\ Reads[7] = "failed" /\ Reads[8] = "max"
  BY DEF Reads, ReadOrder
<1>3. \A i \in 3 .. 8 : i = 3 \/ i = 4 \/ i = 5 \/ i = 6 \/ i = 7 \/ i = 8
  OBVIOUS
<1> QED
  BY <1>1, <1>2, <1>3 DEF Fields

(* What a run does leaves a snapshot that has been read as good as it was:    *)
(* no run leaves the sum.                                                     *)
LEMMA ReadStays ==
  ASSUME Read, Summed \subseteq Summed', UNCHANGED <<nanos, readAt, snap, snaps>>
  PROVE  Read'
<1>1. \A m : Total(m)' <=> Total(m)
  BY DEF Total
<1> QED
  BY <1>1 DEF Read

(* A run adds to the sum before it adds to the count, and to each once. *)
LEMMA ObserveSums ==
  ASSUME MaxInv, SumInv, NEW t \in Triages, Observe(t)
  PROVE  SumInv'
<1>1. /\ at \in [Triages -> {"sum", "count", "load", "cas", "triaged", "flagged", "skipped",
                             "done", "failed"}]
      /\ ctr \in [Fields -> Nat] /\ nanos[t] \in Nat /\ ctr["sum"] \in Nat /\ ctr["count"] \in Nat
  BY StatsAssumption DEF MaxInv, CountersTyped, Fields
<1>2. UNCHANGED <<nanos, readAt, snap, snaps>>
  BY DEF Observe, AddReceived, AddFailed, AddSum, AddCount, LoadMax, SwapMax, AddTriaged, AddVerdict, Bump
<1>3. \A m : Total(m)' <=> Total(m)
  BY <1>2 DEF Total
<1>4. IsFiniteSet(CountedIn)
  BY StatsAssumption, FS_Subset DEF CountedIn
<1>5. CASE AddSum(t)
  <2>1. /\ Summed' = Summed \union {t} /\ t \notin Summed /\ CountedIn' = CountedIn
        /\ ctr'["sum"] = ctr["sum"] + nanos[t] /\ ctr'["count"] = ctr["count"]
    BY <1>1, <1>5 DEF AddSum, Bump, Summed, CountedIn, Fields
  <2>2. ASSUME NEW m, Total(m) PROVE ctr'["sum"] = m[Summed']
    <3>1. Summed \in SUBSET Triages /\ t \in Triages \ Summed
      BY <2>1 DEF Summed
    <3> QED
      BY <2>1, <2>2, <3>1, TotalOfOneMore DEF SumInv
  <2>3. Read'
    BY <1>2, <2>1, ReadStays DEF SumInv
  <2> QED
    BY <1>2, <1>3, <2>1, <2>2, <2>3 DEF SumInv
<1>6. CASE AddCount(t)
  <2>1. /\ Summed' = Summed /\ CountedIn' = CountedIn \union {t} /\ t \notin CountedIn
        /\ ctr'["sum"] = ctr["sum"] /\ ctr'["count"] = ctr["count"] + 1
    BY <1>1, <1>6 DEF AddCount, Bump, Summed, CountedIn, Fields
  <2>2. Cardinality(CountedIn') = Cardinality(CountedIn) + 1
    BY <1>4, <2>1, FS_AddElement
  <2>3. Read'
    BY <1>2, <2>1, ReadStays DEF SumInv
  <2> QED
    BY <1>2, <1>3, <2>1, <2>2, <2>3 DEF SumInv
<1>7. CASE AddReceived(t) \/ AddFailed(t) \/ LoadMax(t) \/ SwapMax(t) \/ AddTriaged(t) \/ AddVerdict(t)
  <2>1. ctr'["sum"] = ctr["sum"] /\ ctr'["count"] = ctr["count"]
    BY <1>1, <1>7 DEF AddReceived, AddFailed, LoadMax, SwapMax, AddTriaged, AddVerdict, Bump, Fields
  <2>2. Summed' = Summed /\ CountedIn' = CountedIn
    BY <1>1, <1>7 DEF AddReceived, AddFailed, LoadMax, SwapMax, AfterLostSwap, AddTriaged, AddVerdict,
                     Bump, Summed, CountedIn
  <2>3. Read'
    BY <1>2, <2>2, ReadStays DEF SumInv
  <2> QED
    BY <1>2, <1>3, <2>1, <2>2, <2>3 DEF SumInv
<1> QED
  BY <1>5, <1>6, <1>7 DEF Observe

(* The next load of the snapshot. *)
LEMMA LoadSums ==
  ASSUME MaxInv, SumInv, Load
  PROVE  SumInv'
<1>1. /\ ctr \in [Fields -> Nat] /\ UNCHANGED <<at, nanos, ctr, snaps>>
      /\ readAt \in 0 .. 7 /\ readAt' = readAt + 1
      /\ snap' = [snap EXCEPT ![Reads[readAt']] = ctr[Reads[readAt']]] /\ snap \in [Fields -> Nat]
  BY ReadsAre DEF Load, MaxInv, CountersTyped, SumInv, Read
<1>2. \A m : Total(m)' <=> Total(m)
  BY <1>1 DEF Total
<1>3. Summed' = Summed /\ CountedIn' = CountedIn /\ CountedIn \subseteq Summed /\ Summed \subseteq Triages
  BY <1>1 DEF Summed, CountedIn
<1>4. snap' \in [Fields -> Nat]
  <2>1. Reads[readAt'] \in Fields
    BY <1>1, ReadsAre DEF Fields
  <2> QED
    BY <1>1, <2>1
<1>5. Read'
  <2>1. CASE readAt = 0
    <3>1. readAt' = 1 /\ snap'["count"] = ctr["count"]
      BY <1>1, <2>1, ReadsAre DEF Fields
    <3> QED
      BY <1>3, <3>1 DEF SumInv, Read
  <2>2. CASE readAt = 1 /\ snaps > 0
    <3>1. readAt' = 2 /\ snap'["sum"] = ctr["sum"] /\ snap'["count"] = snap["count"]
      BY <1>1, <2>2, ReadsAre DEF Fields
    <3>2. PICK T \in SUBSET Summed : Cardinality(T) = snap["count"]
      BY <2>2 DEF SumInv, Read
    <3>3. \A m : Total(m) => m[T] <= snap'["sum"]
      BY <1>3, <3>1, TotalGrows DEF SumInv
    <3> QED
      BY <1>1, <1>2, <1>3, <3>1, <3>2, <3>3 DEF Read
  <2>3. CASE readAt >= 2 /\ snaps > 0
    <3>1. readAt' \in 3 .. 8 /\ snap'["sum"] = snap["sum"] /\ snap'["count"] = snap["count"]
      BY <1>1, <2>3, ReadsAre DEF Fields
    <3>2. PICK T \in SUBSET Summed : /\ Cardinality(T) = snap["count"]
                                     /\ \A m : Total(m) => m[T] <= snap["sum"]
      BY <1>1, <2>3 DEF SumInv, Read
    <3> QED
      BY <1>1, <1>2, <1>3, <3>1, <3>2 DEF Read
  <2>4. CASE ~ (snaps > 0)
    BY <1>1, <2>4 DEF Read
  <2> QED
    BY <1>1, <2>1, <2>2, <2>3, <2>4
<1> QED
  BY <1>1, <1>2, <1>3, <1>4, <1>5 DEF SumInv

(* Some runs, as many as the snapshot counts, took no more than its sum. *)
SnapshotCovers ==
  readAt >= 2 /\ snaps > 0 =>
    \E T \in SUBSET Triages :
      Cardinality(T) = snap["count"] /\ \A m : Total(m) => m[T] <= snap["sum"]

(* However many runs add to the counters between the loads of a snapshot, its *)
(* mean is never too low: as many runs as it counts took no more than its sum *)
(* (stats.go:39-51, 66-74).                                                   *)
THEOREM StatsSnapshotCovers == Spec => []SnapshotCovers
<1>1. Init => SumInv
  <2> SUFFICES ASSUME Init PROVE SumInv
    OBVIOUS
  <2>1. Summed = {} /\ CountedIn = {} /\ Zero["sum"] = 0 /\ Zero["count"] = 0 /\ Zero \in [Fields -> Nat]
    BY DEF Init, Summed, CountedIn, Zero, Fields
  <2>2. \A m : Total(m) => m[{}] = 0
    <3> SUFFICES ASSUME NEW m, Total(m) PROVE m[{}] = 0
      OBVIOUS
    <3>1. {} \in SUBSET Triages /\ {} \intersect {} = {} /\ {} \union {} = {}
      OBVIOUS
    <3>2. m[{} \union {}] = m[{}] + m[{}] /\ m[{}] \in Nat
      BY <3>1 DEF Total
    <3>3. m[{}] \in Nat /\ m[{}] = m[{}] + m[{}]
      BY <3>1, <3>2
    <3>4. \A n \in Nat : n = n + n => n = 0
      OBVIOUS
    <3> QED
      BY <3>3, <3>4, Zenon
  <2>3. Read
    BY ReadsAre DEF Init, Read
  <2> QED
    BY <2>1, <2>2, <2>3, FS_EmptySet DEF Init, SumInv
<1>2. MaxInv /\ SumInv /\ [Next]_vars => SumInv'
  <2> SUFFICES ASSUME MaxInv, SumInv, [Next]_vars PROVE SumInv'
    OBVIOUS
  <2>1. CASE BeginSnapshot
    <3>1. /\ UNCHANGED <<at, nanos, ctr>> /\ readAt' = 0 /\ snap' = Zero /\ snaps' = snaps + 1
      BY <2>1 DEF BeginSnapshot
    <3>2. Zero \in [Fields -> Nat]
      BY DEF Zero
    <3>3. \A m : Total(m)' <=> Total(m)
      BY <3>1 DEF Total
    <3>4. Summed' = Summed /\ CountedIn' = CountedIn /\ Read'
      BY <3>1 DEF Summed, CountedIn, Read
    <3> QED
      BY <3>1, <3>2, <3>3, <3>4 DEF SumInv
  <2>2. CASE UNCHANGED vars
    <3>1. Summed' = Summed /\ CountedIn' = CountedIn /\ \A m : Total(m)' <=> Total(m)
      BY <2>2 DEF vars, Summed, CountedIn, Total
    <3>2. Read'
      BY <2>2, <3>1, ReadStays DEF vars, SumInv
    <3> QED
      BY <2>2, <3>1, <3>2 DEF vars, SumInv
  <2> QED
    BY <2>1, <2>2, ObserveSums, LoadSums DEF Next
<1>3. SumInv => SnapshotCovers
  <2> SUFFICES ASSUME SumInv, readAt >= 2, snaps > 0
               PROVE  \E T \in SUBSET Triages :
                        Cardinality(T) = snap["count"] /\ \A m : Total(m) => m[T] <= snap["sum"]
    BY DEF SnapshotCovers
  <2> QED
    BY DEF SumInv, Read, Summed
<1> QED
  BY <1>1, <1>2, <1>3, StatsMaxInvariant, PTL DEF Spec

(* The same of the sum that the runs compute, MapThenSumSet, which is a total *)
(* in this sense: that it is takes induction over its recursion.              *)
THEOREM StatsSnapshotSums ==
  Spec /\ []Total([T \in SUBSET Triages |-> NanosOf(T)]) => []SnapshotSums
<1>1. SnapshotCovers /\ Total([T \in SUBSET Triages |-> NanosOf(T)]) => SnapshotSums
  BY DEF SnapshotCovers, SnapshotSums
<1> QED
  BY <1>1, StatsSnapshotCovers, PTL
=============================================================================
