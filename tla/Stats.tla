--------------------------------- MODULE Stats ---------------------------------
(* The lock-free counters of internal/webhook/stats.go: worker goroutines     *)
(* bump them with single atomic operations, one step each, while a request    *)
(* for /stats reads them one by one.                                          *)
EXTENDS Integers, Sequences, FiniteSets, FiniteSetsExt

CONSTANTS Triages,   \* pipeline runs, one per accepted delivery
          Nanos,     \* durations a run can take
          MaxSnaps   \* bound: how many snapshots are taken

ASSUME StatsAssumption ==
  IsFiniteSet(Triages) /\ Nanos \subseteq Nat \ {0} /\ MaxSnaps \in Nat

VARIABLES at,      \* per run: its next atomic operation
          counted,  \* the runs whose request goroutine has run incReceived
          nanos,   \* per run: its duration
          cur,     \* per run: the maximum it loaded
          ctr,     \* the atomic variables
          readAt,  \* how many loads the current snapshot has made
          snap,    \* what the current snapshot has read
          snaps    \* how many snapshots were begun

vars == <<at, counted, nanos, cur, ctr, readAt, snap, snaps>>

Fields == {"count", "sum", "received", "triaged", "flagged", "skipped", "failed", "max"}

Zero == [f \in Fields |-> 0]

ReadOrder == <<"count", "sum", "received", "triaged", "flagged", "skipped", "failed", "max">>

(* Mutant of Reads: the sum is loaded before the count. *)
ReadsSumFirst == <<"sum", "count">> \o SubSeq(ReadOrder, 3, 8)

(* The loads of Snapshot, in order.  (The sum is not loaded, and not needed,  *)
(* when the count was zero; here it is loaded and not used.)                  *)
Reads == ReadOrder

Init == /\ at = [t \in Triages |-> "sum"]
        /\ counted = {}
        /\ nanos \in [Triages -> Nanos]
        /\ cur = [t \in Triages |-> 0]
        /\ ctr = Zero
        /\ readAt = Len(Reads)
        /\ snap = Zero
        /\ snaps = 0

Bump(t, f, n, next) == /\ ctr' = [ctr EXCEPT ![f] = @ + n]
                       /\ at' = [at EXCEPT ![t] = next]
                       /\ UNCHANGED <<counted, nanos, cur, readAt, snap, snaps>>

(* incReceived, on the request goroutine: the run itself may be ahead. *)
AddReceived(t) == /\ t \notin counted
                  /\ counted' = counted \union {t}
                  /\ ctr' = [ctr EXCEPT !["received"] = @ + 1]
                  /\ UNCHANGED <<at, nanos, cur, readAt, snap, snaps>>

(* incFailed: the fetch or the model call failed. *)
AddFailed(t) == at[t] = "sum" /\ Bump(t, "failed", 1, "failed")

(* observeLatency *)
AddSum(t) == at[t] = "sum" /\ Bump(t, "sum", nanos[t], "count")

AddCount(t) == at[t] = "count" /\ Bump(t, "count", 1, "load")

LoadMax(t) == /\ at[t] = "load"
              /\ cur' = [cur EXCEPT ![t] = ctr["max"]]
              /\ at' = [at EXCEPT ![t] = IF nanos[t] <= ctr["max"] THEN "triaged" ELSE "cas"]
              /\ UNCHANGED <<counted, nanos, ctr, readAt, snap, snaps>>

(* Mutant of SwapSucceeds: a store in place of the compare-and-swap. *)
SwapSucceedsAlways(t) == TRUE

SwapSucceeds(t) == ctr["max"] = cur[t]

(* Mutant of AfterLostSwap: the maximum is loaded once, before the loop. *)
AfterLostSwapNoLoad == "cas"

AfterLostSwap == "load"

SwapMax(t) == /\ at[t] = "cas"
              /\ ctr' = [ctr EXCEPT !["max"] = IF SwapSucceeds(t) THEN nanos[t] ELSE @]
              /\ at' = [at EXCEPT ![t] = IF SwapSucceeds(t) THEN "triaged" ELSE AfterLostSwap]
              /\ UNCHANGED <<counted, nanos, cur, readAt, snap, snaps>>

(* incFlagged or incSkipped: two additions. *)
AddTriaged(t) == /\ at[t] = "triaged"
                 /\ \E v \in {"flagged", "skipped"} : Bump(t, "triaged", 1, v)

AddVerdict(t) == /\ at[t] \in {"flagged", "skipped"}
                 /\ Bump(t, at[t], 1, "done")

Observe(t) == \/ AddReceived(t) \/ AddFailed(t)
              \/ AddSum(t) \/ AddCount(t) \/ LoadMax(t) \/ SwapMax(t)
              \/ AddTriaged(t) \/ AddVerdict(t)

BeginSnapshot == /\ readAt = Len(Reads) /\ snaps < MaxSnaps
                 /\ readAt' = 0
                 /\ snap' = Zero
                 /\ snaps' = snaps + 1
                 /\ UNCHANGED <<at, counted, nanos, cur, ctr>>

Load == /\ readAt < Len(Reads)
        /\ readAt' = readAt + 1
        /\ snap' = [snap EXCEPT ![Reads[readAt']] = ctr[Reads[readAt']]]
        /\ UNCHANGED <<at, counted, nanos, cur, ctr, snaps>>

Next == (\E t \in Triages : Observe(t)) \/ BeginSnapshot \/ Load

Spec == Init /\ [][Next]_vars

FairSpec == Spec /\ \A t \in Triages : WF_vars(Observe(t))
-----------------------------------------------------------------------------
NanosOf(T) == MapThenSumSet(LAMBDA t : nanos[t], T)

PastMax == {t \in Triages : at[t] \in {"triaged", "flagged", "skipped", "done"}}

(* The running maximum, kept without a lock: it is always the duration of     *)
(* some run or zero, and no run gets past the loop with a longer duration     *)
(* than it.  A lost update would lower it.                                    *)
MaxIsMax == /\ ctr["max"] \in {0} \union {nanos[t] : t \in Triages}
            /\ \A t \in PastMax : nanos[t] <= ctr["max"]

(* The mean of a snapshot is never too low: the sum is read after the count,  *)
(* and every run adds to the sum first, so the sum covers at least as many    *)
(* runs as were counted.                                                      *)
SnapshotSums ==
  readAt >= 2 /\ snaps > 0 =>
    \E T \in SUBSET Triages : Cardinality(T) = snap["count"] /\ NanosOf(T) <= snap["sum"]

(* Every run gets through the compare-and-swap loop: a failed swap means      *)
(* another run's went through.                                                *)
LoopsEnd == \A t \in Triages : <>(at[t] \in {"done", "failed"})
=============================================================================
