-------------------------------- MODULE Ledger --------------------------------
(* The delivery ledger of internal/webhook/dedupe.go: a map of the IDs seen   *)
(* and a ring of the same IDs in insertion order, which says which one to     *)
(* evict.  Claim runs under the ledger's mutex from its first statement to    *)
(* its return, so one call is one action.                                     *)
EXTENDS Integers

CONSTANTS Ids,       \* delivery IDs a request can carry (never the empty string)
          NoId,      \* the ring's zero value, Go's empty string
          Capacity   \* the argument of NewLedger

ASSUME LedgerAssumption == Capacity \in Int /\ NoId \notin Ids

VARIABLES seen,    \* the keys of the map
          ring,    \* slot -> ID
          pos,     \* the slot the next new ID goes to
          count,   \* the slots in use
          answer   \* the last call and its result, << >> before the first

vars == <<seen, ring, pos, count, answer>>

(* NewLedger clamps the capacity; len(ring) never changes afterwards. *)
Cap == IF Capacity < 1 THEN 1 ELSE Capacity

Slots == 0 .. Cap - 1

(* Mutant of Known: the map is not consulted. *)
KnownNever(id) == FALSE

Known(id) == id \in seen

(* Mutant of Kept: the map entry of the overwritten slot stays. *)
KeptAll == seen

(* The map without the ID whose slot is about to be overwritten. *)
Kept == IF count = Cap THEN seen \ {ring[pos]} ELSE seen

SlotAfter(p) == (p + 1) % Cap

Init == /\ seen = {}
        /\ ring = [i \in Slots |-> NoId]
        /\ pos = 0
        /\ count = 0
        /\ answer = << >>

Grant(id) == /\ ~ Known(id)
             /\ seen' = Kept \union {id}
             /\ count' = IF count = Cap THEN count ELSE count + 1
             /\ ring' = [ring EXCEPT ![pos] = id]
             /\ pos' = SlotAfter(pos)
             /\ answer' = <<id, TRUE>>

Refuse(id) == /\ Known(id)
              /\ answer' = <<id, FALSE>>
              /\ UNCHANGED <<seen, ring, pos, count>>

Next == \E id \in Ids : Grant(id) \/ Refuse(id)

Spec == Init /\ [][Next]_vars
-----------------------------------------------------------------------------
TypeOK == /\ seen \subseteq Ids
          /\ ring \in [Slots -> Ids \union {NoId}]
          /\ pos \in Slots
          /\ count \in 0 .. Cap
          /\ answer \in {<< >>} \union (Ids \X BOOLEAN)

(* The slots that hold an ID: the ring fills from slot 0 upwards. *)
Live == 0 .. count - 1

(* The map and the ring agree: the map's keys are the live slots' IDs, no ID  *)
(* sits in two slots, and until the ring is full the next slot is the first   *)
(* free one.  Otherwise an eviction would drop the wrong ID or leave a key    *)
(* behind for ever (the map would grow without bound).                        *)
RingMatchesSeen == /\ seen = {ring[i] : i \in Live}
                   /\ \A i, j \in Live : ring[i] = ring[j] => i = j
                   /\ count < Cap => pos = count

(* How many slots were written after slot i. *)
Age(i) == IF i < pos THEN pos - 1 - i ELSE pos - 1 - i + Cap

Held(id) == \E i \in Live : ring[i] = id

SlotOf(id) == CHOOSE i \in Live : ring[i] = id

BehindOf(id) == IF Held(id) THEN Age(SlotOf(id)) ELSE Cap

behindBar == [id \in Ids |-> BehindOf(id)]

Window == INSTANCE DedupWindow WITH behind <- behindBar

(* The map and ring implement the window: Claim answers true for an ID        *)
(* exactly when it is not among the last Cap new ones, and the ID forgotten   *)
(* by a claim on a full ledger is the oldest (dedupe.go:33-36).               *)
ImplementsWindow == Window!Spec
=============================================================================
