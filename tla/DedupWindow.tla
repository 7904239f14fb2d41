----------------------------- MODULE DedupWindow -----------------------------
(* What the delivery ledger promises, with no map and no ring: a delivery ID  *)
(* is accepted unless it is among the Cap most recently accepted IDs, and a   *)
(* refused call changes nothing.  "behind" holds, for each ID, how many other *)
(* IDs were accepted after it; the value Cap stands for "at least Cap, or     *)
(* never accepted", which is exactly "not remembered".                        *)
EXTENDS Naturals

CONSTANTS Ids,  \* the delivery IDs
          Cap   \* how many of the latest accepted IDs are remembered

VARIABLES behind,  \* [Ids -> 0..Cap]
          answer   \* the last call and its result, << >> before the first

vars == <<behind, answer>>

Remembered(id) == behind[id] < Cap

Init == /\ behind = [id \in Ids |-> Cap]
        /\ answer = << >>

(* The window after "id" is accepted: id is the newest, every other           *)
(* remembered ID is one further behind, the one at Cap - 1 falls out.         *)
Pushed(id) == [o \in Ids |-> IF o = id THEN 0
                             ELSE IF behind[o] < Cap THEN behind[o] + 1
                             ELSE Cap]

Accept(id) == /\ ~ Remembered(id)
              /\ behind' = Pushed(id)
              /\ answer' = <<id, TRUE>>

Refuse(id) == /\ Remembered(id)
              /\ answer' = <<id, FALSE>>
              /\ UNCHANGED behind

Next == \E id \in Ids : Accept(id) \/ Refuse(id)

Spec == Init /\ [][Next]_vars
=============================================================================
