----------------------------- MODULE LedgerProofs -----------------------------
(* The ledger's theorems, for every capacity and every set of IDs: the map    *)
(* and the ring always agree, and together they implement DedupWindow.  And   *)
(* those about the checks before it (Admission), for any requests and faults. *)
EXTENDS Admission, SequenceTheorems, TLAPS

(* The inductive invariant: typing, and the agreement of map and ring.        *)
IInv == TypeOK /\ RingMatchesSeen

(* The capacity in use is a positive number. *)
LEMMA CapPositive == Cap \in Nat /\ Cap >= 1
  BY LedgerAssumption DEF Cap

(* The wrap-around of the slot pointer without the remainder. *)
LEMMA SlotAfterWraps ==
  ASSUME NEW p \in Slots
  PROVE  /\ SlotAfter(p) = IF p = Cap - 1 THEN 0 ELSE p + 1
         /\ SlotAfter(p) \in Slots
<1>1. CASE p = Cap - 1
  BY <1>1, CapPositive, SMTT(30) DEF SlotAfter, Slots
<1>2. CASE p # Cap - 1
  <2>1. p + 1 \in 0 .. Cap - 1
    BY <1>2, CapPositive DEF Slots
  <2>2. (p + 1) % Cap = p + 1
    BY <2>1, CapPositive, SMTT(30)
  <2> QED
    BY <1>2, <2>1, <2>2 DEF SlotAfter, Slots
<1> QED
  BY <1>1, <1>2

(* The empty ledger satisfies the invariant. *)
LEMMA InitIInv == Init => IInv
<1> SUFFICES ASSUME Init PROVE IInv
  OBVIOUS
<1>1. Slots \subseteq Int /\ 0 \in Slots
  BY CapPositive DEF Slots
<1>2. TypeOK
  BY <1>1, CapPositive DEF Init, TypeOK
<1>3. Live = {}
  BY DEF Init, Live
<1>4. RingMatchesSeen
  BY <1>3 DEF Init, RingMatchesSeen
<1> QED
  BY <1>2, <1>4 DEF IInv

(* Where a granted ID goes, and which slots hold which ID afterwards. *)
LEMMA GrantSlots ==
  ASSUME IInv, NEW id \in Ids, Grant(id)
  PROVE  /\ pos \in Slots /\ pos \in Live'
         /\ Live' = Live \union {pos}
         /\ Live' \subseteq Slots
         /\ ring'[pos] = id
         /\ \A i \in Live : i # pos => ring'[i] = ring[i]
         /\ \A i \in Live : ring[i] # id
         /\ count < Cap => pos \notin Live
         /\ count = Cap => Live = Slots
<1> USE CapPositive
<1>1. pos \in Slots /\ count \in 0 .. Cap /\ (count < Cap => pos = count)
  BY DEF IInv, TypeOK, RingMatchesSeen
<1>2. count' = IF count = Cap THEN count ELSE count + 1
  BY DEF Grant
<1>3. Live' = Live \union {pos}
  <2>1. CASE count = Cap
    BY <2>1, <1>1, <1>2 DEF Live, Slots
  <2>2. CASE count # Cap
    BY <2>2, <1>1, <1>2 DEF Live, Slots
  <2> QED
    BY <2>1, <2>2
<1>4. Live \subseteq Slots
  BY <1>1 DEF Live, Slots
<1>5. /\ ring'[pos] = id
      /\ \A i \in Live : i # pos => ring'[i] = ring[i]
  BY <1>1, <1>4 DEF Grant, IInv, TypeOK
<1>6. \A i \in Live : ring[i] # id
  BY DEF Grant, Known, IInv, RingMatchesSeen
<1>7. (count < Cap => pos \notin Live) /\ (count = Cap => Live = Slots)
  BY <1>1 DEF Live, Slots
<1> QED
  BY <1>1, <1>3, <1>4, <1>5, <1>6, <1>7

(* A granted claim keeps the invariant. *)
LEMMA GrantIInv ==
  ASSUME IInv, NEW id \in Ids, Grant(id)
  PROVE  IInv'
<1> USE CapPositive
<1>1. TypeOK'
  <2>1. seen' \subseteq Ids
    BY DEF IInv, TypeOK, Grant, Kept
  <2>2. ring' \in [Slots -> Ids \union {NoId}]
    BY DEF IInv, TypeOK, Grant
  <2>3. pos' \in Slots
    BY SlotAfterWraps DEF IInv, TypeOK, Grant
  <2>4. count' \in 0 .. Cap
    BY DEF IInv, TypeOK, Grant
  <2>5. answer' \in {<< >>} \union (Ids \X BOOLEAN)
    BY DEF Grant
  <2> QED
    BY <2>1, <2>2, <2>3, <2>4, <2>5 DEF TypeOK
<1>2. seen' = {ring'[i] : i \in Live'}
  <2>1. seen = {ring[i] : i \in Live}
    BY DEF IInv, RingMatchesSeen
  <2>2. CASE count = Cap
    <3>1. seen' = (seen \ {ring[pos]}) \union {id}
      BY <2>2 DEF Grant, Kept
    <3>2. pos \in Live /\ \A i, j \in Live : ring[i] = ring[j] => i = j
      BY <2>2, GrantSlots DEF IInv, RingMatchesSeen
    <3> QED
      BY <2>1, <3>1, <3>2, GrantSlots
  <2>3. CASE count # Cap
    <3>1. seen' = seen \union {id}
      BY <2>3 DEF Grant, Kept
    <3>2. count < Cap
      BY <2>3 DEF IInv, TypeOK
    <3>3. pos \notin Live
      BY <3>2, GrantSlots
    <3> QED
      BY <2>1, <3>1, <3>3, GrantSlots
  <2> QED
    BY <2>2, <2>3
<1>3. \A i, j \in Live' : ring'[i] = ring'[j] => i = j
  BY GrantSlots DEF IInv, RingMatchesSeen
<1>4. count' < Cap => pos' = count'
  <2>1. pos \in Slots /\ count \in 0 .. Cap /\ (count < Cap => pos = count)
    BY DEF IInv, TypeOK, RingMatchesSeen
  <2>2. /\ pos' = IF pos = Cap - 1 THEN 0 ELSE pos + 1
        /\ count' = IF count = Cap THEN count ELSE count + 1
    BY <2>1, SlotAfterWraps DEF Grant
  <2> QED
    BY <2>1, <2>2 DEF Slots
<1> QED
  BY <1>1, <1>2, <1>3, <1>4 DEF IInv, RingMatchesSeen

(* So does a step that leaves map, ring, pointer and count alone. *)
LEMMA UnchangedIInv ==
  ASSUME IInv, UNCHANGED <<seen, ring, pos, count>>,
         answer' \in {<< >>} \union (Ids \X BOOLEAN)
  PROVE  IInv'
  BY DEF IInv, TypeOK, RingMatchesSeen, Live

(* Every step keeps the invariant. *)
LEMMA NextIInv == IInv /\ [Next]_vars => IInv'
<1> SUFFICES ASSUME IInv, [Next]_vars PROVE IInv'
  OBVIOUS
<1>1. ASSUME NEW id \in Ids, Grant(id) PROVE IInv'
  BY <1>1, GrantIInv
<1>2. ASSUME NEW id \in Ids, Refuse(id) PROVE IInv'
  BY <1>2, UnchangedIInv DEF Refuse
<1>3. CASE UNCHANGED vars
  BY <1>3, UnchangedIInv DEF vars, IInv, TypeOK
<1> QED
  BY <1>1, <1>2, <1>3 DEF Next

(* Every call of Claim keeps map and ring typed and in agreement, whatever    *)
(* the capacity the ledger was built with (dedupe.go:37-53).                  *)
THEOREM LedgerInvariant == Spec => []IInv
<1>1. Init => IInv
  BY InitIInv
<1>2. IInv /\ [Next]_vars => IInv'
  BY NextIInv
<1> QED
  BY <1>1, <1>2, PTL DEF Spec

(* The ledger's variables stay within their types. *)
THEOREM LedgerTypeOK == Spec => []TypeOK
<1>1. IInv => TypeOK
  BY DEF IInv
<1> QED
  BY <1>1, LedgerInvariant, PTL

(* The map's keys are at all times exactly the IDs of the ring's live slots,  *)
(* each in one slot: no entry is leaked and none is evicted early.            *)
THEOREM LedgerRingMatchesSeen == Spec => []RingMatchesSeen
<1>1. IInv => RingMatchesSeen
  BY DEF IInv
<1> QED
  BY <1>1, LedgerInvariant, PTL
-----------------------------------------------------------------------------
(* Ages of live slots: below Cap, and one older after each new ID, except     *)
(* that the slot overwritten was the oldest and becomes the youngest.         *)
LEMMA AgeAfterGrant ==
  ASSUME IInv, NEW id \in Ids, Grant(id), NEW i \in Slots
  PROVE  /\ Age(i) \in 0 .. Cap - 1
         /\ i = pos => Age(i)' = 0
         /\ i = pos => Age(i) = Cap - 1
         /\ i # pos => Age(i) < Cap - 1 /\ Age(i)' = Age(i) + 1
<1> USE CapPositive
<1>1. pos \in 0 .. Cap - 1 /\ i \in 0 .. Cap - 1
  BY DEF IInv, TypeOK, Slots
<1>2. pos' = IF pos = Cap - 1 THEN 0 ELSE pos + 1
  BY <1>1, SlotAfterWraps DEF Grant, Slots
<1>3. Age(i)' = IF i < pos' THEN pos' - 1 - i ELSE pos' - 1 - i + Cap
  BY DEF Age
<1>4. Age(i) = IF i < pos THEN pos - 1 - i ELSE pos - 1 - i + Cap
  BY DEF Age
<1> QED
  BY <1>1, <1>2, <1>3, <1>4

(* An ID is held by at most one slot, so SlotOf is that slot. *)
LEMMA SlotOfUnique ==
  ASSUME IInv, NEW i \in Live
  PROVE  SlotOf(ring[i]) = i /\ Held(ring[i])
  BY DEF IInv, RingMatchesSeen, SlotOf, Held

(* The IDs in live slots are the IDs in the map. *)
LEMMA HeldIsKnown ==
  ASSUME IInv, NEW id
  PROVE  Held(id) <=> Known(id)
  BY DEF IInv, RingMatchesSeen, Held, Known

(* The ID that is granted becomes the youngest. *)
LEMMA GrantedBehind ==
  ASSUME IInv, NEW id \in Ids, Grant(id)
  PROVE  BehindOf(id)' = 0
<1>1. IInv'
  BY GrantIInv
<1>2. PICK p \in Slots : p = pos
  BY DEF IInv, TypeOK
<1>3. p \in Live' /\ ring'[p] = id
  BY <1>2, GrantSlots
<1>4. Held(id)' /\ SlotOf(id)' = p
  BY <1>1, <1>3 DEF IInv, RingMatchesSeen, Held, SlotOf
<1>5. Age(p)' = 0
  BY <1>2, AgeAfterGrant
<1>6. BehindOf(id)' = Age(p)'
  BY <1>4 DEF BehindOf, Age
<1> QED
  BY <1>5, <1>6

(* Every other ID falls one behind, and the oldest one out of the window. *)
LEMMA OthersBehind ==
  ASSUME IInv, NEW id \in Ids, Grant(id), NEW o \in Ids, o # id
  PROVE  BehindOf(o)' = IF BehindOf(o) < Cap THEN BehindOf(o) + 1 ELSE Cap
<1>1. IInv'
  BY GrantIInv
<1>2. pos \in Slots /\ Live \subseteq Slots /\ Live' = Live \union {pos}
  BY GrantSlots
<1>3. CASE ~ Held(o)
  <2>1. ~ Held(o)'
    BY <1>2, <1>3, GrantSlots DEF Held
  <2> QED
    BY <1>3, <2>1, CapPositive DEF BehindOf
<1>4. CASE Held(o)
  <2>1. PICK i \in Live : ring[i] = o
    BY <1>4 DEF Held
  <2>2. i \in Slots
    BY <1>2, <2>1
  <2>3. BehindOf(o) = Age(i) /\ Age(i) \in 0 .. Cap - 1
    BY <1>4, <2>1, <2>2, SlotOfUnique, AgeAfterGrant DEF BehindOf
  <2>4. CASE i = pos
    <3>1. ~ Held(o)'
      BY <1>2, <2>1, <2>4, GrantSlots DEF Held, IInv, RingMatchesSeen
    <3>2. Age(i) = Cap - 1
      BY <2>2, <2>4, AgeAfterGrant
    <3> QED
      BY <2>3, <3>1, <3>2, CapPositive DEF BehindOf
  <2>5. CASE i # pos
    <3>1. i \in Live' /\ ring'[i] = o
      BY <1>2, <2>1, <2>5, GrantSlots
    <3>2. Held(o)' /\ SlotOf(o)' = i
      BY <1>1, <3>1 DEF IInv, RingMatchesSeen, Held, SlotOf
    <3>3. BehindOf(o)' = Age(i)'
      BY <3>2 DEF BehindOf, Age
    <3>4. Age(i) < Cap - 1 /\ Age(i)' = Age(i) + 1
      BY <2>2, <2>5, AgeAfterGrant
    <3> QED
      BY <2>3, <3>3, <3>4, CapPositive
  <2> QED
    BY <2>4, <2>5
<1> QED
  BY <1>3, <1>4

(* Held IDs are inside the window, the others are not. *)
LEMMA BehindRange ==
  ASSUME IInv, NEW id \in Ids
  PROVE  behindBar[id] < Cap <=> Known(id)
<1>1. behindBar[id] = BehindOf(id)
  BY DEF behindBar
<1>2. CASE Held(id)
  <2>1. PICK i \in Live : ring[i] = id
    BY <1>2 DEF Held
  <2>2. i \in 0 .. Cap - 1 /\ pos \in 0 .. Cap - 1
    BY CapPositive DEF IInv, TypeOK, Live, Slots
  <2>3. Age(i) < Cap
    BY <2>2, CapPositive DEF Age
  <2> QED
    BY <1>1, <1>2, <2>1, <2>3, SlotOfUnique, HeldIsKnown DEF BehindOf
<1>3. CASE ~ Held(id)
  BY <1>1, <1>3, HeldIsKnown, CapPositive DEF BehindOf
<1> QED
  BY <1>2, <1>3

(* A claim of a new ID is the window's Accept. *)
LEMMA GrantAccepts ==
  ASSUME IInv, NEW id \in Ids, Grant(id)
  PROVE  Window!Accept(id)
<1>1. ~ Window!Remembered(id)
  BY BehindRange DEF Window!Remembered, Grant
<1>2. \A o \in Ids : behindBar[o] = BehindOf(o)
  BY DEF behindBar
<1>3. behindBar' = [o \in Ids |-> BehindOf(o)']
  BY DEF behindBar
<1>4. \A o \in Ids : BehindOf(o)' = IF o = id THEN 0
                                    ELSE IF BehindOf(o) < Cap THEN BehindOf(o) + 1
                                    ELSE Cap
  BY GrantedBehind, OthersBehind
<1>5. behindBar' = Window!Pushed(id)
  BY <1>2, <1>3, <1>4 DEF Window!Pushed
<1> QED
  BY <1>1, <1>5 DEF Window!Accept, Grant

(* A claim of a known ID is the window's Refuse. *)
LEMMA RefuseRefuses ==
  ASSUME IInv, NEW id \in Ids, Refuse(id)
  PROVE  Window!Refuse(id)
<1>1. Window!Remembered(id)
  BY BehindRange DEF Window!Remembered, Refuse
<1>2. behindBar' = behindBar
  BY DEF behindBar, BehindOf, Held, SlotOf, Age, Live, Refuse
<1> QED
  BY <1>1, <1>2 DEF Window!Refuse, Refuse

(* The empty ledger is the empty window. *)
LEMMA InitWindow == Init => Window!Init
<1> SUFFICES ASSUME Init PROVE Window!Init
  OBVIOUS
<1>1. \A id \in Ids : ~ Held(id)
  BY DEF Init, Held, Live
<1>2. behindBar = [id \in Ids |-> Cap]
  BY <1>1 DEF behindBar, BehindOf
<1> QED
  BY <1>2 DEF Init, Window!Init

(* The ledger is a sliding window over the last Cap new IDs: a claim succeeds *)
(* exactly when its ID is not among them.  In particular a redelivery is      *)
(* refused until Cap other deliveries were claimed since, never earlier.      *)
THEOREM LedgerImplementsWindow == Spec => ImplementsWindow
<1>1. Init => Window!Init
  BY InitWindow
<1>2. IInv /\ [Next]_vars => [Window!Next]_(Window!vars)
  <2> SUFFICES ASSUME IInv, [Next]_vars PROVE [Window!Next]_(Window!vars)
    OBVIOUS
  <2>1. ASSUME NEW id \in Ids, Grant(id) PROVE Window!Next
    BY <2>1, GrantAccepts DEF Window!Next
  <2>2. ASSUME NEW id \in Ids, Refuse(id) PROVE Window!Next
    BY <2>2, RefuseRefuses DEF Window!Next
  <2>3. CASE UNCHANGED vars
    BY <2>3 DEF vars, Window!vars, behindBar, BehindOf, Held, SlotOf, Age, Live
  <2> QED
    BY <2>1, <2>2, <2>3 DEF Next
<1> QED
  BY <1>1, <1>2, LedgerInvariant, PTL DEF Spec, ImplementsWindow, Window!Spec
-----------------------------------------------------------------------------
(* The checks before the ledger. *)

(* The nine checks, one by one. *)
LEMMA ChecksAre ==
  /\ Len(Checks) = 9
  /\ Checks[1] = "413 too large"
  /\ Checks[2] = "400 cannot read body"
  /\ Checks[3] = "401 unverified"
  /\ Checks[4] = "405 not allowed"
  /\ Checks[5] = "200 ignored event"
  /\ Checks[6] = "400 missing id"
  /\ Checks[7] = "400 invalid payload"
  /\ Checks[8] = "200 ignored action"
  /\ Checks[9] = "200 ignored bot"
<1> DEFINE Texts == {Middleware[i] : i \in 1 .. 3} \union {Gates[i] : i \in 1 .. 6}
<1>1. Len(Middleware) = 3 /\ Middleware = [i \in 1 .. 3 |-> Middleware[i]]
  BY DEF Middleware
<1>2. Len(Gates) = 6 /\ Gates = [i \in 1 .. 6 |-> Gates[i]]
  BY DEF Gates
<1>3. Middleware \in Seq(Texts) /\ Gates \in Seq(Texts)
  <2>1. Middleware \in [1 .. 3 -> Texts] /\ Gates \in [1 .. 6 -> Texts]
    BY <1>1, <1>2
  <2> HIDE DEF Texts
  <2>2. \A n \in Nat : \A f : f \in [1 .. n -> Texts] => f \in Seq(Texts)
    BY SeqDef, Zenon
  <2> QED
    BY <2>1, <2>2
<1> HIDE DEF Texts
<1>4. /\ Len(Checks) = 9
      /\ \A i \in 1 .. 9 : Checks[i] = IF i <= 3 THEN Middleware[i] ELSE Gates[i - 3]
  <2>1. /\ Len(Middleware \o Gates) = Len(Middleware) + Len(Gates)
        /\ \A i \in 1 .. Len(Middleware) + Len(Gates) :
             (Middleware \o Gates)[i] = IF i <= Len(Middleware) THEN Middleware[i]
                                        ELSE Gates[i - Len(Middleware)]
    BY <1>3, ConcatProperties
  <2> QED
    BY <1>1, <1>2, <2>1 DEF Checks
<1>5. /\ Checks[1] = Middleware[1] /\ Checks[2] = Middleware[2] /\ Checks[3] = Middleware[3]
      /\ Checks[4] = Gates[1] /\ Checks[5] = Gates[2] /\ Checks[6] = Gates[3]
      /\ Checks[7] = Gates[4] /\ Checks[8] = Gates[5] /\ Checks[9] = Gates[6]
  BY <1>4
<1>6. /\ Middleware[1] = "413 too large" /\ Middleware[2] = "400 cannot read body"
      /\ Middleware[3] = "401 unverified"
  BY DEF Middleware
<1>7. /\ Gates[1] = "405 not allowed" /\ Gates[2] = "200 ignored event"
      /\ Gates[3] = "400 missing id" /\ Gates[4] = "400 invalid payload"
      /\ Gates[5] = "200 ignored action" /\ Gates[6] = "200 ignored bot"
  BY DEF Gates
<1> QED
  BY <1>4, <1>5, <1>6, <1>7

(* Which of them stop a request. *)
LEMMA RefusalsAre ==
  ASSUME NEW d, NEW F
  PROVE  /\ Refusals(d, F) \subseteq 1 .. 9
         /\ 1 \in Refusals(d, F) <=> "tooLarge" \in F
         /\ 2 \in Refusals(d, F) <=> "unreadable" \in F
         /\ 3 \in Refusals(d, F) <=> "unsigned" \in F
         /\ 4 \in Refusals(d, F) <=> "notPost" \in F
         /\ 5 \in Refusals(d, F) <=> "otherEvent" \in F
         /\ 6 \in Refusals(d, F) <=> "noId" \in F
         /\ 7 \in Refusals(d, F) <=> d \in Garbled
         /\ 8 \in Refusals(d, F) <=> d \notin Removals \union Opened
         /\ 9 \in Refusals(d, F) <=> BotGate(d)
<1>1. Refusals(d, F) \subseteq 1 .. 9 /\ \A i \in 1 .. 9 : i \in Refusals(d, F) <=> Stops(Checks[i], d, F)
  BY ChecksAre DEF Refusals
<1>2. /\ Stops("413 too large", d, F) <=> "tooLarge" \in F
      /\ Stops("400 cannot read body", d, F) <=> "unreadable" \in F
      /\ Stops("401 unverified", d, F) <=> "unsigned" \in F
      /\ Stops("405 not allowed", d, F) <=> "notPost" \in F
      /\ Stops("200 ignored event", d, F) <=> "otherEvent" \in F
      /\ Stops("400 missing id", d, F) <=> "noId" \in F
      /\ Stops("400 invalid payload", d, F) <=> d \in Garbled
      /\ Stops("200 ignored action", d, F) <=> d \notin Removals \union Opened
      /\ Stops("200 ignored bot", d, F) <=> BotGate(d)
  BY DEF Stops
<1>3. \A i \in {1, 2, 3, 4, 5, 6, 7, 8, 9} : i \in Refusals(d, F) <=> Stops(Checks[i], d, F)
  BY <1>1
<1> QED
  BY <1>1, <1>2, <1>3, ChecksAre

(* The first check that fires answers. *)
LEMMA FirstRefusal ==
  ASSUME NEW d, NEW F, NEW i \in Refusals(d, F), \A j \in 1 .. 9 : j < i => j \notin Refusals(d, F)
  PROVE  Min(Refusals(d, F)) = i
<1>1. Refusals(d, F) \subseteq 1 .. 9
  BY RefusalsAre
<1>2. \A j \in Refusals(d, F) : i <= j
  BY <1>1
<1>3. \A k \in Refusals(d, F) : (\A j \in Refusals(d, F) : k <= j) => k = i
  BY <1>1, <1>2
<1> QED
  BY <1>2, <1>3 DEF Min

(* An unsigned request is answered by the middleware. *)
LEMMA UnsignedRefused ==
  ASSUME NEW d, NEW F, "unsigned" \in F
  PROVE  /\ Refusals(d, F) # {}
         /\ Checks[Min(Refusals(d, F))] =
              IF "tooLarge" \in F THEN "413 too large"
              ELSE IF "unreadable" \in F THEN "400 cannot read body"
              ELSE "401 unverified"
<1>1. 3 \in Refusals(d, F)
  BY RefusalsAre
<1>2. CASE "tooLarge" \in F
  <2>1. 1 \in Refusals(d, F)
    BY <1>2, RefusalsAre
  <2>2. Min(Refusals(d, F)) = 1
    BY <2>1, FirstRefusal
  <2> QED
    BY <1>1, <1>2, <2>2, ChecksAre
<1>3. CASE "tooLarge" \notin F /\ "unreadable" \in F
  <2>1. 1 \notin Refusals(d, F) /\ 2 \in Refusals(d, F)
    BY <1>3, RefusalsAre
  <2>2. Min(Refusals(d, F)) = 2
    BY <2>1, FirstRefusal
  <2> QED
    BY <1>1, <1>3, <2>2, ChecksAre
<1>4. CASE "tooLarge" \notin F /\ "unreadable" \notin F
  <2>1. 1 \notin Refusals(d, F) /\ 2 \notin Refusals(d, F)
    BY <1>4, RefusalsAre
  <2>2. Min(Refusals(d, F)) = 3
    BY <1>1, <2>1, FirstRefusal
  <2> QED
    BY <1>1, <1>4, <2>2, ChecksAre
<1> QED
  BY <1>2, <1>3, <1>4

(* No check fires exactly for a sound request with a delivery that is wanted, *)
(* and none answers what a redelivery is told, or nothing.                    *)
LEMMA RefusedUnlessWanted ==
  ASSUME NEW d \in Ids, NEW F \in FaultSets
  PROVE  /\ Refusals(d, F) = {} <=> F = {} /\ d \in Wanted
         /\ Refusals(d, F) # {} => Checks[Min(Refusals(d, F))] \notin {"duplicate", "none"}
<1>1. Refusals(d, F) = {}
        <=> /\ \A f \in Faults : f \notin F
            /\ d \notin Garbled /\ d \in Removals \union Opened /\ ~ BotGate(d)
  BY RefusalsAre DEF Faults
<1>2. d \in Wanted <=> d \notin Garbled /\ d \in Removals \union Opened /\ ~ BotGate(d)
  BY AdmissionAssumption DEF Wanted, BotGate
<1>3. F = {} <=> \A f \in Faults : f \notin F
  BY AdmissionAssumption
<1>4. ASSUME Refusals(d, F) # {}
      PROVE  Min(Refusals(d, F)) \in 1 .. 9
  <2>1. PICK i \in Refusals(d, F) : \A j \in 1 .. 9 : j < i => j \notin Refusals(d, F)
    BY <1>4, RefusalsAre
  <2> QED
    BY <2>1, RefusalsAre, FirstRefusal
<1>5. \A i \in 1 .. 9 : Checks[i] \notin {"duplicate", "none"}
  <2>1. \A i \in 1 .. 9 : \/ i = 1 \/ i = 2 \/ i = 3 \/ i = 4 \/ i = 5
                         \/ i = 6 \/ i = 7 \/ i = 8 \/ i = 9
    OBVIOUS
  <2>2. /\ Checks[1] \notin {"duplicate", "none"} /\ Checks[2] \notin {"duplicate", "none"}
        /\ Checks[3] \notin {"duplicate", "none"} /\ Checks[4] \notin {"duplicate", "none"}
        /\ Checks[5] \notin {"duplicate", "none"} /\ Checks[6] \notin {"duplicate", "none"}
        /\ Checks[7] \notin {"duplicate", "none"} /\ Checks[8] \notin {"duplicate", "none"}
        /\ Checks[9] \notin {"duplicate", "none"}
    BY ChecksAre
  <2> QED
    BY <2>1, <2>2
<1> QED
  BY <1>1, <1>2, <1>3, <1>4, <1>5
-----------------------------------------------------------------------------
(* The way of a request to the ledger. *)

Ways == {"none", "claim", "enqueue", "record", "done"}

(* The request counts as refused: its answer is that of the first check it    *)
(* fails.                                                                     *)
Stopped(r) == /\ Refusals(reqId[r], faults[r]) # {}
              /\ reply[r] = Checks[Min(Refusals(reqId[r], faults[r]))]

(* What is true of a request at each point of its way: past the checks it has *)
(* no fault and a delivery that is wanted; done, it is a redelivery of such a *)
(* one or was stopped.                                                        *)
WayOf(r) ==
  /\ reqAt[r] = "none" => reply[r] = "none" /\ faults[r] = {}
  /\ reqAt[r] # "none" => reqId[r] \in Ids /\ faults[r] \in FaultSets
  /\ reqAt[r] \in {"claim", "enqueue", "record"} => reply[r] = "none"
  /\ reqAt[r] \in {"claim", "enqueue", "record"} \/ reply[r] = "duplicate"
       => Refusals(reqId[r], faults[r]) = {}
  /\ reqAt[r] = "done" => reply[r] = "duplicate" \/ Stopped(r)

AdmissionTyped == /\ reqAt \in [Requests -> Ways]
                  /\ DOMAIN reply = Requests /\ reply = [r \in Requests |-> reply[r]]
                  /\ reqId = [r \in Requests |-> reqId[r]]
                  /\ faults = [r \in Requests |-> faults[r]]

AdmissionInv == AdmissionTyped /\ \A r \in Requests : WayOf(r)

(* A request has arrived: it is stopped by the first check it fails, or goes  *)
(* on to the ledger.                                                          *)
LEMMA ArriveWay ==
  ASSUME AdmissionInv, NEW r \in Requests, NEW d \in Ids, NEW F \in FaultSets, Arrive(r, d, F)
  PROVE  AdmissionInv'
<1>1. /\ reqId' = [reqId EXCEPT ![r] = d] /\ faults' = [faults EXCEPT ![r] = F]
      /\ reqAt[r] = "none" /\ reply[r] = "none"
  BY DEF Arrive, AdmissionInv, WayOf
<1>2. \/ /\ Refusals(d, F) = {}
         /\ reqAt' = [reqAt EXCEPT ![r] = "claim"] /\ reply' = reply
      \/ /\ Refusals(d, F) # {}
         /\ reqAt' = [reqAt EXCEPT ![r] = "done"]
         /\ reply' = [reply EXCEPT ![r] = Checks[Min(Refusals(d, F))]]
  BY DEF Arrive
<1>3. AdmissionTyped'
  <2>1. reqAt' \in [Requests -> Ways]
    BY <1>2 DEF AdmissionInv, AdmissionTyped, Ways
  <2>2. DOMAIN reply' = Requests /\ reply' = [q \in Requests |-> reply'[q]]
    BY <1>2 DEF AdmissionInv, AdmissionTyped
  <2> QED
    BY <1>1, <2>1, <2>2 DEF AdmissionInv, AdmissionTyped
<1>4. reqId'[r] = d /\ faults'[r] = F
  BY <1>1 DEF AdmissionInv, AdmissionTyped
<1>5. WayOf(r)'
  <2>1. CASE Refusals(d, F) = {}
    <3>1. reqAt'[r] = "claim" /\ reply'[r] = "none"
      BY <1>1, <1>2, <2>1 DEF AdmissionInv, AdmissionTyped
    <3> QED
      BY <1>4, <2>1, <3>1 DEF WayOf
  <2>2. CASE Refusals(d, F) # {}
    <3>1. reqAt'[r] = "done" /\ reply'[r] = Checks[Min(Refusals(d, F))]
      BY <1>1, <1>2, <2>2 DEF AdmissionInv, AdmissionTyped
    <3>2. reply'[r] # "duplicate"
      BY <2>2, <3>1, RefusedUnlessWanted
    <3>3. Stopped(r)'
      BY <1>4, <2>2, <3>1 DEF Stopped
    <3> QED
      BY <1>4, <3>1, <3>2, <3>3 DEF WayOf
  <2> QED
    BY <2>1, <2>2
<1>6. ASSUME NEW q \in Requests, q # r PROVE WayOf(q)'
  <2>1. /\ reqAt'[q] = reqAt[q] /\ reply'[q] = reply[q]
        /\ reqId'[q] = reqId[q] /\ faults'[q] = faults[q]
    BY <1>1, <1>2, <1>6 DEF AdmissionInv, AdmissionTyped
  <2> QED
    BY <2>1 DEF AdmissionInv, WayOf, Stopped
<1> QED
  BY <1>3, <1>5, <1>6 DEF AdmissionInv

(* A claim sends a request on, or tells it that it is a redelivery. *)
LEMMA ClaimWay ==
  ASSUME AdmissionInv, NEW r \in Requests, ClaimNew(r) \/ ClaimDuplicate(r)
  PROVE  AdmissionInv'
<1>1. reqAt[r] = "claim" /\ reqId' = reqId /\ faults' = faults
  BY DEF ClaimNew, ClaimDuplicate
<1>2. \/ \E way \in {"enqueue", "record"} : reqAt' = [reqAt EXCEPT ![r] = way] /\ reply' = reply
      \/ /\ reqAt' = [reqAt EXCEPT ![r] = "done"]
         /\ reply' = [reply EXCEPT ![r] = "duplicate"]
  BY DEF ClaimNew, ClaimDuplicate, AfterClaim
<1>3. AdmissionTyped'
  <2>1. reqAt' \in [Requests -> Ways]
    BY <1>2 DEF AdmissionInv, AdmissionTyped, Ways
  <2>2. DOMAIN reply' = Requests /\ reply' = [q \in Requests |-> reply'[q]]
    BY <1>2 DEF AdmissionInv, AdmissionTyped
  <2> QED
    BY <1>1, <2>1, <2>2 DEF AdmissionInv, AdmissionTyped
<1>4. WayOf(r)'
  <2>1. Refusals(reqId[r], faults[r]) = {} /\ reqId[r] \in Ids /\ faults[r] \in FaultSets
    BY <1>1 DEF AdmissionInv, WayOf
  <2>2. \/ reqAt'[r] \in {"enqueue", "record"} /\ reply'[r] = "none"
        \/ reqAt'[r] = "done" /\ reply'[r] = "duplicate"
    BY <1>1, <1>2 DEF AdmissionInv, AdmissionTyped, WayOf
  <2> QED
    BY <1>1, <2>1, <2>2 DEF WayOf
<1>5. ASSUME NEW q \in Requests, q # r PROVE WayOf(q)'
  <2>1. reqAt'[q] = reqAt[q] /\ reply'[q] = reply[q]
    BY <1>2, <1>5 DEF AdmissionInv, AdmissionTyped
  <2> QED
    BY <1>1, <2>1 DEF AdmissionInv, WayOf, Stopped
<1> QED
  BY <1>3, <1>4, <1>5 DEF AdmissionInv

(* The way of every request, in every behaviour. *)
THEOREM AdmissionInvariant == AdmissionSpec => []AdmissionInv
<1>1. AdmissionInit => AdmissionInv
  BY DEF AdmissionInit, AdmissionInv, AdmissionTyped, WayOf, Ways
<1>2. AdmissionInv /\ [AdmissionNext]_<<ledgerVars, reqVars>> => AdmissionInv'
  <2> SUFFICES ASSUME AdmissionInv, [AdmissionNext]_<<ledgerVars, reqVars>> PROVE AdmissionInv'
    OBVIOUS
  <2>1. CASE AdmissionNext
    BY <2>1, ArriveWay, ClaimWay DEF AdmissionNext
  <2>2. CASE UNCHANGED <<ledgerVars, reqVars>>
    BY <2>2 DEF reqVars, AdmissionInv, AdmissionTyped, WayOf, Stopped
  <2> QED
    BY <2>1, <2>2
<1> QED
  BY <1>1, <1>2, PTL DEF AdmissionSpec

(* A request without a valid signature gets the middleware's answer, whatever *)
(* it carries and whatever the ledger holds (verify.go:23-48).                *)
THEOREM AdmissionUnverifiedLearnsNothing == AdmissionSpec => []UnverifiedLearnsNothing
<1>1. AdmissionInv => UnverifiedLearnsNothing
  <2> SUFFICES ASSUME AdmissionInv, NEW r \in Requests, "unsigned" \in faults[r]
               PROVE  reply[r] = IF "tooLarge" \in faults[r] THEN "413 too large"
                                 ELSE IF "unreadable" \in faults[r] THEN "400 cannot read body"
                                 ELSE "401 unverified"
    BY DEF UnverifiedLearnsNothing
  <2>1. Refusals(reqId[r], faults[r]) # {}
    BY UnsignedRefused
  <2>2. reqAt[r] = "done" /\ Stopped(r)
    BY <2>1 DEF AdmissionInv, AdmissionTyped, WayOf, Ways
  <2> QED
    BY <2>2, UnsignedRefused DEF Stopped
<1> QED
  BY <1>1, AdmissionInvariant, PTL

(* A sound request of a delivery that is to have an effect reaches the        *)
(* ledger, and no other request does (webhook.go:196-262).                    *)
THEOREM AdmissionWantedGetsThrough == AdmissionSpec => []WantedGetsThrough
<1>1. AdmissionInv => WantedGetsThrough
  <2> SUFFICES ASSUME AdmissionInv, NEW r \in Requests, reqAt[r] # "none"
               PROVE  (reqAt[r] # "done" \/ reply[r] = "duplicate")
                        <=> faults[r] = {} /\ reqId[r] \in Wanted
    BY DEF WantedGetsThrough
  <2>1. reqId[r] \in Ids /\ faults[r] \in FaultSets
    BY DEF AdmissionInv, WayOf
  <2>2. Refusals(reqId[r], faults[r]) = {} <=> faults[r] = {} /\ reqId[r] \in Wanted
    BY <2>1, RefusedUnlessWanted
  <2>3. Stopped(r) => Refusals(reqId[r], faults[r]) # {} /\ reply[r] # "duplicate"
    BY <2>1, RefusedUnlessWanted DEF Stopped
  <2>4. reqAt[r] \in {"claim", "enqueue", "record", "done"}
    BY DEF AdmissionInv, AdmissionTyped, Ways
  <2> QED
    BY <2>2, <2>3, <2>4 DEF AdmissionInv, WayOf
<1> QED
  BY <1>1, AdmissionInvariant, PTL

(* The requests use the ledger by claims of single IDs only: what is proved   *)
(* of the ledger on its own holds of it behind the checks.                    *)
THEOREM AdmissionUsesLedger == AdmissionSpec => Spec
<1>1. AdmissionInit => Init
  BY DEF AdmissionInit
<1>2. AdmissionInv /\ [AdmissionNext]_<<ledgerVars, reqVars>> => [Next]_vars
  <2> SUFFICES ASSUME AdmissionInv, AdmissionNext PROVE [Next]_vars
    BY DEF ledgerVars
  <2>1. PICK r \in Requests : \/ \E d \in Ids, F \in FaultSets : Arrive(r, d, F)
                              \/ ClaimNew(r) \/ ClaimDuplicate(r)
    BY DEF AdmissionNext
  <2>2. CASE \E d \in Ids, F \in FaultSets : Arrive(r, d, F)
    BY <2>2 DEF Arrive, ledgerVars
  <2>3. CASE ClaimNew(r) \/ ClaimDuplicate(r)
    <3>1. reqId[r] \in Ids
      BY <2>3 DEF ClaimNew, ClaimDuplicate, AdmissionInv, WayOf
    <3> QED
      BY <2>3, <3>1 DEF ClaimNew, ClaimDuplicate, Next
  <2> QED
    BY <2>1, <2>2, <2>3
<1> QED
  BY <1>1, <1>2, AdmissionInvariant, PTL DEF AdmissionSpec, Spec

(* The ledger behind the checks is the window, its map and ring agreeing.     *)
THEOREM AdmissionLedger == AdmissionSpec => []RingMatchesSeen /\ ImplementsWindow
  BY AdmissionUsesLedger, LedgerRingMatchesSeen, LedgerImplementsWindow, PTL
-----------------------------------------------------------------------------
(* The requests of Handler. *)

windowBar == [d \in Wanted |-> BehindOf(d)]
reqIdBar == [r \in Requests |-> IF reqAt[r] = "done" /\ reply[r] # "duplicate"
                                THEN "noise" ELSE reqId[r]]
replyBar == [r \in Requests |-> IF reply[r] \in {"none", "duplicate"}
                                THEN reply[r] ELSE "ignored"]

(* A request that is sent on is one that arrives with its delivery; one that  *)
(* is stopped arrives with noise.                                             *)
LEMMA ArriveArrives ==
  ASSUME AdmissionInv, NEW r \in Requests, NEW d \in Ids, NEW F \in FaultSets, Arrive(r, d, F)
  PROVE  \E e \in H!Deliveries : H!Arrive(r, e)
<1>1. /\ reqId' = [reqId EXCEPT ![r] = d] /\ reqAt[r] = "none" /\ reply[r] = "none"
  BY DEF Arrive, AdmissionInv, WayOf
<1>2. windowBar' = windowBar
  BY DEF Arrive, ledgerVars, vars, windowBar, BehindOf, Held, SlotOf, Age, Live
<1>3. CASE Refusals(d, F) = {}
  <2>1. d \in Wanted /\ d # "noise"
    BY <1>3, RefusedUnlessWanted, AdmissionAssumption
  <2>2. reqAt' = [reqAt EXCEPT ![r] = "claim"] /\ reply' = reply
    BY <1>3 DEF Arrive
  <2>3. reqIdBar' = [reqIdBar EXCEPT ![r] = d]
    BY <1>1, <2>2 DEF AdmissionInv, AdmissionTyped, reqIdBar
  <2>4. replyBar' = [replyBar EXCEPT ![r] = "none"]
    BY <1>1, <2>2 DEF AdmissionInv, AdmissionTyped, replyBar
  <2>5. H!Arrive(r, d)
    BY <1>1, <1>2, <2>1, <2>2, <2>3, <2>4
    DEF H!Arrive, H!queueVars, H!workVars, H!logVars, windowBar, reqIdBar, replyBar
  <2> QED
    BY <2>1, <2>5 DEF H!Deliveries, H!ClaimIds, Wanted
<1>4. CASE Refusals(d, F) # {}
  <2>1. /\ reqAt' = [reqAt EXCEPT ![r] = "done"]
        /\ reply' = [reply EXCEPT ![r] = Checks[Min(Refusals(d, F))]]
        /\ Checks[Min(Refusals(d, F))] \notin {"none", "duplicate"}
    BY <1>4, RefusedUnlessWanted DEF Arrive
  <2>2. reqIdBar' = [reqIdBar EXCEPT ![r] = "noise"]
    BY <1>1, <2>1 DEF AdmissionInv, AdmissionTyped, reqIdBar
  <2>3. replyBar' = [replyBar EXCEPT ![r] = "ignored"]
    BY <1>1, <2>1 DEF AdmissionInv, AdmissionTyped, replyBar
  <2>4. H!Arrive(r, "noise")
    BY <1>1, <1>2, <2>1, <2>2, <2>3
    DEF H!Arrive, H!queueVars, H!workVars, H!logVars, windowBar, reqIdBar, replyBar
  <2> QED
    BY <2>4 DEF H!Deliveries
<1> QED
  BY <1>3, <1>4

(* Whether an ID of a claim is known, as the window says it. *)
LEMMA KnownBehind ==
  ASSUME IInv, NEW d \in Ids
  PROVE  BehindOf(d) < Cap <=> Known(d)
  BY BehindRange DEF behindBar

(* A claim of a new ID is granted by the window, and goes on by its kind.     *)
LEMMA ClaimNewClaims ==
  ASSUME IInv, AdmissionInv, NEW r \in Requests, ClaimNew(r)
  PROVE  H!ClaimNew(r)
<1>1. /\ reqAt[r] = "claim" /\ Grant(reqId[r])
      /\ reqAt' = [reqAt EXCEPT ![r] = AfterClaim(reqId[r])] /\ reply' = reply /\ reqId' = reqId
  BY DEF ClaimNew
<1>2. reqId[r] \in Ids /\ reqId[r] \in Wanted /\ reqIdBar[r] = reqId[r]
  BY <1>1, RefusedUnlessWanted DEF AdmissionInv, WayOf, reqIdBar
<1>3. Wanted = (Opened \ BotAuthored) \union Removals /\ Wanted \subseteq Ids
  BY AdmissionAssumption DEF Wanted
<1>4. ~ (windowBar[reqId[r]] < Cap)
  BY <1>1, <1>2, KnownBehind DEF windowBar, Grant
<1>5. windowBar' = [o \in Wanted |-> IF o = reqId[r] THEN 0
                                    ELSE IF windowBar[o] < Cap THEN windowBar[o] + 1 ELSE Cap]
  <2>1. windowBar' = [o \in Wanted |-> BehindOf(o)']
    BY DEF windowBar
  <2>2. \A o \in Wanted : BehindOf(o)' = IF o = reqId[r] THEN 0
                                         ELSE IF BehindOf(o) < Cap THEN BehindOf(o) + 1 ELSE Cap
    BY <1>1, <1>2, <1>3, GrantedBehind, OthersBehind
  <2> QED
    BY <2>1, <2>2 DEF windowBar
<1>6. AfterClaim(reqId[r]) = IF reqId[r] \in Opened \ BotAuthored THEN "enqueue" ELSE "record"
  BY <1>2, <1>3, AdmissionAssumption DEF AfterClaim
<1>7. reqIdBar' = reqIdBar /\ replyBar' = replyBar
  BY <1>1, <1>6 DEF AdmissionInv, AdmissionTyped, Ways, reqIdBar, replyBar
<1> QED
  BY <1>1, <1>2, <1>3, <1>4, <1>5, <1>6, <1>7
  DEF H!ClaimNew, H!Known, H!Window!Remembered, H!Window!Pushed, H!ClaimIds, H!GoOn,
      H!queueVars, H!workVars, H!logVars, windowBar, reqIdBar, replyBar

(* A claim of an ID in the window is a redelivery. *)
LEMMA ClaimDuplicateClaims ==
  ASSUME IInv, AdmissionInv, NEW r \in Requests, ClaimDuplicate(r)
  PROVE  H!ClaimDuplicate(r)
<1>1. /\ reqAt[r] = "claim" /\ Refuse(reqId[r])
      /\ reqAt' = [reqAt EXCEPT ![r] = "done"] /\ reply' = [reply EXCEPT ![r] = "duplicate"]
      /\ reqId' = reqId
  BY DEF ClaimDuplicate
<1>2. reqId[r] \in Ids /\ reqId[r] \in Wanted /\ reqIdBar[r] = reqId[r]
  BY <1>1, RefusedUnlessWanted DEF AdmissionInv, WayOf, reqIdBar
<1>3. windowBar[reqId[r]] < Cap
  BY <1>1, <1>2, KnownBehind DEF windowBar, Refuse
<1>4. windowBar' = windowBar
  BY <1>1 DEF Refuse, windowBar, BehindOf, Held, SlotOf, Age, Live
<1>5. reqIdBar' = reqIdBar
  BY <1>1 DEF AdmissionInv, AdmissionTyped, Ways, reqIdBar
<1>6. replyBar' = [replyBar EXCEPT ![r] = "duplicate"]
  BY <1>1 DEF AdmissionInv, AdmissionTyped, replyBar
<1> QED
  BY <1>1, <1>2, <1>3, <1>4, <1>5, <1>6
  DEF H!ClaimDuplicate, H!Known, H!Window!Remembered, H!Answer,
      H!queueVars, H!workVars, H!logVars, windowBar, reqIdBar, replyBar

(* The checks and the map and ring behind them are the request of Handler and *)
(* its window: what is proved of the handler on the window stands on the      *)
(* ledger as it is coded (webhook.go:196-272, dedupe.go:37-53).               *)
THEOREM AdmissionImplementsRequests == AdmissionSpec => ImplementsRequests
<1>1. IInv /\ AdmissionInv /\ [AdmissionNext]_<<ledgerVars, reqVars>>
        => [\E r \in Requests : \/ \E d \in H!Deliveries : H!Arrive(r, d)
                                \/ H!ClaimNew(r) \/ H!ClaimDuplicate(r)]_(H!vars)
  <2> DEFINE Step == \E r \in Requests : \/ \E d \in H!Deliveries : H!Arrive(r, d)
                                        \/ H!ClaimNew(r) \/ H!ClaimDuplicate(r)
  <2> SUFFICES ASSUME IInv, AdmissionInv, [AdmissionNext]_<<ledgerVars, reqVars>>
               PROVE  [Step]_(H!vars)
    OBVIOUS
  <2>1. CASE AdmissionNext
    BY <2>1, ArriveArrives, ClaimNewClaims, ClaimDuplicateClaims DEF AdmissionNext
  <2>2. CASE UNCHANGED <<ledgerVars, reqVars>>
    <3>1. UNCHANGED <<reqAt, reply, reqId, seen, ring, pos, count>>
      BY <2>2 DEF ledgerVars, vars, reqVars
    <3>2. windowBar' = windowBar /\ reqIdBar' = reqIdBar /\ replyBar' = replyBar
      BY <3>1 DEF windowBar, reqIdBar, replyBar, BehindOf, Held, SlotOf, Age, Live
    <3> QED
      BY <3>1, <3>2
      DEF H!vars, H!reqVars, H!queueVars, H!workVars, H!logVars, windowBar, reqIdBar, replyBar
  <2> QED
    BY <2>1, <2>2
<1>2. AdmissionSpec => []IInv
  BY AdmissionUsesLedger, LedgerInvariant, PTL
<1> QED
  BY <1>1, <1>2, AdmissionInvariant, PTL DEF AdmissionSpec, ImplementsRequests
=============================================================================
