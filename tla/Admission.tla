------------------------------- MODULE Admission -------------------------------
(* The way of a request to the ledger: the middleware of internal/verify and  *)
(* the checks of ServeHTTP (internal/webhook/webhook.go), in their order, and *)
(* the ledger as it is, map and ring.  A request carries a delivery, which    *)
(* fixes the payload, and may have faults of its own on every redelivery.     *)
EXTENDS Ledger, Sequences, FiniteSetsExt

CONSTANTS Opened,       \* deliveries with an actionable action
          Removals,     \* deliveries that report the slop label removed
          Garbled,      \* deliveries whose body is no such JSON
          BotAuthored,  \* deliveries about a pull request of a bot
          Requests,
          FaultSets     \* the combinations of faults a request may have

Faults == {"tooLarge", "unreadable", "unsigned", "notPost", "otherEvent", "noId"}

ASSUME AdmissionAssumption ==
  /\ Opened \subseteq Ids /\ Removals \subseteq Ids /\ Garbled \subseteq Ids
  /\ Opened \intersect Removals = {} /\ (Opened \union Removals) \intersect Garbled = {}
  /\ BotAuthored \subseteq Ids /\ FaultSets \subseteq SUBSET Faults
  /\ "noise" \notin Ids

VARIABLES reqAt, reply,  \* per request, as in Handler
          reqId,         \* per request: its delivery
          faults         \* per request: its faults

reqVars == <<reqAt, reply, reqId, faults>>
ledgerVars == vars

AdmissionInit == /\ Init
                 /\ reqAt = [r \in Requests |-> "none"]
                 /\ reply = [r \in Requests |-> "none"]
                 /\ reqId = [r \in Requests |-> NoId]
                 /\ faults = [r \in Requests |-> {}]

(* The checks, each named by the answer of a request it stops.                *)
Middleware == <<"413 too large", "400 cannot read body", "401 unverified">>

Gates == <<"405 not allowed", "200 ignored event", "400 missing id",
           "400 invalid payload", "200 ignored action", "200 ignored bot">>

(* Mutant of Checks: the signature is left for last. *)
ChecksGatesFirst == Gates \o Middleware

Checks == Middleware \o Gates

(* Mutant of BotGate: the author is looked at before the removed label. *)
BotGateFirst(d) == d \in BotAuthored

(* The removal of our label passes whoever wrote the pull request.            *)
BotGate(d) == d \in BotAuthored \ Removals

Stops(check, d, F) ==
  \/ check = "413 too large" /\ "tooLarge" \in F
  \/ check = "400 cannot read body" /\ "unreadable" \in F
  \/ check = "401 unverified" /\ "unsigned" \in F
  \/ check = "405 not allowed" /\ "notPost" \in F
  \/ check = "200 ignored event" /\ "otherEvent" \in F
  \/ check = "400 missing id" /\ "noId" \in F
  \/ check = "400 invalid payload" /\ d \in Garbled
  \/ check = "200 ignored action" /\ d \notin Removals \union Opened
  \/ check = "200 ignored bot" /\ BotGate(d)

Refusals(d, F) == {i \in 1 .. Len(Checks) : Stops(Checks[i], d, F)}

(* The first check that fires ends the request. *)
Arrive(r, d, F) ==
  /\ reqAt[r] = "none"
  /\ reqId' = [reqId EXCEPT ![r] = d]
  /\ faults' = [faults EXCEPT ![r] = F]
  /\ IF Refusals(d, F) = {}
     THEN reqAt' = [reqAt EXCEPT ![r] = "claim"] /\ UNCHANGED reply
     ELSE /\ reqAt' = [reqAt EXCEPT ![r] = "done"]
          /\ reply' = [reply EXCEPT ![r] = Checks[Min(Refusals(d, F))]]
  /\ UNCHANGED ledgerVars

(* Mutant of AfterClaim: a removal takes the way of a pull request. *)
AfterClaimEnqueue(d) == "enqueue"

AfterClaim(d) == IF d \in Removals THEN "record" ELSE "enqueue"

ClaimNew(r) == /\ reqAt[r] = "claim"
               /\ Grant(reqId[r])
               /\ reqAt' = [reqAt EXCEPT ![r] = AfterClaim(reqId[r])]
               /\ UNCHANGED <<reply, reqId, faults>>

ClaimDuplicate(r) == /\ reqAt[r] = "claim"
                     /\ Refuse(reqId[r])
                     /\ reqAt' = [reqAt EXCEPT ![r] = "done"]
                     /\ reply' = [reply EXCEPT ![r] = "duplicate"]
                     /\ UNCHANGED <<reqId, faults>>

AdmissionNext == \E r \in Requests :
                   \/ \E d \in Ids, F \in FaultSets : Arrive(r, d, F)
                   \/ ClaimNew(r) \/ ClaimDuplicate(r)

AdmissionSpec == AdmissionInit /\ [][AdmissionNext]_<<ledgerVars, reqVars>>
-----------------------------------------------------------------------------
(* The deliveries that are to have an effect. *)
Wanted == (Opened \ BotAuthored) \union Removals

(* "admitting only requests whose body carries a valid signature", "before    *)
(* any payload is parsed": what an unsigned request is told depends on the    *)
(* transfer of its body alone, not on what is in it, or on the ledger.        *)
UnverifiedLearnsNothing ==
  \A r \in Requests :
    "unsigned" \in faults[r] =>
      reply[r] = IF "tooLarge" \in faults[r] THEN "413 too large"
                 ELSE IF "unreadable" \in faults[r] THEN "400 cannot read body"
                 ELSE "401 unverified"

(* No check shadows another: a sound request reaches the ledger exactly if    *)
(* its delivery is to have an effect, the removal of the slop label from a    *)
(* bot's pull request included, and any other request never does.             *)
WantedGetsThrough ==
  \A r \in Requests :
    reqAt[r] # "none" =>
      ((reqAt[r] # "done" \/ reply[r] = "duplicate")
         <=> faults[r] = {} /\ reqId[r] \in Wanted)

(* The request of Handler, with the ring in the place of the window: a        *)
(* refused request is one that carries noise.                                 *)
H == INSTANCE Handler WITH
  Pulls <- Opened \ BotAuthored, NoSHA <- {}, Others <- {"noise"},
  Workers <- {"w"}, Stoppers <- {}, NoJob <- NoId,
  LedgerCap <- Cap, QueueCap <- 1, FeedbackCap <- 1, FeedbackOn <- FALSE, ShadowMode <- FALSE,
  behind <- [d \in Wanted |-> BehindOf(d)],
  reqId <- [r \in Requests |-> IF reqAt[r] = "done" /\ reply[r] # "duplicate"
                               THEN "noise" ELSE reqId[r]],
  reply <- [r \in Requests |-> IF reply[r] \in {"none", "duplicate"}
                               THEN reply[r] ELSE "ignored"],
  jobs <- << >>, jobsClosed <- FALSE, workerAt <- "idle", workerJob <- NoId,
  verdict <- << >>, calls <- << >>, stats <- << >>, stopper <- << >>,
  ch <- << >>, chClosed <- FALSE, writer <- "unstarted", hand <- NoId,
  file <- << >>, unwritten <- {}, recorded <- << >>, closer <- << >>, sent <- {}

(* Every step is one of Handler's from the arrival of a request to its claim. *)
ImplementsRequests ==
  [][\E r \in Requests : \/ \E d \in H!Deliveries : H!Arrive(r, d)
                         \/ H!ClaimNew(r) \/ H!ClaimDuplicate(r)]_(H!vars)
=============================================================================
