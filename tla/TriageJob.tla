------------------------------- MODULE TriageJob -------------------------------
(* One job of a worker (internal/webhook/webhook.go, worker, process and act) *)
(* as the calls it makes: the diff, the model's verdict (internal/triage), and *)
(* the three writes.  Every GitHub call is a run of Retry; they share one     *)
(* context, so the clock of Retry goes on from call to call.                  *)
EXTENDS Retry

CONSTANTS ModelTimeout,  \* the timeout of the model's HTTP client
          ShadowMode

ASSUME JobAssumption == ModelTimeout \in Nat \ {0} /\ ShadowMode \in BOOLEAN

VARIABLES stage,    \* the call the worker is in
          headSHA,  \* the payload had a head SHA
          diff,     \* history: what the fetch handed on, "none", "whole" or "cut"
          verdict,  \* as in Handler
          calls     \* per write: what the worker made of it

jobVars == <<stage, headSHA, diff, verdict, calls>>

Writes == {"label", "comment", "check"}

JobInit == /\ Init
           /\ stage = "fetch"
           /\ headSHA \in BOOLEAN
           /\ diff = "none"
           /\ verdict = "none"
           /\ calls = [c \in Writes |-> "untried"]

(* At time t the worker turns to its next call: doRetrying is entered anew.   *)
GoTo(next, t) == /\ stage' = next
                 /\ now' = t
                 /\ at' = "send" /\ attempt' = 0 /\ backoff' = BaseBackoff
                 /\ wake' = 0 /\ status' = "none" /\ err' = "none" /\ hint' = 0
                 /\ whole' = FALSE /\ sends' = 0 /\ answered' = t /\ landed' = 0

(* A step inside doRetrying. *)
Calling == stage \in Writes \union {"fetch"} /\ Next /\ UNCHANGED jobVars

FetchOk == /\ stage = "fetch" /\ Succeeded
           /\ diff' = IF whole THEN "whole" ELSE "cut"
           /\ GoTo("analyze", now)
           /\ UNCHANGED <<headSHA, verdict, calls>>

(* Mutant of AfterFetchError: the title alone is put to the model. *)
AfterFetchErrorGoesOn == "analyze"

AfterFetchError == "done"

FetchError == /\ stage = "fetch" /\ at = "returned" /\ ~ Succeeded
              /\ verdict' = "failed"
              /\ GoTo(AfterFetchError, now)
              /\ UNCHANGED <<headSHA, diff, calls>>

(* No answer of the model, an error status, or no JSON. *)
AnalyzeError(t) == /\ stage = "analyze"
                   /\ verdict' = "failed"
                   /\ GoTo("done", t)
                   /\ UNCHANGED <<headSHA, diff, calls>>

Skip(t) == /\ stage = "analyze" /\ ~ Expired
           /\ verdict' = "skipped"
           /\ GoTo("done", t)
           /\ UNCHANGED <<headSHA, diff, calls>>

Flag(t) == /\ stage = "analyze" /\ ~ Expired
           /\ verdict' = "flagged"
           /\ GoTo(IF ShadowMode THEN "done" ELSE "label", t)
           /\ UNCHANGED <<headSHA, diff, calls>>

(* Analyze makes one attempt. *)
Analyze == \E t \in Ends(ModelTimeout) : AnalyzeError(t) \/ Skip(t) \/ Flag(t)

(* Mutant of AfterWrite: a comment that failed is tried for as long as it takes. *)
AfterWriteInsists ==
  IF stage = "label" \/ (stage = "comment" /\ ~ Succeeded) THEN "comment"
  ELSE IF stage = "comment" /\ headSHA THEN "check" ELSE "done"

(* An error is logged and changes nothing; no head SHA, no check run. *)
AfterWrite ==
  IF stage = "label" THEN "comment"
  ELSE IF stage = "comment" /\ headSHA THEN "check" ELSE "done"

Written == /\ stage \in Writes /\ at = "returned"
           /\ calls' = [calls EXCEPT ![stage] = IF Succeeded THEN "ok" ELSE "error"]
           /\ GoTo(AfterWrite, now)
           /\ UNCHANGED <<headSHA, diff, verdict>>

JobNext == Calling \/ FetchOk \/ FetchError \/ Analyze \/ Written

(* The worker is scheduled, timers fire and both clients time out. *)
JobSpec == JobInit /\ [][JobNext]_<<vars, jobVars>> /\ WF_<<vars, jobVars>>(JobNext)
-----------------------------------------------------------------------------
JobTypeOK == /\ TypeOK
             /\ stage \in {"fetch", "analyze", "done"} \union Writes
             /\ headSHA \in BOOLEAN /\ diff \in {"none", "whole", "cut"}
             /\ verdict \in {"none", "failed", "skipped", "flagged"}
             /\ calls \in [Writes -> {"untried", "ok", "error"}]

(* A worker is not lost to one job, however its calls fare.                   *)
JobEnds == <>(stage = "done")

(* The worker of Handler, in which each call is one step: its one request has *)
(* been accepted and its job taken.                                           *)
H == INSTANCE Handler WITH
  Pulls <- {"headed", "bare"}, NoSHA <- {"bare"}, Removals <- {}, Others <- {},
  Requests <- {"r"}, Workers <- {"w"}, Stoppers <- {}, NoJob <- "noJob",
  LedgerCap <- 1, QueueCap <- 1, FeedbackCap <- 1, FeedbackOn <- FALSE,
  behind <- [d \in {"headed", "bare"} |-> 1],
  reqAt <- [r \in {"r"} |-> "done"],
  reqId <- [r \in {"r"} |-> IF headSHA THEN "headed" ELSE "bare"],
  reply <- [r \in {"r"} |-> "accepted"],
  jobs <- << >>, jobsClosed <- FALSE,
  workerAt <- [w \in {"w"} |-> IF stage = "done" THEN "idle" ELSE stage],
  workerJob <- [w \in {"w"} |-> IF stage = "done" THEN "noJob" ELSE "r"],
  verdict <- [r \in {"r"} |-> verdict],
  calls <- [r \in {"r"} |-> calls],
  stats <- [c \in {"received", "triaged", "flagged", "skipped", "failed"} |->
              IF \/ c = "received" \/ c = verdict
                 \/ c = "triaged" /\ verdict \in {"flagged", "skipped"} THEN 1 ELSE 0],
  stopper <- << >>,
  ch <- << >>, chClosed <- FALSE, writer <- "unstarted", hand <- "noJob",
  file <- << >>, unwritten <- {}, recorded <- << >>, closer <- << >>, sent <- {}

(* The calls, with all that happens inside them, make one step each of the    *)
(* worker of Handler: one verdict, the writes in their order, all that are    *)
(* due whatever became of the ones before, however little time is left.       *)
ImplementsWorker == [][H!Work("w")]_(H!vars)

(* The constitution (22-24) counts a "diff fetch error" among the failures    *)
(* that "MUST result in no PR mutation": what is written to a pull request    *)
(* rests on its whole diff.                                                   *)
MarksOnWholeDiff == (\E c \in Writes : calls[c] # "untried") => diff = "whole"
=============================================================================
