-------------------------------- MODULE Handler --------------------------------
(* The webhook handler of internal/webhook/webhook.go: HTTP request           *)
(* goroutines claim a delivery and hand it to a bounded queue, worker         *)
(* goroutines triage what they take from it, and Shutdown closes the queue    *)
(* and waits.  The ledger is used through its specification DedupWindow; the  *)
(* disagreement log is FeedbackLog, with one signal per request and one       *)
(* closer per call of Shutdown.  A job is named by the request it came from.  *)
EXTENDS Naturals, Sequences, FiniteSets

CONSTANTS Pulls,        \* deliveries with an actionable pull_request event
          NoSHA,        \* those of them whose payload has no head SHA
          Removals,     \* deliveries that report the slop label removed
          Others,       \* deliveries answered without any effect
          Requests,     \* HTTP requests; redeliveries share a delivery
          Workers,      \* worker goroutines
          Stoppers,     \* calls of Shutdown
          NoJob,        \* no request, no job, no signal
          LedgerCap,    \* ledgerCapacity
          QueueCap,     \* queueCapacity
          FeedbackCap,  \* feedbackBuffer
          FeedbackOn,   \* FEEDBACK_LOG is set
          ShadowMode

ASSUME HandlerAssumption ==
  /\ LedgerCap \in Nat \ {0} /\ QueueCap \in Nat \ {0} /\ FeedbackCap \in Nat \ {0}
  /\ FeedbackOn \in BOOLEAN /\ ShadowMode \in BOOLEAN
  /\ NoSHA \subseteq Pulls
  /\ NoJob \notin Requests
  /\ Workers # {}   \* Start clamps the worker count to at least one
  /\ IsFiniteSet(Requests) /\ IsFiniteSet(Workers)

VARIABLES
  behind,                        \* the ledger, as DedupWindow sees it
  reqAt, reqId, reply,           \* per request: where it is, its delivery, its answer
  jobs, jobsClosed,              \* the job channel
  workerAt, workerJob,           \* per worker: where it is, the job it runs
  verdict,                       \* per request: what process concluded for its job
  calls,                         \* per request: what became of the three GitHub writes
  stats,                         \* the counters of stats.go
  stopper,                       \* per call of Shutdown: where it is
  ch, chClosed, writer, hand, file, unwritten, recorded, closer, sent  \* FeedbackLog

reqVars == <<reqAt, reqId, reply>>
queueVars == <<jobs, jobsClosed>>
workVars == <<workerAt, workerJob, verdict, calls>>
logVars == <<ch, chClosed, writer, hand, file, unwritten, recorded, closer, sent>>
vars == <<behind, reqVars, queueVars, workVars, stats, stopper, logVars>>

ClaimIds == Pulls \union Removals
Deliveries == ClaimIds \union Others

Window == INSTANCE DedupWindow WITH Ids <- ClaimIds, Cap <- LedgerCap, answer <- << >>

Log == INSTANCE FeedbackLog WITH Signals <- Requests, Closers <- Stoppers,
                                 NoSignal <- NoJob, BufferCap <- FeedbackCap

Writes == {"label", "comment", "check"}

Counters == {"received", "triaged", "flagged", "skipped", "failed"}

Init == /\ behind = [d \in ClaimIds |-> LedgerCap]
        /\ reqAt = [r \in Requests |-> "none"]
        /\ reqId = [r \in Requests |-> NoJob]
        /\ reply = [r \in Requests |-> "none"]
        /\ jobs = << >>
        /\ jobsClosed = FALSE
        /\ workerAt = [w \in Workers |-> "off"]
        /\ workerJob = [w \in Workers |-> NoJob]
        /\ verdict = [r \in Requests |-> "none"]
        /\ calls = [r \in Requests |-> [c \in Writes |-> "untried"]]
        /\ stats = [c \in Counters |-> 0]
        /\ stopper = [s \in Stoppers |-> "out"]
        /\ Log!Init

(* The counters named by C, each incremented once. *)
Counted(C) == [c \in Counters |-> IF c \in C THEN stats[c] + 1 ELSE stats[c]]
-----------------------------------------------------------------------------
(* Start launches the writer of the disagreement log and the workers.         *)
Started == \A w \in Workers : workerAt[w] # "off"

Start == /\ ~ Started
         /\ workerAt' = [w \in Workers |-> "idle"]
         /\ IF FeedbackOn THEN Log!Start ELSE UNCHANGED logVars
         /\ UNCHANGED <<behind, reqVars, queueVars, workerJob, verdict, calls, stats, stopper>>
-----------------------------------------------------------------------------
(* A request goroutine, ServeHTTP.                                            *)

Answer(r, text) == /\ reqAt' = [reqAt EXCEPT ![r] = "done"]
                   /\ reply' = [reply EXCEPT ![r] = text]
                   /\ UNCHANGED reqId

GoOn(r, next) == /\ reqAt' = [reqAt EXCEPT ![r] = next]
                 /\ UNCHANGED <<reqId, reply>>

(* The checks before the ledger: what none of them stops will be claimed.     *)
Arrive(r, d) == /\ reqAt[r] = "none"
                /\ reqId' = [reqId EXCEPT ![r] = d]
                /\ reqAt' = [reqAt EXCEPT ![r] = IF d \in Others THEN "done" ELSE "claim"]
                /\ reply' = [reply EXCEPT ![r] = IF d \in Others THEN "ignored" ELSE "none"]
                /\ UNCHANGED <<behind, queueVars, workVars, stats, stopper, logVars>>

(* Mutant of Known: the ledger is not asked. *)
KnownNever(r) == FALSE

Known(r) == Window!Remembered(reqId[r])

ClaimNew(r) == /\ reqAt[r] = "claim"
               /\ ~ Known(r)
               /\ behind' = Window!Pushed(reqId[r])
               /\ GoOn(r, IF reqId[r] \in Pulls THEN "enqueue" ELSE "record")
               /\ UNCHANGED <<queueVars, workVars, stats, stopper, logVars>>

ClaimDuplicate(r) == /\ reqAt[r] = "claim"
                     /\ Known(r)
                     /\ Answer(r, "duplicate")
                     /\ UNCHANGED <<behind, queueVars, workVars, stats, stopper, logVars>>

HasRoom == Len(jobs) < QueueCap

(* The select with a default case.  A send on the closed channel panics; the  *)
(* HTTP server recovers the panic, so it ends this request only.              *)
EnqueueOk(r) == /\ reqAt[r] = "enqueue" /\ ~ jobsClosed /\ HasRoom
                /\ jobs' = Append(jobs, r)
                /\ GoOn(r, "count")
                /\ UNCHANGED <<behind, jobsClosed, workVars, stats, stopper, logVars>>

(* Mutant of EnqueueFull: a send without a default case waits. *)
EnqueueFullWaits(r) == FALSE

EnqueueFull(r) == /\ reqAt[r] = "enqueue" /\ ~ jobsClosed /\ ~ HasRoom
                  /\ Answer(r, "full")
                  /\ UNCHANGED <<behind, queueVars, workVars, stats, stopper, logVars>>

EnqueuePanic(r) == /\ reqAt[r] = "enqueue" /\ jobsClosed
                   /\ Answer(r, "panic")
                   /\ UNCHANGED <<behind, queueVars, workVars, stats, stopper, logVars>>

(* incReceived comes after the send: a worker may have finished the job.      *)
Count(r) == /\ reqAt[r] = "count"
            /\ stats' = Counted({"received"})
            /\ Answer(r, "accepted")
            /\ UNCHANGED <<behind, queueVars, workVars, stopper, logVars>>

RecordDisagreement(r) ==
  /\ reqAt[r] = "record"
  /\ \/ ~ FeedbackOn /\ Answer(r, "disabled") /\ UNCHANGED logVars
     \/ FeedbackOn /\ Log!RecordTrue(r) /\ Answer(r, "recorded")
     \/ FeedbackOn /\ Log!RecordFalse(r) /\ Answer(r, "bufferFull")
     \/ FeedbackOn /\ Log!RecordPanic(r) /\ Answer(r, "panic")
  /\ UNCHANGED <<behind, queueVars, workVars, stats, stopper>>

Serve(r) == \/ ClaimNew(r) \/ ClaimDuplicate(r)
            \/ EnqueueOk(r) \/ EnqueueFull(r) \/ EnqueuePanic(r)
            \/ Count(r) \/ RecordDisagreement(r)
-----------------------------------------------------------------------------
(* A worker goroutine: the range loop over the queue, process and act.        *)

(* Mutant of Dequeued: the job taken stays in the queue. *)
DequeuedNone == jobs

Dequeued == Tail(jobs)

Take(w) == /\ workerAt[w] = "idle" /\ jobs # << >>
           /\ workerJob' = [workerJob EXCEPT ![w] = Head(jobs)]
           /\ workerAt' = [workerAt EXCEPT ![w] = "fetch"]
           /\ jobs' = Dequeued
           /\ UNCHANGED <<behind, reqVars, jobsClosed, verdict, calls, stats, stopper, logVars>>

(* Mutant of RangeEnds: the worker leaves at the close, with jobs queued. *)
RangeEndsEarly == jobsClosed

(* Mutant of RangeEnds: a bare receive in a loop does not see the close. *)
RangeEndsNever == FALSE

RangeEnds == jobsClosed /\ jobs = << >>

Exit(w) == /\ workerAt[w] = "idle" /\ RangeEnds
           /\ workerAt' = [workerAt EXCEPT ![w] = "exited"]
           /\ UNCHANGED <<behind, reqVars, queueVars, workerJob, verdict, calls,
                          stats, stopper, logVars>>

MoveTo(w, next) == /\ workerAt' = [workerAt EXCEPT ![w] = next]
                   /\ UNCHANGED workerJob

Return(w) == /\ workerAt' = [workerAt EXCEPT ![w] = "idle"]
             /\ workerJob' = [workerJob EXCEPT ![w] = NoJob]

(* Mutant of CountedFor: a flag is not counted as triaged. *)
CountedForOnce(v) == IF v = "skipped" THEN {"triaged", v} ELSE {v}

(* incFailed; incSkipped and incFlagged, which also count as triaged. *)
CountedFor(v) == IF v = "failed" THEN {"failed"} ELSE {"triaged", v}

Conclude(w, v) == /\ verdict' = [verdict EXCEPT ![workerJob[w]] = v]
                  /\ stats' = Counted(CountedFor(v))
                  /\ UNCHANGED calls

FetchOk(w) == /\ workerAt[w] = "fetch"
              /\ MoveTo(w, "analyze")
              /\ UNCHANGED <<behind, reqVars, queueVars, verdict, calls, stats, stopper, logVars>>

FetchError(w) == /\ workerAt[w] = "fetch"
                 /\ Conclude(w, "failed")
                 /\ Return(w)
                 /\ UNCHANGED <<behind, reqVars, queueVars, stopper, logVars>>

AnalyzeError(w) == /\ workerAt[w] = "analyze"
                   /\ Conclude(w, "failed")
                   /\ Return(w)
                   /\ UNCHANGED <<behind, reqVars, queueVars, stopper, logVars>>

(* Not slop, or slop below the threshold. *)
Skip(w) == /\ workerAt[w] = "analyze"
           /\ Conclude(w, "skipped")
           /\ Return(w)
           /\ UNCHANGED <<behind, reqVars, queueVars, stopper, logVars>>

AfterFlag == IF ShadowMode THEN "idle" ELSE "label"

Flag(w) == /\ workerAt[w] = "analyze"
           /\ Conclude(w, "flagged")
           /\ IF AfterFlag = "idle" THEN Return(w) ELSE MoveTo(w, AfterFlag)
           /\ UNCHANGED <<behind, reqVars, queueVars, stopper, logVars>>

(* Mutant of AfterWrite: act returns at the first error. *)
AfterWriteStops(w, c, result) ==
  IF result = "error" THEN "idle"
  ELSE IF c = "label" THEN "comment"
  ELSE IF c = "comment" /\ reqId[workerJob[w]] \notin NoSHA THEN "check" ELSE "idle"

(* The steps of act: an error is logged and changes nothing, and without a    *)
(* head SHA there is no check run.                                            *)
AfterWrite(w, c, result) ==
  IF c = "label" THEN "comment"
  ELSE IF c = "comment" /\ reqId[workerJob[w]] \notin NoSHA THEN "check" ELSE "idle"

Write(w, c) == /\ workerAt[w] = c
               /\ \E result \in {"ok", "error"} :
                    /\ calls' = [calls EXCEPT ![workerJob[w]][c] = result]
                    /\ IF AfterWrite(w, c, result) = "idle" THEN Return(w)
                       ELSE MoveTo(w, AfterWrite(w, c, result))
               /\ UNCHANGED <<behind, reqVars, queueVars, verdict, stats, stopper, logVars>>

AddLabel(w) == Write(w, "label")
PostComment(w) == Write(w, "comment")
CreateCheckRun(w) == Write(w, "check")

Work(w) == \/ Take(w) \/ Exit(w)
           \/ FetchOk(w) \/ FetchError(w)
           \/ AnalyzeError(w) \/ Skip(w) \/ Flag(w)
           \/ AddLabel(w) \/ PostComment(w) \/ CreateCheckRun(w)
-----------------------------------------------------------------------------
(* Shutdown.  main calls Start first (main.go:88).                            *)

CloseJobs(s) == /\ stopper[s] = "out" /\ Started
                /\ jobsClosed' = TRUE
                /\ stopper' = [stopper EXCEPT ![s] = "waiting"]
                /\ UNCHANGED <<behind, reqVars, jobs, workVars, stats, logVars>>

AllExited == \A w \in Workers : workerAt[w] = "exited"

(* wg.Wait has returned: close the disagreement log, if there is one. *)
WorkersDone(s) == /\ stopper[s] = "waiting" /\ AllExited
                  /\ stopper' = [stopper EXCEPT ![s] = IF FeedbackOn THEN "flushing" ELSE "nil"]
                  /\ IF FeedbackOn THEN Log!Close(s) ELSE UNCHANGED logVars
                  /\ UNCHANGED <<behind, reqVars, queueVars, workVars, stats>>

Flushed(s) == /\ stopper[s] = "flushing"
              /\ Log!CloseReturns(s)
              /\ stopper' = [stopper EXCEPT ![s] = "nil"]
              /\ UNCHANGED <<behind, reqVars, queueVars, workVars, stats>>

(* The context ends while the workers are still at it, or at the same time as *)
(* they end: select then takes either branch.                                 *)
GiveUp(s) == /\ stopper[s] = "waiting"
             /\ stopper' = [stopper EXCEPT ![s] = "ctxError"]
             /\ UNCHANGED <<behind, reqVars, queueVars, workVars, stats, logVars>>

Shutdown(s) == WorkersDone(s) \/ Flushed(s) \/ GiveUp(s)
-----------------------------------------------------------------------------
WriteLog == /\ Log!Write
            /\ UNCHANGED <<behind, reqVars, queueVars, workVars, stats, stopper>>

Next == \/ Start
        \/ \E r \in Requests : Serve(r) \/ \E d \in Deliveries : Arrive(r, d)
        \/ \E w \in Workers : Work(w)
        \/ \E s \in Stoppers : CloseJobs(s) \/ Shutdown(s)
        \/ WriteLog

Spec == Init /\ [][Next]_vars

(* The goroutines that serve requests are scheduled.  Workers may hang.       *)
RequestsScheduled == \A r \in Requests : WF_vars(Serve(r))

AckSpec == Spec /\ RequestsScheduled

(* So are all the others, and the remote calls of a worker return; whether    *)
(* the context of a Shutdown ends in time is not assumed.                     *)
OthersScheduled == /\ WF_vars(Start)
                   /\ WF_vars(WriteLog)
                   /\ \A w \in Workers : WF_vars(Work(w))
                   /\ \A s \in Stoppers : WF_vars(WorkersDone(s)) /\ WF_vars(Flushed(s))
-----------------------------------------------------------------------------
TypeOK == /\ behind \in [ClaimIds -> 0 .. LedgerCap]
          /\ reqAt \in [Requests -> {"none", "claim", "enqueue", "count", "record", "done"}]
          /\ reqId \in [Requests -> Deliveries \union {NoJob}]
          /\ reply \in [Requests -> {"none", "ignored", "duplicate", "full", "accepted",
                                     "disabled", "recorded", "bufferFull", "panic"}]
          /\ jobs \in Seq(Requests) /\ Len(jobs) <= QueueCap
          /\ jobsClosed \in BOOLEAN
          /\ workerAt \in [Workers -> {"off", "idle", "fetch", "analyze", "exited"} \union Writes]
          /\ workerJob \in [Workers -> Requests \union {NoJob}]
          /\ verdict \in [Requests -> {"none", "failed", "skipped", "flagged"}]
          /\ calls \in [Requests -> [Writes -> {"untried", "ok", "error"}]]
          /\ stats \in [Counters -> Nat]
          /\ stopper \in [Stoppers -> {"out", "waiting", "flushing", "nil", "ctxError"}]

(* The requests whose job went into the queue. *)
Enqueued(r) == reqAt[r] = "count" \/ reply[r] = "accepted"

Triaging(w) == workerAt[w] \in {"fetch", "analyze"}

Concluded(r) == verdict[r] # "none"

(* An enqueued job is in exactly one place: once in the queue, or with one    *)
(* worker that has no verdict yet, or concluded.  So none is lost between the *)
(* goroutines and no pull request is triaged twice for one request.           *)
OnePlace ==
  \A r \in Requests :
    LET places == Cardinality({i \in 1 .. Len(jobs) : jobs[i] = r})
                  + Cardinality({w \in Workers : Triaging(w) /\ workerJob[w] = r})
                  + (IF Concluded(r) THEN 1 ELSE 0)
    IN  places = IF Enqueued(r) THEN 1 ELSE 0

(* The counters account for every accepted delivery: those received, and      *)
(* those about to be, are queued, in triage, triaged or failed, and triaged   *)
(* is flagged and skipped.  (The worker may be ahead of incReceived.)         *)
CountersAgree ==
  /\ stats["received"] + Cardinality({r \in Requests : reqAt[r] = "count"})
       = Len(jobs) + Cardinality({w \in Workers : Triaging(w)})
         + stats["triaged"] + stats["failed"]
  /\ stats["triaged"] = stats["flagged"] + stats["skipped"]

(* When a Shutdown has returned nil, the queue is empty, no worker holds a    *)
(* job, so every write is behind it, and every accepted delivery has its      *)
(* verdict.                                                                   *)
DrainedOnNil ==
  (\E s \in Stoppers : stopper[s] = "nil") =>
    /\ jobs = << >>
    /\ \A w \in Workers : workerJob[w] = NoJob
    /\ \A r \in Requests : Enqueued(r) => Concluded(r)

(* And every disagreement answered "recorded" that met no file error is in    *)
(* the file: the log is closed after the workers are done, and flushed.       *)
LogFlushedOnNil ==
  (\E s \in Stoppers : stopper[s] = "nil") =>
    \A r \in Requests : reply[r] = "recorded" =>
      r \in unwritten \/ \E i \in 1 .. Len(file) : file[i] = r

(* The requests that won their claim. *)
Won(r) == reqAt[r] \in {"enqueue", "count", "record"}
          \/ reply[r] \in {"full", "accepted", "disabled", "recorded", "bufferFull", "panic"}

(* Of two requests with one delivery ID, redelivered in any way and racing in *)
(* any way, both are let through only if LedgerCap other IDs were too.        *)
OncePerWindow ==
  \A r, q \in Requests :
    r # q /\ Won(r) /\ Won(q) /\ reqId[r] = reqId[q] =>
      Cardinality({reqId[p] : p \in {p \in Requests : Won(p)}} \ {reqId[r]}) >= LedgerCap

Held(r) == \E w \in Workers : workerJob[w] = r

(* GitHub is written to for a flagged job outside shadow mode and for no      *)
(* other; and such a job, once its worker is through with it, had its label   *)
(* and comment tried, and its check run if there is a head SHA, whatever      *)
(* error the others met ("each is logged, not fatal").                        *)
WritesMatchVerdict ==
  \A r \in Requests :
    LET tried == {c \in Writes : calls[r][c] # "untried"}
        due == {"label", "comment"} \union (IF reqId[r] \in NoSHA THEN {} ELSE {"check"})
    IN  IF verdict[r] = "flagged" /\ ~ ShadowMode
        THEN tried \subseteq due /\ (Held(r) \/ tried = due)
        ELSE tried = {}

(* The handler implements the promise of GatewaySpec: a request is accepted   *)
(* when its job is in the queue, worked on while the job is queued or held.   *)
Promise == INSTANCE GatewaySpec WITH
  Quiet <- ShadowMode,
  fate <- [r \in Requests |-> IF Concluded(r) THEN verdict[r]
                              ELSE IF Enqueued(r) THEN "accepted" ELSE "new"],
  tried <- [r \in Requests |-> {c \in Writes : calls[r][c] # "untried"}],
  alive <- ({workerJob[w] : w \in Workers} \ {NoJob}) \union {jobs[i] : i \in 1 .. Len(jobs)}

ImplementsPromise == Promise!Spec

(* Every accepted delivery gets a verdict, with a shutdown in between or not. *)
AcceptedGetsVerdict ==
  OthersScheduled => \A r \in Requests : reply[r] = "accepted" ~> Concluded(r)

(* Every Shutdown returns, without any help from its context.                 *)
ShutdownReturns ==
  OthersScheduled =>
    \A s \in Stoppers : stopper[s] = "waiting" ~> stopper[s] \in {"nil", "ctxError"}

(* "a slow model or GitHub call never holds the webhook connection open": a   *)
(* request is answered even if no worker and no writer ever moves again.      *)
EveryRequestAnswered ==
  \A r \in Requests : reqAt[r] \notin {"none", "done"} ~> reqAt[r] = "done"
=============================================================================
