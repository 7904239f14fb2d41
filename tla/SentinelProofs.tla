---------------------------- MODULE SentinelProofs ----------------------------
(* Theorems about the gateway process through crashes, restarts and stops by  *)
(* signal, for any number of lives.  A step of the process is a step of the   *)
(* handler in the same life, the end of a life, or neither; the invariants of *)
(* HandlerProofs go through with the requests of earlier lives as "old".      *)
EXTENDS Sentinel, HandlerProofs

(* The requests of lives that are over. *)
Old == {r \in Requests : lifeOf[r] # 0 /\ (~ up \/ lifeOf[r] # life)}

ProcTyped ==
  /\ up \in BOOLEAN /\ httpCut \in BOOLEAN
  /\ drainer \in {"waiting", "http", "workers"}
  /\ life \in 1 .. MaxLives
  /\ lifeOf \in [Requests -> 0 .. MaxLives]
  /\ lastExit \in {"none", "main", "killed"}

(* A request belongs to a life that has been, from its arrival on.            *)
LivesPlaced ==
  \A r \in Requests : lifeOf[r] <= life /\ (lifeOf[r] = 0 <=> reqAt[r] = "none")

(* Queue and log are closed by the drainer alone, after the server; no        *)
(* request is in flight then, unless the server was cut off.                  *)
StopPlaced ==
  /\ jobsClosed \/ chClosed => drainer = "workers"
  /\ drainer = "workers" /\ ~ httpCut => HttpIdle

ProcInv == ProcTyped /\ LivesPlaced /\ StopPlaced

HandlerInv == \E old \in {Old} : IInv(old) /\ WritesPlaced(old) /\ Windowed(old)

(* A step of the handler while the process runs, in which a request may       *)
(* arrive.                                                                    *)
Within ==
  /\ Next
  /\ up /\ up' = up /\ life' = life
  /\ \A r \in Requests : IF reqAt[r] = "none" /\ reqAt'[r] # "none" THEN lifeOf'[r] = life
                         ELSE lifeOf'[r] = lifeOf[r]

Ends == up /\ Gone /\ lastExit' \in {"main", "killed"}

(* A step that the handler has no part in: a signal, a restart, or none.      *)
Beside ==
  /\ UNCHANGED <<vars, lifeOf>>
  /\ \/ UNCHANGED <<up, life>>
     \/ ~ up /\ up' = TRUE /\ life' = life + 1 /\ life < MaxLives
-----------------------------------------------------------------------------
(* The history of requests only grows. *)
LEMMA ReqAtMoves ==
  ASSUME TypeOK, NEW r \in Requests, Serve(r)
  PROVE  /\ reqAt[r] \notin {"none", "done"} /\ reqAt'[r] # "none"
         /\ \A q \in Requests : q # r => reqAt'[q] = reqAt[q]
  BY DEF TypeOK, Serve, ClaimNew, ClaimDuplicate, EnqueueOk, EnqueueFull, EnqueuePanic, Count,
         RecordDisagreement, Answer, GoOn

(* No other step of the handler touches a request. *)
LEMMA ReqAtStays ==
  ASSUME \/ Start \/ WriteLog
         \/ \E w \in Workers : Work(w)
         \/ \E s \in Stoppers : CloseJobs(s) \/ Shutdown(s)
  PROVE  UNCHANGED reqVars
  BY DEF Start, WriteLog, Work, Take, Exit, FetchOk, FetchError, AnalyzeError, Skip, Flag,
         AddLabel, PostComment, CreateCheckRun, Write, CloseJobs, Shutdown, WorkersDone, Flushed, GiveUp

(* What a step of the process is. *)
LEMMA StepOfProcess ==
  ASSUME TypeOK, ProcInv, [SysNext]_sysVars
  PROVE  Within \/ Ends \/ Beside
<1>1. ASSUME InLife(\/ Start \/ WriteLog
                    \/ \E w \in Workers : Work(w)
                    \/ \E s \in Stoppers : Shutdown(s))
      PROVE  Within
  <2>1. UNCHANGED reqAt
    BY <1>1, ReqAtStays DEF InLife, reqVars
  <2> QED
    BY <1>1, <2>1 DEF InLife, Within, Next, procVars
<1>2. ASSUME NEW r \in Requests, InLife(Serve(r))
      PROVE  Within
  <2>1. \A q \in Requests : ~ (reqAt[q] = "none" /\ reqAt'[q] # "none")
    BY <1>2, ReqAtMoves DEF InLife
  <2> QED
    BY <1>2, <2>1 DEF InLife, Within, Next, procVars
<1>3. ASSUME NEW r \in Requests, NEW d \in Deliveries, Deliver(r, d)
      PROVE  Within
  <2>1. \A q \in Requests : IF reqAt[q] = "none" /\ reqAt'[q] # "none" THEN q = r ELSE q # r
    BY <1>3 DEF Deliver, Arrive, TypeOK
  <2>2. \A q \in Requests : lifeOf'[q] = IF q = r THEN life ELSE lifeOf[q]
    BY <1>3 DEF Deliver, ProcInv, ProcTyped
  <2> QED
    BY <1>3, <2>1, <2>2 DEF Deliver, Within, Next
<1>4. ASSUME NEW s \in Stoppers, HttpDrained(s) \/ HttpTimesOut(s)
      PROVE  Within
  <2>1. CloseJobs(s) /\ UNCHANGED <<reqAt, lifeOf, life, up>> /\ up
    BY <1>4, ReqAtStays DEF HttpDrained, HttpTimesOut, reqVars
  <2> QED
    BY <2>1 DEF Within, Next
<1>5. CASE MainReturns \/ Kill
  BY <1>5 DEF MainReturns, Kill, Ends
<1>6. CASE Signal \/ Restart \/ UNCHANGED sysVars
  BY <1>6 DEF Signal, Restart, sysVars, procVars, Beside
<1>7. CASE Launch
  BY <1>1, <1>7 DEF Launch, InLife
<1>8. CASE Run
  BY <1>1, <1>2, <1>8 DEF Run, InLife
<1>9. ASSUME NEW s \in Stoppers, Drain(s)
      PROVE  Within
  BY <1>1, <1>9 DEF Drain, InLife
<1> QED
  BY <1>3, <1>4, <1>5, <1>6, <1>7, <1>8, <1>9 DEF SysNext
-----------------------------------------------------------------------------
(* The process itself. *)

LEMMA InitProcInv == SysInit => ProcInv
<1> SUFFICES ASSUME SysInit PROVE ProcInv
  OBVIOUS
<1>1. ProcTyped
  <2>1. 1 \in 1 .. MaxLives /\ 0 \in 0 .. MaxLives
    BY SentinelAssumption
  <2> QED
    BY <2>1 DEF SysInit, ProcTyped
<1>2. \A r \in Requests : lifeOf[r] = 0 /\ reqAt[r] = "none" /\ life = 1
  BY DEF SysInit, Init
<1>3. ~ jobsClosed /\ ~ chClosed /\ drainer = "waiting"
  BY DEF SysInit, Init, Log!Init
<1> QED
  BY <1>1, <1>2, <1>3 DEF ProcInv, LivesPlaced, StopPlaced

LEMMA ProcTypedStays ==
  ASSUME ProcTyped, [SysNext]_sysVars
  PROVE  ProcTyped'
<1> USE SentinelAssumption
<1>1. CASE Launch \/ Run \/ \E s \in Stoppers : Drain(s)
  BY <1>1 DEF Launch, Run, Drain, InLife, procVars, ProcTyped
<1>2. ASSUME NEW r \in Requests, NEW d \in Deliveries, Deliver(r, d)
      PROVE  ProcTyped'
  BY <1>2 DEF Deliver, ProcTyped
<1>3. CASE Signal \/ \E s \in Stoppers : HttpDrained(s) \/ HttpTimesOut(s)
  BY <1>3 DEF Signal, HttpDrained, HttpTimesOut, ProcTyped
<1>4. CASE MainReturns \/ Kill
  BY <1>4 DEF MainReturns, Kill, Gone, ProcTyped
<1>5. CASE Restart
  BY <1>5 DEF Restart, ProcTyped
<1>6. CASE UNCHANGED sysVars
  BY <1>6 DEF sysVars, procVars, ProcTyped
<1> QED
  BY <1>1, <1>2, <1>3, <1>4, <1>5, <1>6 DEF SysNext

LEMMA LivesStay ==
  ASSUME TypeOK, ProcInv, Within \/ Ends \/ Beside
  PROVE  LivesPlaced'
<1>1. /\ life \in Nat /\ life >= 1 /\ \A r \in Requests : lifeOf[r] \in Nat
      /\ \A r \in Requests : lifeOf[r] <= life /\ (lifeOf[r] = 0 <=> reqAt[r] = "none")
  BY SentinelAssumption DEF ProcInv, ProcTyped, LivesPlaced
<1>2. CASE Within
  <2>1. \A r \in Requests : reqAt[r] # "none" => reqAt'[r] # "none"
    <3>1. ASSUME NEW r \in Requests, NEW d \in Deliveries, Arrive(r, d)
          PROVE  \A q \in Requests : reqAt[q] # "none" => reqAt'[q] # "none"
      BY <3>1 DEF Arrive, TypeOK
    <3>2. ASSUME NEW r \in Requests, Serve(r)
          PROVE  \A q \in Requests : reqAt[q] # "none" => reqAt'[q] # "none"
      BY <3>2, ReqAtMoves
    <3> QED
      BY <1>2, <3>1, <3>2, ReqAtStays DEF Within, Next, reqVars
  <2> QED
    BY <1>1, <1>2, <2>1 DEF Within, LivesPlaced
<1>3. CASE Ends
  BY <1>1, <1>3 DEF Ends, Gone, LivesPlaced
<1>4. CASE Beside
  BY <1>1, <1>4 DEF Beside, LivesPlaced, vars, reqVars
<1> QED
  BY <1>2, <1>3, <1>4

(* Only a request that got past its claim sends on a channel. *)
LEMMA StopStays ==
  ASSUME TypeOK, ProcInv, [SysNext]_sysVars
  PROVE  StopPlaced'
<1> USE DEF ProcInv, StopPlaced
<1>1. ASSUME NEW r \in Requests, InLife(Serve(r))
      PROVE  StopPlaced'
  <2>1. reqAt[r] \notin {"none", "done"}
    BY <1>1, ReqAtMoves DEF InLife
  <2>2. ~ HttpIdle
    BY <2>1 DEF HttpIdle
  <2>3. UNCHANGED <<jobsClosed, chClosed, drainer, httpCut>>
    BY <1>1 DEF InLife, procVars, Serve, ClaimNew, ClaimDuplicate, EnqueueOk, EnqueueFull, EnqueuePanic,
                Count, RecordDisagreement, Log!RecordTrue, Log!RecordFalse, Log!RecordPanic,
                queueVars, logVars
  <2> QED
    BY <2>2, <2>3
<1>2. ASSUME InLife(Start \/ WriteLog \/ \E w \in Workers : Work(w))
      PROVE  StopPlaced'
  <2>1. UNCHANGED <<reqAt, drainer, httpCut>>
    BY <1>2, ReqAtStays DEF InLife, procVars, reqVars
  <2>2. UNCHANGED <<jobsClosed, chClosed>>
    BY <1>2 DEF InLife, Start, Log!Start, WriteLog, Log!Write, Log!Open, Log!Receive, Log!Discard,
                Log!EncodeOk, Log!EncodeError, Log!Finish, Work, Take, Exit, FetchOk, FetchError,
                AnalyzeError, Skip, Flag, AddLabel, PostComment, CreateCheckRun, Write,
                queueVars, logVars
  <2> QED
    BY <2>1, <2>2 DEF HttpIdle
<1>3. ASSUME NEW s \in Stoppers, Drain(s)
      PROVE  StopPlaced'
  <2>1. UNCHANGED <<reqAt, drainer, httpCut>> /\ drainer = "workers"
    BY <1>3, ReqAtStays DEF Drain, InLife, procVars, reqVars
  <2> QED
    BY <2>1 DEF HttpIdle
<1>4. ASSUME NEW r \in Requests, NEW d \in Deliveries, Deliver(r, d)
      PROVE  StopPlaced'
  BY <1>4 DEF Deliver, Reachable, Arrive, queueVars, logVars
<1>5. CASE Signal
  BY <1>5 DEF Signal, vars, queueVars, logVars
<1>6. ASSUME NEW s \in Stoppers, HttpDrained(s) \/ HttpTimesOut(s)
      PROVE  StopPlaced'
  <2>1. CASE HttpDrained(s)
    <3>1. HttpIdle /\ UNCHANGED reqAt /\ drainer' = "workers"
      BY <2>1, ReqAtStays DEF HttpDrained, reqVars
    <3> QED
      BY <3>1 DEF HttpIdle
  <2>2. CASE HttpTimesOut(s)
    BY <2>2 DEF HttpTimesOut
  <2> QED
    BY <1>6, <2>1, <2>2
<1>7. CASE MainReturns \/ Kill
  BY <1>7 DEF MainReturns, Kill, Gone
<1>8. CASE Restart \/ UNCHANGED sysVars
  BY <1>8 DEF Restart, sysVars, procVars, vars, queueVars, logVars, reqVars, HttpIdle
<1> QED
  BY <1>1, <1>2, <1>3, <1>4, <1>5, <1>6, <1>7, <1>8 DEF SysNext, Launch, Run, InLife

LEMMA NextProcInv ==
  ASSUME TypeOK, ProcInv, [SysNext]_sysVars
  PROVE  ProcInv'
  BY StepOfProcess, ProcTypedStays, LivesStay, StopStays DEF ProcInv
-----------------------------------------------------------------------------
(* The handler, through all lives. *)

LEMMA InitHandlerInv == SysInit => HandlerInv
<1> SUFFICES ASSUME SysInit PROVE HandlerInv
  OBVIOUS
<1>1. Old = {}
  BY DEF SysInit, Old
<1>2. IInv({})
  BY InitIInv DEF SysInit
<1>3. WritesPlaced({})
  BY DEF SysInit, Init, WritesPlaced, Acting, Tried, Writes
<1>4. Windowed({})
  BY DEF SysInit, Init, Windowed, WindowCounted, WindowKept, LetThrough, Won
<1> QED
  BY <1>1, <1>2, <1>3, <1>4 DEF HandlerInv

(* Only the end of a life makes its requests old. *)
LEMMA OldStays ==
  ASSUME ProcInv, Within \/ Beside
  PROVE  Old' = Old
<1>1. /\ life \in Nat /\ life >= 1
      /\ \A r \in Requests : /\ lifeOf[r] \in Nat /\ lifeOf[r] <= life
                             /\ lifeOf[r] = 0 <=> reqAt[r] = "none"
  BY SentinelAssumption DEF ProcInv, ProcTyped, LivesPlaced
<1>2. CASE Within
  BY <1>1, <1>2 DEF Within, Old
<1>3. CASE Beside
  <2>1. \A r \in Requests : lifeOf[r] # life + 1
    BY <1>1
  <2> QED
    BY <1>3, <2>1 DEF Beside, Old
<1> QED
  BY <1>2, <1>3

(* When a life is over, every request that ever arrived is old.               *)
LEMMA AllOld ==
  ASSUME TypeOK, RequestsPlaced, ProcInv, Ends
  PROVE  \A r \in Requests :
           /\ r \in Old' <=> lifeOf[r] # 0
           /\ r \in Old' => reqAt'[r] = "done"
           /\ r \notin Old' => /\ r \notin Old /\ reqAt'[r] = "none" /\ reply'[r] = "none"
                              /\ reqAt[r] = "none"
<1>1. \A r \in Requests : lifeOf[r] = 0 <=> reqAt[r] = "none"
  BY DEF ProcInv, LivesPlaced
<1>2. up' = FALSE /\ lifeOf' = lifeOf /\ reply' = reply
      /\ reqAt' = [r \in Requests |-> IF reqAt[r] = "none" THEN "none" ELSE "done"]
  BY DEF Ends, Gone
<1> QED
  BY <1>1, <1>2 DEF RequestsPlaced, Old

(* At the end of a life the handler is as new, but for the histories.         *)
LEMMA EndTyped ==
  ASSUME TypeOK, Ends
  PROVE  TypeOK'
<1> USE DEF Ends, Gone
<1>1. behind' \in [ClaimIds -> 0 .. LedgerCap] /\ jobs' \in Seq(Requests) /\ Len(jobs') <= QueueCap
  BY HandlerAssumption
<1>2. reqAt' \in [Requests -> {"none", "claim", "enqueue", "count", "record", "done"}]
  OBVIOUS
<1>3. /\ jobsClosed' \in BOOLEAN
      /\ workerAt' \in [Workers -> {"off", "idle", "fetch", "analyze", "exited"} \union Writes]
      /\ workerJob' \in [Workers -> Requests \union {NoJob}]
      /\ stats' \in [Counters -> Nat]
      /\ stopper' \in [Stoppers -> {"out", "waiting", "flushing", "nil", "ctxError"}]
  OBVIOUS
<1> QED
  BY <1>1, <1>2, <1>3 DEF TypeOK

LEMMA EndHandlerInv ==
  ASSUME ProcInv, HandlerInv, Ends
  PROVE  HandlerInv'
<1>1. PICK now : now = Old'
  OBVIOUS
<1>2. IInv(Old) /\ WritesPlaced(Old)
  BY DEF HandlerInv
<1>3. TypeOK /\ TypeOK' /\ RequestsPlaced /\ JobsPlaced(Old)
  BY <1>2, EndTyped DEF IInv
<1>4. \A r \in Requests :
        /\ r \in now => reqAt'[r] = "done"
        /\ r \notin now => /\ ~ Enqueued(r)' /\ ~ Concluded(r)' /\ ~ Won(r)'
  <2>1. \A r \in Requests : r \notin now => reqAt'[r] = "none" /\ reply'[r] = "none"
    BY <1>1, <1>3, AllOld
  <2>2. \A r \in Requests : r \notin now => ~ Concluded(r)
    BY <1>1, <1>3, AllOld DEF JobsPlaced, Enqueued, RequestsPlaced
  <2>3. verdict' = verdict
    BY DEF Ends, Gone
  <2> QED
    BY <1>1, <1>3, <2>1, <2>2, <2>3, AllOld DEF Enqueued, Concluded, Won
<1>5. /\ jobs' = << >> /\ calls' = calls /\ verdict' = verdict
      /\ \A w \in Workers : workerAt'[w] = "off" /\ workerJob'[w] = NoJob
      /\ \A s \in Stoppers : stopper'[s] = "out"
      /\ reply' = reply
      /\ reqAt' = [r \in Requests |-> IF reqAt[r] = "none" THEN "none" ELSE "done"]
  BY DEF Ends, Gone
<1>6. RequestsPlaced' /\ WorkersPlaced' /\ ShutdownPlaced'
  BY <1>3, <1>5 DEF RequestsPlaced, WorkersPlaced, Resting, ShutdownPlaced
<1>7. \A r \in Requests : ~ Queued(r)' /\ ~ Held(r)' /\ ~ InTriage(r)'
  BY <1>5, HandlerAssumption DEF Queued, Held, InTriage, Triaging
<1>8. JobsPlaced(now)'
  BY <1>4, <1>5, <1>7 DEF JobsPlaced
<1>9. WritesPlaced(now)'
  <2>1. \A r \in Requests : (Acting(r)' <=> Acting(r)) /\ Tried(r)' = Tried(r)
    BY <1>5 DEF Acting, Tried
  <2>2. \A r \in Requests : r \notin now => ~ Acting(r)'
    BY <1>4 DEF Acting, Concluded
  <2>3. \A w \in Workers : workerAt'[w] \notin Writes
    BY <1>5 DEF Writes
  <2> QED
    BY <1>2, <2>1, <2>2, <2>3 DEF WritesPlaced
<1>10. LetThrough(now)' = {}
  BY <1>4 DEF LetThrough
<1>11. Windowed(now)'
  BY <1>10 DEF Windowed, WindowCounted, WindowKept
<1> QED
  BY <1>1, <1>3, <1>6, <1>8, <1>9, <1>11 DEF HandlerInv, IInv

LEMMA NextHandlerInv ==
  ASSUME ProcInv, HandlerInv, [SysNext]_sysVars
  PROVE  HandlerInv'
<1>1. Within \/ Ends \/ Beside
  BY StepOfProcess DEF HandlerInv, IInv
<1>2. CASE Ends
  BY <1>2, EndHandlerInv
<1>3. CASE Within \/ Beside
  <2>1. [Next]_vars
    BY <1>3 DEF Within, Beside
  <2>2. PICK old : old = Old
    OBVIOUS
  <2>3. IInv(old) /\ WritesPlaced(old) /\ Windowed(old)
    BY <2>2 DEF HandlerInv
  <2>4. IInv(old)' /\ WritesPlaced(old)' /\ Windowed(old)'
    BY <2>1, <2>3, NextIInv, NextWrites, NextWindowed
  <2>5. Old' = old
    BY <1>3, <2>2, OldStays
  <2> QED
    BY <2>4, <2>5 DEF HandlerInv
<1> QED
  BY <1>1, <1>2, <1>3
-----------------------------------------------------------------------------
(* The disagreement log keeps its types, alone and at the end of a life.      *)

LEMMA LogRecordTyped ==
  ASSUME Log!TypeOK, NEW r \in Requests, RecordDisagreement(r)
  PROVE  Log!TypeOK'
<1>1. CASE UNCHANGED logVars
  BY <1>1 DEF Log!TypeOK, logVars
<1>2. CASE Log!RecordTrue(r)
  <2>1. /\ ch \in Seq(Requests) /\ sent \in Seq(Requests) /\ Len(ch) < FeedbackCap
        /\ ch' = Append(ch, r) /\ sent' = Append(sent, r)
    BY <1>2 DEF Log!TypeOK, Log!RecordTrue, Log!HasRoom
  <2>2. ch' \in Seq(Requests) /\ sent' \in Seq(Requests) /\ Len(ch') <= FeedbackCap
    BY <2>1, HandlerAssumption
  <2>3. recorded' \in [Requests -> {"none", "true", "false", "panic"}]
    BY <1>2 DEF Log!TypeOK, Log!RecordTrue
  <2> QED
    BY <1>2, <2>2, <2>3 DEF Log!TypeOK, Log!RecordTrue
<1>3. CASE Log!RecordFalse(r) \/ Log!RecordPanic(r)
  BY <1>3 DEF Log!TypeOK, Log!RecordFalse, Log!RecordPanic
<1> QED
  BY <1>1, <1>2, <1>3 DEF RecordDisagreement

LEMMA LogWriteTyped ==
  ASSUME Log!TypeOK, Log!Write
  PROVE  Log!TypeOK'
<1>1. CASE Log!Open \/ Log!Finish
  BY <1>1 DEF Log!TypeOK, Log!Open, Log!AfterOpen, Log!Finish
<1>2. CASE Log!Receive \/ Log!Discard
  <2>1. /\ ch \in Seq(Requests) /\ Len(ch) <= FeedbackCap /\ ch # << >> /\ ch' = Tail(ch)
        /\ Head(ch) \in Requests /\ Tail(ch) \in Seq(Requests) /\ Len(Tail(ch)) <= FeedbackCap
    BY <1>2, HandlerAssumption DEF Log!TypeOK, Log!Receive, Log!Discard, Log!Taken
  <2> QED
    BY <1>2, <2>1 DEF Log!TypeOK, Log!Receive, Log!Discard
<1>3. CASE Log!EncodeOk \/ Log!EncodeError
  <2>1. hand \in Requests /\ file \in Seq(Requests) /\ Append(file, hand) \in Seq(Requests)
    BY <1>3 DEF Log!TypeOK, Log!EncodeOk, Log!EncodeError
  <2> QED
    BY <1>3, <2>1 DEF Log!TypeOK, Log!EncodeOk, Log!EncodeError
<1> QED
  BY <1>1, <1>2, <1>3 DEF Log!Write

LEMMA LogStaysTyped ==
  ASSUME Log!TypeOK, [SysNext]_sysVars, TypeOK, ProcInv
  PROVE  Log!TypeOK'
<1>1. CASE UNCHANGED logVars
  BY <1>1 DEF Log!TypeOK, logVars
<1>2. ASSUME NEW r \in Requests, Serve(r)
      PROVE  Log!TypeOK'
  BY <1>1, <1>2, LogRecordTyped
     DEF Serve, ClaimNew, ClaimDuplicate, EnqueueOk, EnqueueFull, EnqueuePanic, Count
<1>3. CASE Start
  BY <1>1, <1>3 DEF Start, Log!Start, Log!TypeOK
<1>4. CASE WriteLog
  BY <1>4, LogWriteTyped DEF WriteLog
<1>5. ASSUME NEW w \in Workers, Work(w)
      PROVE  Log!TypeOK'
  BY <1>1, <1>5 DEF Work, Take, Exit, FetchOk, FetchError, AnalyzeError, Skip, Flag,
                    AddLabel, PostComment, CreateCheckRun, Write
<1>6. ASSUME NEW s \in Stoppers, CloseJobs(s) \/ Shutdown(s)
      PROVE  Log!TypeOK'
  BY <1>1, <1>6 DEF CloseJobs, Shutdown, WorkersDone, Flushed, GiveUp,
                    Log!Close, Log!CloseReturns, Log!TypeOK
<1>7. ASSUME NEW r \in Requests, NEW d \in Deliveries, Arrive(r, d)
      PROVE  Log!TypeOK'
  BY <1>1, <1>7 DEF Arrive
<1>8. CASE Within
  BY <1>1, <1>2, <1>3, <1>4, <1>5, <1>6, <1>7, <1>8 DEF Within, Next
<1>9. CASE Ends
  <2>1. /\ ch' = << >> /\ ~ chClosed' /\ writer' = "unstarted" /\ hand' = NoJob
        /\ closer' = [s \in Stoppers |-> "out"] /\ UNCHANGED <<file, unwritten, recorded, sent>>
    BY <1>9 DEF Ends, Gone
  <2>2. ch' \in Seq(Requests) /\ Len(ch') <= FeedbackCap
    BY <2>1, HandlerAssumption
  <2>3. chClosed' \in BOOLEAN
    BY <1>9 DEF Ends, Gone
  <2> QED
    BY <2>1, <2>2, <2>3 DEF Log!TypeOK
<1>10. CASE Beside
  BY <1>1, <1>10 DEF Beside, vars
<1> QED
  BY <1>8, <1>9, <1>10, StepOfProcess
-----------------------------------------------------------------------------
(* A send panics on a closed channel only, and no channel is closed with a    *)
(* request in flight unless the server was cut off.                           *)
LEMMA PanicsOnlyCut ==
  ASSUME TypeOK, ProcInv, NoPanicUnlessCut, [SysNext]_sysVars
  PROVE  NoPanicUnlessCut'
<1>1. ASSUME UNCHANGED <<reply, lifeOf, life>>, up' => up, ~ httpCut' => ~ httpCut
      PROVE  NoPanicUnlessCut'
  BY <1>1 DEF NoPanicUnlessCut
<1>2. ASSUME NEW r \in Requests, InLife(Serve(r))
      PROVE  NoPanicUnlessCut'
  <2>1. reqAt[r] \notin {"none", "done"}
    BY <1>2, ReqAtMoves DEF InLife
  <2>2. ~ httpCut => ~ jobsClosed /\ ~ chClosed
    BY <2>1 DEF HttpIdle, ProcInv, StopPlaced
  <2>3. CASE httpCut
    BY <1>2, <2>3 DEF InLife, procVars, NoPanicUnlessCut
  <2>4. CASE ~ httpCut
    <3>1. ASSUME NEW text, Answer(r, text), text # "panic"
          PROVE  NoPanicUnlessCut'
      BY <1>2, <3>1 DEF Answer, InLife, procVars, NoPanicUnlessCut, TypeOK
    <3>2. CASE ClaimNew(r) \/ EnqueueOk(r)
      BY <1>1, <1>2, <3>2 DEF ClaimNew, EnqueueOk, GoOn, InLife, procVars
    <3>3. CASE ClaimDuplicate(r) \/ EnqueueFull(r) \/ EnqueuePanic(r) \/ Count(r)
      BY <2>2, <2>4, <3>1, <3>3 DEF ClaimDuplicate, EnqueueFull, EnqueuePanic, Count
    <3>4. CASE RecordDisagreement(r)
      BY <2>2, <2>4, <3>1, <3>4 DEF RecordDisagreement, Log!RecordPanic
    <3> QED
      BY <1>2, <3>2, <3>3, <3>4 DEF InLife, Serve
  <2> QED
    BY <2>3, <2>4
<1>3. ASSUME NEW r \in Requests, NEW d \in Deliveries, Deliver(r, d)
      PROVE  NoPanicUnlessCut'
  BY <1>3 DEF Deliver, Arrive, NoPanicUnlessCut, TypeOK, ProcInv, ProcTyped
<1>4. ASSUME InLife(\/ Start \/ WriteLog
                    \/ \E w \in Workers : Work(w)
                    \/ \E s \in Stoppers : Shutdown(s))
      PROVE  NoPanicUnlessCut'
  <2>1. UNCHANGED reqVars
    BY <1>4, ReqAtStays DEF InLife
  <2> QED
    BY <1>1, <1>4, <2>1 DEF InLife, procVars, reqVars
<1>5. ASSUME NEW s \in Stoppers, HttpDrained(s) \/ HttpTimesOut(s)
      PROVE  NoPanicUnlessCut'
  <2>1. UNCHANGED reqVars
    BY <1>5, ReqAtStays DEF HttpDrained, HttpTimesOut
  <2> QED
    BY <1>1, <1>5, <2>1 DEF HttpDrained, HttpTimesOut, reqVars, NoPanicUnlessCut
<1>6. CASE MainReturns \/ Kill
  BY <1>6 DEF MainReturns, Kill, Gone, NoPanicUnlessCut
<1>7. CASE Restart
  <2>1. \A r \in Requests : lifeOf[r] # life + 1
    BY SentinelAssumption DEF ProcInv, ProcTyped, LivesPlaced
  <2> QED
    BY <1>7, <2>1 DEF Restart, NoPanicUnlessCut
<1>8. CASE Signal \/ UNCHANGED sysVars
  BY <1>1, <1>8 DEF Signal, sysVars, procVars, vars, reqVars
<1> QED
  BY <1>2, <1>3, <1>4, <1>5, <1>6, <1>7, <1>8 DEF SysNext, Launch, Run, Drain, InLife
-----------------------------------------------------------------------------
(* What was done for an old request is done with. *)
LEMMA OldFrozen ==
  ASSUME NEW old, IInv(old), [Next]_vars, NEW r \in Requests, r \in old
  PROVE  calls'[r] = calls[r] /\ reqId'[r] = reqId[r]
<1>1. reqAt[r] = "done" /\ ~ Held(r)
  BY DEF IInv, JobsPlaced
<1>2. ASSUME NEW w \in Workers, Work(w)
      PROVE  calls'[r] = calls[r]
  <2>1. ASSUME NEW c \in Writes, Write(w, c)
        PROVE  calls'[r] = calls[r]
    <3>1. workerJob[w] # r
      BY <1>1 DEF Held
    <3> QED
      BY <2>1, <3>1 DEF Write, IInv, TypeOK
  <2>2. CASE AddLabel(w) \/ PostComment(w) \/ CreateCheckRun(w)
    BY <2>1, <2>2 DEF AddLabel, PostComment, CreateCheckRun, Writes
  <2> QED
    BY <1>2, <2>2 DEF Work, Take, Exit, FetchOk, FetchError, AnalyzeError, Skip, Flag, Conclude
<1>3. ASSUME NEW q \in Requests, Serve(q)
      PROVE  UNCHANGED <<reqId, calls>>
  BY <1>3 DEF Serve, ClaimNew, ClaimDuplicate, EnqueueOk, EnqueueFull, EnqueuePanic, Count,
              RecordDisagreement, Answer, GoOn, workVars
<1>4. ASSUME NEW q \in Requests, NEW d \in Deliveries, Arrive(q, d)
      PROVE  calls' = calls /\ reqId'[r] = reqId[r]
  BY <1>1, <1>4 DEF Arrive, workVars, IInv, TypeOK
<1>5. ASSUME \/ Start \/ WriteLog \/ UNCHANGED vars
             \/ \E s \in Stoppers : CloseJobs(s) \/ Shutdown(s)
      PROVE  UNCHANGED <<reqId, calls>>
  BY <1>5 DEF Start, WriteLog, vars, CloseJobs, Shutdown, WorkersDone, Flushed, GiveUp,
              workVars, reqVars
<1>6. ASSUME NEW w \in Workers, Work(w)
      PROVE  reqId' = reqId
  BY <1>6, ReqAtStays DEF reqVars
<1> QED
  BY <1>2, <1>3, <1>4, <1>5, <1>6 DEF Next

(* A request of this life with a comment was let through.                     *)
LEMMA CommentedWon ==
  ASSUME NEW old, IInv(old), WritesPlaced(old), NEW r \in Requests, r \notin old, Commented(r)
  PROVE  r \in LetThrough(old)
<1>1. Tried(r) # {}
  BY DEF Commented, Tried, Writes
<1>2. Enqueued(r)
  BY <1>1 DEF WritesPlaced, Acting, IInv, JobsPlaced, Concluded
<1> QED
  BY <1>2 DEF LetThrough, Won, Enqueued

(* OneCommentPerLife for the requests of the present life. *)
SingleNow ==
  Cardinality(ClaimIds) <= LedgerCap =>
    \A r, q \in Requests :
      /\ r \notin Old /\ q \notin Old /\ reqId[r] = reqId[q]
      /\ Commented(r) /\ Commented(q)
      => r = q

(* With room for every ID in the ledger no two requests of a life are let     *)
(* through with the same ID.                                                  *)
LEMMA LetThroughOnce ==
  ASSUME HandlerInv
  PROVE  SingleNow
<1>1. PICK old : old = Old /\ IInv(old) /\ WritesPlaced(old) /\ Windowed(old)
  BY DEF HandlerInv
<1> SUFFICES ASSUME Cardinality(ClaimIds) <= LedgerCap,
                    NEW r \in Requests, NEW q \in Requests, r \notin old, q \notin old,
                    reqId[r] = reqId[q], Commented(r), Commented(q)
             PROVE  r = q
  BY <1>1 DEF SingleNow
<1> DEFINE id == reqId[r]
<1>2. r \in LetThrough(old) /\ q \in LetThrough(old)
  BY <1>1, CommentedWon
<1>3. id \in ClaimIds /\ WonIds(old) \ {id} \subseteq ClaimIds \ {id}
  BY <1>1, <1>2 DEF Windowed, WindowCounted, WonIds
<1>4. /\ IsFiniteSet(ClaimIds \ {id}) /\ Cardinality(ClaimIds) \in Nat
      /\ Cardinality(ClaimIds \ {id}) = Cardinality(ClaimIds) - 1
  BY <1>3, SentinelAssumption, FS_RemoveElement, FS_CardinalityType
<1>5. Cardinality(WonIds(old) \ {id}) <= Cardinality(ClaimIds \ {id})
  BY <1>3, <1>4, FS_Subset
<1>6. Cardinality(WonIds(old) \ {id}) \in Nat /\ LedgerCap \in Nat
  BY WonIdsFinite, HandlerAssumption
<1>7. ~ (Cardinality(WonIds(old) \ {id}) >= LedgerCap)
  BY <1>4, <1>5, <1>6
<1> QED
  BY <1>1, <1>2, <1>7 DEF Windowed, WindowKept

LEMMA CommentsStaySingle ==
  ASSUME ProcInv, HandlerInv, SingleNow', OneCommentPerLife, [SysNext]_sysVars
  PROVE  OneCommentPerLife'
<1>1. Within \/ Ends \/ Beside
  BY StepOfProcess DEF HandlerInv, IInv
<1>2. CASE Ends \/ Beside
  <2>1. UNCHANGED <<calls, reqId, lifeOf>>
    BY <1>2 DEF Ends, Gone, Beside, vars, workVars, reqVars
  <2> QED
    BY <2>1 DEF OneCommentPerLife, Commented
<1>3. CASE Within
  <2>1. PICK old : old = Old
    OBVIOUS
  <2>2. IInv(old) /\ [Next]_vars /\ old = Old'
    BY <1>3, <2>1, OldStays DEF HandlerInv, Within
  <2> SUFFICES ASSUME Cardinality(ClaimIds) <= LedgerCap,
                      NEW r \in Requests, NEW q \in Requests, r # q,
                      reqId'[r] = reqId'[q], Commented(r)', Commented(q)', lifeOf'[r] = lifeOf'[q]
               PROVE  FALSE
    BY DEF OneCommentPerLife
  <2>3. r \in old <=> q \in old
    BY <2>2 DEF Old
  <2>4. CASE r \in old
    <3>1. calls'[r] = calls[r] /\ reqId'[r] = reqId[r] /\ calls'[q] = calls[q] /\ reqId'[q] = reqId[q]
      BY <2>2, <2>3, <2>4, OldFrozen
    <3>2. reqAt[r] = "done" /\ reqAt[q] = "done"
      BY <2>2, <2>3, <2>4 DEF IInv, JobsPlaced
    <3>3. lifeOf'[r] = lifeOf[r] /\ lifeOf'[q] = lifeOf[q]
      BY <1>3, <3>2 DEF Within
    <3> QED
      BY <3>1, <3>3 DEF OneCommentPerLife, Commented
  <2>5. CASE r \notin old
    BY <2>2, <2>3, <2>5 DEF SingleNow
  <2> QED
    BY <2>4, <2>5
<1> QED
  BY <1>1, <1>2, <1>3
-----------------------------------------------------------------------------
(* The promise.  At the end of a life it forgets the accepted requests whose  *)
(* answer was still to be sent, and what is at work.                          *)
LEMMA EndIsCrash ==
  ASSUME ProcInv, HandlerInv, Ends
  PROVE  Promise!Crash
<1>1. IInv(Old)
  BY DEF HandlerInv
<1>2. TypeOK /\ TypeOK'
  BY <1>1, EndTyped DEF IInv
<1> DEFINE cut == {r \in Requests : reqAt[r] = "count" /\ ~ Concluded(r)}
<1>3. /\ jobs' = << >> /\ calls' = calls /\ verdict' = verdict /\ reply' = reply
      /\ \A w \in Workers : workerJob'[w] = NoJob
      /\ reqAt' = [r \in Requests |-> IF reqAt[r] = "none" THEN "none" ELSE "done"]
  BY DEF Ends, Gone
<1>4. \A r \in Requests : ~ Alive(r)'
  BY <1>3, HandlerAssumption DEF Alive, Queued, Held
<1>5. AtWork' = {}
  BY <1>2, <1>4, AtWorkStaysAlive
<1>6. \A r \in Requests : (Concluded(r)' <=> Concluded(r)) /\ Tried(r)' = Tried(r)
  BY <1>3 DEF Concluded, Tried
<1>7. \A r \in Requests : Enqueued(r)' <=> (Enqueued(r) /\ reqAt[r] # "count")
  BY <1>1, <1>3 DEF Enqueued, IInv, RequestsPlaced
<1>8. \A r \in cut : r \notin Old /\ Enqueued(r) /\ Fate(r) = "accepted" /\ r \in AtWork
  <2> SUFFICES ASSUME NEW r \in cut
               PROVE  r \notin Old /\ Enqueued(r) /\ Fate(r) = "accepted" /\ r \in AtWork
    OBVIOUS
  <2>1. r \notin Old /\ Enqueued(r) /\ Fate(r) = "accepted"
    BY <1>1 DEF IInv, JobsPlaced, Enqueued, Fate
  <2>2. Alive(r)
    BY <1>1, <2>1 DEF IInv, JobsPlaced, Alive, InTriage, Held
  <2> QED
    BY <1>2, <2>1, <2>2, AtWorkIsAlive
<1>9. \A r \in Requests : Fate(r)' = IF r \in cut THEN "new" ELSE Fate(r)
  BY <1>3, <1>6, <1>7 DEF Fate
<1>10. FateOf' = [r \in Requests |-> IF r \in cut THEN "new" ELSE FateOf[r]] /\ TriedOf' = TriedOf
  BY <1>6, <1>9 DEF FateOf, TriedOf
<1>11. cut \in SUBSET {r \in AtWork : FateOf[r] = "accepted"}
  BY <1>8 DEF FateOf
<1> QED
  BY <1>5, <1>10, <1>11 DEF Promise!Crash, FateOf, TriedOf, Fate, Tried, AtWork

LEMMA NextPromisedThroughout ==
  ASSUME ProcInv, HandlerInv, [SysNext]_sysVars
  PROVE  [Promise!Next \/ Promise!Crash]_Promise!vars
<1>1. Within \/ Ends \/ Beside
  BY StepOfProcess DEF HandlerInv, IInv
<1>2. CASE Ends
  BY <1>2, EndIsCrash
<1>3. CASE Within \/ Beside
  <2>1. [Next]_vars
    BY <1>3 DEF Within, Beside
  <2>2. PICK old : old = Old
    OBVIOUS
  <2>3. IInv(old) /\ WritesPlaced(old)
    BY <2>2 DEF HandlerInv
  <2>4. IInv(old)'
    BY <2>1, <2>3, NextIInv
  <2> QED
    BY <2>1, <2>3, <2>4, NextPromised
<1> QED
  BY <1>1, <1>2, <1>3
-----------------------------------------------------------------------------
(* In every life of the process, and between them, every variable of gateway  *)
(* and disagreement log keeps its type: the queues their capacities too       *)
(* (main.go, webhook.go, feedback.go).                                        *)
THEOREM SentinelTypeOK == SysSpec => []SysTypeOK
<1>1. SysInit => ProcInv /\ HandlerInv /\ Log!TypeOK
  <2>1. SysInit => Log!Init
    BY DEF SysInit, Init
  <2>2. Log!Init => Log!TypeOK
    <3>1. << >> \in Seq(Requests) /\ Len(<< >>) <= FeedbackCap
      BY HandlerAssumption
    <3> QED
      BY <3>1 DEF Log!Init, Log!TypeOK
  <2> QED
    BY <2>1, <2>2, InitProcInv, InitHandlerInv
<1>2. ProcInv /\ HandlerInv /\ Log!TypeOK /\ [SysNext]_sysVars
        => ProcInv' /\ HandlerInv' /\ Log!TypeOK'
  BY NextProcInv, NextHandlerInv, LogStaysTyped DEF HandlerInv, IInv
<1>3. ProcInv /\ HandlerInv /\ Log!TypeOK => SysTypeOK
  BY DEF SysTypeOK, ProcInv, ProcTyped, HandlerInv, IInv
<1> QED
  BY <1>1, <1>2, <1>3, PTL DEF SysSpec

(* The process, and the handler in it, are in place in every reachable state, *)
(* whatever lives were cut short before (main.go:60-119).                     *)
THEOREM SentinelInvariant == SysSpec => [](ProcInv /\ HandlerInv)
<1>1. SysInit => ProcInv /\ HandlerInv
  BY InitProcInv, InitHandlerInv
<1>2. ProcInv /\ HandlerInv /\ [SysNext]_sysVars => ProcInv' /\ HandlerInv'
  BY NextProcInv, NextHandlerInv DEF HandlerInv, IInv
<1> QED
  BY <1>1, <1>2, PTL DEF SysSpec

(* A stop in which the server came to rest before its deadline panics no      *)
(* request on a closed channel (main.go:101-119, webhook.go:154-157).         *)
THEOREM SentinelNoPanicUnlessCut == SysSpec => []NoPanicUnlessCut
<1>1. SysInit => NoPanicUnlessCut
  BY DEF SysInit, Init, NoPanicUnlessCut
<1>2. ProcInv /\ HandlerInv /\ NoPanicUnlessCut /\ [SysNext]_sysVars => NoPanicUnlessCut'
  BY PanicsOnlyCut DEF HandlerInv, IInv
<1> QED
  BY <1>1, <1>2, SentinelInvariant, PTL DEF SysSpec

(* However deliveries are repeated, raced and cut off, with room in the       *)
(* ledger no delivery is commented on twice in one life of the process        *)
(* (dedupe.go:37-53, webhook.go:235-262).                                     *)
THEOREM SentinelOneCommentPerLife == SysSpec => []OneCommentPerLife
<1>1. SysInit => OneCommentPerLife
  BY DEF SysInit, Init, OneCommentPerLife, Commented, Writes
<1>2. HandlerInv => SingleNow
  BY LetThroughOnce
<1>3. ProcInv /\ HandlerInv /\ SingleNow' /\ OneCommentPerLife /\ [SysNext]_sysVars
        => OneCommentPerLife'
  BY CommentsStaySingle
<1> QED
  BY <1>1, <1>2, <1>3, SentinelInvariant, PTL DEF SysSpec

(* The gateway as a process implements the promise: only the end of a process *)
(* loses accepted work, and neither a restart nor a redelivery repeats a      *)
(* verdict or a write (main.go:60-119, webhook.go:135-408).                   *)
THEOREM SentinelKeepsPromise == SysSpec => KeepsPromise
<1>1. SysInit => Promise!Init
  BY InitPromise DEF SysInit
<1>2. ProcInv /\ HandlerInv /\ [SysNext]_sysVars
        => [Promise!Next \/ Promise!Crash]_Promise!vars
  BY NextPromisedThroughout
<1> QED
  BY <1>1, <1>2, SentinelInvariant, PTL DEF SysSpec, KeepsPromise, Promise!CrashSpec
=============================================================================
