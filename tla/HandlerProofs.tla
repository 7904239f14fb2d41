----------------------------- MODULE HandlerProofs -----------------------------
(* Theorems about the webhook handler, for any number of deliveries,          *)
(* requests, workers and calls of Shutdown, and any capacities.               *)
EXTENDS Handler, FiniteSetTheorems, TLAPS

(* A claim is on an ID of the ledger, and an answer ends its request.         *)
RequestsPlaced ==
  \A r \in Requests : /\ reqAt[r] = "claim" => reqId[r] \in ClaimIds
                      /\ reqAt[r] # "done" => reply[r] = "none"

Resting(w) == workerAt[w] \in {"off", "idle", "exited"}

(* Workers start together, hold a job exactly while they are busy, and leave  *)
(* only a closed and empty queue.                                             *)
WorkersPlaced ==
  /\ (\E w \in Workers : workerAt[w] = "off") => \A w \in Workers : workerAt[w] = "off"
  /\ \A w \in Workers : Resting(w) <=> workerJob[w] = NoJob
  /\ \A w \in Workers : workerAt[w] = "exited" => jobsClosed /\ jobs = << >>

(* Past wg.Wait there is no worker left. *)
ShutdownPlaced ==
  \A s \in Stoppers : stopper[s] \in {"flushing", "nil"} => AllExited

Queued(r) == \E i \in 1 .. Len(jobs) : jobs[i] = r

InTriage(r) == \E w \in Workers : Triaging(w) /\ workerJob[w] = r

(* OnePlace without the counting: the queue holds no job twice, no two        *)
(* workers hold the same one, and queue, triage and verdict exclude each      *)
(* other and cover the enqueued requests.  The requests of "old" are those of *)
(* earlier lives of the process, which are over and may have lost their job;  *)
(* a handler by itself has none.                                              *)
JobsPlaced(old) ==
  /\ \A i, j \in 1 .. Len(jobs) : jobs[i] = jobs[j] => i = j
  /\ \A v, w \in Workers : workerJob[v] = workerJob[w] /\ workerJob[w] # NoJob => v = w
  /\ \A r \in Requests : Queued(r) => Enqueued(r) /\ ~ Concluded(r) /\ ~ Held(r)
  /\ \A r \in Requests : InTriage(r) => ~ Concluded(r)
  /\ \A r \in Requests : Held(r) => Enqueued(r)
  /\ \A r \in Requests : r \in old => reqAt[r] = "done" /\ ~ Queued(r) /\ ~ Held(r)
  /\ \A r \in Requests : r \notin old /\ Concluded(r) => Enqueued(r)
  /\ \A r \in Requests : r \notin old /\ Enqueued(r) => Queued(r) \/ InTriage(r) \/ Concluded(r)

IInv(old) == TypeOK /\ RequestsPlaced /\ WorkersPlaced /\ ShutdownPlaced /\ JobsPlaced(old)
-----------------------------------------------------------------------------
(* The window of the ledger stays a window. *)
LEMMA PushedType ==
  ASSUME behind \in [ClaimIds -> 0 .. LedgerCap], NEW d \in ClaimIds
  PROVE  Window!Pushed(d) \in [ClaimIds -> 0 .. LedgerCap]
  BY HandlerAssumption DEF Window!Pushed

(* Counting keeps the counters natural numbers. *)
LEMMA CountedType ==
  ASSUME stats \in [Counters -> Nat], NEW C
  PROVE  Counted(C) \in [Counters -> Nat]
  BY DEF Counted

(* The initial state satisfies the invariant. *)
LEMMA InitIInv == Init => IInv({})
<1> SUFFICES ASSUME Init PROVE IInv({})
  OBVIOUS
<1> USE DEF Init
<1>1. TypeOK
  <2>1. behind \in [ClaimIds -> 0 .. LedgerCap]
    BY HandlerAssumption
  <2>2. jobs \in Seq(Requests) /\ Len(jobs) <= QueueCap
    BY HandlerAssumption
  <2>3. stats \in [Counters -> Nat] /\ calls \in [Requests -> [Writes -> {"untried", "ok", "error"}]]
    OBVIOUS
  <2>4. /\ reqAt \in [Requests -> {"none", "claim", "enqueue", "count", "record", "done"}]
        /\ reqId \in [Requests -> Deliveries \union {NoJob}]
        /\ reply \in [Requests -> {"none", "ignored", "duplicate", "full", "accepted",
                                   "disabled", "recorded", "bufferFull", "panic"}]
    OBVIOUS
  <2>5. /\ jobsClosed \in BOOLEAN
        /\ workerAt \in [Workers -> {"off", "idle", "fetch", "analyze", "exited"} \union Writes]
        /\ workerJob \in [Workers -> Requests \union {NoJob}]
        /\ verdict \in [Requests -> {"none", "failed", "skipped", "flagged"}]
        /\ stopper \in [Stoppers -> {"out", "waiting", "flushing", "nil", "ctxError"}]
    OBVIOUS
  <2> QED
    BY <2>1, <2>2, <2>3, <2>4, <2>5 DEF TypeOK
<1>2. RequestsPlaced /\ WorkersPlaced /\ ShutdownPlaced
  BY DEF RequestsPlaced, WorkersPlaced, Resting, ShutdownPlaced
<1>3. JobsPlaced({})
  BY HandlerAssumption DEF JobsPlaced, Queued, InTriage, Triaging, Concluded, Enqueued, Held
<1> QED
  BY <1>1, <1>2, <1>3 DEF IInv
-----------------------------------------------------------------------------
(* A step that moves no job and enqueues no request keeps every job's place.  *)
LEMMA JobsStay ==
  ASSUME NEW old, JobsPlaced(old), UNCHANGED <<jobs, workerAt, workerJob, verdict>>,
         \A q \in Requests : /\ Enqueued(q)' <=> Enqueued(q)
                             /\ reqAt[q] = "done" => reqAt'[q] = "done"
  PROVE  JobsPlaced(old)'
<1>1. \A q \in Requests : /\ Queued(q)' <=> Queued(q)
                          /\ InTriage(q)' <=> InTriage(q)
                          /\ Held(q)' <=> Held(q)
                          /\ Concluded(q)' <=> Concluded(q)
  BY DEF Queued, InTriage, Triaging, Held, Concluded
<1> QED
  BY <1>1 DEF JobsPlaced

(* Workers and Shutdown are where they were if none of them moves and nothing *)
(* goes into the queue.                                                       *)
LEMMA WorkersStay ==
  ASSUME WorkersPlaced, ShutdownPlaced, UNCHANGED <<jobs, workVars, stopper>>,
         jobsClosed => jobsClosed'
  PROVE  WorkersPlaced' /\ ShutdownPlaced'
  BY DEF WorkersPlaced, ShutdownPlaced, Resting, AllExited, workVars
-----------------------------------------------------------------------------
(* Request goroutines: the steps that put nothing into the queue.             *)
LEMMA AnswerIInv ==
  ASSUME NEW old, IInv(old), NEW r \in Requests, reqAt[r] # "done", NEW text, Answer(r, text),
         text \in {"ignored", "duplicate", "full", "accepted", "disabled", "recorded",
                   "bufferFull", "panic"},
         reqAt[r] = "count" <=> text = "accepted",
         behind' = behind, stats' \in [Counters -> Nat],
         UNCHANGED <<queueVars, workVars, stopper>>
  PROVE  IInv(old)'
<1>1. TypeOK'
  BY DEF IInv, TypeOK, Answer, queueVars, workVars
<1>2. RequestsPlaced'
  BY DEF IInv, TypeOK, RequestsPlaced, Answer
<1>3. WorkersPlaced' /\ ShutdownPlaced'
  BY WorkersStay DEF IInv, queueVars
<1>4. \A q \in Requests : /\ Enqueued(q)' <=> Enqueued(q)
                          /\ reqAt[q] = "done" => reqAt'[q] = "done"
  BY DEF IInv, TypeOK, RequestsPlaced, Answer, Enqueued
<1>5. JobsPlaced(old)'
  BY <1>4, JobsStay DEF IInv, queueVars, workVars
<1> QED
  BY <1>1, <1>2, <1>3, <1>5 DEF IInv

(* A request arrives. *)
LEMMA ArriveIInv ==
  ASSUME NEW old, IInv(old), NEW r \in Requests, NEW d \in Deliveries, Arrive(r, d)
  PROVE  IInv(old)'
<1> USE DEF Arrive
<1>1. TypeOK'
  BY DEF IInv, TypeOK, queueVars, workVars
<1>2. RequestsPlaced'
  BY DEF IInv, TypeOK, RequestsPlaced, Deliveries
<1>3. WorkersPlaced' /\ ShutdownPlaced'
  BY WorkersStay DEF IInv, queueVars
<1>4. \A q \in Requests : /\ Enqueued(q)' <=> Enqueued(q)
                          /\ reqAt[q] = "done" => reqAt'[q] = "done"
  BY DEF IInv, TypeOK, RequestsPlaced, Enqueued
<1>5. JobsPlaced(old)'
  BY <1>4, JobsStay DEF IInv, queueVars, workVars
<1> QED
  BY <1>1, <1>2, <1>3, <1>5 DEF IInv

(* A request wins its claim. *)
LEMMA ClaimNewIInv ==
  ASSUME NEW old, IInv(old), NEW r \in Requests, ClaimNew(r)
  PROVE  IInv(old)'
<1> USE DEF ClaimNew, GoOn
<1>1. TypeOK'
  <2>1. reqId[r] \in ClaimIds
    BY DEF IInv, RequestsPlaced
  <2>2. behind' \in [ClaimIds -> 0 .. LedgerCap]
    BY <2>1, PushedType DEF IInv, TypeOK
  <2> QED
    BY <2>2 DEF IInv, TypeOK, queueVars, workVars
<1>2. RequestsPlaced'
  BY DEF IInv, TypeOK, RequestsPlaced
<1>3. WorkersPlaced' /\ ShutdownPlaced'
  BY WorkersStay DEF IInv, queueVars
<1>4. \A q \in Requests : /\ Enqueued(q)' <=> Enqueued(q)
                          /\ reqAt[q] = "done" => reqAt'[q] = "done"
  BY DEF IInv, TypeOK, RequestsPlaced, Enqueued
<1>5. JobsPlaced(old)'
  BY <1>4, JobsStay DEF IInv, queueVars, workVars
<1> QED
  BY <1>1, <1>2, <1>3, <1>5 DEF IInv

(* A request enters the queue: its job is there once and nowhere else. *)
LEMMA EnqueueOkIInv ==
  ASSUME NEW old, IInv(old), NEW r \in Requests, EnqueueOk(r)
  PROVE  IInv(old)'
<1> USE DEF EnqueueOk, GoOn, HasRoom
<1>1. jobs \in Seq(Requests) /\ Len(jobs) < QueueCap /\ jobs' = Append(jobs, r)
  BY DEF IInv, TypeOK
<1>2. /\ jobs' \in Seq(Requests)
      /\ Len(jobs') = Len(jobs) + 1 /\ Len(jobs) \in Nat
      /\ jobs'[Len(jobs) + 1] = r
      /\ \A i \in 1 .. Len(jobs) : jobs'[i] = jobs[i]
  BY <1>1
<1>3. TypeOK'
  BY <1>1, <1>2, HandlerAssumption DEF IInv, TypeOK, workVars
<1>4. RequestsPlaced'
  BY DEF IInv, TypeOK, RequestsPlaced
<1>5. WorkersPlaced' /\ ShutdownPlaced'
  BY DEF IInv, WorkersPlaced, ShutdownPlaced, Resting, AllExited, workVars
<1>6. \A q \in Requests : /\ Enqueued(q)' <=> (Enqueued(q) \/ q = r)
                          /\ InTriage(q)' <=> InTriage(q)
                          /\ Held(q)' <=> Held(q)
                          /\ Concluded(q)' <=> Concluded(q)
  BY DEF IInv, TypeOK, Enqueued, InTriage, Triaging, Held, Concluded, workVars
<1>7. \A q \in Requests : Queued(q)' <=> (Queued(q) \/ q = r)
  BY <1>2 DEF Queued
<1>8. ~ Enqueued(r)
  BY DEF IInv, RequestsPlaced, Enqueued
<1>9. ~ Queued(r) /\ ~ Held(r) /\ ~ Concluded(r)
  BY <1>8 DEF IInv, JobsPlaced
<1>10. \A i, j \in 1 .. Len(jobs') : jobs'[i] = jobs'[j] => i = j
  BY <1>2, <1>9 DEF IInv, JobsPlaced, Queued
<1> QED
  BY <1>3, <1>4, <1>5, <1>6, <1>7, <1>9, <1>10 DEF IInv, JobsPlaced, workVars
-----------------------------------------------------------------------------
(* Workers. *)

(* Start launches all workers at once; none of them holds a job.              *)
LEMMA StartIInv ==
  ASSUME NEW old, IInv(old), Start
  PROVE  IInv(old)'
<1> USE DEF Start
<1>1. \A w \in Workers : workerAt[w] = "off" /\ workerJob[w] = NoJob
  BY DEF IInv, WorkersPlaced, Started, Resting
<1>2. TypeOK'
  BY DEF IInv, TypeOK, reqVars, queueVars
<1>3. RequestsPlaced'
  BY DEF IInv, RequestsPlaced, reqVars
<1>4. WorkersPlaced'
  BY <1>1 DEF WorkersPlaced, Resting
<1>5. ShutdownPlaced'
  BY <1>1, HandlerAssumption DEF IInv, ShutdownPlaced, AllExited
<1>6. \A q \in Requests : /\ Queued(q)' <=> Queued(q)
                          /\ InTriage(q)' <=> InTriage(q)
                          /\ Held(q)' <=> Held(q)
                          /\ Concluded(q)' <=> Concluded(q)
                          /\ Enqueued(q)' <=> Enqueued(q)
  BY <1>1 DEF Queued, InTriage, Triaging, Held, Concluded, Enqueued, reqVars, queueVars
<1>7. JobsPlaced(old)'
  BY <1>6 DEF IInv, JobsPlaced, queueVars, reqVars
<1> QED
  BY <1>2, <1>3, <1>4, <1>5, <1>7 DEF IInv

(* A worker takes the first job, which then is no longer in the queue.        *)
LEMMA TakeIInv ==
  ASSUME NEW old, IInv(old), NEW w \in Workers, Take(w)
  PROVE  IInv(old)'
<1> USE DEF Take, Dequeued
<1> DEFINE j == Head(jobs)
<1>1. jobs \in Seq(Requests) /\ jobs # << >> /\ Len(jobs) <= QueueCap
  BY DEF IInv, TypeOK
<1>2. /\ j \in Requests /\ j = jobs[1] /\ Len(jobs) \in Nat /\ Len(jobs) >= 1
      /\ jobs' \in Seq(Requests) /\ Len(jobs') = Len(jobs) - 1
      /\ \A i \in 1 .. Len(jobs') : jobs'[i] = jobs[i + 1]
  BY <1>1
<1>3. /\ workerAt' = [workerAt EXCEPT ![w] = "fetch"]
      /\ workerJob' = [workerJob EXCEPT ![w] = j]
      /\ workerAt[w] = "idle" /\ workerJob[w] = NoJob
  BY DEF IInv, WorkersPlaced, Resting
<1>4. TypeOK'
  BY <1>1, <1>2, <1>3, HandlerAssumption DEF IInv, TypeOK, reqVars
<1>5. RequestsPlaced'
  BY DEF IInv, RequestsPlaced, reqVars
<1>6. WorkersPlaced'
  BY <1>1, <1>2, <1>3, HandlerAssumption DEF IInv, TypeOK, WorkersPlaced, Resting
<1>7. ShutdownPlaced'
  BY <1>3 DEF IInv, ShutdownPlaced, AllExited
<1>8. \A q \in Requests : /\ Concluded(q)' <=> Concluded(q)
                          /\ Enqueued(q)' <=> Enqueued(q)
  BY DEF Concluded, Enqueued, reqVars
<1>9. \A q \in Requests : Held(q)' <=> (Held(q) \/ q = j)
  BY <1>2, <1>3, HandlerAssumption DEF IInv, TypeOK, Held
<1>10. \A q \in Requests : InTriage(q)' <=> (InTriage(q) \/ q = j)
  BY <1>2, <1>3, HandlerAssumption DEF IInv, TypeOK, InTriage, Triaging
<1>11. Queued(j) /\ \A q \in Requests : Queued(q)' <=> (Queued(q) /\ q # j)
  <2>1. Queued(j)
    BY <1>2 DEF Queued
  <2>2. ASSUME NEW q \in Requests, Queued(q)' PROVE Queued(q) /\ q # j
    <3>1. PICK i \in 1 .. Len(jobs') : jobs'[i] = q
      BY <2>2 DEF Queued
    <3>2. i + 1 \in 1 .. Len(jobs) /\ i + 1 # 1 /\ 1 \in 1 .. Len(jobs) /\ jobs[i + 1] = q
      BY <1>2, <3>1
    <3> QED
      BY <1>2, <3>2 DEF IInv, JobsPlaced, Queued
  <2>3. ASSUME NEW q \in Requests, Queued(q), q # j PROVE Queued(q)'
    <3>1. PICK i \in 1 .. Len(jobs) : jobs[i] = q
      BY <2>3 DEF Queued
    <3>2. i - 1 \in 1 .. Len(jobs') /\ jobs'[i - 1] = q
      BY <1>2, <2>3, <3>1
    <3> QED
      BY <3>2 DEF Queued
  <2> QED
    BY <2>1, <2>2, <2>3
<1>12. \A i, k \in 1 .. Len(jobs') : jobs'[i] = jobs'[k] => i = k
  <2> SUFFICES ASSUME NEW i \in 1 .. Len(jobs'), NEW k \in 1 .. Len(jobs'), jobs'[i] = jobs'[k]
               PROVE  i = k
    OBVIOUS
  <2>1. i + 1 \in 1 .. Len(jobs) /\ k + 1 \in 1 .. Len(jobs) /\ jobs[i + 1] = jobs[k + 1]
    BY <1>2
  <2>2. i + 1 = k + 1
    BY <2>1 DEF IInv, JobsPlaced
  <2> QED
    BY <2>2
<1>13. ~ Held(j) /\ ~ Concluded(j) /\ Enqueued(j)
  BY <1>2, <1>11 DEF IInv, JobsPlaced
<1>14. \A v, u \in Workers : workerJob'[v] = workerJob'[u] /\ workerJob'[u] # NoJob => v = u
  BY <1>3, <1>13 DEF IInv, TypeOK, JobsPlaced, Held
<1>15. JobsPlaced(old)'
  BY <1>2, <1>8, <1>9, <1>10, <1>11, <1>12, <1>13, <1>14 DEF IInv, JobsPlaced, reqVars
<1> QED
  BY <1>4, <1>5, <1>6, <1>7, <1>15 DEF IInv

(* What a worker that is not resting holds, and that only it holds it.        *)
LEMMA JobOf ==
  ASSUME NEW old, IInv(old), NEW w \in Workers, ~ Resting(w)
  PROVE  /\ workerJob[w] \in Requests
         /\ \A v \in Workers : workerJob[v] = workerJob[w] => v = w
         /\ Enqueued(workerJob[w]) /\ ~ Queued(workerJob[w])
         /\ Triaging(w) <=> InTriage(workerJob[w])
<1>1. workerJob[w] \in Requests
  BY DEF IInv, TypeOK, WorkersPlaced
<1>2. workerJob[w] # NoJob /\ Held(workerJob[w])
  BY <1>1, HandlerAssumption DEF Held
<1>3. \A v \in Workers : workerJob[v] = workerJob[w] => v = w
  BY <1>2 DEF IInv, JobsPlaced
<1> QED
  BY <1>1, <1>2, <1>3 DEF IInv, JobsPlaced, InTriage

(* A worker moves on without its job moving, in triage or past it.            *)
LEMMA MovesOn ==
  ASSUME NEW old, IInv(old), NEW w \in Workers, NEW next,
         workerAt' = [workerAt EXCEPT ![w] = next],
         UNCHANGED <<behind, reqVars, queueVars, workerJob, verdict, stats, stopper>>,
         next \in {"analyze", "exited"} \union Writes,
         next \in {"analyze"} <=> Triaging(w),
         next = "exited" <=> Resting(w),
         next = "exited" => workerAt[w] = "idle" /\ jobsClosed /\ jobs = << >>,
         calls' \in [Requests -> [Writes -> {"untried", "ok", "error"}]]
  PROVE  IInv(old)'
<1>1. TypeOK'
  BY DEF IInv, TypeOK, reqVars, queueVars
<1>2. RequestsPlaced'
  BY DEF IInv, RequestsPlaced, reqVars
<1>3. WorkersPlaced'
  BY DEF IInv, TypeOK, WorkersPlaced, Resting, Triaging, Writes, queueVars
<1>4. ShutdownPlaced'
  BY DEF IInv, TypeOK, ShutdownPlaced, AllExited, Resting
<1>5. \A v \in Workers : Triaging(v)' <=> Triaging(v)
  BY DEF IInv, TypeOK, Triaging, Writes
<1>6. \A q \in Requests : /\ Queued(q)' <=> Queued(q)
                          /\ InTriage(q)' <=> InTriage(q)
                          /\ Held(q)' <=> Held(q)
                          /\ Concluded(q)' <=> Concluded(q)
                          /\ Enqueued(q)' <=> Enqueued(q)
  BY <1>5 DEF Queued, InTriage, Held, Concluded, Enqueued, reqVars, queueVars
<1>7. JobsPlaced(old)'
  BY <1>6 DEF IInv, JobsPlaced, queueVars, reqVars
<1> QED
  BY <1>1, <1>2, <1>3, <1>4, <1>7 DEF IInv

(* A worker reaches its verdict and goes on to act on it.                     *)
LEMMA ConcludesAndActs ==
  ASSUME NEW old, IInv(old), NEW w \in Workers, Triaging(w), Conclude(w, "flagged"), MoveTo(w, "label"),
         UNCHANGED <<behind, reqVars, queueVars, stopper>>
  PROVE  IInv(old)'
<1> DEFINE j == workerJob[w]
<1> USE DEF Conclude, MoveTo
<1>1. ~ Resting(w) /\ workerAt' = [workerAt EXCEPT ![w] = "label"] /\ workerJob' = workerJob
  BY DEF Triaging, Resting
<1>2. /\ j \in Requests /\ Enqueued(j) /\ ~ Queued(j)
      /\ \A v \in Workers : workerJob[v] = j => v = w
  BY <1>1, JobOf
<1>3. verdict' = [verdict EXCEPT ![j] = "flagged"]
  OBVIOUS
<1>4. TypeOK'
  BY CountedType DEF IInv, TypeOK, Writes, reqVars, queueVars
<1>5. RequestsPlaced'
  BY DEF IInv, RequestsPlaced, reqVars
<1>6. WorkersPlaced' /\ ShutdownPlaced'
  BY <1>1 DEF IInv, TypeOK, WorkersPlaced, ShutdownPlaced, AllExited, Resting, Writes, queueVars
<1>7. \A q \in Requests : /\ Queued(q)' <=> Queued(q)
                          /\ Held(q)' <=> Held(q)
                          /\ Enqueued(q)' <=> Enqueued(q)
  BY DEF Queued, Held, Enqueued, reqVars, queueVars
<1>8. \A q \in Requests : Concluded(q)' <=> (Concluded(q) \/ q = j)
  BY <1>2, <1>3 DEF IInv, TypeOK, Concluded
<1>9. \A q \in Requests : InTriage(q)' <=> (InTriage(q) /\ q # j)
  BY <1>1, <1>2 DEF IInv, TypeOK, InTriage, Triaging
<1>10. JobsPlaced(old)'
  BY <1>2, <1>7, <1>8, <1>9 DEF IInv, JobsPlaced, queueVars, reqVars
<1> QED
  BY <1>4, <1>5, <1>6, <1>10 DEF IInv

(* A worker returns for the next job: from triage with a verdict, from act    *)
(* with the verdict it had.                                                   *)
LEMMA ReturnsIInv ==
  ASSUME NEW old, IInv(old), NEW w \in Workers, ~ Resting(w), Return(w),
         verdict' \in [Requests -> {"none", "failed", "skipped", "flagged"}],
         \A q \in Requests : Concluded(q)' <=> (Concluded(q) \/ (Triaging(w) /\ q = workerJob[w])),
         stats' \in [Counters -> Nat],
         calls' \in [Requests -> [Writes -> {"untried", "ok", "error"}]],
         UNCHANGED <<behind, reqVars, queueVars, stopper>>
  PROVE  IInv(old)'
<1> DEFINE j == workerJob[w]
<1>1. /\ workerAt' = [workerAt EXCEPT ![w] = "idle"]
      /\ workerJob' = [workerJob EXCEPT ![w] = NoJob]
  BY DEF Return
<1>2. /\ j \in Requests /\ Enqueued(j) /\ ~ Queued(j)
      /\ \A v \in Workers : workerJob[v] = j => v = w
      /\ Triaging(w) <=> InTriage(j)
  BY JobOf
<1>3. TypeOK'
  BY <1>1 DEF IInv, TypeOK, reqVars, queueVars
<1>4. RequestsPlaced'
  BY DEF IInv, RequestsPlaced, reqVars
<1>5. WorkersPlaced' /\ ShutdownPlaced'
  BY <1>1 DEF IInv, TypeOK, WorkersPlaced, ShutdownPlaced, AllExited, Resting, queueVars
<1>6. \A q \in Requests : /\ Queued(q)' <=> Queued(q)
                          /\ Enqueued(q)' <=> Enqueued(q)
  BY DEF Queued, Enqueued, reqVars, queueVars
<1>7. \A q \in Requests : Held(q)' <=> (Held(q) /\ q # j)
  BY <1>1, <1>2, HandlerAssumption DEF IInv, TypeOK, Held
<1>8. \A q \in Requests : InTriage(q)' <=> (InTriage(q) /\ q # j)
  BY <1>1, <1>2, HandlerAssumption DEF IInv, TypeOK, InTriage, Triaging
<1>9. \A u, v \in Workers : workerJob'[u] = workerJob'[v] /\ workerJob'[v] # NoJob => u = v
  BY <1>1 DEF IInv, TypeOK, JobsPlaced
<1>10. JobsPlaced(old)'
  BY <1>2, <1>6, <1>7, <1>8, <1>9 DEF IInv, JobsPlaced, queueVars, reqVars
<1> QED
  BY <1>3, <1>4, <1>5, <1>10 DEF IInv

(* A verdict is for the worker's job and for no other.                        *)
LEMMA ConcludeMarks ==
  ASSUME NEW old, IInv(old), NEW w \in Workers, Triaging(w),
         NEW v \in {"failed", "skipped", "flagged"}, Conclude(w, v)
  PROVE  /\ verdict' \in [Requests -> {"none", "failed", "skipped", "flagged"}]
         /\ \A q \in Requests : Concluded(q)' <=> (Concluded(q) \/ q = workerJob[w])
         /\ stats' \in [Counters -> Nat] /\ calls' = calls
<1>1. workerJob[w] \in Requests
  BY JobOf DEF Triaging, Resting
<1> QED
  BY <1>1, CountedType DEF IInv, TypeOK, Conclude, Concluded

(* The steps of a worker.                                                     *)
LEMMA WorkIInv ==
  ASSUME NEW old, IInv(old), NEW w \in Workers, Work(w)
  PROVE  IInv(old)'
<1>1. CASE Take(w)
  BY <1>1, TakeIInv
<1>2. CASE Exit(w)
  BY <1>2, MovesOn DEF IInv, TypeOK, Exit, RangeEnds, Resting, Triaging, Writes
<1>3. CASE FetchOk(w)
  BY <1>3, MovesOn DEF IInv, TypeOK, FetchOk, MoveTo, Resting, Triaging
<1>4. ASSUME NEW v \in {"failed", "skipped", "flagged"}, Triaging(w),
             Conclude(w, v), Return(w), UNCHANGED <<behind, reqVars, queueVars, stopper>>
      PROVE  IInv(old)'
  <2>1. ~ Resting(w) /\ calls \in [Requests -> [Writes -> {"untried", "ok", "error"}]]
    BY <1>4 DEF IInv, TypeOK, Triaging, Resting
  <2>2. /\ verdict' \in [Requests -> {"none", "failed", "skipped", "flagged"}]
        /\ \A q \in Requests : Concluded(q)' <=> (Concluded(q) \/ q = workerJob[w])
        /\ stats' \in [Counters -> Nat] /\ calls' = calls
    BY <1>4, ConcludeMarks
  <2> QED
    BY <1>4, <2>1, <2>2, ReturnsIInv
<1>5. CASE FetchError(w) \/ AnalyzeError(w) \/ Skip(w)
  BY <1>4, <1>5 DEF FetchError, AnalyzeError, Skip, Triaging
<1>6. CASE Flag(w)
  <2>1. CASE AfterFlag = "idle"
    BY <1>4, <1>6, <2>1 DEF Flag, Triaging
  <2>2. CASE AfterFlag # "idle"
    <3>1. AfterFlag = "label"
      BY <2>2 DEF AfterFlag
    <3> QED
      BY <1>6, <2>2, <3>1, ConcludesAndActs DEF Flag, Triaging
  <2> QED
    BY <2>1, <2>2
<1>7. ASSUME NEW c \in Writes, Write(w, c) PROVE IInv(old)'
  <2>1. PICK result \in {"ok", "error"} :
          /\ calls' = [calls EXCEPT ![workerJob[w]][c] = result]
          /\ IF AfterWrite(w, c, result) = "idle" THEN Return(w)
             ELSE MoveTo(w, AfterWrite(w, c, result))
    BY <1>7 DEF Write
  <2>2. /\ workerAt[w] = c /\ ~ Resting(w) /\ ~ Triaging(w)
        /\ UNCHANGED <<behind, reqVars, queueVars, verdict, stats, stopper>>
    BY <1>7 DEF Write, Writes, Resting, Triaging
  <2>3. calls' \in [Requests -> [Writes -> {"untried", "ok", "error"}]]
    BY <2>1, <2>2, JobOf DEF IInv, TypeOK
  <2>4. CASE AfterWrite(w, c, result) = "idle"
    BY <2>1, <2>2, <2>3, <2>4, ReturnsIInv DEF IInv, TypeOK, Concluded
  <2>5. CASE AfterWrite(w, c, result) # "idle"
    <3>1. AfterWrite(w, c, result) \in Writes
      BY <2>5 DEF AfterWrite, Writes
    <3>2. AfterWrite(w, c, result) \notin {"analyze", "exited"}
      BY <3>1 DEF Writes
    <3> QED
      BY <2>1, <2>2, <2>3, <2>5, <3>1, <3>2, MovesOn DEF MoveTo
  <2> QED
    BY <2>4, <2>5
<1>8. CASE AddLabel(w) \/ PostComment(w) \/ CreateCheckRun(w)
  BY <1>7, <1>8 DEF AddLabel, PostComment, CreateCheckRun, Writes
<1> QED
  BY <1>1, <1>2, <1>3, <1>5, <1>6, <1>8 DEF Work
-----------------------------------------------------------------------------
(* The steps of a request goroutine.                                          *)
LEMMA ServeIInv ==
  ASSUME NEW old, IInv(old), NEW r \in Requests, Serve(r)
  PROVE  IInv(old)'
<1> USE DEF IInv, TypeOK
<1>1. CASE ClaimNew(r)
  BY <1>1, ClaimNewIInv
<1>2. CASE ClaimDuplicate(r)
  BY <1>2, AnswerIInv DEF ClaimDuplicate
<1>3. CASE EnqueueOk(r)
  BY <1>3, EnqueueOkIInv
<1>4. CASE EnqueueFull(r)
  BY <1>4, AnswerIInv DEF EnqueueFull
<1>5. CASE EnqueuePanic(r)
  BY <1>5, AnswerIInv DEF EnqueuePanic
<1>6. CASE Count(r)
  BY <1>6, AnswerIInv, CountedType DEF Count
<1>7. CASE RecordDisagreement(r)
  BY <1>7, AnswerIInv DEF RecordDisagreement
<1> QED
  BY <1>1, <1>2, <1>3, <1>4, <1>5, <1>6, <1>7 DEF Serve

(* The steps of a call of Shutdown.                                           *)
LEMMA StopperIInv ==
  ASSUME NEW old, IInv(old), NEW s \in Stoppers, CloseJobs(s) \/ Shutdown(s)
  PROVE  IInv(old)'
<1> USE DEF CloseJobs, Shutdown, WorkersDone, Flushed, GiveUp
<1>1. /\ UNCHANGED <<behind, reqVars, jobs, workVars, stats>>
      /\ jobsClosed' \in BOOLEAN /\ (jobsClosed => jobsClosed')
  BY DEF IInv, TypeOK, queueVars
<1>2. \E next \in {"waiting", "flushing", "nil", "ctxError"} :
        /\ stopper' = [stopper EXCEPT ![s] = next]
        /\ next \in {"flushing", "nil"} => AllExited
  BY DEF IInv, ShutdownPlaced
<1>3. TypeOK'
  BY <1>1, <1>2 DEF IInv, TypeOK, reqVars, workVars
<1>4. RequestsPlaced'
  BY <1>1 DEF IInv, RequestsPlaced, reqVars
<1>5. WorkersPlaced'
  BY <1>1 DEF IInv, WorkersPlaced, Resting, workVars
<1>6. ShutdownPlaced'
  BY <1>1, <1>2 DEF IInv, TypeOK, ShutdownPlaced, AllExited, workVars
<1>7. JobsPlaced(old)'
  BY <1>1, JobsStay DEF IInv, Enqueued, reqVars, workVars
<1> QED
  BY <1>3, <1>4, <1>5, <1>6, <1>7 DEF IInv

(* A step of the log writer, or none, disturbs nothing.                       *)
LEMMA UnchangedIInv ==
  ASSUME NEW old, IInv(old), UNCHANGED <<behind, reqVars, queueVars, workVars, stats, stopper>>
  PROVE  IInv(old)'
<1>1. TypeOK'
  BY DEF IInv, TypeOK, reqVars, queueVars, workVars
<1>2. RequestsPlaced'
  BY DEF IInv, RequestsPlaced, reqVars
<1>3. WorkersPlaced' /\ ShutdownPlaced'
  BY WorkersStay DEF IInv, queueVars
<1>4. JobsPlaced(old)'
  BY JobsStay DEF IInv, Enqueued, reqVars, queueVars, workVars
<1> QED
  BY <1>1, <1>2, <1>3, <1>4 DEF IInv

(* Every step keeps the invariant.                                            *)
LEMMA NextIInv ==
  ASSUME NEW old, IInv(old), [Next]_vars
  PROVE  IInv(old)'
<1>1. CASE Start
  BY <1>1, StartIInv
<1>2. ASSUME NEW r \in Requests, Serve(r) PROVE IInv(old)'
  BY <1>2, ServeIInv
<1>3. ASSUME NEW r \in Requests, NEW d \in Deliveries, Arrive(r, d) PROVE IInv(old)'
  BY <1>3, ArriveIInv
<1>4. ASSUME NEW w \in Workers, Work(w) PROVE IInv(old)'
  BY <1>4, WorkIInv
<1>5. ASSUME NEW s \in Stoppers, CloseJobs(s) \/ Shutdown(s) PROVE IInv(old)'
  BY <1>5, StopperIInv
<1>6. CASE WriteLog
  BY <1>6, UnchangedIInv DEF WriteLog
<1>7. CASE UNCHANGED vars
  BY <1>7, UnchangedIInv DEF vars
<1> QED
  BY <1>1, <1>2, <1>3, <1>4, <1>5, <1>6, <1>7 DEF Next

(* The invariant holds in every reachable state, for any number of requests,  *)
(* workers and shutdowns interleaved in any way (webhook.go:135-408).         *)
THEOREM HandlerInvariant == Spec => []IInv({})
<1>1. Init => IInv({})
  BY InitIInv
<1>2. IInv({}) /\ [Next]_vars => IInv({})'
  BY NextIInv
<1> QED
  BY <1>1, <1>2, PTL DEF Spec

(* Every variable keeps its type; in particular the queue its capacity.       *)
THEOREM HandlerTypeOK == Spec => []TypeOK
<1>1. IInv({}) => TypeOK
  BY DEF IInv
<1> QED
  BY <1>1, HandlerInvariant, PTL

(* A Shutdown that returned nil left nothing behind: no queued job, no held   *)
(* job, no accepted delivery without a verdict (webhook.go:154-174).          *)
THEOREM HandlerDrainedOnNil == Spec => []DrainedOnNil
<1>1. IInv({}) => DrainedOnNil
  <2> SUFFICES ASSUME IInv({}), NEW s \in Stoppers, stopper[s] = "nil"
               PROVE  /\ jobs = << >>
                      /\ \A w \in Workers : workerJob[w] = NoJob
                      /\ \A r \in Requests : Enqueued(r) => Concluded(r)
    BY DEF DrainedOnNil
  <2>1. \A w \in Workers : workerAt[w] = "exited"
    BY DEF IInv, ShutdownPlaced, AllExited
  <2>2. jobs = << >> /\ \A w \in Workers : workerJob[w] = NoJob
    BY <2>1, HandlerAssumption DEF IInv, WorkersPlaced, Resting
  <2>3. \A r \in Requests : ~ Queued(r) /\ ~ InTriage(r)
    BY <2>1, <2>2 DEF Queued, InTriage, Triaging
  <2> QED
    BY <2>2, <2>3 DEF IInv, JobsPlaced
<1> QED
  BY <1>1, HandlerInvariant, PTL

(* No job is lost between goroutines or triaged twice: each enqueued request  *)
(* has exactly one of a place in the queue, a worker, or a verdict.           *)
THEOREM HandlerOnePlace == Spec => []OnePlace
<1>1. IInv({}) => OnePlace
  <2> SUFFICES ASSUME IInv({}), NEW r \in Requests
      PROVE LET Q == {i \in 1 .. Len(jobs) : jobs[i] = r}
                T == {w \in Workers : Triaging(w) /\ workerJob[w] = r}
            IN  Cardinality(Q) + Cardinality(T) + (IF Concluded(r) THEN 1 ELSE 0)
                  = IF Enqueued(r) THEN 1 ELSE 0
    BY DEF OnePlace
  <2> DEFINE Q == {i \in 1 .. Len(jobs) : jobs[i] = r}
             T == {w \in Workers : Triaging(w) /\ workerJob[w] = r}
  <2>1. Cardinality(Q) = IF Queued(r) THEN 1 ELSE 0
    <3>1. CASE Queued(r)
      <4>1. PICK i \in 1 .. Len(jobs) : jobs[i] = r
        BY <3>1 DEF Queued
      <4>2. Q = {i}
        BY <4>1 DEF IInv, JobsPlaced
      <4> QED
        BY <3>1, <4>2, FS_Singleton
    <3>2. CASE ~ Queued(r)
      BY <3>2, FS_EmptySet DEF Queued
    <3> QED
      BY <3>1, <3>2
  <2>2. Cardinality(T) = IF InTriage(r) THEN 1 ELSE 0
    <3>1. CASE InTriage(r)
      <4>1. PICK w \in Workers : Triaging(w) /\ workerJob[w] = r
        BY <3>1 DEF InTriage
      <4>2. T = {w}
        BY <4>1, JobOf DEF Triaging, Resting
      <4> QED
        BY <3>1, <4>2, FS_Singleton
    <3>2. CASE ~ InTriage(r)
      BY <3>2, FS_EmptySet DEF InTriage
    <3> QED
      BY <3>1, <3>2
  <2>3. InTriage(r) => Held(r)
    BY DEF InTriage, Held
  <2> QED
    BY <2>1, <2>2, <2>3 DEF IInv, JobsPlaced
<1> QED
  BY <1>1, HandlerInvariant, PTL
-----------------------------------------------------------------------------
(* The writes to GitHub.  What a job's worker has tried is told by where the  *)
(* worker is, and a job given up by its worker has had all that is due.       *)
Tried(r) == {c \in Writes : calls[r][c] # "untried"}

Due(r) == {"label", "comment"} \union (IF reqId[r] \in NoSHA THEN {} ELSE {"check"})

Acting(r) == verdict[r] = "flagged" /\ ~ ShadowMode

TriedBefore(c) == IF c = "label" THEN {}
                  ELSE IF c = "comment" THEN {"label"} ELSE {"label", "comment"}

WritesPlaced(old) ==
  /\ \A r \in Requests : ~ Acting(r) => Tried(r) = {}
  /\ \A w \in Workers : workerAt[w] \in Writes =>
       /\ Acting(workerJob[w])
       /\ Tried(workerJob[w]) = TriedBefore(workerAt[w])
       /\ workerAt[w] \in Due(workerJob[w])
  /\ \A r \in Requests : r \notin old /\ Acting(r) /\ ~ Held(r) => Tried(r) = Due(r)

(* WritesPlaced only looks at requests with a job: a step that leaves these,  *)
(* the workers, the verdicts and the writes alone keeps it.                   *)
LEMMA WritesStay ==
  ASSUME NEW old, IInv(old), WritesPlaced(old), UNCHANGED workVars,
         \A q \in Requests : Enqueued(q) => reqId'[q] = reqId[q]
  PROVE  WritesPlaced(old)'
<1>1. \A q \in Requests : q \notin old /\ Acting(q) => Enqueued(q)
  BY DEF IInv, JobsPlaced, Acting, Concluded
<1>2. \A w \in Workers : workerAt[w] \in Writes => Enqueued(workerJob[w]) /\ workerJob[w] \in Requests
  BY JobOf DEF Writes, Resting
<1>3. \A q \in Requests : Enqueued(q) => Due(q)' = Due(q)
  BY DEF Due
<1>4. \A q \in Requests : /\ Acting(q)' <=> Acting(q)
                          /\ Tried(q)' = Tried(q)
                          /\ Held(q)' <=> Held(q)
  BY DEF Acting, Tried, Held, workVars
<1> QED
  BY <1>1, <1>2, <1>3, <1>4 DEF WritesPlaced, workVars

(* A step of a worker that is not writing, before and after, and leaves the   *)
(* verdicts alone.                                                            *)
LEMMA WritesWait ==
  ASSUME NEW old, IInv(old), WritesPlaced(old), NEW w \in Workers, workerAt[w] \notin Writes,
         NEW next, next \notin Writes, workerAt' = [workerAt EXCEPT ![w] = next],
         UNCHANGED <<reqVars, verdict, calls>>,
         \A q \in Requests : Held(q) => Held(q)',
         \A v \in Workers : v # w => workerJob'[v] = workerJob[v]
  PROVE  WritesPlaced(old)'
<1>1. \A v \in Workers : workerAt'[v] \in Writes =>
        workerAt'[v] = workerAt[v] /\ workerJob'[v] = workerJob[v]
  BY DEF IInv, TypeOK
<1>2. \A v \in Workers : workerAt[v] \in Writes => workerJob[v] \in Requests
  BY JobOf DEF Writes, Resting
<1>3. \A q : Due(q)' = Due(q) /\ Tried(q)' = Tried(q) /\ (Acting(q)' <=> Acting(q))
  BY DEF Due, Acting, Tried, reqVars
<1>4. ASSUME NEW v \in Workers, workerAt'[v] \in Writes
      PROVE  /\ Acting(workerJob[v])' /\ workerJob'[v] = workerJob[v]
             /\ Tried(workerJob[v])' = TriedBefore(workerAt'[v])
             /\ workerAt'[v] \in Due(workerJob[v])'
  BY <1>1, <1>2, <1>3, <1>4 DEF WritesPlaced
<1> QED
  BY <1>1, <1>3, <1>4 DEF WritesPlaced

(* A verdict: the job has had no write before, and is now a job to act on or  *)
(* one that gets none.                                                        *)
LEMMA WritesConcluded ==
  ASSUME NEW old, IInv(old), WritesPlaced(old), NEW w \in Workers, Triaging(w),
         NEW v \in {"failed", "skipped", "flagged"}, Conclude(w, v),
         IF v = "flagged" /\ ~ ShadowMode THEN MoveTo(w, "label") ELSE Return(w),
         UNCHANGED reqVars
  PROVE  WritesPlaced(old)'
<1> USE DEF Conclude, MoveTo, Return
<1>1. PICK j \in Requests :
        /\ j = workerJob[w]
        /\ \A u \in Workers : workerJob[u] = j => u = w
        /\ ~ Concluded(j)
  BY JobOf DEF IInv, JobsPlaced, Triaging, Resting
<1>2. /\ verdict' = [verdict EXCEPT ![j] = v] /\ calls' = calls
      /\ \A q \in Requests : Tried(q)' = Tried(q) /\ Due(q)' = Due(q)
  BY <1>1 DEF Tried, Due, reqVars
<1>3. /\ Tried(j) = {} /\ (Acting(j)' <=> v = "flagged" /\ ~ ShadowMode)
      /\ \A q \in Requests : q # j => (Acting(q)' <=> Acting(q))
  BY <1>1, <1>2 DEF WritesPlaced, Acting, Concluded, IInv, TypeOK
<1>4. \A u \in Workers : u # w => workerAt'[u] = workerAt[u] /\ workerJob'[u] = workerJob[u]
  BY DEF IInv, TypeOK
<1>5. \A q \in Requests : q # j => (Held(q)' <=> Held(q))
  BY <1>1, <1>4, HandlerAssumption DEF Held, IInv, TypeOK
<1>6. \A q \in Requests : ~ Acting(q)' => Tried(q)' = {}
  BY <1>2, <1>3 DEF WritesPlaced
<1>7. \A q \in Requests : q \notin old /\ Acting(q)' /\ ~ Held(q)' => Tried(q)' = Due(q)'
  <2>1. Acting(j)' => Held(j)'
    BY <1>1, <1>3 DEF Held, IInv, TypeOK
  <2> QED
    <3>1. ASSUME NEW q \in Requests, q \notin old, q # j, Acting(q)', ~ Held(q)'
          PROVE  Tried(q)' = Due(q)'
      BY <1>2, <1>3, <1>5, <3>1 DEF WritesPlaced
    <3> QED
      BY <2>1, <3>1
<1>8. ASSUME NEW u \in Workers, workerAt'[u] \in Writes
      PROVE  /\ Acting(workerJob[u])'
             /\ Tried(workerJob[u])' = TriedBefore(workerAt'[u])
             /\ workerAt'[u] \in Due(workerJob[u])'
  <2>1. CASE u = w
    <3>1. v = "flagged" /\ ~ ShadowMode /\ workerAt'[w] = "label" /\ workerJob'[w] = j
      BY <1>1, <1>8, <2>1 DEF IInv, TypeOK, Writes
    <3> QED
      BY <1>1, <1>2, <1>3, <2>1, <3>1 DEF TriedBefore, Due, Acting, Tried
  <2>2. CASE u # w
    <3>1. workerAt[u] \in Writes /\ workerJob[u] \in Requests /\ workerJob[u] # j
      BY <1>1, <1>4, <1>8, <2>2, JobOf DEF Writes, Resting
    <3> QED
      BY <1>2, <1>3, <1>4, <2>2, <3>1 DEF WritesPlaced, Acting, Tried, Due
  <2> QED
    BY <2>1, <2>2
<1> QED
  BY <1>6, <1>7, <1>8 DEF WritesPlaced

(* One write: what was tried grows by it, and the worker goes on to the next  *)
(* one that is due or, if there is none, gives the job up.                    *)
LEMMA WritesGoOn ==
  ASSUME NEW old, IInv(old), WritesPlaced(old), NEW w \in Workers, NEW c \in Writes, Write(w, c)
  PROVE  WritesPlaced(old)'
<1>1. PICK j \in Requests : /\ j = workerJob[w]
                           /\ \A u \in Workers : workerJob[u] = j => u = w
  BY JobOf DEF Write, Writes, Resting
<1>2. PICK result \in {"ok", "error"} :
        /\ calls' = [calls EXCEPT ![j][c] = result]
        /\ IF AfterWrite(w, c, result) = "idle" THEN Return(w)
           ELSE MoveTo(w, AfterWrite(w, c, result))
  BY <1>1 DEF Write
<1>3. workerAt[w] = c /\ verdict' = verdict /\ UNCHANGED reqVars /\ ~ Resting(w)
  BY DEF Write, Writes, Resting
<1>4. /\ Tried(j)' = Tried(j) \union {c}
      /\ \A q \in Requests : q # j => Tried(q)' = Tried(q)
  BY <1>1, <1>2 DEF Tried, IInv, TypeOK
<1>5. \A q \in Requests : (Acting(q)' <=> Acting(q)) /\ Due(q)' = Due(q)
  BY <1>3 DEF Acting, Due, reqVars
<1>6. Acting(j) /\ Tried(j) = TriedBefore(c) /\ c \in Due(j)
  BY <1>1, <1>3 DEF WritesPlaced
<1>7. \A u \in Workers : u # w => workerAt'[u] = workerAt[u] /\ workerJob'[u] = workerJob[u]
  BY <1>2 DEF IInv, TypeOK, Return, MoveTo
<1>8. \A q \in Requests : q # j => (Held(q)' <=> Held(q))
  BY <1>1, <1>2, <1>7, HandlerAssumption DEF Held, IInv, TypeOK, Return, MoveTo
<1>9. \A q \in Requests : ~ Acting(q)' => Tried(q)' = {}
  BY <1>4, <1>5, <1>6 DEF WritesPlaced
<1>10. CASE AfterWrite(w, c, result) = "idle"
  <2>1. workerAt'[w] = "idle"
    BY <1>2, <1>10 DEF Return, IInv, TypeOK
  <2>2. Tried(j)' = Due(j)
    BY <1>1, <1>4, <1>6, <1>10 DEF AfterWrite, TriedBefore, Due, Writes
  <2> QED
    BY <1>1, <1>4, <1>5, <1>7, <1>8, <1>9, <2>1, <2>2, JobOf, HandlerAssumption
       DEF WritesPlaced, Writes, Resting
<1>11. CASE AfterWrite(w, c, result) # "idle"
  <2> DEFINE n == AfterWrite(w, c, result)
  <2>1. workerAt'[w] = n /\ workerJob'[w] = j
    BY <1>1, <1>2, <1>11 DEF MoveTo, IInv, TypeOK
  <2>2. Tried(j)' = TriedBefore(n) /\ n \in Due(j)
    BY <1>1, <1>4, <1>6, <1>11 DEF AfterWrite, TriedBefore, Due, Writes
  <2>3. Held(j)'
    BY <2>1 DEF Held
  <2> QED
    BY <1>1, <1>4, <1>5, <1>6, <1>7, <1>8, <1>9, <2>1, <2>2, <2>3, JobOf
       DEF WritesPlaced, Writes, Resting
<1> QED
  BY <1>10, <1>11

(* The steps of a worker keep WritesPlaced.                                   *)
LEMMA WritesWork ==
  ASSUME NEW old, IInv(old), WritesPlaced(old), NEW w \in Workers, Work(w)
  PROVE  WritesPlaced(old)'
<1>1. CASE Take(w)
  <2>1. workerAt[w] = "idle" /\ workerJob[w] = NoJob
    BY <1>1 DEF Take, IInv, WorkersPlaced, Resting
  <2>2. \A q \in Requests : Held(q) => Held(q)'
    BY <1>1, <2>1, HandlerAssumption DEF Take, Held, IInv, TypeOK
  <2>3. \A v \in Workers : v # w => workerJob'[v] = workerJob[v]
    BY <1>1 DEF Take, IInv, TypeOK
  <2> QED
    BY <1>1, <2>1, <2>2, <2>3, WritesWait DEF Take, Writes
<1>2. CASE Exit(w) \/ FetchOk(w)
  <2>1. \A q \in Requests : Held(q) => Held(q)'
    BY <1>2 DEF Exit, FetchOk, MoveTo, Held
  <2> QED
    BY <1>2, <2>1, WritesWait DEF Exit, FetchOk, MoveTo, Writes
<1>3. CASE FetchError(w) \/ AnalyzeError(w)
  BY <1>3, WritesConcluded DEF FetchError, AnalyzeError, Triaging
<1>4. CASE Skip(w)
  BY <1>4, WritesConcluded DEF Skip, Triaging
<1>5. CASE Flag(w)
  <2>1. AfterFlag = "idle" <=> ShadowMode
    BY HandlerAssumption DEF AfterFlag
  <2>2. AfterFlag # "idle" => AfterFlag = "label"
    BY DEF AfterFlag
  <2> QED
    BY <1>5, <2>1, <2>2, WritesConcluded DEF Flag, Triaging
<1>6. CASE AddLabel(w) \/ PostComment(w) \/ CreateCheckRun(w)
  BY <1>6, WritesGoOn DEF AddLabel, PostComment, CreateCheckRun, Writes
<1> QED
  BY <1>1, <1>2, <1>3, <1>4, <1>5, <1>6 DEF Work

(* Every step keeps WritesPlaced.                                             *)
LEMMA NextWrites ==
  ASSUME NEW old, IInv(old), WritesPlaced(old), [Next]_vars
  PROVE  WritesPlaced(old)'
<1>1. CASE Start
  <2>1. \A w \in Workers : workerAt'[w] \notin Writes
    BY <1>1 DEF Start, Writes
  <2>2. \A q \in Requests : /\ Held(q)' <=> Held(q)
                            /\ Due(q)' = Due(q) /\ Tried(q)' = Tried(q)
                            /\ Acting(q)' <=> Acting(q)
    BY <1>1 DEF Start, Held, Due, Tried, Acting, reqVars
  <2> QED
    BY <2>1, <2>2 DEF WritesPlaced
<1>2. ASSUME NEW r \in Requests, Serve(r) PROVE WritesPlaced(old)'
  <2>1. UNCHANGED <<reqId, workVars>>
    BY <1>2 DEF Serve, ClaimNew, ClaimDuplicate, EnqueueOk, EnqueueFull, EnqueuePanic, Count,
                RecordDisagreement, Answer, GoOn
  <2> QED
    BY <2>1, WritesStay
<1>3. ASSUME NEW r \in Requests, NEW d \in Deliveries, Arrive(r, d) PROVE WritesPlaced(old)'
  <2>1. ~ Enqueued(r)
    BY <1>3 DEF Arrive, Enqueued, IInv, RequestsPlaced
  <2>2. \A q \in Requests : Enqueued(q) => reqId'[q] = reqId[q]
    BY <1>3, <2>1 DEF Arrive, IInv, TypeOK
  <2> QED
    BY <1>3, <2>2, WritesStay DEF Arrive
<1>4. ASSUME NEW w \in Workers, Work(w) PROVE WritesPlaced(old)'
  BY <1>4, WritesWork
<1>5. ASSUME NEW s \in Stoppers, CloseJobs(s) \/ Shutdown(s) PROVE WritesPlaced(old)'
  BY <1>5, WritesStay DEF CloseJobs, Shutdown, WorkersDone, Flushed, GiveUp, reqVars
<1>6. CASE WriteLog
  BY <1>6, WritesStay DEF WriteLog, reqVars
<1>7. CASE UNCHANGED vars
  BY <1>7, WritesStay DEF vars, reqVars
<1> QED
  BY <1>1, <1>2, <1>3, <1>4, <1>5, <1>6, <1>7 DEF Next

(* Only flagged pull requests outside shadow mode are written to, and each of *)
(* them has had all its writes tried when its worker lets go of it, whatever  *)
(* error the others met (webhook.go:361-408).                                 *)
THEOREM HandlerWritesMatchVerdict == Spec => []WritesMatchVerdict
<1>1. Init => WritesPlaced({})
  BY DEF Init, WritesPlaced, Acting, Tried, Writes
<1>2. IInv({}) /\ WritesPlaced({}) /\ [Next]_vars => WritesPlaced({})'
  BY NextWrites
<1>3. IInv({}) /\ WritesPlaced({}) => WritesMatchVerdict
  <2> SUFFICES ASSUME IInv({}), WritesPlaced({}), NEW r \in Requests
               PROVE  IF Acting(r) THEN Tried(r) \subseteq Due(r) /\ (Held(r) \/ Tried(r) = Due(r))
                      ELSE Tried(r) = {}
    BY DEF WritesMatchVerdict, Acting, Tried, Due
  <2>1. CASE Acting(r) /\ Held(r)
    <3>1. PICK w \in Workers : workerJob[w] = r
      BY <2>1 DEF Held
    <3>2. workerAt[w] \in Writes
      <4>1. ~ Resting(w) /\ ~ Triaging(w)
        BY <2>1, <3>1, HandlerAssumption
           DEF IInv, WorkersPlaced, JobsPlaced, InTriage, Acting, Concluded
      <4> QED
        BY <4>1 DEF IInv, TypeOK, Resting, Triaging
    <3>3. Tried(r) = TriedBefore(workerAt[w]) /\ workerAt[w] \in Due(r)
      BY <3>1, <3>2 DEF WritesPlaced
    <3> QED
      BY <2>1, <3>2, <3>3 DEF TriedBefore, Due, Writes
  <2>2. CASE Acting(r) /\ ~ Held(r)
    BY <2>2 DEF WritesPlaced
  <2>3. CASE ~ Acting(r)
    BY <2>3 DEF WritesPlaced
  <2> QED
    BY <2>1, <2>2, <2>3
<1> QED
  BY <1>1, <1>2, <1>3, HandlerInvariant, PTL DEF Spec
-----------------------------------------------------------------------------
(* The counters.  A request is counted, or about to be, once its job is in    *)
(* the queue; a job leaves the queue for triage and triage for a verdict.     *)
Counting == {r \in Requests : reqAt[r] = "count"}

AtTriage == {w \in Workers : Triaging(w)}

(* Both are finite, so that taking a member in or out moves their sizes by 1. *)
LEMMA CountsAreNat ==
  /\ IsFiniteSet(Counting) /\ Cardinality(Counting) \in Nat
  /\ IsFiniteSet(AtTriage) /\ Cardinality(AtTriage) \in Nat
<1>1. Counting \in SUBSET Requests /\ AtTriage \in SUBSET Workers
  BY DEF Counting, AtTriage
<1>2. IsFiniteSet(Counting) /\ IsFiniteSet(AtTriage)
  BY <1>1, FS_Subset, HandlerAssumption
<1> QED
  BY <1>2, FS_CardinalityType

Balanced ==
  /\ stats["received"] + Cardinality(Counting)
       = Len(jobs) + Cardinality(AtTriage) + stats["triaged"] + stats["failed"]
  /\ stats["triaged"] = stats["flagged"] + stats["skipped"]

(* CountersAgree in these terms, before a step and after it.                  *)
LEMMA CountersBalance == (CountersAgree <=> Balanced) /\ (CountersAgree' <=> Balanced')
  BY DEF CountersAgree, Balanced, Counting, AtTriage

(* A step that changes no counter, no queue and the place of no one counted.  *)
LEMMA CountersStay ==
  ASSUME CountersAgree, UNCHANGED <<jobs, stats>>,
         \A q \in Requests : reqAt'[q] = "count" <=> reqAt[q] = "count",
         \A w \in Workers : Triaging(w)' <=> Triaging(w)
  PROVE  CountersAgree'
<1>1. Counting' = Counting /\ AtTriage' = AtTriage
  BY DEF Counting, AtTriage
<1> QED
  BY <1>1 DEF CountersAgree, Counting, AtTriage

(* A worker's verdict: one less in triage, one more triaged or failed.        *)
LEMMA CountersConclude ==
  ASSUME NEW old, IInv(old), CountersAgree, NEW w \in Workers, Triaging(w),
         NEW v \in {"failed", "skipped", "flagged"}, Conclude(w, v),
         MoveTo(w, "label") \/ Return(w), UNCHANGED <<reqVars, queueVars>>
  PROVE  CountersAgree'
<1>1. AtTriage' = AtTriage \ {w} /\ w \in AtTriage /\ Counting' = Counting
  BY DEF IInv, TypeOK, AtTriage, Counting, Triaging, MoveTo, Return, reqVars
<1>2. Cardinality(AtTriage') = Cardinality(AtTriage) - 1
  BY <1>1, CountsAreNat, FS_RemoveElement
<1>3. /\ stats \in [Counters -> Nat] /\ stats' = Counted(CountedFor(v)) /\ jobs' = jobs
      /\ Len(jobs) \in Nat
  BY DEF IInv, TypeOK, Conclude, queueVars
<1>4. \A c \in Counters : stats[c] \in Nat /\ stats'[c] = IF c \in CountedFor(v) THEN stats[c] + 1 ELSE stats[c]
  BY <1>3 DEF Counted
<1>5. /\ stats["received"] \in Nat /\ stats'["received"] = stats["received"]
      /\ stats["failed"] \in Nat /\ stats'["failed"] = stats["failed"] + (IF v = "failed" THEN 1 ELSE 0)
      /\ stats["triaged"] \in Nat /\ stats'["triaged"] = stats["triaged"] + (IF v = "failed" THEN 0 ELSE 1)
      /\ stats["flagged"] \in Nat /\ stats'["flagged"] = stats["flagged"] + (IF v = "flagged" THEN 1 ELSE 0)
      /\ stats["skipped"] \in Nat /\ stats'["skipped"] = stats["skipped"] + (IF v = "skipped" THEN 1 ELSE 0)
  BY <1>4 DEF CountedFor, Counters
<1>6. Balanced
  BY CountersBalance
<1>7. stats'["triaged"] = stats'["flagged"] + stats'["skipped"]
  BY <1>5, <1>6 DEF Balanced
<1>8. stats'["received"] + Cardinality(Counting')
        = Len(jobs') + Cardinality(AtTriage') + stats'["triaged"] + stats'["failed"]
  BY <1>1, <1>2, <1>3, <1>5, <1>6, CountsAreNat DEF Balanced
<1> QED
  BY <1>7, <1>8, CountersBalance DEF Balanced

(* The steps of a worker keep the counters in agreement.                      *)
LEMMA CountersWork ==
  ASSUME NEW old, IInv(old), CountersAgree, NEW w \in Workers, Work(w)
  PROVE  CountersAgree'
<1>1. CASE Take(w)
  <2>1. /\ AtTriage' = AtTriage \union {w} /\ w \notin AtTriage
        /\ Counting' = Counting /\ stats' = stats
    BY <1>1 DEF Take, IInv, TypeOK, AtTriage, Counting, Triaging, reqVars
  <2>2. Cardinality(AtTriage') = Cardinality(AtTriage) + 1
    BY <2>1, CountsAreNat, FS_AddElement
  <2>3. Len(jobs) \in Nat /\ Len(jobs') = Len(jobs) - 1
    BY <1>1 DEF Take, Dequeued, IInv, TypeOK
  <2>4. \A c \in Counters : stats[c] \in Nat
    BY DEF IInv, TypeOK
  <2> QED
    BY <2>1, <2>2, <2>3, <2>4, CountsAreNat, CountersBalance DEF Balanced, Counters
<1>2. CASE Exit(w) \/ FetchOk(w)
  <2>1. \A u \in Workers : Triaging(u)' <=> Triaging(u)
    BY <1>2 DEF Exit, FetchOk, MoveTo, Triaging, IInv, TypeOK
  <2> QED
    BY <1>2, <2>1, CountersStay DEF Exit, FetchOk, reqVars, queueVars
<1>3. CASE FetchError(w) \/ AnalyzeError(w) \/ Skip(w) \/ Flag(w)
  BY <1>3, CountersConclude DEF FetchError, AnalyzeError, Skip, Flag, AfterFlag, Triaging
<1>4. ASSUME NEW c \in Writes, Write(w, c) PROVE CountersAgree'
  <2>1. PICK result \in {"ok", "error"} :
          IF AfterWrite(w, c, result) = "idle" THEN Return(w)
          ELSE MoveTo(w, AfterWrite(w, c, result))
    BY <1>4 DEF Write
  <2>2. \A u \in Workers : Triaging(u)' <=> Triaging(u)
    BY <1>4, <2>1 DEF Write, Writes, AfterWrite, MoveTo, Return, Triaging, IInv, TypeOK
  <2> QED
    BY <1>4, <2>2, CountersStay DEF Write, reqVars, queueVars
<1>5. CASE AddLabel(w) \/ PostComment(w) \/ CreateCheckRun(w)
  BY <1>4, <1>5 DEF AddLabel, PostComment, CreateCheckRun, Writes
<1> QED
  BY <1>1, <1>2, <1>3, <1>5 DEF Work

(* The steps of a request keep the counters in agreement.                     *)
LEMMA CountersServe ==
  ASSUME NEW old, IInv(old), CountersAgree, NEW r \in Requests, Serve(r)
  PROVE  CountersAgree'
<1>1. /\ stats["received"] \in Nat /\ stats["triaged"] \in Nat /\ stats["failed"] \in Nat
      /\ Len(jobs) \in Nat
  BY DEF IInv, TypeOK, Counters
<1>2. \A w \in Workers : Triaging(w)' <=> Triaging(w)
  BY DEF Serve, ClaimNew, ClaimDuplicate, EnqueueOk, EnqueueFull, EnqueuePanic, Count,
         RecordDisagreement, Triaging, workVars
<1>3. AtTriage' = AtTriage
  BY <1>2 DEF AtTriage
<1>4. CASE EnqueueOk(r)
  <2>1. Counting' = Counting \union {r} /\ r \notin Counting /\ stats' = stats
    BY <1>4 DEF EnqueueOk, GoOn, IInv, TypeOK, Counting
  <2>2. Cardinality(Counting') = Cardinality(Counting) + 1
    BY <2>1, CountsAreNat, FS_AddElement
  <2>3. Len(jobs') = Len(jobs) + 1
    BY <1>4 DEF EnqueueOk, IInv, TypeOK
  <2>4. Balanced
    BY CountersBalance
  <2>5. /\ stats'["received"] = stats["received"]
        /\ stats'["triaged"] = stats["triaged"] /\ stats'["failed"] = stats["failed"]
        /\ Cardinality(AtTriage') = Cardinality(AtTriage)
    BY <1>3, <2>1
  <2>6. stats'["received"] + Cardinality(Counting')
          = Len(jobs') + Cardinality(AtTriage') + stats'["triaged"] + stats'["failed"]
    <3>1. stats["received"] + Cardinality(Counting)
            = Len(jobs) + Cardinality(AtTriage) + stats["triaged"] + stats["failed"]
      BY <2>4 DEF Balanced
    <3>2. Cardinality(Counting) \in Nat /\ Cardinality(AtTriage) \in Nat
      BY CountsAreNat
    <3>3. PICK a, b, c, d, e, f \in Nat :
            /\ a = stats["received"] /\ b = Cardinality(Counting) /\ c = Len(jobs)
            /\ d = Cardinality(AtTriage) /\ e = stats["triaged"] /\ f = stats["failed"]
      BY <1>1, <3>2
    <3>4. a + b = c + d + e + f
      BY <3>1, <3>3
    <3>5. a + (b + 1) = (c + 1) + d + e + f
      BY <3>4
    <3> QED
      BY <2>2, <2>3, <2>5, <3>3, <3>5
  <2> QED
    BY <2>1, <2>4, <2>6, CountersBalance DEF Balanced
<1>5. CASE Count(r)
  <2>1. Counting' = Counting \ {r} /\ r \in Counting /\ jobs' = jobs
    BY <1>5 DEF Count, Answer, IInv, TypeOK, Counting, queueVars
  <2>2. Cardinality(Counting') = Cardinality(Counting) - 1
    BY <2>1, CountsAreNat, FS_RemoveElement
  <2>3. /\ stats'["received"] = stats["received"] + 1
        /\ stats'["triaged"] = stats["triaged"] /\ stats'["failed"] = stats["failed"]
        /\ stats'["flagged"] = stats["flagged"] /\ stats'["skipped"] = stats["skipped"]
    BY <1>5 DEF Count, Counted, Counters
  <2>4. Balanced /\ Len(jobs') = Len(jobs)
    BY <2>1, CountersBalance
  <2>5. stats'["received"] + Cardinality(Counting')
          = Len(jobs') + Cardinality(AtTriage') + stats'["triaged"] + stats'["failed"]
    BY <1>1, <1>3, <2>2, <2>3, <2>4, CountsAreNat DEF Balanced
  <2> QED
    BY <2>3, <2>4, <2>5, CountersBalance DEF Balanced
<1>6. CASE ClaimNew(r) \/ ClaimDuplicate(r) \/ EnqueueFull(r) \/ EnqueuePanic(r) \/ RecordDisagreement(r)
  <2>1. \A q \in Requests : reqAt'[q] = "count" <=> reqAt[q] = "count"
    BY <1>6 DEF ClaimNew, ClaimDuplicate, EnqueueFull, EnqueuePanic, RecordDisagreement,
                Answer, GoOn, IInv, TypeOK
  <2> QED
    BY <1>2, <1>6, <2>1, CountersStay
       DEF ClaimNew, ClaimDuplicate, EnqueueFull, EnqueuePanic, RecordDisagreement, queueVars
<1> QED
  BY <1>4, <1>5, <1>6 DEF Serve

(* The counters account for every accepted delivery, however the increments   *)
(* of request and worker goroutines interleave (stats.go:31-39).              *)
THEOREM HandlerCountersAgree == Spec => []CountersAgree
<1>1. Init => CountersAgree
  <2> SUFFICES ASSUME Init PROVE CountersAgree
    OBVIOUS
  <2>1. Counting = {} /\ AtTriage = {}
    BY DEF Init, Counting, AtTriage, Triaging
  <2>2. Len(jobs) = 0 /\ \A c \in Counters : stats[c] = 0
    BY DEF Init
  <2> QED
    BY <2>1, <2>2, FS_EmptySet, CountersBalance DEF Balanced, Counters
<1>2. IInv({}) /\ CountersAgree /\ [Next]_vars => CountersAgree'
  <2> SUFFICES ASSUME IInv({}), CountersAgree, [Next]_vars PROVE CountersAgree'
    OBVIOUS
  <2>1. CASE Start
    <3>1. \A w \in Workers : ~ Triaging(w) /\ ~ Triaging(w)'
      BY <2>1 DEF Start, Started, Triaging, IInv, WorkersPlaced
    <3> QED
      BY <2>1, <3>1, CountersStay DEF Start, reqVars, queueVars
  <2>2. ASSUME NEW r \in Requests, Serve(r) PROVE CountersAgree'
    BY <2>2, CountersServe
  <2>3. ASSUME NEW r \in Requests, NEW d \in Deliveries, Arrive(r, d) PROVE CountersAgree'
    <3>1. \A q \in Requests : reqAt'[q] = "count" <=> reqAt[q] = "count"
      BY <2>3 DEF Arrive, IInv, TypeOK
    <3> QED
      BY <2>3, <3>1, CountersStay DEF Arrive, Triaging, queueVars, workVars
  <2>4. ASSUME NEW w \in Workers, Work(w) PROVE CountersAgree'
    BY <2>4, CountersWork
  <2>5. ASSUME NEW s \in Stoppers, CloseJobs(s) \/ Shutdown(s) PROVE CountersAgree'
    BY <2>5, CountersStay DEF CloseJobs, Shutdown, WorkersDone, Flushed, GiveUp,
                              Triaging, reqVars, queueVars, workVars
  <2>6. CASE WriteLog \/ UNCHANGED vars
    BY <2>6, CountersStay DEF WriteLog, vars, Triaging, reqVars, queueVars, workVars
  <2> QED
    BY <2>1, <2>2, <2>3, <2>4, <2>5, <2>6 DEF Next
<1> QED
  BY <1>1, <1>2, HandlerInvariant, PTL DEF Spec
-----------------------------------------------------------------------------
(* The window.  The requests that were let through in this life, their IDs,   *)
(* and how many of these there are besides a given one: never fewer than the  *)
(* ledger counts behind it.                                                   *)
LetThrough(old) == {p \in Requests : p \notin old /\ Won(p)}

WonIds(old) == {reqId[p] : p \in LetThrough(old)}

WindowCounted(old) ==
  \A r \in LetThrough(old) :
    reqId[r] \in ClaimIds /\ Cardinality(WonIds(old) \ {reqId[r]}) >= behind[reqId[r]]

(* OncePerWindow for the requests of this life. *)
WindowKept(old) ==
  \A r, q \in LetThrough(old) :
    r # q /\ reqId[r] = reqId[q] => Cardinality(WonIds(old) \ {reqId[r]}) >= LedgerCap

Windowed(old) == WindowCounted(old) /\ WindowKept(old)

(* There are only finitely many of them. *)
LEMMA WonIdsFinite ==
  ASSUME NEW old
  PROVE  /\ IsFiniteSet(WonIds(old)) /\ Cardinality(WonIds(old)) \in Nat
         /\ \A d : IsFiniteSet(WonIds(old) \ {d}) /\ Cardinality(WonIds(old) \ {d}) \in Nat
<1> DEFINE S == LetThrough(old)
           f == [p \in S |-> reqId[p]]
<1>1. IsFiniteSet(S)
  BY FS_Subset, HandlerAssumption DEF LetThrough
<1>2. f \in Surjection(S, WonIds(old))
  BY DEF Surjection, WonIds
<1>3. IsFiniteSet(WonIds(old))
  BY <1>1, <1>2, FS_Surjection
<1>4. \A d : IsFiniteSet(WonIds(old) \ {d})
  BY <1>3, FS_RemoveElement
<1> QED
  BY <1>3, <1>4, FS_CardinalityType

(* A step that leaves the ledger alone and lets no one through.               *)
LEMMA WindowStays ==
  ASSUME NEW old, Windowed(old), behind' = behind,
         \A q \in Requests : /\ Won(q)' <=> Won(q)
                             /\ Won(q) => reqId'[q] = reqId[q]
  PROVE  Windowed(old)'
<1>1. LetThrough(old)' = LetThrough(old) /\ \A q \in LetThrough(old) : reqId'[q] = reqId[q]
  BY DEF LetThrough
<1>2. WonIds(old)' = WonIds(old)
  BY <1>1 DEF WonIds
<1> QED
  BY <1>1, <1>2 DEF Windowed, WindowCounted, WindowKept

(* A request is let through: its ID is not remembered, so that either it was  *)
(* never let through or LedgerCap others have been.                           *)
LEMMA WindowMoves ==
  ASSUME NEW old, IInv(old), Windowed(old), NEW r \in Requests, ClaimNew(r)
  PROVE  Windowed(old)'
<1> DEFINE e == reqId[r]
           T == LetThrough(old)
<1>1. e \in ClaimIds /\ reqId' = reqId /\ r \notin T /\ T' = T \union {r}
  <2>1. e \in ClaimIds /\ reqId' = reqId /\ r \notin old /\ ~ Won(r)
    BY DEF ClaimNew, GoOn, Won, IInv, RequestsPlaced, JobsPlaced
  <2>2. \A q \in Requests : Won(q)' <=> (Won(q) \/ q = r)
    BY <2>1 DEF ClaimNew, GoOn, Won, IInv, TypeOK
  <2> QED
    BY <2>1, <2>2 DEF LetThrough
<1>2. /\ behind[e] = LedgerCap /\ LedgerCap \in Nat
      /\ behind'[e] = 0
      /\ \A d \in ClaimIds : d # e => /\ behind[d] \in 0 .. LedgerCap
                                      /\ behind'[d] = IF behind[d] < LedgerCap THEN behind[d] + 1
                                                      ELSE LedgerCap
  BY <1>1, HandlerAssumption DEF ClaimNew, Known, Window!Remembered, Window!Pushed, IInv, TypeOK
<1>3. WonIds(old)' = WonIds(old) \union {e}
  BY <1>1 DEF WonIds
<1>4. ASSUME NEW q \in T, reqId[q] = e
      PROVE  Cardinality(WonIds(old) \ {e}) >= LedgerCap
  BY <1>2, <1>4 DEF Windowed, WindowCounted
<1>5. ASSUME NEW q \in T, reqId[q] # e
      PROVE  /\ Cardinality(WonIds(old)' \ {reqId[q]}) >= behind'[reqId[q]]
             /\ Cardinality(WonIds(old)' \ {reqId[q]}) >= Cardinality(WonIds(old) \ {reqId[q]})
  <2> DEFINE d == reqId[q]
  <2>1. /\ d \in ClaimIds /\ d \in WonIds(old)
        /\ Cardinality(WonIds(old) \ {d}) >= behind[d]
        /\ behind'[d] <= behind[d] + 1 /\ behind'[d] <= LedgerCap
    BY <1>2, <1>5 DEF Windowed, WindowCounted, WonIds
  <2>2. CASE e \in WonIds(old)
    <3>1. PICK p \in T : reqId[p] = e
      BY <2>2 DEF WonIds
    <3>2. Cardinality(WonIds(old) \ {e}) >= LedgerCap
      BY <1>4, <3>1
    <3>3. /\ Cardinality(WonIds(old) \ {e}) = Cardinality(WonIds(old)) - 1
          /\ Cardinality(WonIds(old) \ {d}) = Cardinality(WonIds(old)) - 1
      BY <2>1, <2>2, WonIdsFinite, FS_RemoveElement
    <3>4. WonIds(old)' = WonIds(old)
      BY <1>3, <2>2
    <3> QED
      BY <1>2, <2>1, <3>2, <3>3, <3>4, WonIdsFinite
  <2>3. CASE e \notin WonIds(old)
    <3>1. WonIds(old)' \ {d} = (WonIds(old) \ {d}) \union {e} /\ e \notin WonIds(old) \ {d}
      BY <1>3, <1>5, <2>3
    <3>2. Cardinality(WonIds(old)' \ {d}) = Cardinality(WonIds(old) \ {d}) + 1
      BY <3>1, WonIdsFinite, FS_AddElement
    <3>3. Cardinality(WonIds(old) \ {d}) \in Nat /\ behind[d] \in Nat /\ behind'[d] \in Nat
      BY <1>2, <1>5, <2>1, WonIdsFinite
    <3> QED
      BY <2>1, <3>2, <3>3
  <2> QED
    BY <2>2, <2>3
<1>6. WonIds(old)' \ {e} = WonIds(old) \ {e}
  BY <1>3
<1>7. WindowCounted(old)'
  <2> SUFFICES ASSUME NEW q \in T'
               PROVE  /\ reqId[q] \in ClaimIds
                      /\ Cardinality(WonIds(old)' \ {reqId[q]}) >= behind'[reqId[q]]
    BY <1>1 DEF WindowCounted
  <2>1. CASE reqId[q] = e
    <3>1. Cardinality(WonIds(old) \ {e}) >= 0
      BY WonIdsFinite
    <3> QED
      BY <1>1, <1>2, <1>6, <2>1, <3>1
  <2>2. CASE reqId[q] # e
    BY <1>1, <1>5, <2>2 DEF Windowed, WindowCounted
  <2> QED
    BY <2>1, <2>2
<1>8. WindowKept(old)'
  <2> SUFFICES ASSUME NEW p \in T', NEW q \in T', p # q, reqId[p] = reqId[q]
               PROVE  Cardinality(WonIds(old)' \ {reqId[p]}) >= LedgerCap
    BY <1>1 DEF WindowKept
  <2>1. CASE reqId[p] = e
    <3>1. \E o \in T : reqId[o] = e
      BY <1>1, <2>1
    <3> QED
      BY <1>4, <1>6, <2>1, <3>1
  <2>2. CASE reqId[p] # e
    <3>1. p \in T /\ q \in T
      BY <1>1, <2>2
    <3>2. Cardinality(WonIds(old) \ {reqId[p]}) >= LedgerCap
      BY <3>1 DEF Windowed, WindowKept
    <3>3. Cardinality(WonIds(old)' \ {reqId[p]}) >= Cardinality(WonIds(old) \ {reqId[p]})
      BY <1>5, <2>2, <3>1
    <3>4. /\ Cardinality(WonIds(old)' \ {reqId[p]}) \in Nat
          /\ Cardinality(WonIds(old) \ {reqId[p]}) \in Nat
      <4>1. IsFiniteSet(WonIds(old) \union {e})
        BY WonIdsFinite, FS_AddElement
      <4>2. IsFiniteSet((WonIds(old) \union {e}) \ {reqId[p]})
        BY <4>1, FS_RemoveElement
      <4> QED
        BY <1>3, <4>2, WonIdsFinite, FS_CardinalityType
    <3> QED
      BY <1>2, <3>2, <3>3, <3>4
  <2> QED
    BY <2>1, <2>2
<1> QED
  BY <1>7, <1>8 DEF Windowed

(* A request goroutine lets no one else through.                              *)
LEMMA WindowServe ==
  ASSUME NEW old, IInv(old), Windowed(old), NEW r \in Requests, Serve(r)
  PROVE  Windowed(old)'
<1>1. CASE ClaimNew(r)
  BY <1>1, WindowMoves
<1>2. ASSUME NEW text, Answer(r, text), behind' = behind,
             reqAt[r] # "done",
             Won(r) <=> text \in {"full", "accepted", "disabled", "recorded", "bufferFull", "panic"}
      PROVE  Windowed(old)'
  <2>1. \A q \in Requests : (Won(q)' <=> Won(q)) /\ reqId'[q] = reqId[q]
    BY <1>2 DEF Answer, Won, IInv, TypeOK
  <2> QED
    BY <1>2, <2>1, WindowStays
<1>3. CASE ClaimDuplicate(r)
  BY <1>2, <1>3 DEF ClaimDuplicate, Won, IInv, RequestsPlaced
<1>4. CASE EnqueueOk(r)
  <2>1. \A q \in Requests : (Won(q)' <=> Won(q)) /\ reqId'[q] = reqId[q]
    BY <1>4 DEF EnqueueOk, GoOn, Won, IInv, TypeOK
  <2> QED
    BY <1>4, <2>1, WindowStays DEF EnqueueOk
<1>5. CASE EnqueueFull(r) \/ EnqueuePanic(r) \/ Count(r)
  BY <1>2, <1>5 DEF EnqueueFull, EnqueuePanic, Count, Won
<1>6. CASE RecordDisagreement(r)
  <2>1. PICK text \in {"disabled", "recorded", "bufferFull", "panic"} : Answer(r, text)
    BY <1>6 DEF RecordDisagreement
  <2> QED
    BY <1>2, <1>6, <2>1 DEF RecordDisagreement, Won
<1> QED
  BY <1>1, <1>3, <1>4, <1>5, <1>6 DEF Serve

(* Every step keeps the window.                                               *)
LEMMA NextWindowed ==
  ASSUME NEW old, IInv(old), Windowed(old), [Next]_vars
  PROVE  Windowed(old)'
<1>1. ASSUME NEW r \in Requests, NEW d \in Deliveries, Arrive(r, d)
      PROVE  Windowed(old)'
  <2>1. ~ Won(r) /\ ~ Won(r)'
    BY <1>1 DEF Arrive, Won, IInv, TypeOK, RequestsPlaced
  <2>2. \A q \in Requests : q # r => (Won(q)' <=> Won(q)) /\ reqId'[q] = reqId[q]
    BY <1>1 DEF Arrive, Won, IInv, TypeOK
  <2> QED
    BY <1>1, <2>1, <2>2, WindowStays DEF Arrive
<1>2. ASSUME NEW r \in Requests, Serve(r) PROVE Windowed(old)'
  BY <1>2, WindowServe
<1>3. CASE \/ Start \/ WriteLog \/ UNCHANGED vars
           \/ \E w \in Workers : Work(w)
           \/ \E s \in Stoppers : CloseJobs(s) \/ Shutdown(s)
  <2>1. UNCHANGED <<behind, reqVars>>
    BY <1>3 DEF Start, WriteLog, vars, Work, Take, Exit, FetchOk, FetchError, AnalyzeError, Skip,
                Flag, AddLabel, PostComment, CreateCheckRun, Write, CloseJobs, Shutdown,
                WorkersDone, Flushed, GiveUp
  <2> QED
    BY <2>1, WindowStays DEF Won, reqVars
<1> QED
  BY <1>1, <1>2, <1>3 DEF Next

(* However redeliveries race, a delivery is let through twice only if         *)
(* LedgerCap others were let through as well (webhook.go:222-229).            *)
THEOREM HandlerOncePerWindow == Spec => []OncePerWindow
<1>1. Init => Windowed({})
  BY DEF Init, Windowed, WindowCounted, WindowKept, LetThrough, Won
<1>2. IInv({}) /\ Windowed({}) /\ [Next]_vars => Windowed({})'
  BY NextWindowed
<1>3. Windowed({}) => OncePerWindow
  <2>1. LetThrough({}) = {p \in Requests : Won(p)}
    BY DEF LetThrough
  <2> QED
    BY <2>1 DEF Windowed, WindowKept, OncePerWindow, WonIds
<1> QED
  BY <1>1, <1>2, <1>3, HandlerInvariant, PTL DEF Spec
-----------------------------------------------------------------------------
(* The disagreement log behind Shutdown.  Where a recorded disagreement can   *)
(* be: in the channel, in the writer's hand, in the file, or given up.        *)
Logged(r) == \E i \in 1 .. Len(file) : file[i] = r

Buffered(r) == \E i \in 1 .. Len(ch) : ch[i] = r

LogKept ==
  /\ ch \in Seq(Requests) /\ file \in Seq(Requests) /\ hand \in Requests \union {NoJob}
  /\ closer \in [Stoppers -> {"out", "waiting", "returned"}]
  /\ \A r \in Requests : reply[r] = "recorded" =>
       FeedbackOn /\ (r \in unwritten \/ Logged(r) \/ hand = r \/ Buffered(r))
  /\ writer # "writing" => hand = NoJob
  /\ writer = "done" => chClosed /\ ch = << >>
  /\ \A s \in Stoppers : closer[s] = "returned" => writer = "done"
  /\ \A s \in Stoppers : stopper[s] = "nil" /\ FeedbackOn => closer[s] = "returned"

(* What is in the channel comes next or remains in it.                        *)
LEMMA BufferedNext ==
  ASSUME ch \in Seq(Requests), ch # << >>, ch' = Tail(ch)
  PROVE  /\ Head(ch) \in Requests /\ ch' \in Seq(Requests)
         /\ \A r : Buffered(r) => r = Head(ch) \/ Buffered(r)'
<1>1. /\ Head(ch) = ch[1] /\ Head(ch) \in Requests /\ ch' \in Seq(Requests) /\ Len(ch) \in Nat
      /\ Len(ch') = Len(ch) - 1 /\ \A i \in 1 .. Len(ch') : ch'[i] = ch[i + 1]
  OBVIOUS
<1>2. ASSUME NEW i \in 1 .. Len(ch), i # 1
      PROVE  i - 1 \in 1 .. Len(ch') /\ ch'[i - 1] = ch[i]
  <2>1. i - 1 \in 1 .. Len(ch') /\ (i - 1) + 1 = i
    BY <1>1, <1>2
  <2> QED
    BY <1>1, <2>1
<1> QED
  BY <1>1, <1>2 DEF Buffered

(* A step of the handler that leaves the log alone and records nothing.       *)
LEMMA LogStays ==
  ASSUME LogKept, UNCHANGED <<ch, file, hand, unwritten, writer, chClosed, closer>>,
         \A q \in Requests : reply'[q] = "recorded" => reply[q] = "recorded",
         \A s \in Stoppers : stopper'[s] = "nil" => stopper[s] = "nil" \/ ~ FeedbackOn
  PROVE  LogKept'
  BY DEF LogKept, Logged, Buffered

(* A disagreement is recorded. *)
LEMMA LogRecords ==
  ASSUME NEW old, IInv(old), LogKept, NEW r \in Requests, RecordDisagreement(r)
  PROVE  LogKept'
<1>1. ASSUME NEW text, text # "recorded", Answer(r, text), UNCHANGED <<stopper>>,
             UNCHANGED <<ch, file, hand, unwritten, writer, chClosed, closer>>
      PROVE  LogKept'
  BY <1>1, LogStays DEF Answer, IInv, TypeOK
<1>2. CASE FeedbackOn /\ Log!RecordTrue(r) /\ Answer(r, "recorded")
  <2>1. /\ ch' = Append(ch, r) /\ ch \in Seq(Requests) /\ ~ chClosed
        /\ UNCHANGED <<chClosed, writer, hand, file, unwritten, closer, stopper>>
    BY <1>2 DEF Log!RecordTrue, RecordDisagreement, LogKept
  <2>2. /\ ch' \in Seq(Requests) /\ Len(ch') = Len(ch) + 1 /\ Len(ch) \in Nat
        /\ ch'[Len(ch) + 1] = r
        /\ \A i \in 1 .. Len(ch) : ch'[i] = ch[i]
    BY <2>1
  <2>3. Buffered(r)' /\ \A q : (Buffered(q) => Buffered(q)') /\ (Logged(q) => Logged(q)')
    BY <2>1, <2>2 DEF Buffered, Logged
  <2>4. \A q \in Requests : q # r => reply'[q] = reply[q]
    BY <1>2 DEF Answer, IInv, TypeOK
  <2> QED
    BY <1>2, <2>1, <2>2, <2>3, <2>4 DEF LogKept
<1> QED
  BY <1>1, <1>2 DEF RecordDisagreement, logVars, Log!RecordFalse, Log!RecordPanic

(* The writer takes, writes or gives up the next disagreement; it is in one   *)
(* of the places all the time.                                                *)
LEMMA LogWrites ==
  ASSUME NEW old, IInv(old), LogKept, WriteLog
  PROVE  LogKept'
<1>1. UNCHANGED <<reply, stopper>> /\ LogKept
  BY DEF WriteLog, reqVars
<1>2. CASE Log!Open \/ Log!Finish
  BY <1>1, <1>2 DEF LogKept, Logged, Buffered, Log!Open, Log!AfterOpen, Log!Finish, Log!RangeEnds
<1>3. CASE Log!Receive
  <2>1. /\ hand = NoJob /\ ch \in Seq(Requests) /\ ch # << >> /\ ch' = Tail(ch) /\ hand' = Head(ch)
        /\ writer = "writing" /\ UNCHANGED <<chClosed, writer, file, unwritten, closer>>
    BY <1>3 DEF LogKept, Log!Receive, Log!Taken
  <2>2. /\ hand' \in Requests /\ ch' \in Seq(Requests)
        /\ \A r : Buffered(r) => r = hand' \/ Buffered(r)'
    BY <2>1, BufferedNext
  <2> QED
    BY <1>1, <2>1, <2>2, HandlerAssumption DEF LogKept, Logged
<1>4. CASE Log!Discard
  <2>1. /\ ch \in Seq(Requests) /\ ch # << >> /\ ch' = Tail(ch) /\ unwritten' = unwritten \union {Head(ch)}
        /\ writer = "draining" /\ UNCHANGED <<chClosed, writer, hand, file, closer>>
    BY <1>4 DEF LogKept, Log!Discard, Log!Taken
  <2>2. ch' \in Seq(Requests) /\ \A r : Buffered(r) => r \in unwritten' \/ Buffered(r)'
    BY <2>1, BufferedNext
  <2> QED
    BY <1>1, <2>1, <2>2 DEF LogKept, Logged
<1>5. CASE Log!EncodeOk
  <2>1. /\ hand \in Requests /\ file \in Seq(Requests) /\ file' = Append(file, hand) /\ hand' = NoJob
        /\ UNCHANGED <<ch, chClosed, writer, unwritten, closer>>
    BY <1>5 DEF LogKept, Log!EncodeOk
  <2>2. /\ file' \in Seq(Requests) /\ Len(file') = Len(file) + 1 /\ Len(file) \in Nat
        /\ file'[Len(file) + 1] = hand
        /\ \A i \in 1 .. Len(file) : file'[i] = file[i]
    BY <2>1
  <2>3. \A r : (Logged(r) => Logged(r)') /\ (Buffered(r) => Buffered(r)')
    BY <2>1, <2>2 DEF Logged, Buffered
  <2>4. \A r \in Requests : hand = r => Logged(r)'
    BY <2>2 DEF Logged
  <2> QED
    BY <1>1, <2>1, <2>2, <2>3, <2>4 DEF LogKept
<1>6. CASE Log!EncodeError
  <2>1. /\ hand \in Requests /\ hand' = NoJob /\ unwritten' = unwritten \union {hand}
        /\ UNCHANGED <<ch, chClosed, writer, file, closer>>
    BY <1>6 DEF LogKept, Log!EncodeError
  <2> QED
    BY <1>1, <2>1 DEF LogKept, Logged, Buffered
<1> QED
  BY <1>2, <1>3, <1>4, <1>5, <1>6 DEF WriteLog, Log!Write

(* Shutdown returns nil after its call of Close has returned, if there is a   *)
(* log.                                                                       *)
LEMMA LogStops ==
  ASSUME NEW old, IInv(old), LogKept, NEW s \in Stoppers, CloseJobs(s) \/ Shutdown(s)
  PROVE  LogKept'
<1>1. reply' = reply
  BY DEF CloseJobs, Shutdown, WorkersDone, Flushed, GiveUp, reqVars
<1>2. CASE CloseJobs(s) \/ GiveUp(s)
  BY <1>1, <1>2, LogStays DEF CloseJobs, GiveUp, logVars, IInv, TypeOK
<1>3. CASE WorkersDone(s) /\ ~ FeedbackOn
  BY <1>1, <1>3, LogStays DEF WorkersDone, logVars
<1>4. CASE WorkersDone(s) /\ FeedbackOn
  <2>1. /\ chClosed' = TRUE /\ closer' = [closer EXCEPT ![s] = "waiting"] /\ closer[s] = "out"
        /\ UNCHANGED <<ch, writer, hand, file, unwritten>>
        /\ stopper' = [stopper EXCEPT ![s] = "flushing"]
    BY <1>4 DEF WorkersDone, Log!Close
  <2> QED
    BY <1>1, <2>1 DEF LogKept, Logged, Buffered, IInv, TypeOK
<1>5. CASE Flushed(s)
  <2>1. /\ writer = "done" /\ closer' = [closer EXCEPT ![s] = "returned"]
        /\ UNCHANGED <<ch, chClosed, writer, hand, file, unwritten>>
        /\ stopper' = [stopper EXCEPT ![s] = "nil"]
    BY <1>5 DEF Flushed, Log!CloseReturns
  <2> QED
    BY <1>1, <2>1 DEF LogKept, Logged, Buffered, IInv, TypeOK
<1> QED
  BY <1>2, <1>3, <1>4, <1>5 DEF Shutdown

(* A Shutdown that returned nil has every disagreement that was answered      *)
(* "recorded" in the file, but those the file refused (webhook.go:166-170,    *)
(* feedback.go:96-101), also with several calls of Shutdown.                  *)
THEOREM HandlerLogFlushedOnNil == Spec => []LogFlushedOnNil
<1>1. Init => LogKept
  <2> SUFFICES ASSUME Init PROVE LogKept
    OBVIOUS
  <2>1. << >> \in Seq(Requests)
    OBVIOUS
  <2> QED
    BY <2>1 DEF Init, Log!Init, LogKept
<1>2. IInv({}) /\ LogKept /\ [Next]_vars => LogKept'
  <2> SUFFICES ASSUME IInv({}), LogKept, [Next]_vars PROVE LogKept'
    OBVIOUS
  <2>1. CASE Start
    <3>1. UNCHANGED <<ch, file, hand, unwritten, chClosed, closer, reply, stopper>>
      BY <2>1 DEF Start, Log!Start, logVars, reqVars
    <3>2. writer' = writer \/ (writer = "unstarted" /\ writer' = "opening")
      BY <2>1 DEF Start, Log!Start, logVars
    <3> QED
      BY <3>1, <3>2 DEF LogKept, Logged, Buffered
  <2>2. ASSUME NEW r \in Requests, Serve(r) PROVE LogKept'
    <3>1. CASE RecordDisagreement(r)
      BY <3>1, LogRecords
    <3>2. CASE ClaimNew(r) \/ ClaimDuplicate(r) \/ EnqueueOk(r) \/ EnqueueFull(r) \/ EnqueuePanic(r) \/ Count(r)
      <4>1. \A q \in Requests : reply'[q] = "recorded" => reply[q] = "recorded"
        BY <3>2 DEF ClaimNew, ClaimDuplicate, EnqueueOk, EnqueueFull, EnqueuePanic, Count,
                    Answer, GoOn, IInv, TypeOK
      <4> QED
        BY <3>2, <4>1, LogStays
           DEF ClaimNew, ClaimDuplicate, EnqueueOk, EnqueueFull, EnqueuePanic, Count, logVars
    <3> QED
      BY <2>2, <3>1, <3>2 DEF Serve
  <2>3. ASSUME NEW r \in Requests, NEW d \in Deliveries, Arrive(r, d) PROVE LogKept'
    <3>1. \A q \in Requests : reply'[q] = "recorded" => reply[q] = "recorded"
      BY <2>3 DEF Arrive, IInv, TypeOK
    <3> QED
      BY <2>3, <3>1, LogStays DEF Arrive, logVars
  <2>4. ASSUME NEW w \in Workers, Work(w) PROVE LogKept'
    <3>1. UNCHANGED <<reqVars, stopper, logVars>>
      BY <2>4 DEF Work, Take, Exit, FetchOk, FetchError, AnalyzeError, Skip, Flag,
                  AddLabel, PostComment, CreateCheckRun, Write
    <3> QED
      BY <3>1, LogStays DEF reqVars, logVars
  <2>5. ASSUME NEW s \in Stoppers, CloseJobs(s) \/ Shutdown(s) PROVE LogKept'
    BY <2>5, LogStops
  <2>6. CASE WriteLog
    BY <2>6, LogWrites
  <2>7. CASE UNCHANGED vars
    BY <2>7, LogStays DEF vars, reqVars, logVars
  <2> QED
    BY <2>1, <2>2, <2>3, <2>4, <2>5, <2>6, <2>7 DEF Next
<1>3. LogKept => LogFlushedOnNil
  BY HandlerAssumption DEF LogKept, LogFlushedOnNil, Logged, Buffered
<1> QED
  BY <1>1, <1>2, <1>3, HandlerInvariant, PTL DEF Spec
-----------------------------------------------------------------------------
(* The handler implements the promise of GatewaySpec. *)


(* What the refinement mapping of Handler says of a request. *)
Fate(r) == IF Concluded(r) THEN verdict[r] ELSE IF Enqueued(r) THEN "accepted" ELSE "new"

Alive(r) == Held(r) \/ Queued(r)

(* The mapped set of requests at work, member by member. *)
LEMMA AliveSet ==
  ASSUME NEW f \in [Workers -> Requests \union {NoJob}], NEW s \in Seq(Requests), NEW x
  PROVE  x \in ({f[w] : w \in Workers} \ {NoJob}) \union {s[i] : i \in 1 .. Len(s)}
           <=> x \in Requests /\ ((\E w \in Workers : f[w] = x) \/ \E i \in 1 .. Len(s) : s[i] = x)
  BY HandlerAssumption

FateOf == [r \in Requests |-> Fate(r)]

TriedOf == [r \in Requests |-> Tried(r)]

AtWork == ({workerJob[w] : w \in Workers} \ {NoJob}) \union {jobs[i] : i \in 1 .. Len(jobs)}

LEMMA AtWorkIsAlive ==
  ASSUME TypeOK, NEW x
  PROVE  x \in AtWork <=> x \in Requests /\ Alive(x)
<1>1. workerJob \in [Workers -> Requests \union {NoJob}] /\ jobs \in Seq(Requests)
  BY DEF TypeOK
<1> QED
  BY <1>1, AliveSet DEF AtWork, Alive, Held, Queued

(* The same after a step. *)
LEMMA AtWorkStaysAlive ==
  ASSUME TypeOK', NEW x
  PROVE  x \in AtWork' <=> x \in Requests /\ Alive(x)'
<1>1. workerJob' \in [Workers -> Requests \union {NoJob}] /\ jobs' \in Seq(Requests)
  BY DEF TypeOK
<1> QED
  BY <1>1, AliveSet DEF AtWork, Alive, Held, Queued

(* The initial states are initial states of the promise. *)
LEMMA InitPromise == Init => Promise!Init
<1> SUFFICES ASSUME Init PROVE Promise!Init
  OBVIOUS
<1>1. \A r \in Requests : ~ Concluded(r) /\ ~ Enqueued(r)
  BY DEF Init, Concluded, Enqueued
<1>2. ({workerJob[w] : w \in Workers} \ {NoJob}) \union {jobs[i] : i \in 1 .. Len(jobs)} = {}
  BY DEF Init
<1>3. \A r \in Requests : {c \in Writes : calls[r][c] # "untried"} = {}
  BY DEF Init
<1> QED
  BY <1>1, <1>2, <1>3 DEF Promise!Init

(* A step of which the mapping sees nothing. *)
LEMMA Unseen ==
  ASSUME TypeOK, TypeOK',
         \A q \in Requests : /\ Fate(q)' = Fate(q)
                             /\ Tried(q)' = Tried(q)
                             /\ Alive(q)' <=> Alive(q)
  PROVE  UNCHANGED Promise!vars
<1>1. AtWork' = AtWork
  BY AtWorkIsAlive, AtWorkStaysAlive
<1> QED
  BY <1>1 DEF Promise!vars, Fate, Tried, AtWork

(* A job goes into the queue: its request is accepted. *)
LEMMA Accepts ==
  ASSUME NEW old, IInv(old), IInv(old)', NEW r \in Requests, EnqueueOk(r)
  PROVE  Promise!Accept(r)
<1> USE DEF EnqueueOk, GoOn
<1>1. jobs \in Seq(Requests) /\ jobs' = Append(jobs, r)
  BY DEF IInv, TypeOK
<1>2. ~ Enqueued(r) /\ ~ Concluded(r)
  BY DEF IInv, RequestsPlaced, JobsPlaced, Enqueued
<1>3. \A q \in Requests : /\ Enqueued(q)' <=> (Enqueued(q) \/ q = r)
                          /\ Concluded(q)' <=> Concluded(q)
                          /\ Held(q)' <=> Held(q)
                          /\ Tried(q)' = Tried(q)
  BY DEF IInv, TypeOK, Enqueued, Concluded, Held, Tried, workVars
<1>4. \A q \in Requests : Queued(q)' <=> (Queued(q) \/ q = r)
  <2>1. /\ Len(jobs') = Len(jobs) + 1 /\ Len(jobs) \in Nat
        /\ jobs'[Len(jobs) + 1] = r
        /\ \A i \in 1 .. Len(jobs) : jobs'[i] = jobs[i]
    BY <1>1
  <2> QED
    BY <2>1 DEF Queued
<1>5. AtWork' = AtWork \union {r}
  BY <1>3, <1>4, AtWorkIsAlive, AtWorkStaysAlive DEF IInv, Alive
<1>6. /\ Fate(r) = "new" /\ Fate(r)' = "accepted"
      /\ \A q \in Requests : q # r => Fate(q)' = Fate(q)
  BY <1>2, <1>3 DEF Fate, workVars
<1> QED
  BY <1>3, <1>5, <1>6 DEF Promise!Accept, Fate, Tried, AtWork

(* A worker reaches a verdict, and keeps the job or lets go of it. *)
LEMMA Concludes ==
  ASSUME NEW old, IInv(old), IInv(old)', NEW w \in Workers, Triaging(w),
         NEW v \in {"failed", "skipped", "flagged"}, Conclude(w, v),
         IF v = "flagged" /\ ~ ShadowMode THEN MoveTo(w, "label") ELSE Return(w),
         UNCHANGED <<reqVars, queueVars>>
  PROVE  Promise!Conclude(workerJob[w], v)
<1> DEFINE j == workerJob[w]
<1>1. /\ j \in Requests /\ Enqueued(j) /\ ~ Concluded(j) /\ ~ Queued(j)
      /\ \A u \in Workers : workerJob[u] = j => u = w
  BY JobOf DEF IInv, JobsPlaced, Triaging, Resting
<1>2. verdict' = [verdict EXCEPT ![j] = v] /\ calls' = calls
  BY DEF Conclude
<1>3. /\ Fate(j) = "accepted"
      /\ FateOf' = [FateOf EXCEPT ![j] = v]
  <2>1. Fate(j) = "accepted"
    BY <1>1 DEF Fate
  <2>2. verdict'[j] = v /\ v # "none" /\ \A q \in Requests : q # j => verdict'[q] = verdict[q]
    BY <1>1, <1>2 DEF IInv, TypeOK
  <2>3. \A q \in Requests : Enqueued(q)' <=> Enqueued(q)
    BY DEF Enqueued, reqVars
  <2>4. \A q \in Requests : Fate(q)' = IF q = j THEN v ELSE Fate(q)
    BY <2>2, <2>3 DEF Fate, Concluded
  <2> QED
    BY <2>1, <2>4 DEF FateOf
<1>4. \A q \in Requests : Tried(q)' = Tried(q) /\ (Queued(q)' <=> Queued(q))
  BY <1>2 DEF Tried, Queued, queueVars
<1>5. Held(j) /\ j \in AtWork
  BY <1>1, AtWorkIsAlive DEF IInv, Held, Alive
<1>6. AtWork' = IF v = "flagged" /\ ~ ShadowMode THEN AtWork ELSE AtWork \ {j}
  <2>1. CASE v = "flagged" /\ ~ ShadowMode
    <3>1. \A q \in Requests : Held(q)' <=> Held(q)
      BY <2>1 DEF MoveTo, Held
    <3> QED
      BY <1>4, <2>1, <3>1, AtWorkIsAlive, AtWorkStaysAlive DEF IInv, Alive
  <2>2. CASE ~ (v = "flagged" /\ ~ ShadowMode)
    <3>1. \A q \in Requests : Held(q)' <=> (Held(q) /\ q # j)
      BY <1>1, <2>2, HandlerAssumption DEF Return, Held, IInv, TypeOK
    <3> QED
      BY <1>1, <1>4, <2>2, <3>1, AtWorkIsAlive, AtWorkStaysAlive DEF IInv, Alive
  <2> QED
    BY <2>1, <2>2
<1>7. FateOf[j] = "accepted" /\ TriedOf' = TriedOf
  BY <1>1, <1>3, <1>4 DEF FateOf, TriedOf
<1> QED
  BY <1>3, <1>5, <1>6, <1>7 DEF Promise!Conclude, FateOf, TriedOf, Fate, Tried, AtWork

(* A worker tries a write, and keeps the job or lets go of it. *)
LEMMA Marks ==
  ASSUME NEW old, IInv(old), IInv(old)', WritesPlaced(old), NEW w \in Workers, NEW c \in Writes, Write(w, c)
  PROVE  \E j \in Requests : Promise!Mark(j, c)
<1>1. PICK j \in Requests :
        /\ j = workerJob[w] /\ ~ Queued(j)
        /\ \A u \in Workers : workerJob[u] = j => u = w
  BY JobOf DEF Write, Writes, Resting
<1>2. PICK result \in {"ok", "error"} :
        /\ calls' = [calls EXCEPT ![j][c] = result]
        /\ IF AfterWrite(w, c, result) = "idle" THEN Return(w)
           ELSE MoveTo(w, AfterWrite(w, c, result))
  BY <1>1 DEF Write
<1>3. workerAt[w] = c /\ UNCHANGED <<reqVars, queueVars, verdict>>
  BY DEF Write
<1>4. /\ Tried(j)' = Tried(j) \union {c}
      /\ \A q \in Requests : q # j => Tried(q)' = Tried(q)
  BY <1>1, <1>2 DEF Tried, IInv, TypeOK
<1>5. Acting(j) /\ Tried(j) = TriedBefore(c)
  BY <1>1, <1>3 DEF WritesPlaced
<1>6. Fate(j) = "flagged" /\ ~ ShadowMode /\ \A q \in Requests : Fate(q)' = Fate(q)
  BY <1>3, <1>5 DEF Acting, Fate, Concluded, Enqueued, reqVars
<1>7. \A q \in Requests : Queued(q)' <=> Queued(q)
  BY <1>3 DEF Queued, queueVars
<1>8. j \in AtWork
  BY <1>1, AtWorkIsAlive DEF IInv, Held, Alive
<1>9. \/ AtWork' = AtWork /\ c # "check"
      \/ AtWork' = AtWork \ {j} /\ {"label", "comment"} \subseteq Tried(j)'
  <2>1. CASE AfterWrite(w, c, result) = "idle"
    <3>1. \A q \in Requests : Held(q)' <=> (Held(q) /\ q # j)
      <4>1. workerJob' = [workerJob EXCEPT ![w] = NoJob]
        BY <1>2, <2>1 DEF Return
      <4> QED
        BY <1>1, <4>1, HandlerAssumption DEF Held, IInv, TypeOK
    <3>2. AtWork' = AtWork \ {j}
      BY <1>1, <1>7, <3>1, AtWorkIsAlive, AtWorkStaysAlive DEF IInv, Alive
    <3> QED
      BY <1>4, <1>5, <2>1, <3>2 DEF AfterWrite, TriedBefore, Writes
  <2>2. CASE AfterWrite(w, c, result) # "idle"
    <3>1. \A q \in Requests : Held(q)' <=> Held(q)
      BY <1>2, <2>2 DEF MoveTo, Held
    <3>2. AtWork' = AtWork
      BY <1>7, <3>1, AtWorkIsAlive, AtWorkStaysAlive DEF IInv, Alive
    <3> QED
      BY <2>2, <3>2 DEF AfterWrite, Writes
  <2> QED
    BY <2>1, <2>2
<1>10. /\ c \notin Tried(j) /\ (c # "label" => "label" \in Tried(j))
       /\ c = "check" => {"label", "comment"} \subseteq Tried(j)
  BY <1>5 DEF TriedBefore, Writes
<1>11. FateOf[j] = "flagged" /\ FateOf' = FateOf
  BY <1>1, <1>6 DEF FateOf
<1>12. /\ TriedOf[j] = Tried(j) /\ TriedOf'[j] = Tried(j)'
       /\ TriedOf' = [TriedOf EXCEPT ![j] = @ \union {c}]
  BY <1>1, <1>4 DEF TriedOf
<1>13. Promise!Mark(j, c)
  BY <1>6, <1>8, <1>9, <1>10, <1>11, <1>12
     DEF Promise!Mark, Promise!Marked, FateOf, TriedOf, Fate, Tried, AtWork
<1> QED
  BY <1>13

(* A worker's step is one of the promise, or it sees nothing of it. *)
LEMMA WorkPromised ==
  ASSUME NEW old, IInv(old), IInv(old)', WritesPlaced(old), NEW w \in Workers, Work(w)
  PROVE  [Promise!Next]_Promise!vars
<1>1. CASE Take(w)
  <2> DEFINE j == Head(jobs)
  <2>1. /\ jobs \in Seq(Requests) /\ jobs # << >> /\ jobs' = Tail(jobs)
        /\ workerJob' = [workerJob EXCEPT ![w] = jobs[1]] /\ workerJob[w] = NoJob
    BY <1>1 DEF Take, Dequeued, IInv, TypeOK, WorkersPlaced, Resting
  <2>2. /\ Len(jobs) \in Nat /\ Len(jobs) >= 1 /\ jobs[1] \in Requests /\ Len(jobs') = Len(jobs) - 1
        /\ \A i \in 1 .. Len(jobs') : jobs'[i] = jobs[i + 1]
    BY <2>1
  <2>3. ASSUME NEW q \in Requests PROVE Queued(q) <=> (Queued(q)' \/ q = jobs[1])
    <3>1. ASSUME Queued(q), q # jobs[1] PROVE Queued(q)'
      <4>1. PICK i \in 1 .. Len(jobs) : jobs[i] = q
        BY <3>1 DEF Queued
      <4>2. i - 1 \in 1 .. Len(jobs') /\ jobs'[i - 1] = q
        BY <2>2, <3>1, <4>1
      <4> QED
        BY <4>2 DEF Queued
    <3> QED
      BY <2>2, <3>1 DEF Queued
  <2>4. \A q \in Requests : Held(q)' <=> (Held(q) \/ q = jobs[1])
    BY <2>1, <2>2, HandlerAssumption DEF Held, IInv, TypeOK
  <2>5. \A q \in Requests : Fate(q)' = Fate(q) /\ Tried(q)' = Tried(q)
    BY <1>1 DEF Take, Fate, Concluded, Enqueued, Tried, reqVars
  <2> QED
    BY <2>3, <2>4, <2>5, Unseen DEF IInv, Alive
<1>2. CASE Exit(w) \/ FetchOk(w)
  <2>1. UNCHANGED <<reqVars, jobs, workerJob, verdict, calls>>
    BY <1>2 DEF Exit, FetchOk, MoveTo, queueVars
  <2>2. \A q \in Requests : Fate(q)' = Fate(q) /\ Tried(q)' = Tried(q) /\ (Alive(q)' <=> Alive(q))
    BY <2>1 DEF Fate, Concluded, Enqueued, Tried, Alive, Held, Queued, reqVars
  <2> QED
    BY <2>2, Unseen DEF IInv
<1>3. ASSUME Triaging(w), NEW v \in {"failed", "skipped", "flagged"}, Conclude(w, v),
             IF v = "flagged" /\ ~ ShadowMode THEN MoveTo(w, "label") ELSE Return(w),
             UNCHANGED <<reqVars, queueVars>>
      PROVE  Promise!Next
  <2>1. workerJob[w] \in Requests
    BY <1>3, JobOf DEF Triaging, Resting
  <2>2. PICK j \in Requests : j = workerJob[w]
    BY <2>1
  <2>3. Promise!Conclude(j, v)
    BY <1>3, <2>2, Concludes
  <2> QED
    BY <2>3 DEF Promise!Next
<1>4. CASE FetchError(w) \/ AnalyzeError(w) \/ Skip(w)
  BY <1>3, <1>4 DEF FetchError, AnalyzeError, Skip, Triaging
<1>5. CASE Flag(w)
  <2>1. AfterFlag = IF ShadowMode THEN "idle" ELSE "label"
    BY DEF AfterFlag
  <2>2. IF ~ ShadowMode THEN MoveTo(w, "label") ELSE Return(w)
    BY <1>5, <2>1 DEF Flag
  <2> QED
    BY <1>3, <1>5, <2>2 DEF Flag, Triaging
<1>6. ASSUME NEW c \in Writes, Write(w, c) PROVE Promise!Next
  BY <1>6, Marks DEF Promise!Next, Writes
<1>7. CASE AddLabel(w) \/ PostComment(w) \/ CreateCheckRun(w)
  BY <1>6, <1>7 DEF AddLabel, PostComment, CreateCheckRun, Writes
<1> QED
  BY <1>1, <1>2, <1>4, <1>5, <1>7 DEF Work

(* A request's step puts its job into the queue, or the promise sees nothing. *)
LEMMA ServePromised ==
  ASSUME NEW old, IInv(old), IInv(old)', NEW r \in Requests, Serve(r)
  PROVE  [Promise!Next]_Promise!vars
<1>1. CASE EnqueueOk(r)
  BY <1>1, Accepts DEF Promise!Next
<1>2. CASE ~ EnqueueOk(r)
  <2>1. UNCHANGED <<queueVars, workVars>>
    BY <1>2 DEF Serve, ClaimNew, ClaimDuplicate, EnqueueFull, EnqueuePanic, Count, RecordDisagreement
  <2>2. \A q \in Requests : Enqueued(q)' <=> Enqueued(q)
    <3>1. ASSUME NEW text, Answer(r, text), reqAt[r] # "done", reqAt[r] = "count" <=> text = "accepted"
          PROVE  \A q \in Requests : Enqueued(q)' <=> Enqueued(q)
      BY <3>1 DEF Answer, Enqueued, IInv, TypeOK, RequestsPlaced
    <3>2. CASE ClaimNew(r)
      BY <3>2 DEF ClaimNew, GoOn, Enqueued, IInv, TypeOK, RequestsPlaced
    <3>3. CASE ClaimDuplicate(r) \/ EnqueueFull(r) \/ EnqueuePanic(r)
      BY <3>1, <3>3 DEF ClaimDuplicate, EnqueueFull, EnqueuePanic
    <3>4. CASE Count(r)
      BY <3>1, <3>4 DEF Count
    <3>5. CASE RecordDisagreement(r)
      <4>1. PICK text \in {"disabled", "recorded", "bufferFull", "panic"} : Answer(r, text)
        BY <3>5 DEF RecordDisagreement
      <4> QED
        BY <3>1, <3>5, <4>1 DEF RecordDisagreement
    <3> QED
      BY <1>2, <3>2, <3>3, <3>4, <3>5 DEF Serve
  <2>3. \A q \in Requests : Fate(q)' = Fate(q) /\ Tried(q)' = Tried(q) /\ (Alive(q)' <=> Alive(q))
    BY <2>1, <2>2 DEF Fate, Concluded, Tried, Alive, Held, Queued, queueVars, workVars
  <2> QED
    BY <2>3, Unseen DEF IInv
<1> QED
  BY <1>1, <1>2

(* Every step is one of the promise, or the promise sees nothing of it. *)
LEMMA NextPromised ==
  ASSUME NEW old, IInv(old), IInv(old)', WritesPlaced(old), [Next]_vars
  PROVE  [Promise!Next]_Promise!vars
<1>1. ASSUME UNCHANGED <<jobs, workerJob, verdict, calls>>,
             \A q \in Requests : Enqueued(q)' <=> Enqueued(q)
      PROVE  UNCHANGED Promise!vars
  <2>1. \A q \in Requests : Fate(q)' = Fate(q) /\ Tried(q)' = Tried(q) /\ (Alive(q)' <=> Alive(q))
    BY <1>1 DEF Fate, Concluded, Tried, Alive, Held, Queued
  <2> QED
    BY <2>1, Unseen DEF IInv
<1>2. ASSUME NEW r \in Requests, NEW d \in Deliveries, Arrive(r, d)
      PROVE  UNCHANGED Promise!vars
  <2>1. /\ reqAt[r] = "none" /\ reply[r] = "none"
        /\ reqAt'[r] \in {"done", "claim"} /\ reply'[r] \in {"ignored", "none"}
        /\ \A q \in Requests : q # r => reqAt'[q] = reqAt[q] /\ reply'[q] = reply[q]
    BY <1>2 DEF Arrive, IInv, TypeOK, RequestsPlaced
  <2>2. \A q \in Requests : Enqueued(q)' <=> Enqueued(q)
    BY <2>1 DEF Enqueued
  <2> QED
    BY <1>1, <1>2, <2>2 DEF Arrive, queueVars, workVars
<1>3. CASE Start \/ WriteLog \/ UNCHANGED vars
  BY <1>1, <1>3 DEF Start, WriteLog, vars, reqVars, queueVars, workVars, Enqueued
<1>4. ASSUME NEW s \in Stoppers, CloseJobs(s) \/ Shutdown(s) PROVE UNCHANGED Promise!vars
  BY <1>1, <1>4 DEF CloseJobs, Shutdown, WorkersDone, Flushed, GiveUp,
                    reqVars, queueVars, workVars, Enqueued
<1> QED
  BY <1>2, <1>3, <1>4, WorkPromised, ServePromised DEF Next

(* The handler implements the promise: whatever the interleaving, an accepted *)
(* request gets one verdict and a flagged one each of its writes once, in     *)
(* their order, and the gateway lets go of none before (webhook.go:135-408).  *)
THEOREM HandlerImplementsPromise == Spec => ImplementsPromise
<1>1. Init => WritesPlaced({})
  BY DEF Init, WritesPlaced, Acting, Tried, Writes
<1>2. IInv({}) /\ WritesPlaced({}) /\ [Next]_vars => WritesPlaced({})'
  BY NextWrites
<1>3. Init => Promise!Init
  BY InitPromise
<1>4. IInv({}) /\ IInv({})' /\ WritesPlaced({}) /\ [Next]_vars => [Promise!Next]_Promise!vars
  BY NextPromised
<1> QED
  BY <1>1, <1>2, <1>3, <1>4, HandlerInvariant, PTL DEF Spec, ImplementsPromise, Promise!Spec
=============================================================================
