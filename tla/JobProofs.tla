------------------------------- MODULE JobProofs -------------------------------
(* A job's calls keep to the budget, give up only when they must and repeat   *)
(* only in doubt, for any number of retries, any timeouts and any hints.      *)
EXTENDS TriageJob, TLAPS

(* The bookkeeping of the loop in doRetrying: what has been sent at which     *)
(* attempt, and which status an attempt without an answer leaves standing.    *)
LoopPlaced ==
  /\ at = "send" => sends = attempt
  /\ at \in {"decide", "sleep"} => sends = attempt + 1
  /\ at = "sleep" => attempt < MaxRetries
  /\ at \in {"send", "sleep"} => status \in {"none", "retryable"}
  /\ at = "decide" => IF err = "none" THEN status # "none" /\ (status = "ok" => landed > 0)
                      ELSE status \in {"none", "retryable"}

IInv == JobTypeOK /\ LoopPlaced /\ WithinBudget /\ FailsOnlyWhenItMust

(* Nothing takes longer than the context and its late timer.                  *)
LEMMA EndsInTime ==
  ASSUME NEW timeout \in Nat, now \in Nat, now <= Deadline + Lateness, NEW t \in Ends(timeout)
  PROVE  t \in Nat /\ t >= now /\ t <= Deadline + Lateness
  BY RetryAssumption DEF Ends

(* A job starts with nothing sent. *)
LEMMA InitIInv == JobInit => IInv
<1> SUFFICES ASSUME JobInit PROVE IInv
  OBVIOUS
<1>1. 0 \in 0 .. 0 /\ 0 \in 0 .. MaxRetries /\ 0 \in 0 .. MaxRetries + 1
  BY RetryAssumption
<1>2. TypeOK
  BY <1>1, RetryAssumption DEF JobInit, Init, TypeOK
<1>3. JobTypeOK
  BY <1>2 DEF JobInit, JobTypeOK
<1> QED
  BY <1>3, RetryAssumption DEF JobInit, Init, IInv, LoopPlaced, WithinBudget, FailsOnlyWhenItMust

(* An attempt: at the end it is decided what its outcome means.               *)
LEMMA AttemptIInv == IInv /\ Attempt /\ UNCHANGED jobVars => IInv'
<1> SUFFICES ASSUME IInv, NEW t \in Ends(CallTimeout), UNCHANGED jobVars,
                    \/ Broken(t)
                    \/ \E kind \in {"ok", "final", "retryable"} : Answered(t, kind)
             PROVE  IInv'
  BY DEF Attempt
<1>1. /\ JobTypeOK /\ LoopPlaced /\ at = "send"
      /\ t \in Nat /\ t <= Deadline + Lateness
      /\ now' = t /\ answered' = t /\ sends' = sends + 1 /\ at' = "decide"
      /\ attempt' = attempt /\ backoff' = backoff /\ wake' = wake
  <2>1. at = "send" /\ Sent(t)
    BY DEF Broken, Answered, Sent
  <2> QED
    BY <2>1, EndsInTime, RetryAssumption DEF Sent, IInv, JobTypeOK, TypeOK, WithinBudget
<1>2. /\ status' \in {"none", "ok", "final", "retryable"} /\ err' \in {"none", "transport"}
      /\ whole' \in BOOLEAN /\ landed' \in {landed, landed + 1}
      /\ IF err' = "none" THEN status' # "none" /\ (status' = "ok" => landed' = landed + 1)
         ELSE status' = status
  <2>1. CASE Broken(t)
    <3>1. landed' \in {landed, landed + 1}
      BY <2>1 DEF Broken
    <3> QED
      BY <1>1, <2>1, <3>1 DEF Broken, JobTypeOK, TypeOK
  <2>2. ASSUME NEW kind \in {"ok", "final", "retryable"}, Answered(t, kind)
        PROVE  /\ status' = kind /\ err' = "none" /\ whole' \in BOOLEAN
               /\ landed' \in {landed, landed + 1} /\ (kind = "ok" => landed' = landed + 1)
    BY <2>2 DEF Answered
  <2> QED
    BY <2>1, <2>2
<1>3. hint' \in Nat
  <2>1. CASE Broken(t)
    BY <2>1 DEF Broken
  <2>2. ASSUME NEW kind \in {"ok", "final", "retryable"}, Answered(t, kind) PROVE hint' \in Nat
    BY <1>1, <2>2, RetryAssumption DEF Answered, RetryAfter
  <2> QED
    BY <2>1, <2>2
<1>4. TypeOK'
  BY <1>1, <1>2, <1>3, RetryAssumption DEF JobTypeOK, TypeOK, LoopPlaced
<1>5. JobTypeOK'
  BY <1>1, <1>4 DEF JobTypeOK, jobVars
<1>6. LoopPlaced'
  BY <1>1, <1>2, RetryAssumption DEF JobTypeOK, TypeOK, LoopPlaced
<1> QED
  BY <1>1, <1>5, <1>6 DEF IInv, WithinBudget, FailsOnlyWhenItMust

(* The decision, the pause and its end.                                       *)
LEMMA DecideIInv == IInv /\ (Unbuildable \/ Return \/ Sleep) /\ UNCHANGED jobVars => IInv'
<1> SUFFICES ASSUME IInv, UNCHANGED jobVars, Unbuildable \/ Return \/ Sleep PROVE IInv'
  OBVIOUS
<1> USE RetryAssumption DEF IInv, JobTypeOK, TypeOK, LoopPlaced, WithinBudget, jobVars
<1>1. CASE Unbuildable
  BY <1>1 DEF Unbuildable, FailsOnlyWhenItMust
<1>2. CASE Return
  <2>1. /\ at = "decide" /\ at' = "returned"
        /\ UNCHANGED <<attempt, backoff, now, wake, status, err, hint, whole, sends, answered, landed>>
        /\ \/ err = "none" /\ status # "retryable"
           \/ sends = MaxRetries + 1
           \/ now + Wait >= Deadline
    BY <1>2 DEF Return, Retryable, OutOfRetries, BudgetCovers, Wait
  <2>2. FailsOnlyWhenItMust'
    BY <2>1 DEF FailsOnlyWhenItMust, Succeeded, Wait
  <2> QED
    BY <2>1, <2>2
<1>3. CASE Sleep
  BY <1>3 DEF Sleep, Retryable, OutOfRetries, BudgetCovers, Wait, FailsOnlyWhenItMust
<1> QED
  BY <1>1, <1>2, <1>3

(* A pause ends by its timer or by the context, either perhaps late.          *)
LEMMA AwakeIInv ==
  ASSUME IInv, NEW t \in wake .. wake + Lateness, WakeUp(t) \/ ContextEnds(t), UNCHANGED jobVars
  PROVE  IInv'
<1> USE RetryAssumption DEF IInv, JobTypeOK, TypeOK, LoopPlaced, WithinBudget, jobVars
<1>1. t \in Nat /\ (at = "sleep" => t <= Deadline + Lateness)
  OBVIOUS
<1>2. CASE WakeUp(t)
  BY <1>1, <1>2 DEF WakeUp, FailsOnlyWhenItMust
<1>3. CASE ContextEnds(t)
  <2>1. now' + Wait' >= Deadline
    BY <1>1, <1>3 DEF ContextEnds, Wait
  <2> QED
    BY <1>1, <1>3, <2>1 DEF ContextEnds, FailsOnlyWhenItMust
<1> QED
  BY <1>2, <1>3

(* The next call starts afresh, at a time within the budget.                  *)
LEMMA GoToIInv ==
  ASSUME IInv, NEW next, NEW t \in Nat, t <= Deadline + Lateness, GoTo(next, t), JobTypeOK'
  PROVE  IInv'
  BY RetryAssumption DEF GoTo, IInv, LoopPlaced, WithinBudget, FailsOnlyWhenItMust

(* What doRetrying starts with has its type. *)
LEMMA GoToTypeOK ==
  ASSUME NEW next, NEW t \in Nat, GoTo(next, t)
  PROVE  TypeOK'
<1>1. 0 \in 0 .. 0 /\ 0 \in 0 .. MaxRetries /\ 0 \in 0 .. MaxRetries + 1
  BY RetryAssumption
<1> QED
  BY <1>1, RetryAssumption DEF GoTo, TypeOK

(* Every step of the job keeps the invariant. *)
LEMMA NextIInv == IInv /\ [JobNext]_<<vars, jobVars>> => IInv'
<1> SUFFICES ASSUME IInv, [JobNext]_<<vars, jobVars>> PROVE IInv'
  OBVIOUS
<1>1. CASE Calling
  BY <1>1, AttemptIInv, DecideIInv, AwakeIInv DEF Calling, Next
<1>2. now \in Nat /\ now <= Deadline + Lateness /\ JobTypeOK
  BY DEF IInv, JobTypeOK, TypeOK, WithinBudget
<1>3. CASE FetchOk
  <2>1. GoTo("analyze", now) /\ TypeOK'
    BY <1>2, <1>3, GoToTypeOK DEF FetchOk
  <2>2. JobTypeOK'
    BY <1>2, <1>3, <2>1 DEF FetchOk, JobTypeOK, GoTo
  <2> QED
    BY <1>2, <2>1, <2>2, GoToIInv
<1>4. CASE FetchError
  <2>1. GoTo("done", now) /\ TypeOK'
    BY <1>2, <1>4, GoToTypeOK DEF FetchError, AfterFetchError
  <2>2. JobTypeOK'
    BY <1>2, <1>4, <2>1 DEF FetchError, JobTypeOK, GoTo
  <2> QED
    BY <1>2, <2>1, <2>2, GoToIInv
<1>5. CASE Analyze
  <2>1. PICK t \in Ends(ModelTimeout) : AnalyzeError(t) \/ Skip(t) \/ Flag(t)
    BY <1>5 DEF Analyze
  <2>2. t \in Nat /\ t <= Deadline + Lateness
    BY <1>2, EndsInTime, JobAssumption
  <2>3. PICK next \in {"done", "label"} : GoTo(next, t)
    BY <2>1 DEF AnalyzeError, Skip, Flag
  <2>4. TypeOK'
    BY <2>2, <2>3, GoToTypeOK
  <2>5. /\ stage' \in {"done", "label"} /\ verdict' \in {"failed", "skipped", "flagged"}
        /\ UNCHANGED <<headSHA, diff, calls>>
    BY <2>1, <2>3 DEF AnalyzeError, Skip, Flag, GoTo
  <2>6. JobTypeOK'
    BY <1>2, <2>4, <2>5 DEF JobTypeOK, Writes
  <2> QED
    BY <2>2, <2>3, <2>6, GoToIInv
<1>6. CASE Written
  <2>1. PICK next \in {"comment", "check", "done"} : GoTo(next, now)
    BY <1>6 DEF Written, AfterWrite
  <2>2. TypeOK'
    BY <1>2, <2>1, GoToTypeOK
  <2>3. calls' \in [Writes -> {"untried", "ok", "error"}]
    BY <1>2, <1>6 DEF Written, JobTypeOK
  <2>4. JobTypeOK'
    BY <1>2, <1>6, <2>1, <2>2, <2>3 DEF Written, JobTypeOK, GoTo, Writes
  <2> QED
    BY <1>2, <2>1, <2>4, GoToIInv
<1>7. CASE UNCHANGED <<vars, jobVars>>
  BY <1>7 DEF IInv, JobTypeOK, TypeOK, LoopPlaced, WithinBudget, FailsOnlyWhenItMust, Succeeded,
              Wait, vars, jobVars
<1> QED
  BY <1>1, <1>3, <1>4, <1>5, <1>6, <1>7 DEF JobNext
-----------------------------------------------------------------------------
(* The invariant the properties below are read off. *)
THEOREM JobInvariant == JobSpec => []IInv
  BY InitIInv, NextIInv, PTL DEF JobSpec

(* Types, and with them the bound on attempts: never more than retries + 1.   *)
THEOREM JobTypeInvariant == JobSpec => []JobTypeOK
<1>1. IInv => JobTypeOK
  BY DEF IInv
<1> QED
  BY <1>1, JobInvariant, PTL

(* "It never sleeps past the context deadline" (github.go:130): over all five *)
(* calls no pause reaches the deadline, and the job is over one late timer    *)
(* after it.                                                                  *)
THEOREM JobWithinBudget == JobSpec => []WithinBudget
<1>1. IInv => WithinBudget
  BY DEF IInv
<1> QED
  BY <1>1, JobInvariant, PTL

(* A call fails only on a final answer, with the retries used up, or with no  *)
(* time left for the pause, and what an earlier attempt left behind is        *)
(* neither success nor a final answer (github.go:144-167).                    *)
THEOREM JobFailsOnlyWhenItMust == JobSpec => []FailsOnlyWhenItMust
<1>1. IInv => FailsOnlyWhenItMust
  BY DEF IInv
<1> QED
  BY <1>1, JobInvariant, PTL

(* What was answered with success is not sent again (github.go:150-157).      *)
THEOREM JobRepeatedOnlyInDoubt == JobSpec => RepeatedOnlyInDoubt
<1>1. IInv /\ [JobNext]_<<vars, jobVars>> => [sends' > sends => err # "none" \/ status # "ok"]_vars
  <2> SUFFICES ASSUME IInv, [JobNext]_<<vars, jobVars>>, sends' > sends
               PROVE  err # "none" \/ status # "ok"
    OBVIOUS
  <2>1. at = "send"
    <3>1. sends \in Nat
      BY DEF IInv, JobTypeOK, TypeOK
    <3>2. CASE Calling
      BY <3>1, <3>2 DEF Calling, Next, Unbuildable, Attempt, Broken, Answered, Sent, Return, Sleep, WakeUp, ContextEnds
    <3>3. ASSUME NEW next, NEW t, GoTo(next, t) PROVE FALSE
      BY <3>1, <3>3 DEF GoTo
    <3>4. sends' # sends
      BY <3>1
    <3> QED
      BY <3>2, <3>3, <3>4 DEF JobNext, FetchOk, FetchError, Analyze, AnalyzeError, Skip, Flag, Written, vars
  <2> QED
    BY <2>1 DEF IInv, LoopPlaced
<1> QED
  BY <1>1, JobInvariant, PTL DEF JobSpec, RepeatedOnlyInDoubt
-----------------------------------------------------------------------------
(* The pauses. *)

(* What the clock and the pause have to do with each other; between two calls *)
(* the loop is at its start.                                                  *)
Paused == /\ at = "decide" => answered = now
          /\ at = "sleep" => wake = answered + Wait
          /\ stage \in {"analyze", "done"} => at = "send"

(* The backoff of the attempt that is at hand. *)
Doubled == backoff = BaseBackoff * 2 ^ attempt

(* What the module Naturals says of powers of two, which the provers are not  *)
(* told.                                                                      *)
PowersOfTwo == 2 ^ 0 = 1 /\ \A n \in Nat : 2 ^ n \in Nat /\ 2 ^ (n + 1) = 2 * 2 ^ n

(* A job that goes on to its next call. *)
LEMMA GoToPaused ==
  ASSUME NEW next, NEW t, GoTo(next, t), PowersOfTwo
  PROVE  Paused' /\ Doubled'
<1>1. at' = "send" /\ attempt' = 0 /\ backoff' = BaseBackoff
  BY DEF GoTo
<1>2. Paused'
  BY <1>1 DEF Paused
<1>3. Doubled'
  <2>1. BaseBackoff * 1 = BaseBackoff
    BY RetryAssumption
  <2> QED
    BY <1>1, <2>1 DEF Doubled, PowersOfTwo
<1> QED
  BY <1>2, <1>3

(* Every step of the job keeps the pauses as they are to be. *)
LEMMA NextPaused ==
  ASSUME PowersOfTwo
  PROVE  IInv /\ Paused /\ Doubled /\ [JobNext]_<<vars, jobVars>> => Paused' /\ Doubled'
<1> SUFFICES ASSUME IInv, Paused, Doubled, [JobNext]_<<vars, jobVars>> PROVE Paused' /\ Doubled'
  OBVIOUS
<1>1. TypeOK
  BY DEF IInv, JobTypeOK
<1>2. CASE Calling
  <2>1. stage' = stage /\ stage \notin {"analyze", "done"}
    BY <1>2 DEF Calling, Writes, jobVars
  <2>2. CASE Attempt
    BY <2>1, <2>2 DEF Attempt, Broken, Answered, Sent, Paused, Doubled
  <2>3. CASE Unbuildable \/ Return
    BY <2>1, <2>3 DEF Unbuildable, Return, Paused, Doubled
  <2>4. CASE Sleep
    BY <2>1, <2>4 DEF Sleep, Paused, Doubled, Wait
  <2>5. ASSUME NEW t \in wake .. wake + Lateness, WakeUp(t) PROVE Paused' /\ Doubled'
    <3>1. /\ at' = "send" /\ attempt' = attempt + 1 /\ backoff' = 2 * backoff
          /\ attempt \in Nat
      BY <1>1, <2>5, RetryAssumption DEF WakeUp, TypeOK
    <3>2. PICK p \in Nat : p = 2 ^ attempt /\ 2 ^ (attempt + 1) = 2 * p
      BY <3>1 DEF PowersOfTwo
    <3>3. 2 * (BaseBackoff * p) = BaseBackoff * (2 * p)
      BY <3>2, RetryAssumption
    <3>4. Doubled'
      BY <3>1, <3>2, <3>3 DEF Doubled
    <3> QED
      BY <2>1, <3>1, <3>4 DEF Paused
  <2>6. ASSUME NEW t \in wake .. wake + Lateness, ContextEnds(t) PROVE Paused' /\ Doubled'
    BY <2>1, <2>6 DEF ContextEnds, Paused, Doubled
  <2> QED
    BY <1>2, <2>2, <2>3, <2>4, <2>5, <2>6 DEF Calling, Next
<1>3. CASE UNCHANGED <<vars, jobVars>>
  BY <1>3 DEF vars, jobVars, Paused, Doubled, Wait
<1>4. ASSUME NEW next, NEW t, GoTo(next, t) PROVE Paused' /\ Doubled'
  BY <1>4, GoToPaused
<1> QED
  BY <1>2, <1>3, <1>4
  DEF JobNext, FetchOk, FetchError, Analyze, AnalyzeError, Skip, Flag, Written

(* Between two attempts lies at least what the server asked for, and at least *)
(* a backoff that doubles from attempt to attempt (github.go:158-176), from   *)
(* the defining equations of the powers of two.                               *)
THEOREM JobSpacedAttempts ==
  ASSUME PowersOfTwo
  PROVE  JobSpec => SpacedAttempts
<1>1. JobInit => Paused /\ Doubled
  <2>1. BaseBackoff * 1 = BaseBackoff
    BY RetryAssumption
  <2> QED
    BY <2>1 DEF JobInit, Init, Paused, Doubled, PowersOfTwo
<1>2. IInv /\ Paused /\ Doubled /\ [JobNext]_<<vars, jobVars>> => Paused' /\ Doubled'
  BY NextPaused
<1>3. IInv /\ Paused /\ Doubled /\ [JobNext]_<<vars, jobVars>>
        => [at = "sleep" /\ at' = "send" => /\ now' - answered >= hint
                                           /\ now' - answered >= BaseBackoff * 2 ^ attempt]_vars
  <2> SUFFICES ASSUME IInv, Paused, Doubled, [JobNext]_<<vars, jobVars>>, at = "sleep", at' = "send"
               PROVE  now' - answered >= hint /\ now' - answered >= BaseBackoff * 2 ^ attempt
    OBVIOUS
  <2>1. stage \notin {"analyze", "done"} /\ at # "returned"
    BY DEF Paused
  <2>2. CASE Calling
    <3>1. PICK t \in wake .. wake + Lateness : WakeUp(t)
      BY <2>2 DEF Calling, Next, Unbuildable, Attempt, Broken, Answered, Sent, Return, Sleep, ContextEnds
    <3>2. now' = t /\ wake = answered + Wait /\ t >= wake
      BY <3>1, RetryAssumption DEF WakeUp, Paused, IInv, JobTypeOK, TypeOK
    <3>3. /\ hint \in Nat /\ backoff \in Nat /\ answered \in Nat /\ t \in Nat
          /\ Wait >= hint /\ Wait >= backoff /\ Wait \in Nat
      BY <3>1, RetryAssumption DEF IInv, JobTypeOK, TypeOK, Wait
    <3>4. now' - answered >= hint /\ now' - answered >= backoff
      BY <3>2, <3>3
    <3> QED
      BY <3>4 DEF Doubled
  <2>3. CASE ~ Calling
    BY <2>1, <2>3 DEF JobNext, FetchOk, FetchError, Analyze, AnalyzeError, Skip, Flag, Written,
                     Succeeded, vars
  <2> QED
    BY <2>2, <2>3
<1> QED
  BY <1>1, <1>2, <1>3, JobInvariant, PTL DEF JobSpec, SpacedAttempts
-----------------------------------------------------------------------------
(* The worker of Handler. *)

(* There is no verdict before the model was asked, and the worker is at one   *)
(* of its calls.                                                              *)
Undecided == stage \in {"fetch", "analyze"} => verdict = "none"

(* The state of Handler's one worker and its one job. *)
atBar == [w \in {"w"} |-> IF stage = "done" THEN "idle" ELSE stage]
jobBar == [w \in {"w"} |-> IF stage = "done" THEN "noJob" ELSE "r"]
verdictBar == [r \in {"r"} |-> verdict]
callsBar == [r \in {"r"} |-> calls]
statsBar == [c \in {"received", "triaged", "flagged", "skipped", "failed"} |->
               IF \/ c = "received" \/ c = verdict
                  \/ c = "triaged" /\ verdict \in {"flagged", "skipped"} THEN 1 ELSE 0]
idBar == [r \in {"r"} |-> IF headSHA THEN "headed" ELSE "bare"]

(* A verdict, the first there is, is counted as process counts it.            *)
LEMMA ConcludesOnce ==
  ASSUME verdict = "none", NEW v \in {"failed", "skipped", "flagged"}, verdict' = v,
         jobBar["w"] = "r", calls' = calls
  PROVE  H!Conclude("w", v)
<1>1. verdictBar' = [verdictBar EXCEPT !["r"] = v]
  BY DEF verdictBar
<1>2. statsBar' = [c \in H!Counters |-> IF c \in H!CountedFor(v) THEN statsBar[c] + 1 ELSE statsBar[c]]
  <2>1. \A c \in H!Counters : statsBar[c] = IF c = "received" THEN 1 ELSE 0
    BY DEF statsBar, H!Counters
  <2>2. \A c \in H!Counters : c \in H!CountedFor(v) <=> c = v \/ (c = "triaged" /\ v \in {"flagged", "skipped"})
    BY DEF H!Counters, H!CountedFor
  <2>3. statsBar' = [c \in H!Counters |->
                       IF \/ c = "received" \/ c = v
                          \/ c = "triaged" /\ v \in {"flagged", "skipped"} THEN 1 ELSE 0]
    BY DEF statsBar, H!Counters
  <2>4. v # "received"
    OBVIOUS
  <2>5. \A c \in H!Counters :
          (IF \/ c = "received" \/ c = v
              \/ c = "triaged" /\ v \in {"flagged", "skipped"} THEN 1 ELSE 0)
             = IF c \in H!CountedFor(v) THEN statsBar[c] + 1 ELSE statsBar[c]
    BY <2>1, <2>2, <2>4
  <2> QED
    BY <2>3, <2>5
<1>3. callsBar' = callsBar
  BY DEF callsBar
<1> QED
  BY <1>1, <1>2, <1>3 DEF H!Conclude, H!Counted, verdictBar, jobBar, statsBar, callsBar

(* The worker is done with its job, or goes on to the next call. *)
LEMMA ReturnsOrMoves ==
  ASSUME stage # "done", NEW next, stage' = next
  PROVE  IF next = "done" THEN H!Return("w") ELSE H!MoveTo("w", next)
<1>1. atBar' = [atBar EXCEPT !["w"] = IF next = "done" THEN "idle" ELSE next]
  BY DEF atBar
<1>2. jobBar' = IF next = "done" THEN [jobBar EXCEPT !["w"] = "noJob"] ELSE jobBar
  BY DEF jobBar
<1>3. CASE next = "done"
  BY <1>1, <1>2, <1>3 DEF H!Return, atBar, jobBar
<1>4. CASE next # "done"
  BY <1>1, <1>2, <1>4 DEF H!MoveTo, atBar, jobBar
<1> QED
  BY <1>3, <1>4

(* The diff, fetched or not. *)
LEMMA FetchWorks ==
  ASSUME Undecided, FetchOk \/ FetchError
  PROVE  H!Work("w")
<1>1. stage = "fetch" /\ headSHA' = headSHA /\ calls' = calls /\ atBar["w"] = "fetch" /\ jobBar["w"] = "r"
  BY DEF FetchOk, FetchError, atBar, jobBar
<1>2. idBar' = idBar
  BY <1>1 DEF idBar
<1>3. CASE FetchOk
  <2>1. stage' = "analyze" /\ verdict' = verdict
    BY <1>3 DEF FetchOk, GoTo
  <2>2. H!MoveTo("w", "analyze")
    BY <1>1, <2>1, ReturnsOrMoves
  <2>3. verdictBar' = verdictBar /\ callsBar' = callsBar /\ statsBar' = statsBar
    BY <1>1, <2>1 DEF verdictBar, callsBar, statsBar
  <2>4. H!FetchOk("w")
    BY <1>1, <1>2, <2>2, <2>3
    DEF H!FetchOk, H!reqVars, H!queueVars, H!logVars, atBar, verdictBar, callsBar, statsBar, idBar
  <2> QED
    BY <2>4 DEF H!Work
<1>4. CASE FetchError
  <2>1. stage' = "done" /\ verdict' = "failed" /\ verdict = "none"
    BY <1>1, <1>4 DEF FetchError, AfterFetchError, GoTo, Undecided
  <2>2. H!Return("w") /\ H!Conclude("w", "failed")
    BY <1>1, <2>1, ReturnsOrMoves, ConcludesOnce
  <2>3. H!FetchError("w")
    BY <1>1, <1>2, <2>2 DEF H!FetchError, H!reqVars, H!queueVars, H!logVars, atBar, idBar
  <2> QED
    BY <2>3 DEF H!Work
<1> QED
  BY <1>3, <1>4

(* The verdict. *)
LEMMA AnalyzeWorks ==
  ASSUME Undecided, NEW t, AnalyzeError(t) \/ Skip(t) \/ Flag(t)
  PROVE  H!Work("w")
<1>1. /\ stage = "analyze" /\ verdict = "none" /\ headSHA' = headSHA /\ calls' = calls
      /\ atBar["w"] = "analyze" /\ jobBar["w"] = "r"
  BY DEF AnalyzeError, Skip, Flag, Undecided, atBar, jobBar
<1>2. idBar' = idBar
  BY <1>1 DEF idBar
<1>3. CASE AnalyzeError(t)
  <2>1. stage' = "done" /\ verdict' = "failed"
    BY <1>3 DEF AnalyzeError, GoTo
  <2>2. H!Return("w") /\ H!Conclude("w", "failed")
    BY <1>1, <2>1, ReturnsOrMoves, ConcludesOnce
  <2> QED
    BY <1>1, <1>2, <2>2 DEF H!Work, H!AnalyzeError, H!reqVars, H!queueVars, H!logVars, atBar, idBar
<1>4. CASE Skip(t)
  <2>1. stage' = "done" /\ verdict' = "skipped"
    BY <1>4 DEF Skip, GoTo
  <2>2. H!Return("w") /\ H!Conclude("w", "skipped")
    BY <1>1, <2>1, ReturnsOrMoves, ConcludesOnce
  <2> QED
    BY <1>1, <1>2, <2>2 DEF H!Work, H!Skip, H!reqVars, H!queueVars, H!logVars, atBar, idBar
<1>5. CASE Flag(t)
  <2>1. stage' = (IF ShadowMode THEN "done" ELSE "label") /\ verdict' = "flagged"
    BY <1>5 DEF Flag, GoTo
  <2>2. H!Conclude("w", "flagged")
    BY <1>1, <2>1, ConcludesOnce
  <2>3. IF H!AfterFlag = "idle" THEN H!Return("w") ELSE H!MoveTo("w", H!AfterFlag)
    BY <1>1, <2>1, ReturnsOrMoves DEF H!AfterFlag
  <2> QED
    BY <1>1, <1>2, <2>2, <2>3 DEF H!Work, H!Flag, H!reqVars, H!queueVars, H!logVars, atBar, idBar
<1> QED
  BY <1>3, <1>4, <1>5

(* A write, whatever became of it. *)
LEMMA WrittenWorks ==
  ASSUME JobTypeOK, Written
  PROVE  H!Work("w")
<1> DEFINE result == IF Succeeded THEN "ok" ELSE "error"
<1>1. /\ stage \in {"label", "comment", "check"} /\ stage' = AfterWrite
      /\ headSHA' = headSHA /\ verdict' = verdict
      /\ calls' = [calls EXCEPT ![stage] = result]
  BY DEF Written, GoTo, Writes
<1>2. atBar["w"] = stage /\ jobBar["w"] = "r" /\ idBar' = idBar /\ idBar["r"] = IF headSHA THEN "headed" ELSE "bare"
  BY <1>1 DEF atBar, jobBar, idBar
<1>3. verdictBar' = verdictBar /\ statsBar' = statsBar
  BY <1>1 DEF verdictBar, statsBar
<1>4. callsBar' = [callsBar EXCEPT !["r"][stage] = result]
  BY <1>1 DEF callsBar
<1>5. AfterWrite \in {"comment", "check", "done"}
  BY DEF AfterWrite
<1>6. H!AfterWrite("w", stage, result) = IF AfterWrite = "done" THEN "idle" ELSE AfterWrite
  <2>1. idBar[jobBar["w"]] \notin {"bare"} <=> headSHA
    BY <1>2
  <2> QED
    BY <2>1 DEF H!AfterWrite, AfterWrite, idBar, jobBar
<1>7. IF H!AfterWrite("w", stage, result) = "idle" THEN H!Return("w")
      ELSE H!MoveTo("w", H!AfterWrite("w", stage, result))
  BY <1>1, <1>5, <1>6, ReturnsOrMoves
<1>8. H!Write("w", stage)
  <2>1. result \in {"ok", "error"}
    OBVIOUS
  <2> HIDE DEF result
  <2> QED
    BY <1>2, <1>3, <1>4, <1>7, <2>1
    DEF H!Write, H!reqVars, H!queueVars, H!logVars, atBar, jobBar, idBar, verdictBar, statsBar, callsBar
<1> QED
  BY <1>1, <1>8 DEF H!Work, H!AddLabel, H!PostComment, H!CreateCheckRun

(* The calls of a job, with their retries, are the single steps of Handler's  *)
(* worker: what is proved of the handler with a worker of single steps stands *)
(* on the worker as it is coded (webhook.go:176-187, 334-408).                *)
THEOREM JobImplementsWorker == JobSpec => ImplementsWorker
<1>1. JobInit => Undecided
  BY DEF JobInit, Undecided
<1>2. Undecided /\ [JobNext]_<<vars, jobVars>> => Undecided'
  <2> SUFFICES ASSUME Undecided, [JobNext]_<<vars, jobVars>> PROVE Undecided'
    OBVIOUS
  <2>1. CASE Calling \/ UNCHANGED <<vars, jobVars>>
    BY <2>1 DEF Calling, jobVars, Undecided
  <2>2. CASE FetchOk \/ FetchError \/ Analyze \/ Written
    BY <2>2 DEF FetchOk, FetchError, AfterFetchError, Analyze, AnalyzeError, Skip, Flag, Written,
               AfterWrite, GoTo, Undecided, Writes
  <2> QED
    BY <2>1, <2>2 DEF JobNext
<1>3. JobTypeOK /\ Undecided /\ [JobNext]_<<vars, jobVars>> => [H!Work("w")]_(H!vars)
  <2> SUFFICES ASSUME JobTypeOK, Undecided, [JobNext]_<<vars, jobVars>> PROVE [H!Work("w")]_(H!vars)
    OBVIOUS
  <2>1. CASE Calling \/ UNCHANGED <<vars, jobVars>>
    <3>1. UNCHANGED jobVars
      BY <2>1 DEF Calling
    <3>2. /\ atBar' = atBar /\ jobBar' = jobBar /\ verdictBar' = verdictBar
          /\ callsBar' = callsBar /\ statsBar' = statsBar /\ idBar' = idBar
      BY <3>1 DEF jobVars, atBar, jobBar, verdictBar, callsBar, statsBar, idBar
    <3> QED
      BY <3>2 DEF H!vars, H!reqVars, H!queueVars, H!workVars, H!logVars,
                  atBar, jobBar, verdictBar, callsBar, statsBar, idBar
  <2>2. CASE FetchOk \/ FetchError \/ Analyze \/ Written
    BY <2>2, FetchWorks, AnalyzeWorks, WrittenWorks DEF Analyze
  <2> QED
    BY <2>1, <2>2 DEF JobNext
<1> QED
  BY <1>1, <1>2, <1>3, JobTypeInvariant, PTL DEF JobSpec, ImplementsWorker
=============================================================================
