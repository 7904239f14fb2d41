--------------------------------- MODULE Retry ---------------------------------
(* One GitHub call of internal/github/github.go, doRetrying: attempts with    *)
(* growing pauses between them, under the deadline of the worker's context.   *)
(* Time is counted in ticks from the start of that context.  The remote side  *)
(* may have applied an attempt whose answer never arrives.                    *)
EXTENDS Naturals

CONSTANTS MaxRetries,   \* GITHUB_MAX_RETRIES
          BaseBackoff,  \* baseBackoff
          CallTimeout,  \* the HTTP client's timeout
          Deadline,     \* triageTimeout, or what is left of it when the call starts
          Afters,       \* what Retry-After may ask for, 0 for nothing usable
          Resets,       \* what x-ratelimit-reset may say, 0 for nothing usable
          Lateness      \* how many ticks late a timer may fire

ASSUME RetryAssumption ==
  /\ MaxRetries \in Nat /\ BaseBackoff \in Nat \ {0} /\ CallTimeout \in Nat \ {0}
  /\ Deadline \in Nat \ {0} /\ Afters \subseteq Nat /\ Resets \subseteq Nat /\ Lateness \in Nat

VARIABLES at,       \* "send", "decide", "sleep" or "returned"
          attempt,  \* the loop variable
          backoff,
          now,
          wake,     \* when the timer of the sleep fires
          status,   \* class of the last answer (see Answered); a later attempt without one keeps it
          err,      \* of the last attempt: "none", "request", "transport", "context"
          hint,     \* retryAfter of the last answer
          whole,    \* the body of the last answer was read to its end
          sends,    \* history: attempts made
          answered, \* history: when the last attempt ended
          landed    \* history: attempts the remote side applied

vars == <<at, attempt, backoff, now, wake, status, err, hint, whole, sends, answered, landed>>

Init == /\ at = "send"
        /\ attempt = 0 /\ backoff = BaseBackoff
        /\ now = 0 /\ wake = 0
        /\ status = "none" /\ err = "none" /\ hint = 0
        /\ whole = FALSE
        /\ sends = 0 /\ answered = 0 /\ landed = 0

(* A request that takes timeout at most ends by then, or when the context     *)
(* does; the timers of both may be late.  A context that has ended ends it at *)
(* once.                                                                      *)
Ends(timeout) ==
  LET cut == (IF now + timeout < Deadline THEN now + timeout ELSE Deadline) + Lateness
  IN  now .. (IF cut > now THEN cut ELSE now)

(* The context has certainly ended: nothing more goes out. *)
Expired == now >= Deadline + Lateness

(* mk fails: the configured API base makes no URL. *)
Unbuildable == /\ at = "send" /\ attempt = 0
               /\ err' = "request"
               /\ at' = "returned"
               /\ UNCHANGED <<attempt, backoff, now, wake, status, hint, whole,
                              sends, answered, landed>>

Sent(t) == /\ at = "send"
           /\ now' = t /\ answered' = t
           /\ sends' = sends + 1
           /\ at' = "decide"
           /\ UNCHANGED <<attempt, backoff, wake>>

(* Retry-After if it is usable, else the time until the reset, else nothing.  *)
RetryAfter(after, reset, t) == IF after > 0 THEN after
                               ELSE IF reset > t THEN reset - t ELSE 0

(* An answer: "ok", a status the caller asks for (200 for the diff, any 2xx   *)
(* for a write); one that is worth retrying (5xx, 429, 403), which may have   *)
(* been sent after the request was applied; or any other, which is final.  An *)
(* error while its body is read is dropped (github.go:147).                   *)
Answered(t, kind) ==
  /\ Sent(t) /\ ~ Expired
  /\ status' = kind /\ err' = "none"
  /\ whole' \in BOOLEAN
  /\ hint' \in (IF kind = "retryable"
                THEN {RetryAfter(a, r, t) : a \in Afters, r \in Resets} ELSE {0})
  /\ landed' \in {landed, landed + 1}
  /\ kind = "ok" => landed' = landed + 1
  /\ kind = "final" => landed' = landed

(* No answer: refused, reset, timed out.  resp is nil, so there is no hint.   *)
Broken(t) == /\ Sent(t)
             /\ err' = "transport" /\ hint' = 0
             /\ landed' \in (IF Expired THEN {landed} ELSE {landed, landed + 1})
             /\ UNCHANGED <<status, whole>>

Attempt == \E t \in Ends(CallTimeout) : \/ Broken(t)
                                        \/ \E kind \in {"ok", "final", "retryable"} : Answered(t, kind)

(* Mutant of Retryable: an answer whose body broke off is asked for again. *)
RetryableCut == err # "none" \/ status = "retryable" \/ ~ whole

Retryable == err # "none" \/ status = "retryable"

(* Mutant of OutOfRetries: the first attempt counts as a retry. *)
OutOfRetriesEarly == attempt + 1 >= MaxRetries

OutOfRetries == attempt >= MaxRetries

(* Mutant of Wait: the server's hint is not honored. *)
WaitBackoff == backoff

Wait == IF hint > backoff THEN hint ELSE backoff

(* Mutant of BudgetCovers: the deadline is not looked at. *)
BudgetCoversAlways(w) == TRUE

(* time.Until(deadline) <= wait stops the retries. *)
BudgetCovers(w) == now + w < Deadline

Return == /\ at = "decide"
          /\ \/ ~ Retryable
             \/ OutOfRetries
             \/ ~ BudgetCovers(Wait)
          /\ at' = "returned"
          /\ UNCHANGED <<attempt, backoff, now, wake, status, err, hint, whole, sends, answered, landed>>

Sleep == /\ at = "decide"
         /\ Retryable /\ ~ OutOfRetries /\ BudgetCovers(Wait)
         /\ wake' = now + Wait
         /\ at' = "sleep"
         /\ UNCHANGED <<attempt, backoff, now, status, err, hint, whole, sends, answered, landed>>

(* The timer fires, perhaps late; if the context ended by then, select takes  *)
(* either branch.                                                             *)
WakeUp(t) == /\ at = "sleep"
             /\ now' = t
             /\ backoff' = 2 * backoff
             /\ attempt' = attempt + 1
             /\ at' = "send"
             /\ UNCHANGED <<wake, status, err, hint, whole, sends, answered, landed>>

ContextEnds(t) == /\ at = "sleep"
                  /\ t >= Deadline
                  /\ now' = t
                  /\ err' = "context"
                  /\ at' = "returned"
                  /\ UNCHANGED <<attempt, backoff, wake, status, hint, whole, sends, answered, landed>>

Next == \/ Unbuildable \/ Attempt \/ Return \/ Sleep
        \/ \E t \in wake .. wake + Lateness : WakeUp(t) \/ ContextEnds(t)

Spec == Init /\ [][Next]_vars
-----------------------------------------------------------------------------
TypeOK == /\ at \in {"send", "decide", "sleep", "returned"}
          /\ attempt \in 0 .. MaxRetries
          /\ backoff \in Nat /\ now \in Nat /\ wake \in Nat
          /\ status \in {"none", "ok", "final", "retryable"}
          /\ err \in {"none", "request", "transport", "context"}
          /\ hint \in Nat /\ whole \in BOOLEAN
          /\ sends \in 0 .. MaxRetries + 1 /\ answered \in Nat /\ landed \in 0 .. sends

(* What the callers make of the triple: err first, then the status. *)
Succeeded == at = "returned" /\ err = "none" /\ status = "ok"

(* "It never sleeps past the context deadline": no pause is begun that would  *)
(* end at the deadline or later, and the call is over one late timer after    *)
(* the deadline at most.                                                      *)
WithinBudget == /\ at = "sleep" => wake < Deadline
                /\ now <= Deadline + Lateness

(* The backoff doubles with each attempt, and between two attempts lies at    *)
(* least the backoff and at least what the server asked for.                  *)
SpacedAttempts ==
  [][at = "sleep" /\ at' = "send" => /\ now' - answered >= hint
                                     /\ now' - answered >= BaseBackoff * 2 ^ attempt]_vars

(* A failure is reported only when it is final, the retries are used up, or   *)
(* the budget cannot cover the pause; and the status an earlier attempt left  *)
(* beside the error of the last one is no outcome of the call: a throttling   *)
(* or none, which even a caller that looks at the status first cannot take    *)
(* for success or for a final answer.                                         *)
FailsOnlyWhenItMust ==
  at = "returned" =>
    /\ \/ Succeeded /\ landed > 0
       \/ err = "request" /\ sends = 0
       \/ err = "none" /\ status = "final"
       \/ sends = MaxRetries + 1
       \/ now + Wait >= Deadline
    /\ err # "none" => status \in {"none", "retryable"}

(* A request is repeated only in doubt: after an attempt that was answered    *)
(* with success, whether the body of the answer arrived or not, nothing is    *)
(* sent again.  A comment or a label that GitHub confirmed with a 2xx is not  *)
(* posted twice.                                                              *)
RepeatedOnlyInDoubt == [][sends' > sends => err # "none" \/ status # "ok"]_vars
=============================================================================
