-------------------------------- MODULE Sentinel --------------------------------
(* The gateway process around the handler, cmd/sentinel/main.go: main serves  *)
(* until the HTTP server is shut down and then returns, which ends the        *)
(* process; a goroutine of its own waits for the signal and shuts down the    *)
(* server and then the handler.  The process may be killed at any time and be *)
(* started again; GitHub may redeliver in every life.                         *)
EXTENDS Handler

CONSTANT MaxLives  \* bound: how often the process is started

ASSUME SentinelAssumption ==
  MaxLives \in Nat \ {0} /\ Cardinality(Stoppers) = 1 /\ IsFiniteSet(ClaimIds)

VARIABLES up,       \* the process is running
          drainer,  \* where the goroutine that waits for the signal is
          httpCut,  \* srv.Shutdown ended by its context, with requests in flight
          life,     \* how often the process was started
          lifeOf,   \* per request: the life it arrived in, 0 before
          lastExit  \* how the last life ended

procVars == <<up, drainer, httpCut, life, lifeOf, lastExit>>
sysVars == <<vars, procVars>>

SysInit == /\ Init
           /\ up = TRUE
           /\ drainer = "waiting"
           /\ httpCut = FALSE
           /\ life = 1
           /\ lifeOf = [r \in Requests |-> 0]
           /\ lastExit = "none"

InLife(A) == up /\ A /\ UNCHANGED procVars

(* main starts the handler before it listens. *)
Launch == InLife(Start)

(* srv.Shutdown closes the listener, but a connection accepted before may     *)
(* still bring its request: srv.Shutdown waits for that one too, and nothing  *)
(* ends it if srv.Shutdown gives up.                                          *)
Reachable == drainer # "workers" \/ httpCut

Deliver(r, d) == /\ up /\ Started /\ Reachable
                 /\ Arrive(r, d)
                 /\ lifeOf' = [lifeOf EXCEPT ![r] = life]
                 /\ UNCHANGED <<up, drainer, httpCut, life, lastExit>>

Run == \/ \E r \in Requests : InLife(Serve(r))
       \/ \E w \in Workers : InLife(Work(w))
       \/ InLife(WriteLog)

(* SIGTERM or SIGINT: the drainer calls srv.Shutdown. *)
Signal == /\ up /\ Started /\ drainer = "waiting"
          /\ drainer' = "http"
          /\ UNCHANGED <<vars, up, httpCut, life, lifeOf, lastExit>>

(* Mutant of HttpIdle: the handler is shut down beside the server. *)
HttpIdleNotAsked == TRUE

HttpIdle == \A r \in Requests : reqAt[r] \in {"none", "done"}

(* srv.Shutdown returns when no request is in flight, or with its context's   *)
(* error; handler.Shutdown is called in both cases.                           *)
HttpDrained(s) == /\ up /\ drainer = "http" /\ HttpIdle
                  /\ CloseJobs(s)
                  /\ drainer' = "workers"
                  /\ UNCHANGED <<up, httpCut, life, lifeOf, lastExit>>

HttpTimesOut(s) == /\ up /\ drainer = "http"
                   /\ CloseJobs(s)
                   /\ drainer' = "workers"
                   /\ httpCut' = TRUE
                   /\ UNCHANGED <<up, life, lifeOf, lastExit>>

Drain(s) == drainer = "workers" /\ InLife(Shutdown(s))

(* The end of the process: what it had in memory is gone.  What it did to     *)
(* pull requests and to the log file stays, and so do the histories.          *)
Gone == /\ up' = FALSE
        /\ behind' = [d \in ClaimIds |-> LedgerCap]
        /\ reqAt' = [r \in Requests |-> IF reqAt[r] = "none" THEN "none" ELSE "done"]
        /\ jobs' = << >> /\ jobsClosed' = FALSE
        /\ workerAt' = [w \in Workers |-> "off"]
        /\ workerJob' = [w \in Workers |-> NoJob]
        /\ stats' = [c \in Counters |-> 0]
        /\ stopper' = [s \in Stoppers |-> "out"]
        /\ ch' = << >> /\ chClosed' = FALSE /\ writer' = "unstarted" /\ hand' = NoJob
        /\ closer' = [s \in Stoppers |-> "out"]
        /\ drainer' = "waiting" /\ httpCut' = FALSE
        /\ UNCHANGED <<reqId, reply, verdict, calls, file, unwritten, recorded, sent,
                       life, lifeOf>>

(* ListenAndServe returns as soon as srv.Shutdown has been called, and main   *)
(* with it: nothing in main waits for the drainer.                            *)
MainReturns == /\ up /\ drainer # "waiting"
               /\ Gone
               /\ lastExit' = "main"

(* A crash, SIGKILL, or a second signal. *)
Kill == up /\ Gone /\ lastExit' = "killed"

Restart == /\ ~ up /\ life < MaxLives
           /\ up' = TRUE
           /\ life' = life + 1
           /\ lastExit' = "none"
           /\ UNCHANGED <<vars, drainer, httpCut, lifeOf>>

SysNext == \/ Launch
           \/ \E r \in Requests, d \in Deliveries : Deliver(r, d)
           \/ Run
           \/ Signal
           \/ \E s \in Stoppers : HttpDrained(s) \/ HttpTimesOut(s) \/ Drain(s)
           \/ MainReturns \/ Kill \/ Restart

SysSpec == SysInit /\ [][SysNext]_sysVars
-----------------------------------------------------------------------------
SysTypeOK == /\ TypeOK /\ Log!TypeOK
             /\ up \in BOOLEAN /\ httpCut \in BOOLEAN
             /\ drainer \in {"waiting", "http", "workers"}
             /\ life \in 1 .. MaxLives
             /\ lifeOf \in [Requests -> 0 .. MaxLives]
             /\ lastExit \in {"none", "main", "killed"}

(* The server stops before the queue is closed, so no request panics on the   *)
(* closed channel (of jobs or of signals) while a stop goes by the book.      *)
NoPanicUnlessCut ==
  up /\ ~ httpCut => \A r \in Requests : lifeOf[r] = life => reply[r] # "panic"

Commented(r) == calls[r]["comment"] # "untried"

(* "A gateway restart forgets, so a redelivery arriving after a restart can   *)
(* be reprocessed once": one delivery is commented on at most once per life,  *)
(* crash or not, as long as the ledger has room for all IDs.                  *)
OneCommentPerLife ==
  Cardinality(ClaimIds) <= LedgerCap =>
    \A r, q \in Requests :
      r # q /\ reqId[r] = reqId[q] /\ Commented(r) /\ Commented(q) => lifeOf[r] # lifeOf[q]

(* The gateway as a process implements the promise, in which only the end of  *)
(* a process loses accepted work: no restart, redelivery or shutdown makes a  *)
(* second verdict, repeats a write or resumes one.                            *)
KeepsPromise == Promise!CrashSpec

(* main.go:110-111: "drain in-flight triage so an accepted delivery is not    *)
(* lost mid-process".  After a stop by signal, and no kill, every delivery    *)
(* that was answered "accepted" in that life has its verdict.                 *)
StopDrains ==
  lastExit = "main" =>
    \A r \in Requests : lifeOf[r] = life /\ reply[r] = "accepted" => Concluded(r)
=============================================================================
