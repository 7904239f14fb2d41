------------------------------ MODULE GatewaySpec ------------------------------
(* What the gateway promises for a request that carries a pull request,       *)
(* without queue, workers, ledger or shutdown: accepted, it gets one verdict; *)
(* flagged, it gets its label and its comment, and perhaps a check run, each  *)
(* tried once; and only the end of the process leaves any of this undone.     *)
CONSTANTS Requests,
          Quiet     \* shadow mode: a flag is not written to GitHub

VARIABLES fate,   \* per request: "new", "accepted", or its verdict
          tried,  \* per request: the writes tried
          alive   \* the requests the gateway still works on

vars == <<fate, tried, alive>>

Init == /\ fate = [r \in Requests |-> "new"]
        /\ tried = [r \in Requests |-> {}]
        /\ alive = {}

Accept(r) == /\ fate[r] = "new"
             /\ fate' = [fate EXCEPT ![r] = "accepted"]
             /\ alive' = alive \union {r}
             /\ UNCHANGED tried

Conclude(r, v) == /\ r \in alive /\ fate[r] = "accepted"
                  /\ fate' = [fate EXCEPT ![r] = v]
                  /\ alive' = IF v = "flagged" /\ ~ Quiet THEN alive ELSE alive \ {r}
                  /\ UNCHANGED tried

Marked(r) == {"label", "comment"} \subseteq tried[r]

(* The writes come in this order; the request is done with after the comment  *)
(* or after the check run.                                                    *)
Mark(r, c) == /\ r \in alive /\ fate[r] = "flagged" /\ ~ Quiet
              /\ c \notin tried[r]
              /\ c # "label" => "label" \in tried[r]
              /\ c = "check" => Marked(r)
              /\ tried' = [tried EXCEPT ![r] = @ \union {c}]
              /\ \/ alive' = alive /\ c # "check"
                 \/ alive' = alive \ {r} /\ Marked(r)'
              /\ UNCHANGED fate

Next == \E r \in Requests : \/ Accept(r)
                            \/ \E v \in {"failed", "skipped", "flagged"} : Conclude(r, v)
                            \/ \E c \in {"label", "comment", "check"} : Mark(r, c)

Spec == Init /\ [][Next]_vars

(* The end of the process.  A request whose answer was still to be sent may   *)
(* as well never have come.                                                   *)
Crash == /\ alive' = {}
         /\ \E cut \in SUBSET {r \in alive : fate[r] = "accepted"} :
              fate' = [r \in Requests |-> IF r \in cut THEN "new" ELSE fate[r]]
         /\ UNCHANGED tried

CrashSpec == Init /\ [][Next \/ Crash]_vars
=============================================================================
