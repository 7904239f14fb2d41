------------------------------- MODULE MCStartup -------------------------------
(* Startup with environments in which at most one setting besides the cutoff  *)
(* is not the built-in one.                                                   *)
EXTENDS Startup

Plain == [s \in Settings |-> IF s \in Required THEN "given" ELSE Unset]

(* Values on both sides of every bound. *)
Tried == [MAX_BODY_BYTES |-> {1023, 1024}, WORKER_COUNT |-> {0, 64, 65},
          SHADOW_MODE |-> {TRUE, Bad}, MODEL_THREADS |-> {Bad, 1, 65},
          GITHUB_MAX_RETRIES |-> {-1, 0, 6}, PORT |-> {"9090"}, MODEL_URL |-> {Unset}]

MCEnvironments ==
  {[e EXCEPT !["CONFIDENCE_THRESHOLD"] = c] :
     e \in {Plain} \union UNION {{[Plain EXCEPT ![s] = v] : v \in Tried[s]} : s \in DOMAIN Tried},
     c \in {Override, Unset, Bad}}
=============================================================================
