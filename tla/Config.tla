--------------------------------- MODULE Config ---------------------------------
(* config.Load of internal/config/config.go as a function of the environment. *)
EXTENDS Integers

CONSTANTS Override,  \* CONFIDENCE_THRESHOLD: a number in [0,1], or NaN (see below)
          Unset,     \* a variable that is not set, or empty
          Bad        \* a text that is no value of the setting's type

ASSUME ConfigAssumption == Override \notin Nat \union {Unset, Bad} /\ Unset # Bad

Required == {"GITHUB_WEBHOOK_SECRET", "GITHUB_TOKEN", "MODEL_URL"}

(* The values that pass.  ParseFloat takes "NaN", and NaN < 0 || NaN > 1 is   *)
(* false, so Override stands for NaN as well.                                 *)
Valid == [CONFIDENCE_THRESHOLD |-> {Override}, MAX_BODY_BYTES |-> Nat \ 0 .. 1023,
          WORKER_COUNT |-> 1 .. 64, SHADOW_MODE |-> BOOLEAN,
          MODEL_THREADS |-> 1 .. 64, GITHUB_MAX_RETRIES |-> 0 .. 5]

(* The built-in values; 0 stands for the cutoff 0.95, "" for no feedback log. *)
Fallback == [CONFIDENCE_THRESHOLD |-> 0, MAX_BODY_BYTES |-> 25 * 1024 * 1024,
             WORKER_COUNT |-> 8, SHADOW_MODE |-> FALSE,
             MODEL_THREADS |-> 4, GITHUB_MAX_RETRIES |-> 2,
             PORT |-> "8080", SLOP_LABEL |-> "needs-human-review",
             GITHUB_API_BASE |-> "https://api.github.com", FEEDBACK_LOG |-> ""]

Settings == Required \union DOMAIN Fallback

(* Mutant of Refused: only the secrets are looked at. *)
RefusedIfMissing(env) == \E s \in Required : env[s] = Unset

Refused(env) == \/ \E s \in Required : env[s] = Unset
                \/ \E s \in DOMAIN Valid : env[s] \notin Valid[s] \union {Unset}

Loaded(env) == [s \in DOMAIN Fallback |-> IF env[s] = Unset THEN Fallback[s] ELSE env[s]]
=============================================================================
