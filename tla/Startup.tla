-------------------------------- MODULE Startup --------------------------------
(* How a confidence cutoff gets from a training run to the gateway.           *)
(* ml/train.py writes an artifact directory file by file, in place; the model *)
(* service (model/inference.py, app.py) checks and loads it at startup and    *)
(* advertises its cutoff; the gateway (cmd/sentinel/main.go) asks for it once *)
(* at startup, unless the operator set one.  docker-compose.yml starts both.  *)
(* The cutoff chosen for build b is written b; 0 is the default both services *)
(* fall back to (0.95 in either), Override the one the operator set.          *)
EXTENDS Config

CONSTANTS MaxBuilds,   \* bound: training runs
          MaxLives,    \* bound: times the model service is started
          MaxLaunches, \* bound: times the gateway is started
          Environments \* the environments the operator may give the gateway

ASSUME StartupAssumption ==
  /\ MaxBuilds \in Nat \ {0} /\ MaxLives \in Nat \ {0} /\ MaxLaunches \in Nat \ {0}
  /\ \A e \in Environments : DOMAIN e = Settings

VARIABLES dir,       \* the builds of the files in the artifact directory, 0 for no file
          trainer,   \* the file train.py writes next
          builds,    \* training runs that wrote weights
          mixed,     \* history: a run broke off, or overlapped with the loading of the model
          model,     \* where the model service is
          loaded,    \* the builds of the weights and the cutoff it has loaded
          life,      \* how often it was started
          env,       \* the gateway's environment
          cfg,       \* what Load made of it
          gateway,   \* where the gateway is
          threshold, \* cfg.ConfidenceThreshold
          heard,     \* history: the life of the model service that answered, 0 for none
          launches   \* how often the gateway was started

trainVars == <<dir, trainer, builds, mixed>>
modelVars == <<model, loaded, life>>
gatewayVars == <<env, cfg, gateway, threshold, heard, launches>>
vars == <<trainVars, modelVars, gatewayVars>>

Default == Fallback.CONFIDENCE_THRESHOLD

setting == env["CONFIDENCE_THRESHOLD"]

Init == /\ dir = [weights |-> 0, tokenizer |-> 0, cutoff |-> 0]
        /\ trainer = "idle"
        /\ builds = 0
        /\ mixed = FALSE
        /\ model = "down"
        /\ loaded = [weights |-> 0, cutoff |-> Default]
        /\ life = 0
        /\ env \in Environments
        /\ cfg = Fallback
        /\ gateway = "down"
        /\ threshold = Default
        /\ heard = 0
        /\ launches = 0
-----------------------------------------------------------------------------
(* ml/train.py: save_model, save_pretrained, then, after the scan of the      *)
(* validation split, threshold.json.                                          *)

Training == trainer # "idle"

Loading == model \in {"verified", "weighed"}

(* The training run writes over file f with its own build. *)
Saves(f, next) == /\ dir' = [dir EXCEPT ![f] = builds']
                  /\ trainer' = next
                  /\ mixed' = (mixed \/ Loading)
                  /\ UNCHANGED <<modelVars, gatewayVars>>

SaveModel == /\ trainer = "idle" /\ builds < MaxBuilds
             /\ builds' = builds + 1
             /\ Saves("weights", "tokenizer")

SaveTokenizer == /\ trainer = "tokenizer"
                 /\ UNCHANGED builds
                 /\ Saves("tokenizer", "open")

(* Mutant of OpenThreshold: a threshold.json that is there is kept. *)
OpenThresholdKeeps == /\ trainer = "open"
                      /\ trainer' = IF dir.cutoff = 0 THEN "dump" ELSE "idle"
                      /\ mixed' = (mixed \/ Loading)
                      /\ UNCHANGED <<dir, builds, modelVars, gatewayVars>>

(* open(..., "w") empties threshold.json: until the dump it is unreadable.    *)
OpenThreshold == /\ trainer = "open"
                 /\ dir' = [dir EXCEPT !.cutoff = 0]
                 /\ trainer' = "dump"
                 /\ mixed' = (mixed \/ Loading)
                 /\ UNCHANGED <<builds, modelVars, gatewayVars>>

DumpThreshold == /\ trainer = "dump"
                 /\ UNCHANGED builds
                 /\ Saves("cutoff", "idle")

BreakOff == /\ Training
            /\ trainer' = "idle"
            /\ mixed' = TRUE
            /\ UNCHANGED <<dir, builds, modelVars, gatewayVars>>

Train == SaveModel \/ SaveTokenizer \/ OpenThreshold \/ DumpThreshold \/ BreakOff
-----------------------------------------------------------------------------
(* The model service.  Its container is started by the operator and is not    *)
(* restarted by compose.                                                      *)

ModelUp == /\ model \in {"down", "exited"} /\ life < MaxLives
           /\ model' = "starting"
           /\ life' = life + 1
           /\ UNCHANGED <<loaded, trainVars, gatewayVars>>

(* _verify_artifact: exit(1) unless the files it needs are there. *)
Verify == /\ model = "starting"
          /\ model' = IF dir.weights # 0 /\ dir.tokenizer # 0 THEN "verified" ELSE "exited"
          /\ UNCHANGED <<loaded, life, trainVars, gatewayVars>>

LoadWeights == /\ model = "verified"
               /\ loaded' = [loaded EXCEPT !.weights = dir.weights]
               /\ model' = "weighed"
               /\ mixed' = (mixed \/ Training)
               /\ UNCHANGED <<dir, trainer, builds, life, gatewayVars>>

(* _load_threshold; without a readable threshold.json, the default. *)
LoadThreshold == /\ model = "weighed"
                 /\ loaded' = [loaded EXCEPT !.cutoff = dir.cutoff]
                 /\ model' = "warming"
                 /\ mixed' = (mixed \/ Training)
                 /\ UNCHANGED <<dir, trainer, builds, life, gatewayVars>>

(* A warm-up that fails does not stop the service. *)
Warmup == /\ model = "warming"
          /\ model' = "serving"
          /\ UNCHANGED <<loaded, life, trainVars, gatewayVars>>

ModelDies == /\ model \notin {"down", "exited"}
             /\ model' = "exited"
             /\ UNCHANGED <<loaded, life, trainVars, gatewayVars>>

Model == ModelUp \/ Verify \/ LoadWeights \/ LoadThreshold \/ Warmup \/ ModelDies
-----------------------------------------------------------------------------
(* The gateway.  Compose starts it when the model container has been started, *)
(* whatever state that is in, and again whenever it ends.                     *)

Launch == /\ gateway = "down" /\ life > 0 /\ launches < MaxLaunches
          /\ gateway' = "config"
          /\ launches' = launches + 1
          /\ cfg' = Fallback
          /\ threshold' = Default
          /\ heard' = 0
          /\ UNCHANGED <<env, trainVars, modelVars>>

LoadConfig == /\ gateway = "config"
              /\ IF Refused(env)
                 THEN gateway' = "down" /\ UNCHANGED <<cfg, threshold>>
                 ELSE /\ gateway' = IF setting = Unset THEN "sourcing" ELSE "serving"
                      /\ cfg' = Loaded(env)
                      /\ threshold' = Loaded(env)["CONFIDENCE_THRESHOLD"]
              /\ UNCHANGED <<env, heard, launches, trainVars, modelVars>>

(* Mutant of Adopted: the gateway keeps its default. *)
AdoptedNot == threshold

Adopted == loaded.cutoff

HealthOk == /\ gateway = "sourcing" /\ model = "serving"
            /\ threshold' = Adopted
            /\ heard' = life
            /\ gateway' = "serving"
            /\ UNCHANGED <<env, cfg, launches, trainVars, modelVars>>

(* No answer within five seconds, an error status, or an answer of an older   *)
(* service without a threshold.                                               *)
HealthFails == /\ gateway = "sourcing"
               /\ gateway' = "serving"
               /\ UNCHANGED <<env, cfg, threshold, heard, launches, trainVars, modelVars>>

GatewayDies == /\ gateway \in {"sourcing", "serving"} /\ launches < MaxLaunches
               /\ gateway' = "down"
               /\ UNCHANGED <<env, cfg, threshold, heard, launches, trainVars, modelVars>>

Gateway == Launch \/ LoadConfig \/ HealthOk \/ HealthFails

Next == Train \/ Model \/ Gateway \/ GatewayDies

Spec == Init /\ [][Next]_vars
-----------------------------------------------------------------------------
(* A gateway serves at the operator's cutoff if there is one; else at the one *)
(* the model service advertises, for as long as the service that answered has *)
(* not been replaced; and at the default if none answered.                    *)
CutoffAsAdvertised ==
  gateway = "serving" =>
    IF setting = Override THEN threshold = Override
    ELSE /\ heard = 0 => threshold = Default
         /\ heard = life /\ model = "serving" => threshold = loaded.cutoff

(* The model service advertises the cutoff chosen for the weights it runs, or *)
(* the default, unless a training run broke off or overlapped with a load:    *)
(* nothing else can put a cutoff beside weights it was not chosen for.        *)
CutoffOfWeights ==
  model = "serving" /\ ~ mixed => loaded.cutoff \in {Default, loaded.weights}

(* "So the service never starts half-configured": a gateway that has come up  *)
(* has its secrets and sane settings, and every value the operator gave is    *)
(* the one in force, restarts or not.                                         *)
NeverHalfConfigured ==
  gateway \in {"sourcing", "serving"} =>
    /\ \A s \in Required : env[s] # Unset
    /\ \A s \in DOMAIN Valid : cfg[s] \in Valid[s] \union {Fallback[s]}
    /\ \A s \in DOMAIN cfg : env[s] \in {Unset, cfg[s]}

(* SC-006, "With no threshold override configured, the gateway's effective    *)
(* threshold equals the value advertised by the artifact".                    *)
EffectiveIsAdvertised ==
  gateway = "serving" /\ model = "serving" /\ setting = Unset => threshold = loaded.cutoff
=============================================================================
