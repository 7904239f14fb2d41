----------------------------- MODULE StartupProofs -----------------------------
(* Theorems about the way of the cutoff, for any number of training runs,     *)
(* starts of the model service and launches of the gateway.                   *)
EXTENDS Startup, TLAPS

Files == [weights : Nat, tokenizer : Nat, cutoff : Nat]

Typed == /\ dir \in Files
         /\ builds \in Nat
         /\ mixed \in BOOLEAN
         /\ loaded \in [weights : Nat, cutoff : Nat]
         /\ life \in Nat

(* Until training is cut or overlaps with loading: the directory's cutoff is  *)
(* of its weights when no run is on, and so is what is loaded from it.        *)
CutoffsMatch ==
  /\ Training => dir.weights = builds
  /\ trainer = "dump" => dir.cutoff = 0
  /\ ~ mixed => /\ ~ Training => dir.cutoff \in {0, dir.weights}
                /\ model = "weighed" => ~ Training /\ loaded.weights = dir.weights
                /\ model \in {"warming", "serving"} => loaded.cutoff \in {0, loaded.weights}

(* What the gateway heard it heard from a service that had loaded its         *)
(* artifact, and within one life that service never loads another.            *)
GatewayHeard ==
  /\ model # "down" => life > 0
  /\ heard \in 0 .. life
  /\ gateway \in {"config", "sourcing"} => threshold = Default /\ heard = 0
  /\ gateway = "sourcing" => setting # Override
  /\ gateway = "serving" /\ setting = Override => threshold = Override
  /\ gateway = "serving" /\ setting # Override =>
       /\ heard = 0 => threshold = Default
       /\ heard = life /\ heard # 0 =>
            model \in {"serving", "exited"} /\ (model = "serving" => threshold = loaded.cutoff)

IInv == Typed /\ CutoffsMatch /\ GatewayHeard

(* The built-in cutoff is written 0.                                          *)
LEMMA DefaultIsZero == Default = 0
  BY DEF Default, Fallback

(* What Load lets through: the operator's cutoff if there is one, else the    *)
(* default (config.go:57-67).                                                 *)
LEMMA LoadedCutoff ==
  ASSUME ~ Refused(env)
  PROVE  /\ setting \in {Override, Unset} /\ Override # Unset
         /\ Loaded(env)["CONFIDENCE_THRESHOLD"] = IF setting = Unset THEN Default ELSE setting
<1>1. "CONFIDENCE_THRESHOLD" \in DOMAIN Valid /\ Valid["CONFIDENCE_THRESHOLD"] = {Override}
  BY DEF Valid
<1>2. "CONFIDENCE_THRESHOLD" \in DOMAIN Fallback
  BY DEF Fallback
<1>3. Fallback["CONFIDENCE_THRESHOLD"] = Default
  BY DEF Fallback, Default
<1> QED
  BY <1>1, <1>2, <1>3, ConfigAssumption DEF Refused, Loaded, setting

(* The initial state satisfies the invariant.                                 *)
LEMMA InitIInv == Init => IInv
<1> SUFFICES ASSUME Init PROVE IInv
  OBVIOUS
<1>1. Typed
  BY DefaultIsZero DEF Init, Typed, Files
<1>2. CutoffsMatch
  BY DEF Init, CutoffsMatch, Training
<1>3. GatewayHeard
  BY DEF Init, GatewayHeard, Default
<1> QED
  BY <1>1, <1>2, <1>3 DEF IInv

(* A step of training changes files, and nothing the gateway looks at.        *)
LEMMA TrainIInv ==
  ASSUME IInv, Train
  PROVE  IInv'
<1> USE DEF IInv, Typed, Files, Train, SaveModel, SaveTokenizer, OpenThreshold, DumpThreshold,
            BreakOff, Saves
<1>1. Typed' /\ UNCHANGED <<modelVars, gatewayVars>>
  <2>1. UNCHANGED <<modelVars, gatewayVars>> /\ builds' \in Nat
    OBVIOUS
  <2>2. mixed' \in BOOLEAN
    BY DEF Loading
  <2>3. dir' \in Files
    <3>1. \/ dir' = [dir EXCEPT !.weights = builds']
          \/ dir' = [dir EXCEPT !.tokenizer = builds']
          \/ dir' = [dir EXCEPT !.cutoff = builds']
          \/ dir' = [dir EXCEPT !.cutoff = 0]
          \/ dir' = dir
      OBVIOUS
    <3> QED
      BY <2>1, <3>1
  <2> QED
    BY <2>1, <2>2, <2>3 DEF modelVars
<1>2. CutoffsMatch'
  <2>1. CASE SaveModel
    BY <2>1 DEF CutoffsMatch, Training, Loading, modelVars
  <2>2. CASE SaveTokenizer
    BY <2>2 DEF CutoffsMatch, Training, Loading, modelVars
  <2>3. CASE OpenThreshold
    BY <2>3 DEF CutoffsMatch, Training, Loading, modelVars
  <2>4. CASE DumpThreshold
    BY <2>4 DEF CutoffsMatch, Training, Loading, modelVars
  <2>5. CASE BreakOff
    BY <2>5 DEF CutoffsMatch, Training
  <2> QED
    BY <2>1, <2>2, <2>3, <2>4, <2>5
<1>3. GatewayHeard'
  BY <1>1 DEF GatewayHeard, modelVars, gatewayVars, setting
<1> QED
  BY <1>1, <1>2, <1>3

(* A step of the model service: what it loads, it loads from a matching       *)
(* directory, and it loads nothing after it was heard.                        *)
LEMMA ModelIInv ==
  ASSUME IInv, Model
  PROVE  IInv'
<1> USE DEF IInv, Model, ModelUp, Verify, LoadWeights, LoadThreshold, Warmup, ModelDies
<1>1. Typed'
  <2>1. dir' = dir /\ builds' = builds /\ life' \in Nat
    BY DEF Typed, trainVars
  <2>2. mixed' \in BOOLEAN
    BY DEF Typed, Training, trainVars
  <2>3. loaded' \in [weights : Nat, cutoff : Nat]
    <3>1. \/ loaded' = loaded
          \/ loaded' = [loaded EXCEPT !.weights = dir.weights]
          \/ loaded' = [loaded EXCEPT !.cutoff = dir.cutoff]
      OBVIOUS
    <3> QED
      BY <3>1 DEF Typed, Files
  <2> QED
    BY <2>1, <2>2, <2>3 DEF Typed
<1>2. CutoffsMatch'
  BY DEF Typed, Files, CutoffsMatch, Training, trainVars
<1>3. GatewayHeard'
  BY DEF Typed, GatewayHeard, gatewayVars, setting
<1> QED
  BY <1>1, <1>2, <1>3

(* A step of the gateway.                                                     *)
LEMMA GatewayIInv ==
  ASSUME IInv, Gateway \/ GatewayDies
  PROVE  IInv'
<1> USE DEF IInv, Gateway, Launch, LoadConfig, HealthOk, HealthFails, GatewayDies
<1>1. UNCHANGED <<trainVars, modelVars, env>>
  OBVIOUS
<1>2. Typed' /\ CutoffsMatch'
  BY <1>1 DEF Typed, CutoffsMatch, Training, trainVars, modelVars
<1>3. GatewayHeard'
  <2>1. CASE LoadConfig
    BY <2>1, <1>1, LoadedCutoff DEF Typed, GatewayHeard, modelVars, setting
  <2> QED
    BY <2>1, <1>1 DEF Typed, GatewayHeard, Adopted, modelVars, setting
<1> QED
  BY <1>2, <1>3

(* The invariant holds in every reachable state.                              *)
THEOREM StartupInvariant == Spec => []IInv
<1>1. Init => IInv
  BY InitIInv
<1>2. IInv /\ [Next]_vars => IInv'
  <2> SUFFICES ASSUME IInv, [Next]_vars PROVE IInv'
    OBVIOUS
  <2>1. CASE UNCHANGED vars
    BY <2>1 DEF vars, trainVars, modelVars, gatewayVars, IInv, Typed, CutoffsMatch, Training,
                GatewayHeard, setting
  <2> QED
    BY <2>1, TrainIInv, ModelIInv, GatewayIInv DEF Next
<1> QED
  BY <1>1, <1>2, PTL DEF Spec

(* The gateway serves at the operator's cutoff, or the one the model service  *)
(* advertises until that is replaced, or the default (main.go:76-85).         *)
THEOREM StartupCutoffAsAdvertised == Spec => []CutoffAsAdvertised
<1>1. IInv => CutoffAsAdvertised
  BY DEF IInv, Typed, GatewayHeard, CutoffAsAdvertised
<1> QED
  BY <1>1, StartupInvariant, PTL

(* The model service advertises the cutoff of its own weights, or the         *)
(* default, unless training was cut or overlapped with a load                 *)
(* (train.py:127-151, inference.py:70-102).                                   *)
THEOREM StartupCutoffOfWeights == Spec => []CutoffOfWeights
<1>1. IInv => CutoffOfWeights
  BY DefaultIsZero DEF IInv, CutoffsMatch, CutoffOfWeights
<1> QED
  BY <1>1, StartupInvariant, PTL

(* A gateway past its configuration holds what Load made of an environment    *)
(* that Load lets through.                                                    *)
GatewayConfigured ==
  gateway \in {"sourcing", "serving"} => ~ Refused(env) /\ cfg = Loaded(env)

LEMMA ConfiguredInvariant == Spec => []GatewayConfigured
<1>1. Init => GatewayConfigured
  BY DEF Init, GatewayConfigured
<1>2. GatewayConfigured /\ [Next]_vars => GatewayConfigured'
  <2> SUFFICES ASSUME GatewayConfigured, [Next]_vars PROVE GatewayConfigured'
    OBVIOUS
  <2> USE DEF GatewayConfigured
  <2>1. CASE Train \/ Model \/ UNCHANGED vars
    <3>1. UNCHANGED gatewayVars
      BY <2>1 DEF Train, SaveModel, SaveTokenizer, OpenThreshold, DumpThreshold, BreakOff, Saves,
                  Model, ModelUp, Verify, LoadWeights, LoadThreshold, Warmup, ModelDies, vars
    <3> QED
      BY <3>1 DEF gatewayVars
  <2>2. CASE Gateway \/ GatewayDies
    BY <2>2 DEF Gateway, Launch, LoadConfig, HealthOk, HealthFails, GatewayDies
  <2> QED
    BY <2>1, <2>2 DEF Next
<1> QED
  BY <1>1, <1>2, PTL DEF Spec

(* "So the service never starts half-configured" (config.go:29-30): the       *)
(* secrets are there, the settings sane and the operator's in force.          *)
THEOREM StartupNeverHalfConfigured == Spec => []NeverHalfConfigured
<1>1. DOMAIN Loaded(env) = DOMAIN Fallback
  BY DEF Loaded
<1>2. DOMAIN Valid \subseteq DOMAIN Fallback
  BY DEF Valid, Fallback
<1>3. GatewayConfigured => NeverHalfConfigured
  BY <1>1, <1>2 DEF GatewayConfigured, NeverHalfConfigured, Refused, Loaded
<1> QED
  BY <1>3, ConfiguredInvariant, PTL
=============================================================================
