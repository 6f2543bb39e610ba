---------------------------- MODULE ConfigProofs ----------------------------
(***************************************************************************)
(* Proofs about ConfigNormalisation: normalizeConfig makes any             *)
(* configuration usable and leaves a usable one alone, so however often a  *)
(* configuration is checked on its way, all copies agree.                  *)
(***************************************************************************)
EXTENDS ConfigNormalisation, TLAPS

\* A configuration without NaN or infinity that every part can rely on.
Normal(c) ==
  /\ c \in [number : [Numbers -> Int], filter_enabled : BOOLEAN]
  /\ UsableConfig(c)

\* The limits come out ordered, whatever goes in.
LEMMA LimitsOrdered ==
  ASSUME NEW c \in Config
  PROVE  /\ LowerLimit(c) \in Int /\ UpperLimit(c) \in Int /\ InitialThrust(c) \in Int
         /\ 0 <= LowerLimit(c) /\ LowerLimit(c) <= InitialThrust(c)
         /\ InitialThrust(c) <= UpperLimit(c) /\ UpperLimit(c) <= One
<1> DEFINE n == c.number
<1>1. /\ n["min_hover_thrust"] \in Double
      /\ n["max_hover_thrust"] \in Double
      /\ n["initial_hover_thrust"] \in Double
  BY DEF Config, Numbers
<1>2. /\ finiteOrDefault(n["min_hover_thrust"], Default["min_hover_thrust"]) \in Int
      /\ finiteOrDefault(n["max_hover_thrust"], Default["max_hover_thrust"]) \in Int
      /\ finiteOrDefault(n["initial_hover_thrust"], Default["initial_hover_thrust"]) \in Int
  <2>1. /\ Default["min_hover_thrust"] \in Int
        /\ Default["max_hover_thrust"] \in Int
        /\ Default["initial_hover_thrust"] \in Int
    BY ConfigAssumption DEF ConfigAssumption, Numbers
  <2> QED BY <1>1, <2>1 DEF finiteOrDefault, isfinite, Double
<1>3. One \in Nat
  BY ConfigAssumption DEF ConfigAssumption
<1>4. LowerLimit(c) \in Int /\ 0 <= LowerLimit(c) /\ LowerLimit(c) <= One
  <2> HIDE DEF n
  <2> QED BY <1>2, <1>3 DEF LowerLimit, clamp, n
<1>5. /\ UpperLimit(c) \in Int
      /\ LowerLimit(c) <= UpperLimit(c) /\ UpperLimit(c) <= One
  BY <1>2, <1>3, <1>4 DEF UpperLimit, clamp
<1> QED
  BY <1>2, <1>4, <1>5 DEF InitialThrust, clamp

\* A field that is not a limit comes out sensible and finite.
LEMMA FieldsSensible ==
  ASSUME NEW c \in Config,
         NEW f \in {"gravity", "sample_timeout", "publish_rate_hz",
                    "raw_update_rate_hz", "rho2", "min_altitude", "input_rate_low_hz"}
  PROVE  /\ normalizeConfig(c).number[f] \in Int
         /\ f \notin {"min_altitude", "input_rate_low_hz"}
              => normalizeConfig(c).number[f] > 0
         /\ f = "input_rate_low_hz" => normalizeConfig(c).number[f] >= 0
         /\ f = "rho2" => normalizeConfig(c).number[f] <= One
<1> DEFINE v == c.number[f]
<1>1. f \in Numbers /\ v \in Double
  BY DEF Config, Numbers
<1>2. normalizeConfig(c).number[f] = IF Sensible(f, v) THEN v ELSE Default[f]
  BY <1>1 DEF normalizeConfig
<1>3. Default[f] \in Int /\ Default[f] > 0 /\ Default["rho2"] <= One
  BY <1>1, ConfigAssumption DEF ConfigAssumption
<1>4. CASE Sensible(f, v)
  <2>1. v \in Int
    BY <1>1, <1>4 DEF Sensible, finitePositive, isfinite, Double
  <2> QED BY <1>2, <1>4, <2>1 DEF Sensible, finitePositive
<1>5. CASE ~Sensible(f, v)
  BY <1>2, <1>3, <1>5
<1> QED
  BY <1>4, <1>5

\* Whatever is normalised is usable.
LEMMA NormalisationIsUsable ==
  ASSUME NEW c \in Config
  PROVE  Normal(normalizeConfig(c))
<1> DEFINE d == normalizeConfig(c)
           cutoff == c.number["filter_cutoff_hz"]
<1>1. /\ d.number["min_hover_thrust"] = LowerLimit(c)
      /\ d.number["max_hover_thrust"] = UpperLimit(c)
      /\ d.number["initial_hover_thrust"] = InitialThrust(c)
      /\ d.number["filter_cutoff_hz"] = IF finitePositive(cutoff) THEN cutoff ELSE 0
      /\ d.filter_enabled = (c.filter_enabled /\ finitePositive(cutoff))
  BY DEF normalizeConfig, Numbers
<1>2. cutoff \in Double /\ c.filter_enabled \in BOOLEAN
  BY DEF Config, Numbers
<1>3. /\ d.number["filter_cutoff_hz"] \in Int /\ d.number["filter_cutoff_hz"] >= 0
      /\ d.filter_enabled \in BOOLEAN
      /\ d.filter_enabled => d.number["filter_cutoff_hz"] > 0
  <2> HIDE DEF d, cutoff
  <2>1. CASE finitePositive(cutoff)
    <3>1. cutoff \in Int /\ cutoff > 0
      BY <1>2, <2>1 DEF finitePositive, isfinite, Double
    <3> QED BY <1>1, <1>2, <2>1, <3>1
  <2>2. CASE ~finitePositive(cutoff)
    <3>1. d.filter_enabled = FALSE
      BY <1>1, <2>2, Zenon
    <3>2. d.number["filter_cutoff_hz"] \in Int /\ d.number["filter_cutoff_hz"] >= 0
      <4>1. d.number["filter_cutoff_hz"] = 0
        BY <1>1, <2>2, Zenon
      <4> QED BY <4>1
    <3>3. /\ d.filter_enabled \in BOOLEAN
          /\ d.filter_enabled => d.number["filter_cutoff_hz"] > 0
      BY <3>1, Zenon
    <3> QED BY <3>2, <3>3, Zenon
  <2> QED BY <2>1, <2>2
<1>4. \A f \in Numbers : d.number[f] \in Int
  <2> TAKE f \in Numbers
  <2>1. CASE f \in {"min_hover_thrust", "max_hover_thrust", "initial_hover_thrust",
                    "filter_cutoff_hz"}
    BY <1>1, <1>3, <2>1, LimitsOrdered
  <2>2. CASE f \notin {"min_hover_thrust", "max_hover_thrust", "initial_hover_thrust",
                       "filter_cutoff_hz"}
    BY <2>2, FieldsSensible DEF Numbers
  <2> QED BY <2>1, <2>2
<1>5. d \in [number : [Numbers -> Int], filter_enabled : BOOLEAN]
  <2>1. d = [number |-> d.number, filter_enabled |-> d.filter_enabled]
    BY DEF normalizeConfig
  <2>2. d.number = [f \in Numbers |-> d.number[f]]
    BY DEF normalizeConfig
  <2> QED BY <1>3, <1>4, <2>1, <2>2
<1>6. UsableConfig(d)
  <2> HIDE DEF d
  <2>1. /\ 0 <= d.number["min_hover_thrust"]
        /\ d.number["min_hover_thrust"] <= d.number["initial_hover_thrust"]
        /\ d.number["initial_hover_thrust"] <= d.number["max_hover_thrust"]
        /\ d.number["max_hover_thrust"] <= One
    BY <1>1, LimitsOrdered
  <2>2. /\ \A f \in {"gravity", "sample_timeout", "publish_rate_hz",
                     "raw_update_rate_hz", "rho2"} : d.number[f] > 0
        /\ d.number["rho2"] <= One
        /\ d.number["input_rate_low_hz"] >= 0
    BY FieldsSensible DEF d
  <2> QED BY <1>3, <2>1, <2>2 DEF UsableConfig
<1> QED
  BY <1>5, <1>6 DEF Normal

\* What is usable is left as it is.
LEMMA UsableIsKept ==
  ASSUME NEW c, Normal(c)
  PROVE  normalizeConfig(c) = c
<1> DEFINE v(f) == c.number[f]
<1>1. \A f \in Numbers : v(f) \in Int /\ isfinite(v(f))
  BY ConfigAssumption DEF Normal, ConfigAssumption, isfinite
<1>2. One \in Nat
  BY ConfigAssumption DEF ConfigAssumption
<1>3. /\ LowerLimit(c) = v("min_hover_thrust")
      /\ UpperLimit(c) = v("max_hover_thrust")
      /\ InitialThrust(c) = v("initial_hover_thrust")
  <2>1. /\ v("min_hover_thrust") \in Int /\ isfinite(v("min_hover_thrust"))
        /\ v("max_hover_thrust") \in Int /\ isfinite(v("max_hover_thrust"))
        /\ v("initial_hover_thrust") \in Int /\ isfinite(v("initial_hover_thrust"))
    BY <1>1 DEF Numbers
  <2>2. /\ 0 <= v("min_hover_thrust")
        /\ v("min_hover_thrust") <= v("initial_hover_thrust")
        /\ v("initial_hover_thrust") <= v("max_hover_thrust")
        /\ v("max_hover_thrust") <= One
    BY DEF Normal, UsableConfig
  <2>3. LowerLimit(c) = v("min_hover_thrust")
    BY <1>2, <2>1, <2>2 DEF LowerLimit, finiteOrDefault, clamp
  <2>4. UpperLimit(c) = v("max_hover_thrust")
    BY <1>2, <2>1, <2>2, <2>3 DEF UpperLimit, finiteOrDefault, clamp
  <2> QED BY <2>1, <2>2, <2>3, <2>4 DEF InitialThrust, finiteOrDefault, clamp
<1>4. normalizeConfig(c).number = c.number
  <2>1. \A f \in Numbers : normalizeConfig(c).number[f] = v(f)
    <3> TAKE f \in Numbers
    <3>1. CASE f \in {"min_hover_thrust", "max_hover_thrust", "initial_hover_thrust"}
      BY <1>3, <3>1 DEF normalizeConfig
    <3>2. CASE f = "filter_cutoff_hz"
      <4>1. normalizeConfig(c).number[f] = IF finitePositive(v(f)) THEN v(f) ELSE 0
        BY <3>2 DEF normalizeConfig
      <4>2. v(f) >= 0
        BY <3>2 DEF Normal, UsableConfig
      <4> QED BY <1>1, <4>1, <4>2 DEF finitePositive
    <3>3. CASE f \notin {"min_hover_thrust", "max_hover_thrust",
                         "initial_hover_thrust", "filter_cutoff_hz"}
      <4>1. normalizeConfig(c).number[f] = IF Sensible(f, v(f)) THEN v(f) ELSE Default[f]
        BY <3>3 DEF normalizeConfig
      <4>2. Sensible(f, v(f))
        BY <1>1, <3>3 DEF Sensible, finitePositive, Normal, UsableConfig
      <4> QED BY <4>1, <4>2
    <3> QED BY <3>1, <3>2, <3>3
  <2> QED BY <2>1 DEF normalizeConfig, Normal
<1>5. normalizeConfig(c).filter_enabled = c.filter_enabled
  <2>1. isfinite(v("filter_cutoff_hz"))
    BY <1>1 DEF Numbers
  <2> QED BY <2>1 DEF normalizeConfig, finitePositive, Normal, UsableConfig
<1>6. c = [number |-> c.number, filter_enabled |-> c.filter_enabled]
  BY DEF Normal
<1>7. normalizeConfig(c) = [number |-> normalizeConfig(c).number,
                            filter_enabled |-> normalizeConfig(c).filter_enabled]
  BY DEF normalizeConfig
<1> QED
  BY <1>4, <1>5, <1>6, <1>7

\* Bounding the rates by a positive rate keeps a configuration usable.
LEMMA BoundingKeeps ==
  ASSUME NEW c, Normal(c), NEW rate \in Nat \ {0}
  PROVE  /\ Normal(Bounded(c, rate))
         /\ \A f \in {"publish_rate_hz", "raw_update_rate_hz"} :
              Bounded(c, rate).number[f] <= rate
<1> DEFINE d == Bounded(c, rate)
           rates == {"publish_rate_hz", "raw_update_rate_hz"}
<1>1. d = [number |-> d.number, filter_enabled |-> c.filter_enabled]
  BY DEF Bounded, Normal
<1>2. \A f \in Numbers : d.number[f] = IF f \in rates THEN Smaller(c.number[f], rate)
                                                    ELSE c.number[f]
  BY DEF Bounded, Normal, Numbers
<1>3. d.number = [f \in Numbers |-> d.number[f]]
  BY DEF Bounded, Normal
<1>4. \A f \in rates : /\ d.number[f] \in Int
                       /\ 0 < d.number[f] /\ d.number[f] <= rate
  <2> TAKE f \in rates
  <2>1. c.number[f] \in Int /\ c.number[f] > 0
    BY DEF Normal, UsableConfig, Numbers
  <2>2. d.number[f] = Smaller(c.number[f], rate)
    BY <1>2 DEF Numbers
  <2>3. isfinite(c.number[f])
    BY <2>1, ConfigAssumption DEF ConfigAssumption, isfinite
  <2> HIDE DEF d
  <2> QED BY <2>1, <2>2, <2>3 DEF Smaller
<1>5. \A f \in Numbers : d.number[f] \in Int
  BY <1>2, <1>4 DEF Normal
<1>6. d \in [number : [Numbers -> Int], filter_enabled : BOOLEAN]
  BY <1>1, <1>3, <1>5 DEF Normal
<1>7. UsableConfig(d)
  <2>1. \A f \in Numbers \ rates : d.number[f] = c.number[f]
    BY <1>2
  <2>2. d.filter_enabled = c.filter_enabled
    BY <1>1
  <2> HIDE DEF d
  <2> QED BY <1>4, <2>1, <2>2 DEF Normal, UsableConfig, Numbers
<1> QED
  BY <1>4, <1>6, <1>7 DEF Normal

\* The loop's rate is positive and bounded.
LEMMA LoopRateBounded ==
  ASSUME NEW rate \in LoopRates
  PROVE  loopRate(rate) \in Nat \ {0} /\ loopRate(rate) <= MaxLoopRate
<1>1. rate \in Double /\ NotFinite \notin Int
      /\ {DefaultLoopRate, MaxLoopRate} \subseteq Nat \ {0}
  BY ConfigAssumption DEF ConfigAssumption
<1> QED
  BY <1>1 DEF loopRate, finitePositive, isfinite, Smaller, Double

-----------------------------------------------------------------------------
(* The copies *)

\* What the runtime's parts hold after it was given a usable configuration.
InStep(c, e, o) ==
  /\ o.config = c
  /\ o.hover_thrust = c.number["initial_hover_thrust"]
  /\ e = [rho2 |-> c.number["rho2"],
          min_hover_thrust |-> c.number["min_hover_thrust"],
          max_hover_thrust |-> c.number["max_hover_thrust"],
          gravity |-> IF c.number["gravity"] > Tiny THEN c.number["gravity"]
                                                    ELSE Default["gravity"],
          estimate |-> c.number["initial_hover_thrust"]]

\* The checks of the estimator and of the output model leave a usable
\* configuration as it is.
LEMMA PartsInStep ==
  ASSUME NEW c, Normal(c)
  PROVE  InStep(c, resetEstimator(c), resetOutput(c))
<1> DEFINE v(f) == c.number[f]
<1>1. /\ v("rho2") \in Int /\ v("min_hover_thrust") \in Int
      /\ v("max_hover_thrust") \in Int /\ v("gravity") \in Int
      /\ v("initial_hover_thrust") \in Int
  BY DEF Normal, Numbers
<1>2. isfinite(v("rho2")) /\ isfinite(v("gravity"))
  BY <1>1, ConfigAssumption DEF ConfigAssumption, isfinite
<1>3. /\ 0 <= v("min_hover_thrust")
      /\ v("min_hover_thrust") <= v("initial_hover_thrust")
      /\ v("initial_hover_thrust") <= v("max_hover_thrust")
      /\ v("max_hover_thrust") <= One
      /\ v("rho2") > 0 /\ v("rho2") <= One
  BY DEF Normal, UsableConfig
<1>4. One \in Nat
  BY ConfigAssumption DEF ConfigAssumption
<1>5. /\ clamp(v("min_hover_thrust"), 0, One) = v("min_hover_thrust")
      /\ clamp(v("max_hover_thrust"), v("min_hover_thrust"), One) = v("max_hover_thrust")
      /\ clamp(v("initial_hover_thrust"), v("min_hover_thrust"), v("max_hover_thrust"))
           = v("initial_hover_thrust")
  BY <1>1, <1>3, <1>4 DEF clamp
<1>6. resetEstimator(c) =
        [rho2 |-> v("rho2"), min_hover_thrust |-> v("min_hover_thrust"),
         max_hover_thrust |-> v("max_hover_thrust"),
         gravity |-> IF v("gravity") > Tiny THEN v("gravity") ELSE Default["gravity"],
         estimate |-> v("initial_hover_thrust")]
  BY <1>2, <1>3, <1>5 DEF resetEstimator, ConfiguredEstimator, finitePositive
<1>7. resetOutput(c) = [config |-> c, hover_thrust |-> v("initial_hover_thrust")]
  BY UsableIsKept DEF resetOutput
<1> QED
  BY <1>6, <1>7 DEF InStep

\* The inductive invariant: the copies are in step, and the node's own one is
\* normalised and within the loop's rate.
Inv ==
  /\ Normal(loaded) /\ Normal(config)
  /\ InStep(config, estimator, output)
  /\ loop_rate \in Nat \ {0} /\ loop_rate <= MaxLoopRate
  /\ \A f \in {"publish_rate_hz", "raw_update_rate_hz"} : loaded.number[f] <= loop_rate

\* Configuring the runtime puts the parts in step.
LEMMA ConfigureInStep ==
  ASSUME NEW c \in Config, setConfig(c)
  PROVE  Normal(config') /\ InStep(config', estimator', output')
<1>1. Normal(config')
  BY NormalisationIsUsable DEF setConfig
<1>2. InStep(config', resetEstimator(config'), resetOutput(config'))
  BY <1>1, PartsInStep
<1> QED
  BY <1>1, <1>2 DEF setConfig

\* A normalised configuration is one.
LEMMA NormalIsConfig ==
  ASSUME NEW c, Normal(c)
  PROVE  c \in Config
BY DEF Normal, Config, Double

\* The invariant holds throughout.
LEMMA ConfigInvariant == Spec => []Inv
<1>1. ASSUME Init PROVE Inv
  <2> DEFINE c == [number |-> Default, filter_enabled |-> TRUE]
  <2>1. c \in Config
    BY ConfigAssumption DEF ConfigAssumption, Config, Double
  <2>2. Normal(loaded) /\ loaded = normalizeConfig(c) /\ config = loaded
    BY <1>1, <2>1, NormalisationIsUsable DEF Init
  <2>3. InStep(config, estimator, output)
    BY <1>1, <2>2, PartsInStep DEF Init
  <2>4. \A f \in {"publish_rate_hz", "raw_update_rate_hz"} :
          loaded.number[f] <= loop_rate
    <3> TAKE f \in {"publish_rate_hz", "raw_update_rate_hz"}
    <3>1. loaded.number[f] = Default[f]
      BY <2>2 DEF normalizeConfig, Numbers
    <3> QED BY <1>1, <3>1, ConfigAssumption DEF ConfigAssumption, Init
  <2>5. loop_rate \in Nat \ {0} /\ loop_rate <= MaxLoopRate
    BY <1>1, ConfigAssumption DEF ConfigAssumption, Init
  <2> QED BY <2>2, <2>3, <2>4, <2>5 DEF Inv
<1>2. ASSUME Inv, [Next]_vars PROVE Inv'
  <2>1. CASE Load
    <3>1. PICK c \in Configs, rate \in LoopRates :
            /\ loop_rate' = loopRate(rate)
            /\ loaded' = normalizeRates(c, loop_rate')
            /\ setConfig(loaded')
      BY <2>1 DEF Load
    <3>2. loop_rate' \in Nat \ {0} /\ loop_rate' <= MaxLoopRate
      BY <3>1, LoopRateBounded
    <3>3. Normal(normalizeConfig(c))
      BY NormalisationIsUsable, ConfigAssumption DEF ConfigAssumption
    <3>4. /\ Normal(loaded')
          /\ \A f \in {"publish_rate_hz", "raw_update_rate_hz"} :
               loaded'.number[f] <= loop_rate'
      BY <3>1, <3>2, <3>3, BoundingKeeps DEF normalizeRates
    <3>5. Normal(config') /\ InStep(config', estimator', output')
      BY <3>1, <3>4, NormalIsConfig, ConfigureInStep
    <3> QED BY <3>2, <3>4, <3>5 DEF Inv
  <2>2. CASE Reconfigure
    <3>1. PICK c \in Configs : setConfig(c) /\ UNCHANGED <<loop_rate, loaded>>
      BY <2>2 DEF Reconfigure
    <3>2. Normal(config') /\ InStep(config', estimator', output')
      BY <3>1, ConfigureInStep, ConfigAssumption DEF ConfigAssumption
    <3> QED BY <1>2, <3>1, <3>2 DEF Inv
  <2>3. CASE UNCHANGED vars
    BY <1>2, <2>3 DEF Inv, vars
  <2> QED BY <1>2, <2>1, <2>2, <2>3 DEF Next
<1> QED
  BY <1>1, <1>2, PTL DEF Spec

\* No NaN and no infinity reaches any of the copies (normalizeConfig,
\* config_utils.h:31).
THEOREM ConfigIsFinite == Spec => []TypeOK
<1>1. ASSUME Inv PROVE TypeOK
  <2> DEFINE v(f) == config.number[f]
  <2>1. \A c \in {loaded, config, output.config} :
          c.number \in [Numbers -> Int] /\ c.filter_enabled \in BOOLEAN
    BY <1>1 DEF Inv, InStep, Normal
  <2>2. /\ v("rho2") \in Nat /\ v("min_hover_thrust") \in Nat
        /\ v("max_hover_thrust") \in Nat /\ v("initial_hover_thrust") \in Nat
        /\ v("gravity") \in Nat
    <3>1. \A f \in Numbers : v(f) \in Int
      BY <1>1 DEF Inv, Normal
    <3>2. /\ 0 <= v("min_hover_thrust")
          /\ v("min_hover_thrust") <= v("initial_hover_thrust")
          /\ v("initial_hover_thrust") <= v("max_hover_thrust")
          /\ v("rho2") > 0 /\ v("gravity") > 0
      BY <1>1 DEF Inv, Normal, UsableConfig
    <3> QED BY <3>1, <3>2 DEF Numbers
  <2>3. Default["gravity"] \in Nat
    BY ConfigAssumption DEF ConfigAssumption, Numbers
  <2>4. estimator \in Estimator /\ output.hover_thrust \in Nat
    BY <1>1, <2>2, <2>3 DEF Inv, InStep, Estimator
  <2> QED BY <1>1, <2>1, <2>4 DEF Inv, TypeOK
<1> QED
  BY <1>1, ConfigInvariant, PTL

\* Whatever parameters are loaded and however often the runtime is configured,
\* node and runtime work with usable configurations, as HoverThrustTypes assumes
\* of them (normalizeConfig, config_utils.h:31).
THEOREM ConfigStaysUsable == Spec => []ConfigIsUsable
<1>1. Inv => ConfigIsUsable
  BY DEF Inv, Normal, ConfigIsUsable
<1> QED
  BY <1>1, ConfigInvariant, PTL

\* The runtime, its estimator and its output model agree on the limits, and start
\* at the same thrust (HoverThrustEstimatorRuntime::reset).
THEOREM PartsShareTheLimits == Spec => []CopiesAgree
<1>1. Inv => CopiesAgree
  BY DEF Inv, InStep, CopiesAgree
<1> QED
  BY <1>1, ConfigInvariant, PTL

\* The rates the node bounds by its loop rate stay so in the runtime
\* (normalizeLoopAndEstimatorRates, config_utils.h:67).
THEOREM RatesStayBounded == Spec => []RatesAreBounded
<1>1. Inv => RatesAreBounded
  BY UsableIsKept DEF Inv, RatesAreBounded
<1> QED
  BY <1>1, ConfigInvariant, PTL
=============================================================================
