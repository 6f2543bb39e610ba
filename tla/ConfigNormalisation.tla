------------------------ MODULE ConfigNormalisation ------------------------
(***************************************************************************)
(* How parameters become the configuration that the parts run with:        *)
(* config_utils.h, and the three places that keep a copy.  The node        *)
(* normalises what it loads and bounds the rates by the loop's; the        *)
(* runtime normalises what it is given; its estimator and its output model *)
(* check their copies once more.  Doubles are integers on a grid whose     *)
(* unit is the 1e-6 of estimator_limits, or NotFinite; rates and times     *)
(* have grids of their own.                                                *)
(***************************************************************************)
EXTENDS Integers

CONSTANTS
  NotFinite,    \* NaN and the infinities
  Default,      \* the fields' defaults: config_utils::kDefault...
  DefaultLoopRate, MaxLoopRate,  \* kDefaultLoopRateHz, kMaxLoopRateHz
  One,          \* kMaximumNormalizedThrust, and the largest forgetting factor
  Configs,      \* the configurations somebody passes
  LoopRates     \* the values of loop_rate

Numbers == {"gravity", "min_hover_thrust", "max_hover_thrust", "initial_hover_thrust",
            "rho2", "min_altitude", "sample_timeout", "filter_cutoff_hz",
            "input_rate_low_hz", "publish_rate_hz", "raw_update_rate_hz"}
Double == Int \cup {NotFinite}
Config == [number : [Numbers -> Double], filter_enabled : BOOLEAN]
Tiny == 1

ASSUME ConfigAssumption ==
  /\ NotFinite \notin Int
  /\ Default \in [Numbers -> Nat]
  /\ \A f \in Numbers \ {"filter_cutoff_hz"} : Default[f] > 0
  /\ One \in Nat
  /\ Default["rho2"] <= One
  /\ {DefaultLoopRate, MaxLoopRate} \subseteq Nat \ {0}
  /\ Default["publish_rate_hz"] <= DefaultLoopRate
  /\ Default["raw_update_rate_hz"] <= DefaultLoopRate
  /\ DefaultLoopRate <= MaxLoopRate
  /\ Configs \subseteq Config
  /\ LoopRates \subseteq Double

VARIABLES
  loop_rate,  \* loop_rate_ of the node
  loaded,     \* estimator_config_ of the node
  config,     \* config_ of the runtime
  estimator,  \* config_, gravity_ and hover_thrust_estimate_ of the estimator
  output      \* config_ and hover_thrust_ of the output model

vars == <<loop_rate, loaded, config, estimator, output>>

-----------------------------------------------------------------------------
(* config_utils.h *)

isfinite(v) == v # NotFinite
finitePositive(v) == isfinite(v) /\ v > 0
finiteOrDefault(v, fallback) == IF isfinite(v) THEN v ELSE fallback
clamp(v, lo, hi) == IF v < lo THEN lo ELSE IF v > hi THEN hi ELSE v
Smaller(a, b) == IF isfinite(a) /\ b < a THEN b ELSE a

\* Mutant: the tests forget that no comparison with a NaN is true.
Sensible_comparesOnly(f, v) ==
  CASE f \in {"gravity", "sample_timeout", "publish_rate_hz", "raw_update_rate_hz"} ->
         isfinite(v) => v > 0
    [] f = "rho2" -> isfinite(v) => v > 0 /\ v <= One
    [] OTHER -> TRUE

\* The fields that are replaced by their default when they make no sense.
Sensible(f, v) ==
  CASE f \in {"gravity", "sample_timeout", "publish_rate_hz", "raw_update_rate_hz"} ->
         finitePositive(v)
    [] f = "rho2" -> finitePositive(v) /\ v <= One
    [] f = "min_altitude" -> isfinite(v)
    [] f = "input_rate_low_hz" -> isfinite(v) /\ v >= 0
    [] OTHER -> TRUE

LowerLimit(c) ==
  clamp(finiteOrDefault(c.number["min_hover_thrust"], Default["min_hover_thrust"]), 0, One)
UpperLimit(c) ==
  clamp(finiteOrDefault(c.number["max_hover_thrust"], Default["max_hover_thrust"]),
        LowerLimit(c), One)

\* Mutant: what replaces a value is trusted to lie within the limits.
InitialThrust_unclamped(c) ==
  LET x == c.number["initial_hover_thrust"] IN
  IF isfinite(x) THEN clamp(x, LowerLimit(c), UpperLimit(c))
                 ELSE Default["initial_hover_thrust"]

InitialThrust(c) ==
  clamp(finiteOrDefault(c.number["initial_hover_thrust"], Default["initial_hover_thrust"]),
        LowerLimit(c), UpperLimit(c))

normalizeConfig(c) ==
  LET v(f) == c.number[f]
      filtered == finitePositive(v("filter_cutoff_hz"))
  IN [number |-> [f \in Numbers |->
        CASE f = "min_hover_thrust" -> LowerLimit(c)
          [] f = "max_hover_thrust" -> UpperLimit(c)
          [] f = "initial_hover_thrust" -> InitialThrust(c)
          [] f = "filter_cutoff_hz" -> IF filtered THEN v(f) ELSE 0
          [] OTHER -> IF Sensible(f, v(f)) THEN v(f) ELSE Default[f]],
      filter_enabled |-> c.filter_enabled /\ filtered]

loopRate(rate) == Smaller(IF finitePositive(rate) THEN rate ELSE DefaultLoopRate, MaxLoopRate)

Bounded(c, rate) ==
  [c EXCEPT !.number = [f \in Numbers |->
     IF f \in {"publish_rate_hz", "raw_update_rate_hz"} THEN Smaller(@[f], rate)
                                                       ELSE @[f]]]

\* Mutant: the rates are bounded first and normalised then.
normalizeRates_boundsFirst(c, rate) ==
  normalizeConfig(Bounded(c, rate))

\* normalizeLoopAndEstimatorRates, the loop's rate being normalised already.
normalizeRates(c, rate) == Bounded(normalizeConfig(c), rate)

-----------------------------------------------------------------------------
(* The copies *)

\* HoverThrustEstimator::setConfig and reset; the runtime leaves the estimator's
\* own filter off.
ConfiguredEstimator(rho2, min, max, gravity, initial) ==
  LET lower == clamp(min, 0, One)
      upper == clamp(max, lower, One)
  IN [rho2 |-> IF finitePositive(rho2) /\ rho2 <= One THEN rho2 ELSE Default["rho2"],
      min_hover_thrust |-> lower, max_hover_thrust |-> upper,
      gravity |-> IF isfinite(gravity) /\ gravity > Tiny THEN gravity
                                                         ELSE Default["gravity"],
      estimate |-> clamp(initial, lower, upper)]

resetEstimator(c) ==
  ConfiguredEstimator(c.number["rho2"], c.number["min_hover_thrust"],
                      c.number["max_hover_thrust"], c.number["gravity"],
                      c.number["initial_hover_thrust"])

\* HoverThrustOutputModel::reset.
resetOutput(c) ==
  LET own == normalizeConfig(c)
  IN [config |-> own, hover_thrust |-> own.number["initial_hover_thrust"]]

\* Mutant: the limits of the estimator are still those of the configuration before.
setConfig_keepsEstimator(c) ==
  /\ config' = normalizeConfig(c)
  /\ estimator' = [resetEstimator(config') EXCEPT
                     !.max_hover_thrust = estimator.max_hover_thrust]
  /\ output' = resetOutput(config')

\* HoverThrustEstimatorRuntime::setConfig and the part of its reset() that hands
\* the configuration on.
setConfig(c) ==
  /\ config' = normalizeConfig(c)
  /\ estimator' = resetEstimator(config')
  /\ output' = resetOutput(config')

\* The runtime is constructed with the defaults, normalised.
Init ==
  LET defaults == normalizeConfig([number |-> Default, filter_enabled |-> TRUE]) IN
  /\ loop_rate = DefaultLoopRate
  /\ loaded = defaults
  /\ config = defaults
  /\ estimator = resetEstimator(defaults)
  /\ output = resetOutput(defaults)

\* The node loads its parameters and configures the runtime with them.
Load ==
  \E c \in Configs, rate \in LoopRates :
    /\ loop_rate' = loopRate(rate)
    /\ loaded' = normalizeRates(c, loop_rate')
    /\ setConfig(loaded')

\* Whoever uses the runtime without the node configures it at any time.
Reconfigure ==
  \E c \in Configs : setConfig(c) /\ UNCHANGED <<loop_rate, loaded>>

Next == Load \/ Reconfigure

Spec == Init /\ [][Next]_vars

-----------------------------------------------------------------------------
(* Properties *)

Estimator == [rho2 : Nat, min_hover_thrust : Nat, max_hover_thrust : Nat,
              gravity : Nat, estimate : Nat]

\* No NaN and no infinity gets past the normalisation, in any copy.
TypeOK ==
  /\ loop_rate \in Nat
  /\ \A c \in {loaded, config, output.config} :
       c.number \in [Numbers -> Int] /\ c.filter_enabled \in BOOLEAN
  /\ estimator \in Estimator
  /\ output.hover_thrust \in Nat

\* What every part relies on: ordered thrust limits around the initial thrust,
\* positive rates and timeout, a forgetting factor of at most one, and a filter
\* only with a cutoff.
UsableConfig(c) ==
  LET v(f) == c.number[f] IN
  /\ 0 <= v("min_hover_thrust")
  /\ v("min_hover_thrust") <= v("initial_hover_thrust")
  /\ v("initial_hover_thrust") <= v("max_hover_thrust")
  /\ v("max_hover_thrust") <= One
  /\ \A f \in {"gravity", "sample_timeout", "publish_rate_hz", "raw_update_rate_hz",
                "rho2"} : v(f) > 0
  /\ v("rho2") <= One
  /\ v("input_rate_low_hz") >= 0
  /\ v("filter_cutoff_hz") >= 0
  /\ c.filter_enabled => v("filter_cutoff_hz") > 0

ConfigIsUsable == UsableConfig(loaded) /\ UsableConfig(config)

\* The parts never work with different limits, whatever they are configured with
\* and however often: every check downstream leaves a normalised configuration as
\* it is, and both the estimator and the output start at its initial thrust.
CopiesAgree ==
  /\ output.config = config
  /\ output.hover_thrust = config.number["initial_hover_thrust"]
  /\ estimator.estimate = config.number["initial_hover_thrust"]
  /\ \A f \in {"rho2", "min_hover_thrust", "max_hover_thrust"} :
       estimator[f] = config.number[f]
  /\ config.number["gravity"] > Tiny => estimator.gravity = config.number["gravity"]

\* The node's rates are within its loop rate, and the runtime gets them as they
\* are: its own normalisation does not put a default back that is beyond it.
RatesAreBounded ==
  /\ 0 < loop_rate /\ loop_rate <= MaxLoopRate
  /\ \A f \in {"publish_rate_hz", "raw_update_rate_hz"} : loaded.number[f] <= loop_rate
  /\ normalizeConfig(loaded) = loaded
=============================================================================
