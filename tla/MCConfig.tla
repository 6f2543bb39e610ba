------------------------------ MODULE MCConfig ------------------------------
(* Parameters for ConfigNormalisation: the thrusts are tried together, the     *)
(* rates with every loop rate, and every other field alone.                    *)
EXTENDS ConfigNormalisation

SomeDefaults ==
  [f \in Numbers |->
     CASE f = "gravity" -> 9 [] f = "min_hover_thrust" -> 3
       [] f = "initial_hover_thrust" -> 4 [] f = "max_hover_thrust" -> 6
       [] f = "rho2" -> 7 [] f = "sample_timeout" -> 2
       [] f = "publish_rate_hz" -> 5 [] OTHER -> 1]

Defaults == [number |-> SomeDefaults, filter_enabled |-> TRUE]
With(f, v) == [Defaults EXCEPT !.number[f] = v]

Thrusts == {NotFinite, 0, 5, 9}
Rates == {NotFinite, 3, 7}
Others == {NotFinite, -1, 1, 9}

OtherNumbers == {"gravity", "rho2", "sample_timeout", "filter_cutoff_hz",
                 "input_rate_low_hz", "min_altitude"}

SomeConfigs ==
  {[Defaults EXCEPT !.number["min_hover_thrust"] = a,
                    !.number["max_hover_thrust"] = b,
                    !.number["initial_hover_thrust"] = c] : a, b, c \in Thrusts}
  \cup {[Defaults EXCEPT !.number["publish_rate_hz"] = a,
                          !.number["raw_update_rate_hz"] = b] : a, b \in Rates}
  \cup {With(f, v) : f \in OtherNumbers, v \in Others}

SomeLoopRates == {NotFinite, 2, 20}
=============================================================================
