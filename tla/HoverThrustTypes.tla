--------------------------- MODULE HoverThrustTypes ---------------------------
(***************************************************************************)
(* The data the estimator's parts exchange (common/types.h,                *)
(* common/event_types.h) and the configuration they share, after           *)
(* config_utils::normalizeConfig.  Time is counted in whole ticks of an    *)
(* unspecified length; every stamp, clock reading and period is a number   *)
(* of ticks.  A hover thrust is an integer, a sample value a member of     *)
(* Values: which of the tests made on it the value passes.                 *)
(***************************************************************************)
EXTENDS Integers, FiniteSets

CONSTANTS
  MinHoverThrust,       \* config.min_hover_thrust
  MaxHoverThrust,       \* config.max_hover_thrust
  InitialHoverThrust,   \* config.initial_hover_thrust
  FilterEnabled,        \* config.filter_enabled
  SampleTimeout,        \* config.sample_timeout
  LowRatePeriod,        \* 1 / config.input_rate_low_hz: a longer gap is a low rate
  PublishPeriod,        \* 1 / config.publish_rate_hz
  RawPeriod,            \* 1 / config.raw_update_rate_hz
  FutureTolerance,      \* how far a stamp may lie ahead of the clock
  BackwardTolerance     \* how far a stamp may lie behind its predecessor

\* What normalizeConfig leaves of the thrust limits.
ASSUME ThrustLimits ==
  /\ {MinHoverThrust, MaxHoverThrust, InitialHoverThrust} \subseteq Int
  /\ MinHoverThrust <= InitialHoverThrust
  /\ InitialHoverThrust <= MaxHoverThrust
  /\ FilterEnabled \in BOOLEAN

\* Every period and timeout is positive after normalizeConfig.
ASSUME Periods ==
  {SampleTimeout, LowRatePeriod, PublishPeriod, RawPeriod} \subseteq Nat \ {0}

ASSUME Tolerances == {FutureTolerance, BackwardTolerance} \subseteq Nat

-----------------------------------------------------------------------------
Topics == {"imu_acc_z", "normalized_thrust", "altitude"}

\* "low" is an altitude below min_altitude, or a thrust of at most 1e-6;
\* "excess" is a thrust above 1.0.
Values == {"usable", "low", "excess", "nonfinite"}

Sample == [value : Values, stamp : Nat, period : Int, received : BOOLEAN]

NoSample ==
  [value |-> "nonfinite", stamp |-> 0, period |-> 0, received |-> FALSE]

Input == [samples : [Topics -> Sample],
          thrust_ignored : BOOLEAN, batch_time_jump : BOOLEAN]

NoInput == [samples |-> [t \in Topics |-> NoSample],
            thrust_ignored |-> TRUE, batch_time_jump |-> FALSE]

-----------------------------------------------------------------------------
MissingFlag == [imu_acc_z |-> "ImuMissing",
                normalized_thrust |-> "ThrustMissing",
                altitude |-> "AltitudeMissing"]
StaleFlag == [imu_acc_z |-> "ImuStale",
              normalized_thrust |-> "ThrustStale",
              altitude |-> "AltitudeStale"]
InvalidFlag == [imu_acc_z |-> "ImuInvalid",
                normalized_thrust |-> "ThrustInvalid",
                altitude |-> "AltitudeInvalid"]

Flags == {"ImuMissing", "ThrustMissing", "AltitudeMissing",
          "ImuStale", "ThrustStale", "AltitudeStale",
          "ImuInvalid", "ThrustInvalid", "AltitudeInvalid",
          "BelowMinAltitude", "EstimatorRejected", "InputRateLow",
          "TimeJump", "RawEstimateStale"}

Conditions == {"InputUnhealthy", "BelowMinAltitude", "EstimationReady"}

HealthStatus == [condition : Conditions, flags : SUBSET Flags,
                 ready : BOOLEAN, source_stamp : Nat]

NoHealth == [condition |-> "InputUnhealthy", flags |-> {},
             ready |-> FALSE, source_stamp |-> 0]

States == {"SelfCheck", "Ground", "Airborne"}

Clamp(x) == IF x < MinHoverThrust THEN MinHoverThrust
            ELSE IF x > MaxHoverThrust THEN MaxHoverThrust ELSE x

HoverThrusts == MinHoverThrust .. MaxHoverThrust
=============================================================================
