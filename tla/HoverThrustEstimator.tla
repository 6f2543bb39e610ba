------------------------ MODULE HoverThrustEstimator ------------------------
(***************************************************************************)
(* HoverThrustEstimator of hover_thrust_estimator.h, with its own filter   *)
(* disabled as the runtime configures it, so that estimate() is            *)
(* rawEstimate().  The recursive least squares is opaque: whether it       *)
(* accepts a measurement and which hover thrust gravity / parameter then   *)
(* is are the caller's choice of an outcome.                               *)
(***************************************************************************)
EXTENDS HealthChecks

CONSTANT Candidates   \* the hover thrusts gravity / parameter may come to

ASSUME CandidatesAssumption == Candidates \subseteq Int /\ Candidates # {}

Estimator == [raw : HoverThrusts, last_time : Nat, valid : BOOLEAN]

FreshEstimator ==
  [raw |-> Clamp(InitialHoverThrust), last_time |-> 0, valid |-> FALSE]

\* accepted: the RLS took the measurement and its parameter is above 1e-6.
RlsOutcomes == [accepted : BOOLEAN, hover_thrust : Candidates]

\* Mutant: a stamp that was already accepted passes.
admits_equalStamp(estimator, input) ==
  LET thrust == input.samples["normalized_thrust"] IN
  /\ finite(input.samples["imu_acc_z"])
  /\ thrust.value = "usable"
  /\ estimator.last_time > 0 => thrust.stamp >= estimator.last_time

\* update()'s guards on the pair it is given and on its stamp.  A stamp of 0
\* in last_time means "none yet".
admits(estimator, input) ==
  LET thrust == input.samples["normalized_thrust"] IN
  /\ finite(input.samples["imu_acc_z"])
  /\ thrust.value = "usable"
  /\ estimator.last_time > 0 => thrust.stamp > estimator.last_time

\* Mutants: the estimate is not clamped to the limits; a candidate parameter
\* is kept although the least squares rejected it.
Train_unclamped(estimator, input, rls) ==
  IF admits(estimator, input) /\ rls.accepted
    THEN [raw |-> rls.hover_thrust,
          last_time |-> input.samples["normalized_thrust"].stamp, valid |-> TRUE]
    ELSE estimator
Train_keepsRejected(estimator, input, rls) ==
  IF admits(estimator, input)
    THEN [raw |-> Clamp(rls.hover_thrust), valid |-> rls.accepted,
          last_time |-> input.samples["normalized_thrust"].stamp]
    ELSE estimator

Train(estimator, input, rls) ==
  IF admits(estimator, input) /\ rls.accepted
    THEN [raw |-> Clamp(rls.hover_thrust),
          last_time |-> input.samples["normalized_thrust"].stamp,
          valid |-> TRUE]
    ELSE estimator
=============================================================================
