-------------------------- MODULE EstimatorContract --------------------------
(***************************************************************************)
(* What the estimator promises to those who read its output, whatever the  *)
(* samples, the clocks and the least squares do: an account of the one     *)
(* estimate, the target and the filtered thrust, and of the snapshot that  *)
(* a turn of the owner leaves.  Samples, health, gates, marks and the      *)
(* parts that keep copies of the estimate do not occur.                    *)
(*                                                                         *)
(* Written from HoverThrustEstimatorRuntime::update, onEnterState and      *)
(* tickState, and refined by HoverThrustRuntime (HoverThrustRefinement).   *)
(***************************************************************************)
EXTENDS Integers

CONSTANTS
  Thrusts,   \* the hover thrusts within the configured limits
  Initial    \* the configured initial hover thrust

VARIABLES
  state,     \* the state of the machine
  raw,       \* the latest estimate accepted, at first the initial thrust
  stamp,     \* its source stamp; 0 stands for none
  target,    \* where the output is driven
  thrust,    \* the output
  snapshot   \* what the latest turn returned and kept

contract_vars == <<state, raw, stamp, target, thrust, snapshot>>

InputFaults ==
  {"ImuMissing", "ThrustMissing", "AltitudeMissing",
   "ImuStale", "ThrustStale", "AltitudeStale",
   "ImuInvalid", "ThrustInvalid", "AltitudeInvalid",
   "InputRateLow", "TimeJump"}

\* The flags a turn may show with a state: SelfCheck always says why.  No turn
\* shows RawEstimateStale: Airborne ticks on ready health only.
Explains(flagged) ==
  CASE state = "SelfCheck" -> flagged # {} /\ flagged \subseteq InputFaults
    [] state = "Ground"    -> flagged = {"BelowMinAltitude"}
    [] state = "Airborne"  -> flagged \subseteq {"EstimatorRejected"}

Snapshot(flagged, used) ==
  [state |-> state', flags |-> flagged, hover_thrust |-> thrust',
   raw_hover_thrust |-> raw', sample_used |-> used, last_estimate_stamp |-> stamp']

Restarted ==
  [state |-> "SelfCheck", flags |-> {}, hover_thrust |-> Initial,
   raw_hover_thrust |-> Initial, sample_used |-> FALSE, last_estimate_stamp |-> 0]

Init ==
  /\ state = "SelfCheck"
  /\ raw = Initial
  /\ stamp = 0
  /\ target = Initial
  /\ thrust = Initial
  /\ snapshot = Restarted

\* reset() forgets everything.
Restart ==
  /\ state' = "SelfCheck"
  /\ raw' = Initial
  /\ stamp' = 0
  /\ target' = Initial
  /\ thrust' = Initial
  /\ snapshot' = Restarted

\* A change of health moves the state at any time; only the way into SelfCheck
\* moves the target, and nobody sees either before the turn ends.
Enter(to) ==
  /\ to # state
  /\ state' = to
  /\ target' = IF to = "SelfCheck" THEN Initial ELSE target
  /\ UNCHANGED <<raw, stamp, thrust, snapshot>>

\* The output moves toward the target and not past it.
Drive ==
  /\ thrust' \in Thrusts
  /\ \/ thrust <= thrust' /\ thrust' <= target'
     \/ target' <= thrust' /\ thrust' <= thrust
     \/ thrust' = thrust

\* A turn ends without a new estimate ...
Hold ==
  /\ UNCHANGED <<state, raw, stamp, target>>
  /\ Drive
  /\ snapshot' = Snapshot(snapshot'.flags, FALSE)
  /\ Explains(snapshot'.flags)

\* ... or, while Airborne, with one from a sample newer than all before it.
Accept ==
  /\ state = "Airborne"
  /\ UNCHANGED state
  /\ raw' \in Thrusts
  /\ stamp = 0 \/ stamp < stamp'
  /\ target' = raw'
  /\ Drive
  /\ snapshot' = Snapshot({}, TRUE)

Next ==
  \/ Restart
  \/ \E to \in {"SelfCheck", "Ground", "Airborne"} : Enter(to)
  \/ Hold
  \/ Accept

Spec == Init /\ [][Next]_contract_vars
=============================================================================
