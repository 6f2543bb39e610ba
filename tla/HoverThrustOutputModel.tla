----------------------- MODULE HoverThrustOutputModel -----------------------
(***************************************************************************)
(* HoverThrustOutputModel of hover_thrust_output_model.h: the target the   *)
(* published hover thrust is filtered toward.  How far one step of the     *)
(* exponential filter (xgc2_math) goes is left open: anywhere between the  *)
(* last output and the target, the last output after no time at all, and   *)
(* the target itself when the filter is disabled.                          *)
(***************************************************************************)
EXTENDS HoverThrustTypes

OutputModel == [target : HoverThrusts, hover_thrust : HoverThrusts,
                raw : HoverThrusts, last_update : Nat]

FreshOutputModel ==
  [target |-> InitialHoverThrust, hover_thrust |-> InitialHoverThrust,
   raw |-> InitialHoverThrust, last_update |-> 0]

setTarget(model, x) == [model EXCEPT !.target = Clamp(x)]
setRaw(model, x) == [model EXCEPT !.raw = Clamp(x)]
freezeTarget(model) == setTarget(model, model.target)

\* A last_update of 0 means "none yet": the first step is as long as the clock
\* reads.  The code's own test for a clock that stepped back by more than 0.05 s
\* gives 0 like the max(0, ...) below it.
outputDeltaTime(model, now) ==
  IF model.last_update = 0 THEN now
  ELSE IF now < model.last_update THEN 0 ELSE now - model.last_update

Between(a, b) == {x \in HoverThrusts : (a <= x /\ x <= b) \/ (b <= x /\ x <= a)}

filter(model, dt) ==
  IF ~FilterEnabled THEN {model.target}
  ELSE IF dt = 0 THEN {model.hover_thrust}
  ELSE Between(model.hover_thrust, model.target)

\* The models driveTowardTarget(now) may leave.
driveTowardTarget(model, now) ==
  {[model EXCEPT !.hover_thrust = x, !.last_update = now] :
     x \in filter(model, outputDeltaTime(model, now))}
=============================================================================
