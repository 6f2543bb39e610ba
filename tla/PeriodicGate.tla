---------------------------- MODULE PeriodicGate ----------------------------
(***************************************************************************)
(* PeriodicGate of common/periodic_gate.h: the rate limiter of every       *)
(* publication and of every RLS update, and the read-only projection of    *)
(* its next firing that the ROS owner loop sleeps on.                      *)
(*                                                                         *)
(* A tick is one unit in the last place of the clock, or any whole number  *)
(* of them.  due() subtracts two nearby doubles, which is exact: a period  *)
(* of `period` ticks is the least whole number of ticks at which the       *)
(* subtraction reaches it.  nextDue() adds the period to the last firing   *)
(* and the sum is rounded to the nearest double; when the true period is   *)
(* not a whole number of ticks, that falls on `period` or one tick short.  *)
(* RoundingShortfall says which.                                           *)
(***************************************************************************)
EXTENDS Integers

CONSTANTS
  RegressTolerance,    \* the 0.05 s a clock may step back unnoticed
  RoundingShortfall    \* ticks by which last_fire + period rounds short

ASSUME GateAssumption ==
  /\ RegressTolerance \in Nat
  /\ RoundingShortfall \in {0, 1}

Gate == [initialized : BOOLEAN, last_fire : Nat]

FreshGate == [initialized |-> FALSE, last_fire |-> 0]

Restarts(gate, now) ==
  ~gate.initialized \/ now + RegressTolerance < gate.last_fire

\* Mutant: the comparison excludes the instant exactly one period later.
due_strict(gate, now, period) ==
  Restarts(gate, now) \/ now - gate.last_fire > period

\* What due(now, period) answers ...
due(gate, now, period) ==
  Restarts(gate, now) \/ now - gate.last_fire >= period

\* Mutants: a firing one period on does not record its time; a firing records
\* the start of its period.
fire_keepsLastFire(gate, now, period) ==
  IF Restarts(gate, now) THEN [initialized |-> TRUE, last_fire |-> now] ELSE gate
fire_backdated(gate, now, period) ==
  IF due(gate, now, period)
    THEN [initialized |-> TRUE, last_fire |-> now - period]
    ELSE gate

\* ... and the gate it leaves behind.
fire(gate, now, period) ==
  IF due(gate, now, period)
    THEN [initialized |-> TRUE, last_fire |-> now]
    ELSE gate

\* Mutant: the projection knows nothing of a clock that stepped back.
nextDue_ignoresRegression(gate, now, period) ==
  IF ~gate.initialized THEN now ELSE gate.last_fire + period - RoundingShortfall

nextDue(gate, now, period) ==
  IF Restarts(gate, now) THEN now
                         ELSE gate.last_fire + period - RoundingShortfall
=============================================================================
