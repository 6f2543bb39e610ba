------------------------------ MODULE GateOwner ------------------------------
(***************************************************************************)
(* A PeriodicGate in the hands of its owner.  A state's tick calls due()   *)
(* at whatever the clock reads, which may also have stepped back (a ROS    *)
(* clock under simulation does), and every entry of the state constructs   *)
(* the gate anew.  The last two variables are history: what the gate has   *)
(* let through, against what the clock has travelled.                      *)
(***************************************************************************)
EXTENDS PeriodicGate

CONSTANTS
  Period,    \* the period the gate is asked for
  Times,     \* the clock's readings
  MaxTravel  \* bound: how far forward the clock travels in all

ASSUME OwnerAssumption ==
  /\ Period \in Nat \ {0}
  /\ Times \subseteq Nat
  /\ MaxTravel \in Nat

VARIABLES
  gate,      \* the gate
  clock,     \* the clock's latest reading
  earned,    \* firings of a gate neither new nor ahead of a regressed clock
  travel     \* the sum of the clock's forward steps

vars == <<gate, clock, earned, travel>>

Init ==
  /\ gate = FreshGate
  /\ clock \in Times
  /\ earned = 0
  /\ travel = 0

Forward(from, to) == IF to > from THEN to - from ELSE 0

\* The state ticks with the clock at `now`.
Call(now) ==
  /\ travel + Forward(clock, now) <= MaxTravel
  /\ clock' = now
  /\ travel' = travel + Forward(clock, now)
  /\ gate' = fire(gate, now, Period)
  /\ earned' = IF due(gate, now, Period) /\ ~Restarts(gate, now)
                 THEN earned + 1 ELSE earned

\* The state is left and entered again.  (Bound: not with a gate that is new.)
Reenter ==
  /\ gate.initialized
  /\ gate' = FreshGate
  /\ UNCHANGED <<clock, earned, travel>>

Next == (\E now \in Times : Call(now)) \/ Reenter

Spec == Init /\ [][Next]_vars

-----------------------------------------------------------------------------
(* Properties *)

\* The gate keeps its shape, the histories count, and the gate remembers
\* a reading the clock has shown.
TypeOK ==
  /\ gate \in Gate
  /\ clock \in Times
  /\ {earned, travel} \subseteq Nat
  /\ gate.initialized => gate.last_fire \in Times

\* An owner asleep until nextDue() is never late: whenever due() would answer
\* true the deadline has come, also after a clock regression and however the
\* deadline was rounded.
DeadlineNeverLate ==
  \A now \in Times : due(gate, now, Period) => nextDue(gate, now, Period) <= now

\* The deadline may come before due() answers true, and then by one tick of the
\* clock: one tick later the gate fires.  A stopped clock never shows that tick.
DeadlineAtMostOneTickEarly ==
  \A now \in Times :
    nextDue(gate, now, Period) <= now /\ ~due(gate, now, Period)
      => due(gate, now + 1, Period)

\* The rate limit, over any history: apart from one firing per construction of
\* the gate and per regression of the clock, a firing costs a whole period of
\* forward clock movement; stepping back within the tolerance, however often,
\* never buys one.
FiringsArePaidFor == earned * Period <= travel
=============================================================================
