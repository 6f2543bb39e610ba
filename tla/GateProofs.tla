----------------------------- MODULE GateProofs -----------------------------
(***************************************************************************)
(* Proofs about PeriodicGate in the hands of any owner: any period, any    *)
(* tolerance, any set of clock readings.                                   *)
(***************************************************************************)
EXTENDS GateOwner, TLAPS

\* What the gate answers and what its owner is told agree up to one tick, on
\* every gate and at every instant: nextDue() is never later than due(), never
\* more than one tick earlier, and its mirror image when the sum of last firing
\* and period is exact (periodic_gate.h:31-34).
THEOREM DeadlineIsDue ==
  ASSUME NEW g \in Gate, NEW now \in Nat, NEW period \in Nat
  PROVE  /\ due(g, now, period) => nextDue(g, now, period) <= now
         /\ nextDue(g, now, period) <= now /\ ~due(g, now, period)
              => due(g, now + 1, period)
         /\ RoundingShortfall = 0
              => (due(g, now, period) <=> nextDue(g, now, period) <= now)
  BY GateAssumption DEF due, nextDue, Restarts, Gate

\* A call leaves a gate that is not due at the same instant again: with an exact
\* sum an owner whose clock has stopped is told a later deadline.
THEOREM FiringIsNotRepeated ==
  ASSUME NEW g \in Gate, NEW now \in Nat, NEW period \in Nat \ {0}
  PROVE  /\ fire(g, now, period) \in Gate
         /\ ~due(fire(g, now, period), now, period)
         /\ RoundingShortfall = 0 => now < nextDue(fire(g, now, period), now, period)
  BY GateAssumption DEF fire, due, nextDue, Restarts, Gate

-----------------------------------------------------------------------------
\* The gate keeps its type and remembers only readings its clock has shown.
THEOREM GateTypeCorrect == Spec => []TypeOK
<1>1. Init => TypeOK
  BY OwnerAssumption DEF Init, TypeOK, FreshGate, Gate
<1>2. TypeOK /\ [Next]_vars => TypeOK'
  <2> SUFFICES ASSUME TypeOK, [Next]_vars PROVE TypeOK'
    OBVIOUS
  <2> USE OwnerAssumption DEF TypeOK, Gate
  <2>1. ASSUME NEW now \in Times, Call(now) PROVE TypeOK'
    <3>1. now \in Nat /\ clock \in Nat
      OBVIOUS
    <3>2. Forward(clock, now) \in Nat
      BY <3>1 DEF Forward
    <3>3. /\ clock' = now /\ travel' \in Nat /\ earned' \in Nat
      BY <2>1, <3>2 DEF Call
    <3>4. gate' \in Gate /\ (gate'.initialized => gate'.last_fire \in Times)
      BY <2>1, <3>1 DEF Call, fire
    <3> QED BY <3>3, <3>4
  <2>2. CASE Reenter
    BY <2>2 DEF Reenter, FreshGate
  <2>3. CASE UNCHANGED vars
    BY <2>3 DEF vars
  <2> QED BY <2>1, <2>2, <2>3 DEF Next
<1> QED BY <1>1, <1>2, PTL DEF Spec

\* The deadline an owner sleeps on is never late and at most one tick early, in
\* every state of every run.
THEOREM DeadlineIsTimely == Spec => [](DeadlineNeverLate /\ DeadlineAtMostOneTickEarly)
<1>1. TypeOK => DeadlineNeverLate /\ DeadlineAtMostOneTickEarly
  <2> SUFFICES ASSUME TypeOK, NEW now \in Times
               PROVE  /\ due(gate, now, Period) => nextDue(gate, now, Period) <= now
                      /\ nextDue(gate, now, Period) <= now /\ ~due(gate, now, Period)
                           => due(gate, now + 1, Period)
    BY DEF DeadlineNeverLate, DeadlineAtMostOneTickEarly
  <2> QED BY DeadlineIsDue, OwnerAssumption DEF TypeOK
<1> QED BY <1>1, GateTypeCorrect, PTL

-----------------------------------------------------------------------------
(* The rate limit.  The bound itself is not inductive: it says nothing of    *)
(* the part of a period the clock has travelled since the last firing.       *)

SinceFire == IF gate.initialized THEN Forward(gate.last_fire, clock) ELSE 0

PaidUpToNow == earned * Period + SinceFire <= travel

\* The price of the rounding, for every period and every shortfall below one: the
\* owner woken by the deadline finds the gate shut for at most one tick.
THEOREM DeadlineIsATickEarly == Spec => []DeadlineAtMostOneTickEarly
  BY DeadlineIsTimely, PTL

\* Every firing that is not a restart has been paid for with a whole period of
\* forward clock movement, whatever the clock did in between.
THEOREM RateLimit == Spec => []FiringsArePaidFor
<1> DEFINE Inv == TypeOK /\ PaidUpToNow
<1>1. Init => PaidUpToNow
  BY OwnerAssumption DEF Init, PaidUpToNow, SinceFire, FreshGate
<1>2. TypeOK /\ TypeOK' /\ PaidUpToNow /\ [Next]_vars => PaidUpToNow'
  <2> SUFFICES ASSUME TypeOK, TypeOK', PaidUpToNow, [Next]_vars PROVE PaidUpToNow'
    OBVIOUS
  <2> DEFINE paid == earned * Period
  <2>0. /\ Period \in Nat \ {0} /\ earned \in Nat /\ travel \in Nat /\ clock \in Nat
        /\ paid \in Nat /\ gate \in Gate
    BY OwnerAssumption DEF TypeOK
  <2>1. ASSUME NEW now \in Times, Call(now) PROVE PaidUpToNow'
    <3>1. now \in Nat /\ clock' = now /\ travel' = travel + Forward(clock, now)
      BY <2>1, OwnerAssumption DEF Call
    <3>2. CASE Restarts(gate, now)
      <4>1. earned' = earned /\ gate' = [initialized |-> TRUE, last_fire |-> now]
        BY <2>1, <3>2 DEF Call, fire, due
      <4>2. SinceFire' = 0
        BY <3>1, <4>1 DEF SinceFire, Forward
      <4>3. paid <= travel
        BY <2>0 DEF PaidUpToNow, SinceFire, Forward, Gate
      <4>4. paid + 0 <= travel'
        BY <2>0, <3>1, <4>3 DEF Forward
      <4> QED BY <4>1, <4>2, <4>4 DEF PaidUpToNow
    <3>3. CASE ~Restarts(gate, now) /\ due(gate, now, Period)
      <4>1. earned' = earned + 1 /\ gate' = [initialized |-> TRUE, last_fire |-> now]
        BY <2>1, <3>3 DEF Call, fire
      <4>2. SinceFire' = 0
        BY <3>1, <4>1 DEF SinceFire, Forward
      <4>3. (earned + 1) * Period = paid + Period
        BY <2>0
      <4>4. gate.initialized /\ now - gate.last_fire >= Period
        BY <3>3 DEF Restarts, due
      <4>5. paid + Period <= travel + Forward(clock, now)
        BY <2>0, <3>1, <4>4 DEF PaidUpToNow, SinceFire, Forward, Gate
      <4> QED BY <2>0, <3>1, <4>1, <4>2, <4>3, <4>5 DEF PaidUpToNow
    <3>4. CASE ~due(gate, now, Period)
      <4>1. earned' = earned /\ gate' = gate /\ gate.initialized
        BY <2>1, <3>4 DEF Call, fire, due, Restarts
      <4>2. paid + Forward(gate.last_fire, now) <= travel + Forward(clock, now)
        BY <2>0, <3>1, <4>1 DEF PaidUpToNow, SinceFire, Forward, Gate
      <4> QED BY <3>1, <4>1, <4>2 DEF PaidUpToNow, SinceFire
    <3> QED BY <3>2, <3>3, <3>4
  <2>2. CASE Reenter
    BY <2>0, <2>2 DEF Reenter, FreshGate, PaidUpToNow, SinceFire, Forward, Gate
  <2>3. CASE UNCHANGED vars
    BY <2>3 DEF vars, PaidUpToNow, SinceFire, Forward
  <2> QED BY <2>1, <2>2, <2>3 DEF Next
<1>3. TypeOK /\ PaidUpToNow => FiringsArePaidFor
  <2> SUFFICES ASSUME TypeOK, PaidUpToNow PROVE FiringsArePaidFor
    OBVIOUS
  <2>1. earned * Period \in Nat /\ travel \in Nat /\ SinceFire \in Nat
    BY OwnerAssumption DEF TypeOK, SinceFire, Forward, Gate
  <2> QED BY <2>1 DEF PaidUpToNow, FiringsArePaidFor
<1> QED BY <1>1, <1>2, <1>3, GateTypeCorrect, PTL DEF Spec
=============================================================================
