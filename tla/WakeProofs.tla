----------------------------- MODULE WakeProofs -----------------------------
(***************************************************************************)
(* Proofs about what a turn of HoverThrustRuntime leaves behind, under any *)
(* owner: an output that is current, gates that are not due again, and a   *)
(* wake that misses nothing and lies ahead.                                *)
(***************************************************************************)
EXTENDS RuntimeProofs, WellFoundedInduction

-----------------------------------------------------------------------------
(* Deadlines *)

\* The minimum nextWake() takes is the least of its deadlines.
LEMMA MinIsLeast ==
  ASSUME NEW S \in SUBSET Nat, S # {}
  PROVE  Min(S) \in S /\ \A y \in S : Min(S) <= y
<1>1. PICK x \in S : \A y \in S : ~(<<y, x>> \in OpToRel(<, Nat))
  BY WFMin, NatLessThanWellFounded, Zenon
<1>2. ASSUME NEW y \in S PROVE x <= y
  <2>1. x \in Nat /\ y \in Nat
    OBVIOUS
  <2>2. ~(y < x)
    BY <1>1, <2>1 DEF OpToRel
  <2> QED BY <2>1, <2>2
<1> QED BY <1>2 DEF Min

\* A gate that is not due at some instant is not due before its nextDue().
LEMMA NotDueBefore ==
  ASSUME NEW g \in Gate, NEW period \in Nat \ {0}, NEW now \in Nat, NEW t \in Nat,
         ~due(g, now, period), now <= t, t < nextDue(g, now, period)
  PROVE  ~due(g, t, period)
  BY GateAssumption DEF due, nextDue, Restarts, Gate

\* A firing leaves a gate that is not due at the same instant.
LEMMA FiredIsNotDue ==
  ASSUME NEW g \in Gate, NEW period \in Nat \ {0}, NEW now \in Nat
  PROVE  ~due(fire(g, now, period), now, period)
  BY GateAssumption DEF fire, due, Restarts, Gate

\* The deadline of a gate that is not due is ahead if the sum of last firing and
\* period is exact, and never further than a period and the tolerance.
LEMMA NextDueRange ==
  ASSUME NEW g \in Gate, NEW period \in Nat \ {0}, NEW now \in Nat
  PROVE  /\ nextDue(g, now, period) \in Nat
         /\ nextDue(g, now, period) <= now + RegressTolerance + period
         /\ ~due(g, now, period) => now < nextDue(g, now, period) + RoundingShortfall
         /\ due(g, now, period) => nextDue(g, now, period) <= now
  BY GateAssumption DEF due, nextDue, Restarts, Gate

\* The deadlines that nextWake() takes the minimum of.
WakeSet(now) == GateDeadlines(now)
                  \cup {edge \in TimeoutEdges : edge > now}
                  \cup IF pending = <<>> THEN {} ELSE {now}

\* nextWake() is one of the deadlines, and none is before it.
LEMMA WakeIsLeast ==
  ASSUME TypeOK, NEW now \in Nat
  PROVE  /\ WakeSet(now) \subseteq Nat
         /\ nextWake(now) \in WakeSet(now)
         /\ \A y \in WakeSet(now) : nextWake(now) <= y
<1>1. machine.publish_gate \in Gate /\ machine.raw_update_gate \in Gate
  BY DEF TypeOK, Machine
<1>2. PublishPeriod \in Nat \ {0} /\ RawPeriod \in Nat \ {0} /\ SampleTimeout \in Nat
  BY Periods
<1>3. GateDeadlines(now) \subseteq Nat /\ GateDeadlines(now) # {}
  BY <1>1, <1>2, NextDueRange DEF GateDeadlines
<1>4. TimeoutEdges \subseteq Nat
  BY <1>2 DEF TimeoutEdges, TypeOK, Input, Sample
<1>5. WakeSet(now) \subseteq Nat /\ WakeSet(now) # {}
  BY <1>3, <1>4 DEF WakeSet
<1>6. nextWake(now) = Min(WakeSet(now))
  BY DEF nextWake, WakeSet
<1> QED BY <1>5, <1>6, MinIsLeast

-----------------------------------------------------------------------------
(* Health as the clock moves on *)

\* The clock moves a condition only by making a sample stale: where no received
\* sample times out in between and none is ahead of the clock, it stays.
LEMMA ConditionHolds ==
  ASSUME NEW i \in Input, NEW now \in Nat, NEW t \in Nat, now <= t,
         "TimeJump" \notin classify(i, now).flags,
         \A u \in Topics : i.samples[u].received /\ sampleStale(t, i.samples[u])
                             => sampleStale(now, i.samples[u])
  PROVE  classify(i, t) = classify(i, now)
<1>1. \A u \in Topics : i.samples[u].stamp \in Nat
  BY DEF Input, Sample
<1>2. SampleTimeout \in Nat /\ FutureTolerance \in Nat
  BY Periods, Tolerances
<1>3. CASE MissingFlags(i) # {}
  BY <1>3 DEF classify
<1>4. CASE MissingFlags(i) = {}
  <2>1. \A u \in Topics : i.samples[u].received
    BY <1>4 DEF MissingFlags
  <2>2. ~TimeJumped(i, now)
    BY <1>4 DEF classify, unhealthy, NoHealth
  <2>3. ~TimeJumped(i, t)
    BY <1>1, <1>2, <2>2 DEF TimeJumped, sampleTimeJumped
  <2>4. \A u \in Topics : sampleStale(t, i.samples[u]) <=> sampleStale(now, i.samples[u])
    BY <1>1, <1>2, <2>1 DEF sampleStale
  <2>5. LateFlags(i, t) = LateFlags(i, now)
    <3>1. {u \in Topics : sampleStale(t, i.samples[u])}
            = {u \in Topics : sampleStale(now, i.samples[u])}
      BY <2>4
    <3> QED BY <3>1 DEF LateFlags
  <2> QED BY <1>4, <2>2, <2>3, <2>5 DEF classify
<1> QED BY <1>3, <1>4

\* Clearing the batch's fault changes the health only where it was flagged.
LEMMA FaultHeals ==
  ASSUME NEW i \in Input, NEW b \in BOOLEAN, NEW now \in Nat, ~i.batch_time_jump,
         "TimeJump" \notin classify([i EXCEPT !.batch_time_jump = b], now).flags
  PROVE  classify(i, now) = classify([i EXCEPT !.batch_time_jump = b], now)
<1> DEFINE j == [i EXCEPT !.batch_time_jump = b]
<1>1. /\ j \in Input /\ j.samples = i.samples /\ j.thrust_ignored = i.thrust_ignored
      /\ j.batch_time_jump = b
  BY DEF Input
<1> HIDE DEF j
<1>2. /\ MissingFlags(j) = MissingFlags(i) /\ LateFlags(j, now) = LateFlags(i, now)
      /\ InvalidFlags(j) = InvalidFlags(i)
  BY <1>1 DEF MissingFlags, LateFlags, InvalidFlags, InvalidTopics
<1>3. CASE MissingFlags(i) # {}
  BY <1>2, <1>3 DEF classify, j
<1>4. CASE MissingFlags(i) = {}
  <2>1. ~TimeJumped(j, now)
    <3>1. TimeJumped(j, now) => classify(j, now) = unhealthy({"TimeJump"})
      BY <1>2, <1>4 DEF classify
    <3>2. "TimeJump" \in unhealthy({"TimeJump"}).flags
      BY DEF unhealthy, NoHealth
    <3> QED BY <3>1, <3>2 DEF j
  <2>2. ~TimeJumped(i, now)
    BY <1>1, <2>1 DEF TimeJumped
  <2> QED BY <1>1, <1>2, <1>4, <2>1, <2>2 DEF classify, j
<1> QED BY <1>3, <1>4

-----------------------------------------------------------------------------
(* What a turn leaves behind *)

\* A tick of the active state asks both of its gates.
LEMMA TickFires ==
  ASSUME TypeOK, Tick, ~ReturnsEarly
  PROVE  /\ machine'.publish_gate = fire(machine.publish_gate, turn.now, PublishPeriod)
         /\ machine.state = "Airborne" =>
              machine'.raw_update_gate = fire(machine.raw_update_gate, turn.now, RawPeriod)
<1>1. ASSUME NEW f, NEW u, NEW m, NEW g, NEW s, RecordAndPublish(f, u, m, g, s)
      PROVE  /\ machine'.publish_gate = fire(machine.publish_gate, turn.now, PublishPeriod)
             /\ machine'.raw_update_gate = g
  BY <1>1 DEF RecordAndPublish
<1>2. CASE TickOnGround
  BY <1>1, <1>2 DEF TickOnGround
<1>3. CASE TickAirborne
  BY <1>1, <1>3 DEF TickAirborne
<1> QED BY <1>2, <1>3 DEF Tick

\* What is left after a turn, and lasts until the next one: no gate is due at the
\* turn's clock, the output is the one of the health found there, and, until more
\* input comes, that is the health of the input, its batch's fault aside.
AfterTurn ==
  turn.phase = "idle" =>
    /\ ~due(machine.publish_gate, turn.now, PublishPeriod)
    /\ machine.state = "Airborne" => ~due(machine.raw_update_gate, turn.now, RawPeriod)
    /\ last_output.state = TargetOf[health.condition]
    /\ last_output.flags \ {"EstimatorRejected"} = health.flags
    /\ last_output.source_stamp = health.source_stamp
    /\ pending = <<>> =>
         /\ ~input.batch_time_jump
         /\ \E b \in BOOLEAN :
              health = classify([input EXCEPT !.batch_time_jump = b], turn.now)

\* No health raises the estimator's own flag, and a ready one raises none.
LEMMA HealthFlags ==
  ASSUME NEW i \in Input, NEW now \in Nat
  PROVE  /\ "EstimatorRejected" \notin classify(i, now).flags
         /\ classify(i, now).condition = "EstimationReady" => classify(i, now).flags = {}
<1>1. /\ "EstimatorRejected" \notin MissingFlags(i)
      /\ "EstimatorRejected" \notin LateFlags(i, now)
      /\ "EstimatorRejected" \notin InvalidFlags(i)
  BY DEF MissingFlags, LateFlags, InvalidFlags, InvalidTopics, MissingFlag,
         StaleFlag, InvalidFlag, Topics
<1>2. \A f : unhealthy(f).flags = f /\ unhealthy(f).condition = "InputUnhealthy"
  BY DEF unhealthy, NoHealth
<1>3. LET low == [unhealthy({"BelowMinAltitude"}) EXCEPT !.condition = "BelowMinAltitude"]
      IN  low.flags = {"BelowMinAltitude"} /\ low.condition = "BelowMinAltitude"
  BY DEF unhealthy, NoHealth
<1> QED BY <1>1, <1>2, <1>3 DEF classify

\* A turn leaves this behind for any owner.
LEMMA TurnLeavesBehind == OwnerSpec => []AfterTurn
<1>1. Init => AfterTurn
  BY DEF Init, AfterTurn
<1>2. TypeOK /\ TickSeesInput /\ StateFollowsHealth /\ AfterTurn /\ [OwnerNext]_vars
        => AfterTurn'
  <2> SUFFICES ASSUME TypeOK, TickSeesInput, StateFollowsHealth, AfterTurn,
                      [OwnerNext]_vars
               PROVE  AfterTurn'
    OBVIOUS
  <2>1. ASSUME NEW t \in Topics, NEW a \in Arrivals[t], ingestSample(t, a)
        PROVE  AfterTurn'
    <3>1. pending' # <<>>
      <4>1. a.now \in Nat /\ pending \in Seq(Nat)
        BY RuntimeAssumption DEF Arrival, TypeOK
      <4> QED BY <2>1, <4>1, AppendProperties DEF ingestSample
    <3> QED BY <2>1, <3>1 DEF ingestSample, AfterTurn
  <2>2. CASE applyInput
    <3>1. pending' # <<>>
      <4>1. PICK now \in Times : pending' = Append(pending, now)
        BY <2>2 DEF applyInput
      <4>2. now \in Nat /\ pending \in Seq(Nat)
        BY RuntimeAssumption DEF TypeOK
      <4> QED BY <4>1, <4>2, AppendProperties
    <3> QED BY <2>2, <3>1 DEF applyInput, AfterTurn
  <2>3. CASE BeginUpdate
    BY <2>3 DEF BeginUpdate, AfterTurn
  <2>4. CASE EvaluateMark \/ EvaluateNow
    <3>1. turn'.phase # "idle"
      BY <2>4 DEF EvaluateMark, EvaluateNow, TypeOK, Turn
    <3> QED BY <3>1 DEF AfterTurn
  <2>5. CASE Tick
    <3>1. /\ turn.phase = "tick" /\ turn'.phase = "idle" /\ turn'.now = turn.now
          /\ machine'.state = machine.state /\ health' = health
          /\ ~input'.batch_time_jump /\ ~ReturnsEarly
      BY <2>5, TickStep DEF StateFollowsHealth, ReturnsEarly
    <3>2. /\ machine.publish_gate \in Gate /\ machine.raw_update_gate \in Gate
          /\ turn.now \in Nat /\ input \in Input /\ health \in HealthStatus
      BY DEF TypeOK, Machine, Turn
    <3>3. PublishPeriod \in Nat \ {0} /\ RawPeriod \in Nat \ {0}
      BY Periods
    <3>4. /\ ~due(machine'.publish_gate, turn.now, PublishPeriod)
          /\ machine.state = "Airborne" =>
               ~due(machine'.raw_update_gate, turn.now, RawPeriod)
      BY <2>5, <3>1, <3>2, <3>3, TickFires, FiredIsNotDue
    <3>5. health = classify(input, turn.now)
      BY <3>1 DEF TickSeesInput
    <3>6. /\ last_output'.state = machine.state
          /\ last_output'.source_stamp = health.source_stamp
          /\ last_output'.flags = flags'
      BY <2>5, <3>1, TickStep DEF makeOutput
    <3>7. last_output'.flags \ {"EstimatorRejected"} = health.flags
      <4>1. "EstimatorRejected" \notin health.flags
        BY <3>2, <3>5, HealthFlags
      <4>2. CASE machine.state # "Airborne"
        BY <2>5, <3>1, <4>1, <4>2, TickStep
      <4>3. CASE machine.state = "Airborne"
        <5>1. health.condition = "EstimationReady"
          BY <3>2, <4>3 DEF StateFollowsHealth, TargetOf, HealthStatus, Conditions
        <5>2. health.ready /\ health.flags = {}
          BY <3>2, <3>5, <5>1, ClassifyType, HealthFlags
        <5>3. flags' \subseteq {"EstimatorRejected"}
          BY <2>5, <3>1, <5>2, TickStep
        <5> QED BY <3>6, <5>2, <5>3
      <4> QED BY <4>2, <4>3
    <3>8. \E b \in BOOLEAN :
            health = classify([input' EXCEPT !.batch_time_jump = b], turn.now)
      <4>1. input' = [input EXCEPT !.batch_time_jump = FALSE]
        BY <2>5 DEF Tick, TickOnGround, TickAirborne, FinishTurn
      <4>2. input = [input' EXCEPT !.batch_time_jump = input.batch_time_jump]
        BY <3>2, <4>1 DEF Input
      <4>3. input.batch_time_jump \in BOOLEAN
        BY <3>2 DEF Input
      <4> QED BY <3>5, <4>2, <4>3
    <3>9. last_output'.state = TargetOf[health.condition]
      BY <3>6 DEF StateFollowsHealth
    <3> QED BY <3>1, <3>4, <3>6, <3>7, <3>8, <3>9 DEF AfterTurn
  <2>6. CASE Reset
    BY <2>6 DEF Reset, AfterTurn
  <2>7. CASE UNCHANGED vars
    BY <2>7 DEF vars, AfterTurn
  <2> QED BY <2>1, <2>2, <2>3, <2>4, <2>5, <2>6, <2>7
          DEF OwnerNext, Next, ingestImu, ingestThrust, ingestAltitude, Topics
<1> QED BY <1>1, <1>2, TypeCorrect, TickSeesTheInput, StateIsHealths, PTL DEF OwnerSpec

\* Without a flagged fault, the health found is that of the input as it stands.
LEMMA HealthIsCurrent ==
  ASSUME TypeOK, AfterTurn, turn.phase = "idle", pending = <<>>,
         "TimeJump" \notin last_output.flags
  PROVE  health = classify(input, turn.now) /\ "TimeJump" \notin health.flags
<1>1. PICK b \in BOOLEAN :
        health = classify([input EXCEPT !.batch_time_jump = b], turn.now)
  BY DEF AfterTurn
<1>2. "TimeJump" \notin health.flags
  BY DEF AfterTurn
<1>3. input \in Input /\ turn.now \in Nat /\ ~input.batch_time_jump
  BY DEF TypeOK, Turn, AfterTurn
<1> QED BY <1>1, <1>2, <1>3, FaultHeals

\* What a turn leaves behind keeps the wake ahead of its clock, and near.
LEMMA WakeIsNear ==
  ASSUME TypeOK, AfterTurn PROVE WakeIsAhead
<1> SUFFICES ASSUME turn.phase = "idle", pending = <<>>
             PROVE  /\ turn.now < nextWake(turn.now) + RoundingShortfall
                    /\ nextWake(turn.now) <= turn.now + RegressTolerance + PublishPeriod
  BY DEF WakeIsAhead
<1> DEFINE wake == nextWake(turn.now)
           publish == nextDue(machine.publish_gate, turn.now, PublishPeriod)
           raw == nextDue(machine.raw_update_gate, turn.now, RawPeriod)
<1>1. /\ turn.now \in Nat
      /\ machine.publish_gate \in Gate /\ machine.raw_update_gate \in Gate
  BY DEF TypeOK, Turn, Machine
<1>2. /\ PublishPeriod \in Nat \ {0} /\ RawPeriod \in Nat \ {0}
      /\ RoundingShortfall \in Nat /\ RegressTolerance \in Nat
  BY Periods, GateAssumption
<1>3. /\ WakeSet(turn.now) \subseteq Nat /\ wake \in WakeSet(turn.now)
      /\ \A y \in WakeSet(turn.now) : wake <= y
  BY <1>1, WakeIsLeast
<1>4. publish \in WakeSet(turn.now)
  BY DEF WakeSet, GateDeadlines
<1>5. /\ publish <= turn.now + RegressTolerance + PublishPeriod
      /\ publish \in Nat /\ raw \in Nat
  BY <1>1, <1>2, NextDueRange
<1>6. /\ turn.now < publish + RoundingShortfall
      /\ machine.state = "Airborne" => turn.now < raw + RoundingShortfall
  BY <1>1, <1>2, NextDueRange DEF AfterTurn
<1>7. \A y \in WakeSet(turn.now) : turn.now < y + RoundingShortfall
  <2>1. \A y \in GateDeadlines(turn.now) : turn.now < y + RoundingShortfall
    BY <1>6 DEF GateDeadlines
  <2>2. \A edge \in TimeoutEdges :
          edge > turn.now => edge \in WakeSet(turn.now) /\ edge \in Nat
    BY <1>3 DEF WakeSet
  <2>3. \A edge \in TimeoutEdges : edge > turn.now => turn.now < edge + RoundingShortfall
    BY <1>1, <1>2, <2>2
  <2> QED BY <2>1, <2>3 DEF WakeSet
<1> HIDE DEF wake, publish, raw
<1>8. turn.now < wake + RoundingShortfall /\ wake <= publish /\ wake \in Nat
  BY <1>3, <1>4, <1>7
<1>9. wake <= turn.now + RegressTolerance + PublishPeriod
  BY <1>1, <1>2, <1>5, <1>8
<1> QED BY <1>8, <1>9 DEF wake

\* After every turn, and until more input comes, the snapshot shows the input as
\* it stands at the turn's clock: no output is one turn behind.
THEOREM OutputIsCurrent == OwnerSpec => []TurnOutputIsCurrent
<1>1. TypeOK /\ AfterTurn => TurnOutputIsCurrent
  BY HealthIsCurrent DEF AfterTurn, TurnOutputIsCurrent
<1> QED BY <1>1, TypeCorrect, TurnLeavesBehind, PTL

\* Whatever the periods, the timeouts and the clock, an owner that sleeps until
\* nextWake() misses neither a gate nor a change of health.
THEOREM WakeIsNeverLate == OwnerSpec => []WakeMissesNothing
<1>1. ASSUME TypeOK, AfterTurn, StateFollowsHealth PROVE WakeMissesNothing
  <2> SUFFICES ASSUME turn.phase = "idle", pending = <<>>,
                      "TimeJump" \notin last_output.flags,
                      NEW t \in Times, turn.now <= t, t < nextWake(turn.now)
               PROVE  /\ ~due(machine.publish_gate, t, PublishPeriod)
                      /\ machine.state = "Airborne" =>
                           ~due(machine.raw_update_gate, t, RawPeriod)
                      /\ classify(input, t).condition = health.condition
    BY DEF WakeMissesNothing
  <2>1. /\ t \in Nat /\ turn.now \in Nat /\ input \in Input
        /\ machine.publish_gate \in Gate /\ machine.raw_update_gate \in Gate
    BY <1>1, RuntimeAssumption DEF TypeOK, Turn, Machine
  <2>2. PublishPeriod \in Nat \ {0} /\ RawPeriod \in Nat \ {0} /\ SampleTimeout \in Nat
    BY Periods
  <2>3. \A y \in WakeSet(turn.now) : y \in Nat /\ t < y
    BY <1>1, <2>1, WakeIsLeast
  <2>4. /\ t < nextDue(machine.publish_gate, turn.now, PublishPeriod)
        /\ machine.state = "Airborne" =>
             t < nextDue(machine.raw_update_gate, turn.now, RawPeriod)
    BY <2>3 DEF WakeSet, GateDeadlines
  <2>5. /\ ~due(machine.publish_gate, turn.now, PublishPeriod)
        /\ machine.state = "Airborne" => ~due(machine.raw_update_gate, turn.now, RawPeriod)
    BY <1>1 DEF AfterTurn
  <2>6. /\ ~due(machine.publish_gate, t, PublishPeriod)
        /\ machine.state = "Airborne" => ~due(machine.raw_update_gate, t, RawPeriod)
    BY <2>1, <2>2, <2>4, <2>5, NotDueBefore
  <2>7. ASSUME NEW u \in Topics, input.samples[u].received,
               sampleStale(t, input.samples[u])
        PROVE  sampleStale(turn.now, input.samples[u])
    <3> DEFINE edge == input.samples[u].stamp + SampleTimeout + 1
    <3>1. input.samples[u].stamp \in Nat
      BY <2>1 DEF Input, Sample
    <3>2. edge \in TimeoutEdges
      BY <2>7 DEF TimeoutEdges
    <3>3. edge <= t
      BY <2>1, <2>2, <2>7, <3>1 DEF sampleStale
    <3>4. edge <= turn.now
      <4>1. edge > turn.now => edge \in WakeSet(turn.now)
        BY <3>2 DEF WakeSet
      <4>2. edge \in Nat
        BY <2>2, <3>1
      <4> HIDE DEF edge
      <4> QED BY <2>1, <2>3, <3>3, <4>1, <4>2
    <3> QED BY <2>1, <2>2, <3>1, <3>4 DEF sampleStale
  <2>8. health = classify(input, turn.now) /\ "TimeJump" \notin health.flags
    BY <1>1, HealthIsCurrent
  <2>9. classify(input, t) = classify(input, turn.now)
    BY <2>1, <2>7, <2>8, ConditionHolds
  <2> QED BY <2>6, <2>8, <2>9
<1> QED BY <1>1, TypeCorrect, TurnLeavesBehind, StateIsHealths, PTL

\* An owner whose clock has stopped sleeps, provided the sum of a gate's last
\* firing and its period is exact; if it rounds short, the wake is the turn's own
\* clock and no earlier.  It never sleeps longer than a publish period and the
\* gates' tolerance.
THEOREM WakeLiesAhead == OwnerSpec => []WakeIsAhead
<1>1. TypeOK /\ AfterTurn => WakeIsAhead
  BY WakeIsNear
<1> QED BY <1>1, TypeCorrect, TurnLeavesBehind, PTL
=============================================================================
