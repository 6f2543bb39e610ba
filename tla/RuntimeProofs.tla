---------------------------- MODULE RuntimeProofs ----------------------------
(***************************************************************************)
(* Proofs about HoverThrustRuntime under any owner (OwnerSpec), for every  *)
(* configuration, every set of samples and clock readings, and any length  *)
(* of a batch.                                                             *)
(***************************************************************************)
EXTENDS HoverThrustRuntime, SequenceTheorems, TLAPS

-----------------------------------------------------------------------------
(* The operators the runtime is built from *)

\* Clamping lands inside the limits and leaves what is inside alone.
LEMMA ClampRange ==
  /\ \A x \in Int : Clamp(x) \in HoverThrusts
  /\ \A x \in HoverThrusts : Clamp(x) = x
  /\ InitialHoverThrust \in HoverThrusts
  BY ThrustLimits DEF Clamp, HoverThrusts

\* classify() returns a health status; only an EstimationReady one is ready.
LEMMA ClassifyType ==
  ASSUME NEW i \in Input, NEW now \in Int
  PROVE  /\ classify(i, now) \in HealthStatus
         /\ classify(i, now).condition \in Conditions
         /\ classify(i, now).ready <=> classify(i, now).condition = "EstimationReady"
<1>1. /\ MissingFlags(i) \in SUBSET Flags
      /\ LateFlags(i, now) \in SUBSET Flags
      /\ InvalidFlags(i) \in SUBSET Flags
  BY DEF MissingFlags, LateFlags, InvalidFlags, InvalidTopics, MissingFlag,
         StaleFlag, InvalidFlag, Topics, Flags
<1>2. ASSUME NEW f \in SUBSET Flags
      PROVE  /\ unhealthy(f) \in HealthStatus
             /\ unhealthy(f).condition = "InputUnhealthy"
             /\ ~unhealthy(f).ready
  BY DEF unhealthy, NoHealth, HealthStatus, Conditions
<1>3. {"TimeJump"} \in SUBSET Flags /\ {"BelowMinAltitude"} \in SUBSET Flags
  BY DEF Flags
<1>4. i.samples["normalized_thrust"].stamp \in Nat
  BY DEF Input, Sample, Topics
<1> DEFINE low == [unhealthy({"BelowMinAltitude"})
                     EXCEPT !.condition = "BelowMinAltitude"]
<1>5. low \in HealthStatus /\ low.condition = "BelowMinAltitude" /\ ~low.ready
  BY <1>3 DEF unhealthy, NoHealth, HealthStatus, Conditions
<1> QED BY <1>1, <1>2, <1>3, <1>4, <1>5 DEF classify, HealthStatus, Conditions

\* A gate that is asked answers with a gate.
LEMMA FireType ==
  ASSUME NEW g \in Gate, NEW now \in Nat, NEW period \in Nat
  PROVE  fire(g, now, period) \in Gate
  BY DEF fire, Gate

\* Training returns an estimator, and moves it only on an admitted pair that
\* the least squares accepted: to that pair's stamp, and to a valid estimate.
LEMMA TrainType ==
  ASSUME NEW e \in Estimator, NEW i \in Input, NEW rls \in RlsOutcomes
  PROVE  /\ Train(e, i, rls) \in Estimator
         /\ ~(admits(e, i) /\ rls.accepted) => Train(e, i, rls) = e
         /\ admits(e, i) /\ rls.accepted =>
              Train(e, i, rls).last_time = i.samples["normalized_thrust"].stamp
<1>1. i.samples["normalized_thrust"].stamp \in Nat
  BY DEF Input, Sample, Topics
<1>2. Clamp(rls.hover_thrust) \in HoverThrusts
  BY ClampRange, CandidatesAssumption DEF RlsOutcomes
<1> QED BY <1>1, <1>2 DEF Train, Estimator

\* The output model's operations keep its type; none but setTarget moves the
\* target, none but setRaw the raw estimate, and a clamped value is itself.
LEMMA SetTargetType ==
  ASSUME NEW m \in OutputModel, NEW x \in HoverThrusts
  PROVE  /\ setTarget(m, x) \in OutputModel /\ setTarget(m, x).target = x
         /\ setTarget(m, x).raw = m.raw
         /\ setTarget(m, x).hover_thrust = m.hover_thrust
         /\ setRaw(m, x) \in OutputModel /\ setRaw(m, x).raw = x
         /\ setRaw(m, x).target = m.target
         /\ setRaw(m, x).hover_thrust = m.hover_thrust
         /\ freezeTarget(m) = m
<1>1. Clamp(x) = x /\ m.target \in HoverThrusts /\ Clamp(m.target) = m.target
  BY ClampRange DEF OutputModel
<1> QED BY <1>1 DEF setTarget, setRaw, freezeTarget, OutputModel

\* The output of d lies between the output of m and the target of d.
Driven(m, d) ==
  \/ m.hover_thrust <= d.hover_thrust /\ d.hover_thrust <= d.target
  \/ d.target <= d.hover_thrust /\ d.hover_thrust <= m.hover_thrust
  \/ d.hover_thrust = m.hover_thrust

\* A drive moves the output alone, toward the target and not past it.
LEMMA DriveType ==
  ASSUME NEW m \in OutputModel, NEW now \in Nat, NEW d \in driveTowardTarget(m, now)
  PROVE  d \in OutputModel /\ d.target = m.target /\ d.raw = m.raw /\ Driven(m, d)
<1>1. PICK x \in filter(m, outputDeltaTime(m, now)) :
             d = [m EXCEPT !.hover_thrust = x, !.last_update = now]
  BY DEF driveTowardTarget
<1>2. x \in HoverThrusts
  BY DEF filter, Between, OutputModel
<1>3. d \in OutputModel /\ d.target = m.target /\ d.raw = m.raw /\ d.hover_thrust = x
  BY <1>1, <1>2 DEF OutputModel
<1>4. {x, m.target, m.hover_thrust} \subseteq Int
  BY <1>2, ThrustLimits DEF OutputModel, HoverThrusts
<1>5. x \in {m.target, m.hover_thrust} \/ x \in Between(m.hover_thrust, m.target)
  BY <1>1 DEF filter
<1> QED BY <1>3, <1>4, <1>5 DEF Driven, Between

-----------------------------------------------------------------------------
(* The parts of a turn *)

\* What one evaluation of health does: it leaves the state of the condition it
\* found, provided it started in the state of the condition before.
LEMMA EvaluateStep ==
  ASSUME TypeOK, NEW now \in Nat, evaluateHealthAt(now)
  PROVE  /\ health' = classify(input, now) /\ health' \in HealthStatus
         /\ machine' \in Machine
         /\ output_model' \in OutputModel
         /\ trace' \in Seq(Traced)
         /\ \/ /\ machine' = machine /\ output_model' = output_model
               /\ trace' = trace
               /\ \/ health'.condition = health.condition
                  \/ TargetOf[health'.condition] = machine.state
            \/ /\ machine'.state = TargetOf[health'.condition]
               /\ machine'.state # machine.state
               /\ output_model' = onEnterState(output_model, machine'.state)
               /\ trace' = Append(trace, TraceEntry(now, health'))
<1> DEFINE h == classify(input, now)
           to == TargetOf[h.condition]
<1>1. input \in Input /\ machine \in Machine /\ output_model \in OutputModel
      /\ trace \in Seq(Traced)
  BY DEF TypeOK
<1>2. health' = h /\ h \in HealthStatus /\ h.condition \in Conditions
  BY <1>1, ClassifyType DEF evaluateHealthAt
<1>3. to \in States
  BY <1>2 DEF TargetOf, Conditions, States
<1>4. Enter(to) \in Machine /\ Enter(to).state = to
  BY <1>3 DEF Enter, Machine, FreshGate, Gate
<1>5. onEnterState(output_model, to) \in OutputModel
  BY <1>1, <1>3, ClampRange, SetTargetType DEF onEnterState, States
<1>6. TraceEntry(now, h) \in Traced
  BY <1>1, <1>2, <1>3 DEF TraceEntry, Traced, Machine
<1>7. Append(trace, TraceEntry(now, h)) \in Seq(Traced)
  BY <1>1, <1>6, AppendProperties
<1>8. CASE Edge(h) /\ to # machine.state
  <2>1. /\ output_model' = onEnterState(output_model, to) /\ machine' = Enter(to)
        /\ trace' = Append(trace, TraceEntry(now, h))
    BY <1>8 DEF evaluateHealthAt, Transition
  <2> QED BY <1>2, <1>4, <1>5, <1>7, <1>8, <2>1
<1>9. CASE ~(Edge(h) /\ to # machine.state)
  <2>1. machine' = machine /\ output_model' = output_model /\ trace' = trace
    BY <1>9 DEF evaluateHealthAt
  <2> QED BY <1>1, <1>2, <1>9, <2>1 DEF Edge
<1> QED BY <1>8, <1>9

\* What a tick records and publishes, from the model the raw step left.
LEMMA RecordStep ==
  ASSUME TypeOK, NEW flagged \in SUBSET Flags, NEW used \in BOOLEAN,
         NEW model \in OutputModel, NEW raw_gate \in Gate, NEW stamp \in Nat,
         RecordAndPublish(flagged, used, model, raw_gate, stamp)
  PROVE  /\ output_model' \in OutputModel /\ Driven(model, output_model')
         /\ output_model'.target = model.target /\ output_model'.raw = model.raw
         /\ flags' = flagged /\ last_sample_used' = used
         /\ last_estimate_stamp' = stamp
         /\ machine' \in Machine /\ machine'.state = machine.state
         /\ last_output' \in Output
         /\ last_output' = makeOutput(machine.state, flagged, used, health,
                                      output_model', stamp)
         /\ published' \in Seq(Published)
         /\ published' \in {published, Append(published,
                              [stamp |-> turn.now, output |-> last_output'])}
<1> DEFINE fires == due(machine.publish_gate, turn.now, PublishPeriod)
           output(d) == makeOutput(machine.state, flagged, used, health, d, stamp)
<1>1. machine \in Machine /\ health \in HealthStatus /\ turn.now \in Nat
      /\ published \in Seq(Published) /\ PublishPeriod \in Nat
  BY Periods DEF TypeOK, Turn
<1>2. PICK d \in IF fires THEN driveTowardTarget(model, turn.now) ELSE {model} :
        /\ output_model' = d /\ flags' = flagged /\ last_sample_used' = used
        /\ last_estimate_stamp' = stamp /\ last_output' = output(d)
        /\ machine' = [state |-> machine.state,
                       publish_gate |-> fire(machine.publish_gate, turn.now,
                                             PublishPeriod),
                       raw_update_gate |-> raw_gate]
        /\ published' = IF fires
             THEN Append(published, [stamp |-> turn.now, output |-> output(d)])
             ELSE published
  BY DEF RecordAndPublish
<1>3. d \in OutputModel /\ d.target = model.target /\ d.raw = model.raw
      /\ Driven(model, d)
  BY <1>1, <1>2, DriveType DEF Driven
<1>4. machine.publish_gate \in Gate /\ machine.state \in States
  BY <1>1 DEF Machine
<1>5. fire(machine.publish_gate, turn.now, PublishPeriod) \in Gate
  BY <1>1, <1>4, FireType
<1>6. machine' \in Machine /\ machine'.state = machine.state
  BY <1>2, <1>4, <1>5 DEF Machine
<1>7. output(d) \in Output
  BY <1>1, <1>3, <1>4 DEF makeOutput, Output, OutputModel, HealthStatus
<1>8. [stamp |-> turn.now, output |-> output(d)] \in Published
  BY <1>1, <1>7 DEF Published
<1>9. published' \in Seq(Published)
  BY <1>1, <1>2, <1>8, AppendProperties
<1> QED BY <1>2, <1>3, <1>6, <1>7, <1>9

\* What the Airborne tick's raw step hands to the recording of the output.
LEMMA AirborneStep ==
  ASSUME TypeOK, TickAirborne, ~ReturnsEarly
  PROVE  \E flagged \in SUBSET Flags, used \in BOOLEAN, model \in OutputModel,
            raw_gate \in Gate, stamp \in Nat :
           /\ RecordAndPublish(flagged, used, model, raw_gate, stamp)
           /\ estimator' \in Estimator
           /\ model.hover_thrust = output_model.hover_thrust
           /\ health.ready => flagged \subseteq health.flags \cup {"EstimatorRejected"}
           /\ used => flagged = health.flags
           /\ \/ /\ ~used /\ model = output_model /\ estimator' = estimator
                 /\ stamp = last_estimate_stamp
              \/ /\ used /\ health.ready /\ admits(estimator, input)
                 /\ model.target = estimator'.raw /\ model.raw = estimator'.raw
                 /\ stamp = input.samples["normalized_thrust"].stamp
                 /\ estimator'.last_time = stamp
<1>1. /\ estimator \in Estimator /\ input \in Input /\ health \in HealthStatus
      /\ machine.raw_update_gate \in Gate /\ turn.now \in Nat
      /\ output_model \in OutputModel /\ RawPeriod \in Nat
      /\ last_estimate_stamp \in Nat
      /\ input.samples["normalized_thrust"].stamp \in Nat
  BY Periods DEF TypeOK, Turn, Machine, Input, Sample, Topics
<1>2. PICK rls \in RlsOutcomes :
        LET gate     == machine.raw_update_gate
            fires    == due(gate, turn.now, RawPeriod)
            used     == fires /\ health.ready /\ admits(estimator, input) /\ rls.accepted
            trained  == IF fires /\ health.ready
                          THEN Train(estimator, input, rls) ELSE estimator
            rejected == {f \in {"RawEstimateStale"}  : fires /\ ~health.ready}
                          \cup {f \in {"EstimatorRejected"} :
                                  fires /\ health.ready /\ ~used}
            model    == IF used
                          THEN setTarget(setRaw(output_model, trained.raw), trained.raw)
                          ELSE output_model
            stamp    == IF used THEN input.samples["normalized_thrust"].stamp
                                ELSE last_estimate_stamp
        IN /\ estimator' = trained
           /\ RecordAndPublish(health.flags \cup rejected, used, model,
                               fire(gate, turn.now, RawPeriod), stamp)
  BY DEF TickAirborne
<1> DEFINE gate     == machine.raw_update_gate
           fires    == due(gate, turn.now, RawPeriod)
           used     == fires /\ health.ready /\ admits(estimator, input) /\ rls.accepted
           trained  == IF fires /\ health.ready
                         THEN Train(estimator, input, rls) ELSE estimator
           rejected == {f \in {"RawEstimateStale"}  : fires /\ ~health.ready}
                         \cup {f \in {"EstimatorRejected"} :
                                 fires /\ health.ready /\ ~used}
           model    == IF used
                         THEN setTarget(setRaw(output_model, trained.raw), trained.raw)
                         ELSE output_model
           stamp    == IF used THEN input.samples["normalized_thrust"].stamp
                               ELSE last_estimate_stamp
<1>3. /\ estimator' = trained
      /\ RecordAndPublish(health.flags \cup rejected, used, model,
                          fire(gate, turn.now, RawPeriod), stamp)
  BY <1>2
<1>4. health.flags \cup rejected \in SUBSET Flags
  BY <1>1 DEF HealthStatus, Flags
<1>5. used \in BOOLEAN
  BY <1>2 DEF due, admits, Restarts, RlsOutcomes
<1>6. fire(gate, turn.now, RawPeriod) \in Gate
  BY <1>1, FireType
<1>7. trained \in Estimator /\ trained.raw \in HoverThrusts
  BY <1>1, TrainType DEF Estimator
<1>10. /\ health.ready => health.flags \cup rejected
                              \subseteq health.flags \cup {"EstimatorRejected"}
       /\ used => health.flags \cup rejected = health.flags
  OBVIOUS
<1>8. CASE used
  <2>1. trained = Train(estimator, input, rls) /\ trained.last_time = stamp
    BY <1>1, <1>8, TrainType
  <2>2. model \in OutputModel /\ model.target = trained.raw /\ model.raw = trained.raw
        /\ model.hover_thrust = output_model.hover_thrust
    BY <1>1, <1>7, <1>8, SetTargetType
  <2> QED BY <1>1, <1>3, <1>4, <1>5, <1>6, <1>7, <1>8, <1>10, <2>1, <2>2
<1>9. CASE ~used
  <2>1. trained = estimator
    BY <1>1, <1>9, TrainType
  <2> QED BY <1>1, <1>3, <1>4, <1>5, <1>6, <1>9, <1>10, <2>1
<1> QED BY <1>5, <1>8, <1>9

-----------------------------------------------------------------------------
\* A recorded sample and its mark keep the types.
LEMMA IngestType ==
  ASSUME TypeOK, NEW t \in Topics, NEW a \in Arrival, ingestSample(t, a)
  PROVE  TypeOK'
<1>1. input \in Input /\ pending \in Seq(Nat)
  BY DEF TypeOK
<1>2. input.samples[t] \in Sample /\ input.samples \in [Topics -> Sample]
  BY <1>1 DEF Input
<1>3. ReceivedSample(input.samples[t], a) \in Sample
  BY <1>1, <1>2 DEF ReceivedSample, Sample, Arrival
<1>4. BatchFault(a, ReceivedSample(input.samples[t], a)) \in BOOLEAN
  BY <1>1 DEF BatchFault, sampleTimeJumped, Input
<1>5. input' \in Input
  BY <1>1, <1>2, <1>3, <1>4 DEF ingestSample, Input, Arrival
<1>6. pending' \in Seq(Nat)
  BY <1>1, AppendProperties DEF ingestSample, Arrival
<1> QED BY <1>5, <1>6 DEF ingestSample, TypeOK

\* A runtime that was just constructed or reset has the types.
LEMMA InitType == Init => TypeOK
<1> SUFFICES ASSUME Init PROVE TypeOK
  OBVIOUS
<1>1. NoInput \in Input
  BY DEF NoInput, Input, NoSample, Sample, Values
<1>2. NoHealth \in HealthStatus
  BY DEF NoHealth, HealthStatus, Conditions
<1>3. Enter("SelfCheck") \in Machine
  BY DEF Enter, Machine, States, FreshGate, Gate
<1>4. FreshEstimator \in Estimator /\ FreshOutputModel \in OutputModel
  BY ClampRange, ThrustLimits DEF FreshEstimator, Estimator, FreshOutputModel, OutputModel
<1>5. makeOutput("SelfCheck", {}, FALSE, NoHealth, FreshOutputModel, 0) \in Output
  BY <1>2, <1>4 DEF makeOutput, Output, States, OutputModel, HealthStatus
<1> QED BY <1>1, <1>2, <1>3, <1>4, <1>5, EmptySeq DEF Init, ResetValues, TypeOK, Turn

\* No step of the runtime under any owner leaves a variable's type.
LEMMA TypeStep == ASSUME TypeOK, [OwnerNext]_vars PROVE TypeOK'
<1>1. ASSUME NEW t \in Topics, NEW a \in Arrivals[t], ingestSample(t, a)
      PROVE  TypeOK'
  BY <1>1, RuntimeAssumption, IngestType
<1>2. CASE applyInput
  BY <1>2, RuntimeAssumption, AppendProperties DEF applyInput, TypeOK
<1>3. CASE BeginUpdate
  BY <1>3, RuntimeAssumption, EmptySeq DEF BeginUpdate, TypeOK, Turn
<1>4. CASE EvaluateMark
  <2>1. pending \in Seq(Nat) /\ pending # <<>>
    BY <1>4 DEF EvaluateMark, TypeOK
  <2>2. Head(pending) \in Nat /\ Tail(pending) \in Seq(Nat)
    BY <2>1, HeadTailProperties
  <2>3. evaluateHealthAt(Head(pending))
    BY <1>4 DEF EvaluateMark
  <2>4. /\ health' \in HealthStatus /\ machine' \in Machine
        /\ output_model' \in OutputModel /\ trace' \in Seq(Traced)
    BY <2>2, <2>3, EvaluateStep
  <2> QED BY <1>4, <2>2, <2>4 DEF EvaluateMark, evaluateHealthAt, TypeOK
<1>5. CASE EvaluateNow
  <2>1. turn.now \in Nat /\ evaluateHealthAt(turn.now)
    BY <1>5 DEF EvaluateNow, TypeOK, Turn
  <2>2. /\ health' \in HealthStatus /\ machine' \in Machine
        /\ output_model' \in OutputModel /\ trace' \in Seq(Traced)
    BY <2>1, EvaluateStep
  <2>3. turn' \in Turn
    BY <1>5 DEF EvaluateNow, TypeOK, Turn
  <2> QED BY <1>5, <2>2, <2>3 DEF EvaluateNow, evaluateHealthAt, TypeOK
<1>6. ASSUME FinishTurn
      PROVE  input' \in Input /\ turn' \in Turn
  BY <1>6 DEF FinishTurn, TypeOK, Turn, Input
<1>7. CASE TickOnGround
  <2>1. CASE ReturnsEarly
    BY <1>6, <1>7, <2>1 DEF TickOnGround, UnchangedByTick, FinishTurn, TypeOK
  <2>2. CASE ~ReturnsEarly
    <3>1. /\ health.flags \in SUBSET Flags /\ output_model \in OutputModel
          /\ machine.raw_update_gate \in Gate /\ last_estimate_stamp \in Nat
      BY DEF TypeOK, HealthStatus, Machine
    <3>2. RecordAndPublish(health.flags, FALSE, output_model,
                           machine.raw_update_gate, last_estimate_stamp)
          /\ estimator' = estimator /\ FinishTurn
      BY <1>7, <2>2 DEF TickOnGround
    <3>3. /\ output_model' \in OutputModel /\ machine' \in Machine
          /\ flags' = health.flags /\ last_sample_used' = FALSE
          /\ last_estimate_stamp' = last_estimate_stamp
          /\ last_output' \in Output /\ published' \in Seq(Published)
      BY <3>1, <3>2, RecordStep
    <3> QED BY <1>6, <3>1, <3>2, <3>3 DEF FinishTurn, TypeOK
  <2> QED BY <2>1, <2>2
<1>8. CASE TickAirborne
  <2>0. FinishTurn
    BY <1>8 DEF TickAirborne
  <2>1. CASE ReturnsEarly
    <3>1. UnchangedByTick
      BY <1>8, <2>1 DEF TickAirborne
    <3> QED BY <1>6, <2>0, <3>1 DEF UnchangedByTick, FinishTurn, TypeOK
  <2>2. CASE ~ReturnsEarly
    <3>1. PICK flagged \in SUBSET Flags, used \in BOOLEAN, model \in OutputModel,
               raw_gate \in Gate, stamp \in Nat :
            /\ RecordAndPublish(flagged, used, model, raw_gate, stamp)
            /\ estimator' \in Estimator
      BY <1>8, <2>2, AirborneStep
    <3>2. /\ output_model' \in OutputModel /\ machine' \in Machine
          /\ flags' = flagged /\ last_sample_used' = used
          /\ last_estimate_stamp' = stamp
          /\ last_output' \in Output /\ published' \in Seq(Published)
      BY <3>1, RecordStep
    <3> QED BY <1>6, <2>0, <3>1, <3>2 DEF FinishTurn, TypeOK
  <2> QED BY <2>1, <2>2
<1>9. CASE Reset
  <2>1. Init'
    BY <1>9 DEF Reset, Init
  <2> QED BY <2>1, InitType, PTL
<1>10. CASE UNCHANGED vars
  BY <1>10 DEF vars, TypeOK
<1> QED BY <1>1, <1>2, <1>3, <1>4, <1>5, <1>7, <1>8, <1>9, <1>10
        DEF OwnerNext, Next, Tick, ingestImu, ingestThrust, ingestAltitude, Topics

\* The runtime's variables keep their types; above all every thrust it holds or
\* publishes stays within the configured limits.
THEOREM TypeCorrect == OwnerSpec => []TypeOK
  BY InitType, TypeStep, PTL DEF OwnerSpec

-----------------------------------------------------------------------------
(* Steps, summarised for the invariants below *)

\* What a recorded input event leaves alone.
Unrecorded == <<health, machine, estimator, output_model, flags, last_sample_used,
                last_estimate_stamp, last_output, published, trace, turn>>

\* One evaluation of health, at a mark or at now.
Evaluation ==
  \E now \in Nat :
    /\ evaluateHealthAt(now)
    /\ turn.phase = "evaluate" /\ turn'.now = turn.now
    /\ \/ turn'.phase = "evaluate"
       \/ turn'.phase = "tick" /\ now = turn.now /\ pending = <<>> /\ pending' = <<>>

\* How a step of any owner splits: between turns, or a part of one.
LEMMA StepCases ==
  ASSUME TypeOK, [OwnerNext]_vars
  PROVE  \/ Idle /\ UNCHANGED Unrecorded
         \/ BeginUpdate
         \/ Evaluation
         \/ Tick
         \/ Init'
         \/ UNCHANGED vars
<1>1. ASSUME NEW t \in Topics, NEW a \in Arrivals[t], ingestSample(t, a)
      PROVE  Idle /\ UNCHANGED Unrecorded
  BY <1>1 DEF ingestSample, Unrecorded
<1>2. CASE applyInput
  BY <1>2 DEF applyInput, Unrecorded
<1>3. CASE EvaluateMark
  <2>1. pending \in Seq(Nat) /\ pending # <<>>
    BY <1>3 DEF EvaluateMark, TypeOK
  <2>2. Head(pending) \in Nat
    BY <2>1, HeadTailProperties
  <2> QED BY <1>3, <2>2 DEF EvaluateMark, Evaluation
<1>4. CASE EvaluateNow
  <2>1. turn \in Turn /\ turn.now \in Nat
    BY DEF TypeOK, Turn
  <2>2. turn'.phase = "tick" /\ turn'.now = turn.now
    BY <1>4, <2>1 DEF EvaluateNow, Turn
  <2> QED BY <1>4, <2>1, <2>2 DEF EvaluateNow, Evaluation
<1>5. CASE Reset
  BY <1>5 DEF Reset, Init
<1> QED BY <1>1, <1>2, <1>3, <1>4, <1>5
        DEF OwnerNext, Next, ingestImu, ingestThrust, ingestAltitude, Topics

\* A tick either trains the estimator on the pair at hand, in Airborne with a
\* ready health, or leaves estimator, target and raw estimate as they were.
LEMMA TickStep ==
  ASSUME TypeOK, Tick
  PROVE  /\ turn.phase = "tick" /\ turn'.phase = "idle" /\ turn'.now = turn.now
         /\ machine'.state = machine.state
         /\ UNCHANGED <<pending, health, trace>>
         /\ input'.samples = input.samples /\ ~input'.batch_time_jump
         /\ \/ /\ output_model'.target = output_model.target
               /\ output_model'.raw = output_model.raw
               /\ UNCHANGED <<estimator, last_estimate_stamp>>
               /\ ReturnsEarly \/ ~last_sample_used'
            \/ /\ machine.state = "Airborne" /\ last_sample_used'
               /\ health.ready /\ admits(estimator, input)
               /\ output_model'.target = estimator'.raw
               /\ output_model'.raw = estimator'.raw
               /\ last_estimate_stamp' = estimator'.last_time
               /\ last_estimate_stamp' = input.samples["normalized_thrust"].stamp
         /\ \/ ReturnsEarly /\ UNCHANGED <<output_model, last_output, published>>
            \/ /\ ~ReturnsEarly
               /\ last_output' = makeOutput(machine.state, flags', last_sample_used',
                                  health, output_model', last_estimate_stamp')
               /\ Driven(output_model, output_model')
               /\ health.ready => flags' \subseteq health.flags \cup {"EstimatorRejected"}
               /\ last_sample_used' => flags' = health.flags
               /\ last_output'.state = machine.state
               /\ machine.state # "Airborne" => last_output'.flags = health.flags
               /\ last_output'.hover_thrust = output_model'.hover_thrust
               /\ last_output'.raw_hover_thrust = output_model'.raw
               /\ published' \in {published, Append(published,
                                    [stamp |-> turn.now, output |-> last_output'])}
<1>1. turn \in Turn /\ input \in Input
  BY DEF TypeOK
<1>2. ASSUME FinishTurn
      PROVE  /\ turn'.phase = "idle" /\ turn'.now = turn.now
             /\ UNCHANGED <<pending, health, trace>>
             /\ input'.samples = input.samples /\ ~input'.batch_time_jump
  BY <1>1, <1>2 DEF FinishTurn, Turn, Input
<1>3. CASE TickOnGround
  <2>1. turn.phase = "tick" /\ FinishTurn /\ machine.state # "Airborne"
    BY <1>3 DEF TickOnGround
  <2>2. CASE ReturnsEarly
    BY <1>2, <1>3, <2>1, <2>2 DEF TickOnGround, UnchangedByTick
  <2>3. CASE ~ReturnsEarly
    <3>1. /\ health.flags \in SUBSET Flags /\ output_model \in OutputModel
          /\ machine.raw_update_gate \in Gate /\ last_estimate_stamp \in Nat
      BY DEF TypeOK, HealthStatus, Machine
    <3>2. RecordAndPublish(health.flags, FALSE, output_model,
                           machine.raw_update_gate, last_estimate_stamp)
          /\ estimator' = estimator
      BY <1>3, <2>3 DEF TickOnGround
    <3>3. /\ output_model'.target = output_model.target /\ flags' = health.flags
          /\ Driven(output_model, output_model')
          /\ output_model'.raw = output_model.raw /\ last_sample_used' = FALSE
          /\ last_estimate_stamp' = last_estimate_stamp
          /\ machine'.state = machine.state
          /\ last_output' = makeOutput(machine.state, health.flags, FALSE, health,
                                       output_model', last_estimate_stamp)
          /\ published' \in {published, Append(published,
                               [stamp |-> turn.now, output |-> last_output'])}
      BY <3>1, <3>2, RecordStep
    <3> QED BY <1>2, <2>1, <2>3, <3>2, <3>3 DEF makeOutput
  <2> QED BY <2>2, <2>3
<1>4. CASE TickAirborne
  <2>1. turn.phase = "tick" /\ FinishTurn /\ machine.state = "Airborne"
    BY <1>4 DEF TickAirborne
  <2>2. CASE ReturnsEarly
    <3>1. UnchangedByTick
      BY <1>4, <2>2 DEF TickAirborne
    <3> QED BY <1>2, <2>1, <2>2, <3>1 DEF UnchangedByTick
  <2>3. CASE ~ReturnsEarly
    <3>1. PICK flagged \in SUBSET Flags, used \in BOOLEAN, model \in OutputModel,
               raw_gate \in Gate, stamp \in Nat :
            /\ RecordAndPublish(flagged, used, model, raw_gate, stamp)
            /\ estimator' \in Estimator
            /\ model.hover_thrust = output_model.hover_thrust
            /\ health.ready => flagged \subseteq health.flags \cup {"EstimatorRejected"}
            /\ used => flagged = health.flags
            /\ \/ /\ ~used /\ model = output_model /\ estimator' = estimator
                  /\ stamp = last_estimate_stamp
               \/ /\ used /\ health.ready /\ admits(estimator, input)
                  /\ model.target = estimator'.raw /\ model.raw = estimator'.raw
                  /\ stamp = input.samples["normalized_thrust"].stamp
                  /\ estimator'.last_time = stamp
      BY <1>4, <2>3, AirborneStep
    <3>2. /\ output_model'.target = model.target /\ output_model'.raw = model.raw
          /\ Driven(model, output_model') /\ flags' = flagged
          /\ last_sample_used' = used /\ last_estimate_stamp' = stamp
          /\ machine'.state = machine.state
          /\ last_output' = makeOutput(machine.state, flagged, used, health,
                                       output_model', stamp)
          /\ published' \in {published, Append(published,
                               [stamp |-> turn.now, output |-> last_output'])}
      BY <3>1, RecordStep
    <3>3. /\ last_output'.state = machine.state
          /\ last_output'.hover_thrust = output_model'.hover_thrust
          /\ last_output'.raw_hover_thrust = output_model'.raw
      BY <3>2 DEF makeOutput
    <3>4. Driven(output_model, output_model')
      BY <3>1, <3>2 DEF Driven
    <3> QED BY <1>2, <2>1, <2>3, <3>1, <3>2, <3>3, <3>4
  <2> QED BY <2>2, <2>3
<1> QED BY <1>3, <1>4 DEF Tick

\* The target and the raw estimate after one evaluation of health.
LEMMA EvaluationTarget ==
  ASSUME TypeOK, NEW now \in Nat, evaluateHealthAt(now)
  PROVE  /\ output_model'.raw = output_model.raw
         /\ output_model'.hover_thrust = output_model.hover_thrust
         /\ machine'.state = machine.state => output_model' = output_model
         /\ output_model'.target =
              IF machine'.state = "SelfCheck" /\ machine.state # "SelfCheck"
                THEN InitialHoverThrust ELSE output_model.target
<1>1. output_model \in OutputModel /\ machine \in Machine /\ machine' \in Machine
  BY EvaluateStep DEF TypeOK
<1>2. CASE machine' = machine /\ output_model' = output_model
  BY <1>2
<1>3. CASE /\ machine'.state # machine.state
           /\ output_model' = onEnterState(output_model, machine'.state)
  <2>1. machine'.state \in States
    BY <1>1 DEF Machine
  <2>2. CASE machine'.state = "SelfCheck"
    <3>1. output_model' = setTarget(output_model, InitialHoverThrust)
      BY <1>3, <2>2 DEF onEnterState
    <3>2. InitialHoverThrust \in HoverThrusts
      BY ClampRange
    <3>3. /\ output_model'.target = InitialHoverThrust
          /\ output_model'.raw = output_model.raw
          /\ output_model'.hover_thrust = output_model.hover_thrust
      BY <1>1, <3>1, <3>2, SetTargetType
    <3> QED BY <1>3, <2>2, <3>3
  <2>3. CASE machine'.state = "Ground"
    <3>1. output_model' = freezeTarget(output_model)
      BY <1>3, <2>3 DEF onEnterState
    <3>2. output_model' = output_model
      BY <1>1, <3>1, SetTargetType, ClampRange
    <3> QED BY <2>3, <3>2
  <2>4. CASE machine'.state = "Airborne"
    <3>1. output_model' = output_model
      BY <1>3, <2>4 DEF onEnterState
    <3> QED BY <2>4, <3>1
  <2> QED BY <2>1, <2>2, <2>3, <2>4 DEF States
<1> QED BY <1>2, <1>3, EvaluateStep

-----------------------------------------------------------------------------
(* Invariants *)

\* At first, and by every step of any owner, machine and condition stay together.
LEMMA StateInit == Init => StateFollowsHealth
  BY DEF Init, ResetValues, Enter, NoHealth, TargetOf, StateFollowsHealth

\* An edge takes both along; nothing else moves either.
LEMMA StateStep ==
  ASSUME TypeOK, StateFollowsHealth, [OwnerNext]_vars PROVE StateFollowsHealth'
<1>1. CASE UNCHANGED Unrecorded
  BY <1>1 DEF Unrecorded, StateFollowsHealth
<1>2. CASE BeginUpdate
  BY <1>2 DEF BeginUpdate, StateFollowsHealth
<1>3. CASE Evaluation
  <2>1. PICK now \in Nat : evaluateHealthAt(now)
    BY <1>3 DEF Evaluation
  <2>2. \/ machine' = machine /\ health'.condition = health.condition
        \/ machine' = machine /\ TargetOf[health'.condition] = machine.state
        \/ machine'.state = TargetOf[health'.condition]
    BY <2>1, EvaluateStep
  <2> QED BY <2>2 DEF StateFollowsHealth
<1>4. CASE Tick
  BY <1>4, TickStep DEF StateFollowsHealth
<1>5. CASE Init'
  BY StateInit, <1>5, PTL
<1>6. CASE UNCHANGED vars
  BY <1>6 DEF vars, StateFollowsHealth
<1> QED BY <1>1, <1>2, <1>3, <1>4, <1>5, <1>6, StepCases

\* In every state of every run, also between two marks of one batch, the state
\* machine is in the state of the condition evaluated last.
THEOREM StateIsHealths == OwnerSpec => []StateFollowsHealth
  BY StateInit, StateStep, TypeCorrect, PTL DEF OwnerSpec

\* However SelfCheck was entered, and whatever was estimated before, its target
\* is the initial thrust for as long as the state lasts.
THEOREM SelfCheckIsInitial == OwnerSpec => []SelfCheckTargetsInitial
<1>1. Init => SelfCheckTargetsInitial
  BY DEF Init, ResetValues, FreshOutputModel, SelfCheckTargetsInitial
<1>2. TypeOK /\ SelfCheckTargetsInitial /\ [OwnerNext]_vars => SelfCheckTargetsInitial'
  <2> SUFFICES ASSUME TypeOK, SelfCheckTargetsInitial, [OwnerNext]_vars
               PROVE  SelfCheckTargetsInitial'
    OBVIOUS
  <2>1. CASE UNCHANGED Unrecorded
    BY <2>1 DEF Unrecorded, SelfCheckTargetsInitial
  <2>2. CASE BeginUpdate
    BY <2>2 DEF BeginUpdate, SelfCheckTargetsInitial
  <2>3. CASE Evaluation
    <3>1. PICK now \in Nat : evaluateHealthAt(now)
      BY <2>3 DEF Evaluation
    <3> QED BY <3>1, EvaluationTarget DEF SelfCheckTargetsInitial
  <2>4. CASE Tick
    BY <2>4, TickStep DEF SelfCheckTargetsInitial
  <2>5. CASE Init'
    BY <1>1, <2>5, PTL
  <2>6. CASE UNCHANGED vars
    BY <2>6 DEF vars, SelfCheckTargetsInitial
  <2> QED BY <2>1, <2>2, <2>3, <2>4, <2>5, <2>6, StepCases
<1> QED BY <1>1, <1>2, TypeCorrect, PTL DEF OwnerSpec

\* The output model's raw thrust, the reported estimate stamp and the target
\* never part from the estimator.
THEOREM EstimateStaysCoherent == OwnerSpec => []EstimateCoherence
<1>1. Init => EstimateCoherence
  <2>1. Clamp(InitialHoverThrust) = InitialHoverThrust
    BY ClampRange
  <2> QED BY <2>1 DEF Init, ResetValues, FreshOutputModel, FreshEstimator, EstimateCoherence
<1>2. TypeOK /\ EstimateCoherence /\ [OwnerNext]_vars => EstimateCoherence'
  <2> SUFFICES ASSUME TypeOK, EstimateCoherence, [OwnerNext]_vars
               PROVE  EstimateCoherence'
    OBVIOUS
  <2>1. CASE UNCHANGED Unrecorded
    BY <2>1 DEF Unrecorded, EstimateCoherence
  <2>2. CASE BeginUpdate
    BY <2>2 DEF BeginUpdate, EstimateCoherence
  <2>3. CASE Evaluation
    <3>1. PICK now \in Nat : evaluateHealthAt(now)
      BY <2>3 DEF Evaluation
    <3>2. UNCHANGED <<estimator, last_estimate_stamp>>
      BY <3>1 DEF evaluateHealthAt
    <3> QED BY <3>1, <3>2, EvaluationTarget DEF EstimateCoherence
  <2>4. CASE Tick
    BY <2>4, TickStep DEF EstimateCoherence
  <2>5. CASE Init'
    BY <1>1, <2>5, PTL
  <2>6. CASE UNCHANGED vars
    BY <2>6 DEF vars, EstimateCoherence
  <2> QED BY <2>1, <2>2, <2>3, <2>4, <2>5, <2>6, StepCases
<1> QED BY <1>1, <1>2, TypeCorrect, PTL DEF OwnerSpec

\* At first there is no edge.
LEMMA TraceInit == Init => TraceIsAPath
  BY DEF Init, TraceIsAPath

\* No step breaks the path.
LEMMA TraceStep == ASSUME TypeOK, TraceIsAPath, [OwnerNext]_vars PROVE TraceIsAPath'
<1>1. CASE UNCHANGED Unrecorded
  BY <1>1 DEF Unrecorded, TraceIsAPath
<1>2. CASE BeginUpdate
  BY <1>2 DEF BeginUpdate, TraceIsAPath
<1>3. CASE Evaluation
  <2>1. PICK now \in Nat : evaluateHealthAt(now)
    BY <1>3 DEF Evaluation
  <2>2. trace \in Seq(Traced) /\ health' \in HealthStatus
    BY <2>1, EvaluateStep DEF TypeOK
  <2>3. CASE machine' = machine /\ trace' = trace
    BY <2>3 DEF TraceIsAPath
  <2>4. CASE /\ machine'.state = TargetOf[health'.condition]
             /\ machine'.state # machine.state
             /\ trace' = Append(trace, TraceEntry(now, health'))
    <3> DEFINE n == Len(trace)
    <3>1. /\ n \in Nat /\ Len(trace') = n + 1 /\ DOMAIN trace = 1..n
          /\ DOMAIN trace' = 1..(n + 1)
          /\ \A i \in 1..n : trace'[i] = trace[i]
          /\ trace'[n + 1] = TraceEntry(now, health')
      BY <2>2, <2>4
    <3>2. /\ trace'[n + 1].event = health'.condition
          /\ trace'[n + 1].from = machine.state
          /\ trace'[n + 1].to = machine'.state
      BY <2>4, <3>1 DEF TraceEntry
    <3>3. n > 0 => trace[n].to = machine.state
      BY <2>2, <3>1 DEF TraceIsAPath
    <3>4. ASSUME NEW i \in 1..(n + 1)
          PROVE  /\ trace'[i].from # trace'[i].to
                 /\ trace'[i].to = TargetOf[trace'[i].event]
                 /\ i > 1 => trace'[i].from = trace'[i - 1].to
      <4>1. CASE i \in 1..n
        BY <3>1, <4>1 DEF TraceIsAPath
      <4>2. CASE i = n + 1
        <5>1. i > 1 => trace'[i - 1] = trace[n] /\ n > 0
          BY <3>1, <4>2
        <5> QED BY <2>4, <3>2, <3>3, <4>2, <5>1
      <4> QED BY <3>1, <4>1, <4>2
    <3> QED BY <3>1, <3>2, <3>4 DEF TraceIsAPath
  <2> QED BY <2>1, <2>3, <2>4, EvaluateStep
<1>4. CASE Tick
  BY <1>4, TickStep DEF TraceIsAPath
<1>5. CASE Init'
  BY <1>5, TraceInit, PTL
<1>6. CASE UNCHANGED vars
  BY <1>6 DEF vars, TraceIsAPath
<1> QED BY <1>1, <1>2, <1>3, <1>4, <1>5, <1>6, StepCases

\* The trace of a turn is a path of the transition table that ends in the
\* machine's state, for batches of any length.
THEOREM TraceIsPath == OwnerSpec => []TraceIsAPath
  BY TraceInit, TraceStep, TypeCorrect, PTL DEF OwnerSpec

\* Inductive form of PublishedIsTheSnapshot: the snapshot shows the output model
\* at all times, and nothing is published before the tick.
SnapshotInv ==
  /\ last_output.hover_thrust = output_model.hover_thrust
  /\ last_output.raw_hover_thrust = output_model.raw
  /\ IF Idle
       THEN published \in {<<>>, <<[stamp |-> turn.now, output |-> last_output]>>}
       ELSE published = <<>>

\* A turn publishes at most once, and then exactly the snapshot it leaves.
THEOREM PublishesTheSnapshot == OwnerSpec => []PublishedIsTheSnapshot
<1>1. Init => SnapshotInv
  BY DEF Init, ResetValues, makeOutput, SnapshotInv, Idle
<1>2. TypeOK /\ SnapshotInv /\ [OwnerNext]_vars => SnapshotInv'
  <2> SUFFICES ASSUME TypeOK, SnapshotInv, [OwnerNext]_vars PROVE SnapshotInv'
    OBVIOUS
  <2>1. CASE Idle /\ UNCHANGED Unrecorded
    BY <2>1 DEF Unrecorded, SnapshotInv, Idle
  <2>2. CASE BeginUpdate
    BY <2>2 DEF BeginUpdate, SnapshotInv, Idle
  <2>3. CASE Evaluation
    <3>1. PICK now \in Nat : evaluateHealthAt(now)
      BY <2>3 DEF Evaluation
    <3>2. UNCHANGED <<last_output, published>> /\ ~Idle /\ ~Idle'
      BY <2>3, <3>1 DEF Evaluation, evaluateHealthAt, Idle
    <3> QED BY <3>1, <3>2, EvaluationTarget DEF SnapshotInv
  <2>4. CASE Tick
    <3>1. ~Idle /\ Idle' /\ turn'.now = turn.now
      BY <2>4, TickStep DEF Idle
    <3>2. published = <<>>
      BY <3>1 DEF SnapshotInv
    <3>3. CASE UNCHANGED <<output_model, last_output, published>>
      BY <3>1, <3>2, <3>3 DEF SnapshotInv
    <3>4. CASE /\ last_output'.hover_thrust = output_model'.hover_thrust
               /\ last_output'.raw_hover_thrust = output_model'.raw
               /\ published' \in {published, Append(published,
                                    [stamp |-> turn.now, output |-> last_output'])}
      <4>1. \A x : Append(<<>>, x) = <<x>>
        OBVIOUS
      <4> QED BY <3>1, <3>2, <3>4, <4>1 DEF SnapshotInv
    <3> QED BY <2>4, <3>3, <3>4, TickStep
  <2>5. CASE Init'
    BY <1>1, <2>5, PTL
  <2>6. CASE UNCHANGED vars
    BY <2>6 DEF vars, SnapshotInv, Idle
  <2> QED BY <2>1, <2>2, <2>3, <2>4, <2>5, <2>6, StepCases
<1>3. SnapshotInv => PublishedIsTheSnapshot
  BY DEF SnapshotInv, PublishedIsTheSnapshot
<1> QED BY <1>1, <1>2, <1>3, TypeCorrect, PTL DEF OwnerSpec

-----------------------------------------------------------------------------
(* Action properties *)

\* The tick works on the input as it stands: health was evaluated on it at the
\* turn's clock, and no mark is left over.
TickSeesInput ==
  turn.phase = "tick" => health = classify(input, turn.now) /\ pending = <<>>

\* It does so for any owner.
LEMMA TickSeesTheInput == OwnerSpec => []TickSeesInput
<1>1. Init => TickSeesInput
  BY DEF Init, TickSeesInput
<1>2. TypeOK /\ TickSeesInput /\ [OwnerNext]_vars => TickSeesInput'
  <2> SUFFICES ASSUME TypeOK, TickSeesInput, [OwnerNext]_vars PROVE TickSeesInput'
    OBVIOUS
  <2>1. CASE Idle /\ UNCHANGED Unrecorded
    BY <2>1 DEF Unrecorded, Idle, TickSeesInput
  <2>2. CASE BeginUpdate
    BY <2>2 DEF BeginUpdate, TickSeesInput
  <2>3. CASE Evaluation
    BY <2>3 DEF Evaluation, evaluateHealthAt, TickSeesInput
  <2>4. CASE Tick
    BY <2>4, TickStep DEF TickSeesInput
  <2>5. CASE Init'
    BY <1>1, <2>5, PTL
  <2>6. CASE UNCHANGED vars
    BY <2>6 DEF vars, TickSeesInput
  <2> QED BY <2>1, <2>2, <2>3, <2>4, <2>5, <2>6, StepCases
<1> QED BY <1>1, <1>2, TypeCorrect, PTL DEF OwnerSpec

\* What readiness says of the input it was found on.
LEMMA ReadyInput ==
  ASSUME NEW i \in Input, NEW now \in Nat, classify(i, now).ready
  PROVE  /\ ~i.batch_time_jump /\ ~i.thrust_ignored
         /\ \A t \in Topics :
              /\ i.samples[t].received
              /\ now - SampleTimeout <= i.samples[t].stamp
              /\ i.samples[t].stamp <= now + FutureTolerance
              /\ -BackwardTolerance <= i.samples[t].period
              /\ i.samples[t].period <= LowRatePeriod
              /\ finite(i.samples[t])
         /\ i.samples["normalized_thrust"].value = "usable"
         /\ i.samples["altitude"].value # "low"
<1>1. \A f : ~unhealthy(f).ready
             /\ ~[unhealthy(f) EXCEPT !.condition = "BelowMinAltitude"].ready
  BY DEF unhealthy, NoHealth
<1>2. /\ MissingFlags(i) = {} /\ ~TimeJumped(i, now) /\ LateFlags(i, now) = {}
      /\ InvalidFlags(i) = {} /\ i.samples["altitude"].value # "low"
  BY <1>1 DEF classify
<1>3. \A t \in Topics : i.samples[t].received
  BY <1>2 DEF MissingFlags
<1>4. ~i.batch_time_jump /\ \A t \in Topics : ~sampleTimeJumped(now, i.samples[t])
  BY <1>2 DEF TimeJumped
<1>5. \A t \in Topics : ~sampleStale(now, i.samples[t]) /\ ~sampleRateLow(i.samples[t])
  BY <1>2 DEF LateFlags
<1>6. InvalidTopics(i) = {}
  BY <1>2 DEF InvalidFlags
<1>7. \A t \in Topics : i.samples[t].stamp \in Nat /\ i.samples[t].period \in Int
  BY DEF Input, Sample
<1>8. \A t \in Topics : /\ now - SampleTimeout <= i.samples[t].stamp
                        /\ i.samples[t].stamp <= now + FutureTolerance
                        /\ -BackwardTolerance <= i.samples[t].period
                        /\ i.samples[t].period <= LowRatePeriod
  BY <1>3, <1>4, <1>5, <1>7, Periods, Tolerances
     DEF sampleTimeJumped, sampleStale, sampleRateLow
<1>9. /\ i.samples["normalized_thrust"].value = "usable" /\ ~i.thrust_ignored
      /\ finite(i.samples["imu_acc_z"]) /\ finite(i.samples["altitude"])
  BY <1>6 DEF InvalidTopics
<1>10. \A t \in Topics : finite(i.samples[t])
  BY <1>9 DEF Topics, finite
<1> QED BY <1>2, <1>3, <1>4, <1>8, <1>9, <1>10

\* The least squares sees nothing but pairs that pass every check of health at
\* the clock of the turn, and each accepted pair by its thrust stamp.
THEOREM TrainingIsHealthy == OwnerSpec => TrainsOnHealthyPairs
<1> DEFINE A == estimator' # estimator /\ turn'.phase # "fresh"
      => LET thrust == input.samples["normalized_thrust"] IN
         /\ turn.phase = "tick" /\ machine.state = "Airborne"
         /\ ~input.batch_time_jump /\ ~input.thrust_ignored
         /\ \A t \in Topics :
              /\ input.samples[t].received
              /\ turn.now - SampleTimeout <= input.samples[t].stamp
              /\ input.samples[t].stamp <= turn.now + FutureTolerance
              /\ -BackwardTolerance <= input.samples[t].period
              /\ input.samples[t].period <= LowRatePeriod
              /\ finite(input.samples[t])
         /\ thrust.value = "usable"
         /\ input.samples["altitude"].value # "low"
         /\ estimator'.last_time = thrust.stamp
<1>1. TypeOK /\ TickSeesInput /\ [OwnerNext]_vars => [A]_vars
  <2> SUFFICES ASSUME TypeOK, TickSeesInput, [OwnerNext]_vars,
                      estimator' # estimator, turn'.phase # "fresh"
               PROVE  A
    OBVIOUS
  <2>1. Tick
    <3>1. ~UNCHANGED Unrecorded /\ ~BeginUpdate /\ ~UNCHANGED vars
      BY DEF Unrecorded, BeginUpdate, vars
    <3>2. ~Evaluation
      BY DEF Evaluation, evaluateHealthAt
    <3>3. ~Init'
      BY DEF Init
    <3> QED BY <3>1, <3>2, <3>3, StepCases
  <2>2. /\ turn.phase = "tick" /\ machine.state = "Airborne" /\ health.ready
        /\ estimator'.last_time = input.samples["normalized_thrust"].stamp
    BY <2>1, TickStep
  <2>3. input \in Input /\ turn.now \in Nat /\ classify(input, turn.now).ready
    BY <2>2 DEF TypeOK, Turn, TickSeesInput
  <2> QED BY <2>2, <2>3, ReadyInput
<1> QED BY <1>1, TypeCorrect, TickSeesTheInput, PTL DEF OwnerSpec, TrainsOnHealthyPairs

\* Nothing moves the target but an edge into SelfCheck, to the initial thrust, and
\* the tick that accepts a sample, to the estimate the sample led to.
THEOREM TargetHasCause == OwnerSpec => TargetMovesWithCause
<1> DEFINE A == output_model'.target # output_model.target /\ turn'.phase # "fresh"
      => \/ /\ turn.phase = "evaluate"
            /\ machine.state # "SelfCheck" /\ machine'.state = "SelfCheck"
            /\ output_model'.target = InitialHoverThrust
         \/ /\ turn.phase = "tick" /\ machine.state = "Airborne" /\ last_sample_used'
            /\ output_model'.target = estimator'.raw
<1>1. TypeOK /\ [OwnerNext]_vars => [A]_vars
  <2> SUFFICES ASSUME TypeOK, [OwnerNext]_vars,
                      output_model'.target # output_model.target,
                      turn'.phase # "fresh"
               PROVE  A
    OBVIOUS
  <2>1. CASE Evaluation
    <3>1. PICK now \in Nat : evaluateHealthAt(now) /\ turn.phase = "evaluate"
      BY <2>1 DEF Evaluation
    <3> QED BY <3>1, EvaluationTarget
  <2>2. CASE Tick
    BY <2>2, TickStep
  <2>3. ~UNCHANGED Unrecorded /\ ~BeginUpdate /\ ~UNCHANGED vars
    BY DEF Unrecorded, BeginUpdate, vars
  <2>4. ~Init'
    BY DEF Init
  <2> QED BY <2>1, <2>2, <2>3, <2>4, StepCases
<1> QED BY <1>1, TypeCorrect, PTL DEF OwnerSpec, TargetMovesWithCause

\* A fault that is still in the batch decides the health of the turn, unless a
\* topic is missing altogether.
LEMMA FaultDecides ==
  ASSUME NEW i \in Input, NEW now \in Nat, i.batch_time_jump
  PROVE  /\ classify(i, now).condition = "InputUnhealthy"
         /\ classify(i, now).flags = IF MissingFlags(i) # {}
                                       THEN MissingFlags(i) ELSE {"TimeJump"}
  BY DEF classify, TimeJumped, unhealthy, NoHealth

\* The production callers are owners.
LEMMA SpecIsOwnerSpec == Spec => OwnerSpec
<1>1. [Next]_vars => [OwnerNext]_vars
  BY DEF OwnerNext
<1> QED BY <1>1, PTL DEF Spec, OwnerSpec

\* Under callers that ingest samples one at a time, a clock fault anywhere in a
\* batch reaches the output of the next turn, whatever came after it.
THEOREM FaultReachesOutput == Spec => FaultIsServed
<1> DEFINE A == input.batch_time_jump /\ ~input'.batch_time_jump /\ turn'.phase # "fresh"
      => /\ turn.phase = "tick"
         /\ last_output'.state = "SelfCheck"
         /\ \/ "TimeJump" \in last_output'.flags
            \/ MissingFlags(input) # {} /\ MissingFlags(input) \subseteq last_output'.flags
<1>1. Spec => OwnerSpec
  BY SpecIsOwnerSpec
<1>2. TypeOK /\ TickSeesInput /\ StateFollowsHealth /\ [Next]_vars => [A]_vars
  <2> SUFFICES ASSUME TypeOK, TickSeesInput, StateFollowsHealth, [Next]_vars,
                      input.batch_time_jump, ~input'.batch_time_jump,
                      turn'.phase # "fresh"
               PROVE  A
    OBVIOUS
  <2>1. ASSUME NEW t \in Topics, NEW a \in Arrivals[t], ingestSample(t, a)
        PROVE  FALSE
    BY <2>1 DEF ingestSample, BatchFault
  <2>2. Tick
    BY <2>1 DEF Next, ingestImu, ingestThrust, ingestAltitude, Topics, BeginUpdate,
                EvaluateMark, EvaluateNow, evaluateHealthAt, Reset, vars
  <2>3. turn.phase = "tick" /\ input \in Input /\ turn.now \in Nat
    BY <2>2, TickStep DEF TypeOK, Turn
  <2>4. /\ health.condition = "InputUnhealthy"
        /\ health.flags = IF MissingFlags(input) # {}
                            THEN MissingFlags(input) ELSE {"TimeJump"}
    BY <2>3, FaultDecides DEF TickSeesInput
  <2>5. machine.state = "SelfCheck" /\ ~ReturnsEarly
    BY <2>4 DEF StateFollowsHealth, TargetOf, ReturnsEarly
  <2>6. last_output'.state = "SelfCheck" /\ last_output'.flags = health.flags
    BY <2>2, <2>5, TickStep
  <2> QED BY <2>3, <2>4, <2>6
<1> QED BY <1>1, <1>2, TypeCorrect, TickSeesTheInput, StateIsHealths, PTL
        DEF Spec, FaultIsServed

-----------------------------------------------------------------------------
\* No caller passes a thrust sample stamped 0.  The code takes a last accepted
\* stamp of 0 for none at all (hover_thrust_estimator.h:72), so this is needed.
StampsArePositive ==
  /\ \A a \in Arrivals["normalized_thrust"] : a.stamp > 0
  /\ \A i \in AppliedInputs : LET thrust == i.samples["normalized_thrust"] IN
                               thrust.received => thrust.stamp > 0

ThrustIsStamped == LET thrust == input.samples["normalized_thrust"] IN
                   thrust.received => thrust.stamp > 0

\* A thrust sample that was received has a stamp, if those that arrive have.
LEMMA ThrustStaysStamped ==
  ASSUME StampsArePositive
  PROVE  OwnerSpec => []ThrustIsStamped
<1>1. Init => ThrustIsStamped
  BY DEF Init, ResetValues, NoInput, NoSample, Topics, ThrustIsStamped
<1>2. TypeOK /\ ThrustIsStamped /\ [OwnerNext]_vars => ThrustIsStamped'
  <2> SUFFICES ASSUME TypeOK, ThrustIsStamped, [OwnerNext]_vars PROVE ThrustIsStamped'
    OBVIOUS
  <2>1. ASSUME NEW t \in Topics, NEW a \in Arrivals[t], ingestSample(t, a)
        PROVE  ThrustIsStamped'
    <3>1. input.samples \in [Topics -> Sample]
      BY DEF TypeOK, Input
    <3>2. input'.samples = [input.samples EXCEPT ![t] = ReceivedSample(input.samples[t], a)]
      BY <2>1 DEF ingestSample
    <3>3. CASE t = "normalized_thrust"
      BY <3>1, <3>2, <3>3 DEF StampsArePositive, ThrustIsStamped, ReceivedSample, Topics
    <3>4. CASE t # "normalized_thrust"
      BY <3>1, <3>2, <3>4 DEF ThrustIsStamped, Topics
    <3> QED BY <3>3, <3>4
  <2>2. CASE applyInput
    BY <2>2 DEF applyInput, StampsArePositive, ThrustIsStamped
  <2>3. CASE BeginUpdate \/ EvaluateMark \/ EvaluateNow
    BY <2>3 DEF BeginUpdate, EvaluateMark, EvaluateNow, evaluateHealthAt, ThrustIsStamped
  <2>4. CASE Tick
    BY <2>4, TickStep DEF ThrustIsStamped
  <2>5. CASE Reset
    BY <2>5 DEF Reset, ResetValues, NoInput, NoSample, Topics, ThrustIsStamped
  <2>6. CASE UNCHANGED vars
    BY <2>6 DEF vars, ThrustIsStamped
  <2> QED BY <2>1, <2>2, <2>3, <2>4, <2>5, <2>6
          DEF OwnerNext, Next, ingestImu, ingestThrust, ingestAltitude, Topics
<1> QED BY <1>1, <1>2, TypeCorrect, PTL DEF OwnerSpec

\* A sample is used only if its stamp is past that of the last one used, or that
\* is 0, which the code takes for none.
LEMMA AcceptedStampMoves ==
  ASSUME TypeOK, TickSeesInput, StateFollowsHealth, EstimateCoherence,
         OwnerNext, turn.phase = "tick", last_sample_used'
  PROVE  LET thrust == input.samples["normalized_thrust"] IN
         /\ thrust.received /\ last_estimate_stamp' = thrust.stamp
         /\ \/ last_estimate_stamp < last_estimate_stamp'
            \/ last_estimate_stamp = 0 /\ last_estimate_stamp' = 0
<1>1. CASE Tick
  <2>1. ~ReturnsEarly
    BY DEF StateFollowsHealth, ReturnsEarly
  <2>2. /\ health.ready /\ admits(estimator, input)
        /\ last_estimate_stamp' = input.samples["normalized_thrust"].stamp
    BY <1>1, <2>1, TickStep
  <2>3. input \in Input /\ turn.now \in Nat /\ classify(input, turn.now).ready
    BY <2>2 DEF TypeOK, Turn, TickSeesInput
  <2>4. input.samples["normalized_thrust"].received
    BY <2>3, ReadyInput DEF Topics
  <2>6. /\ last_estimate_stamp \in Nat /\ last_estimate_stamp = estimator.last_time
        /\ input.samples["normalized_thrust"].stamp \in Nat
    BY <2>3 DEF TypeOK, EstimateCoherence, Input, Sample, Topics
  <2>7. estimator.last_time > 0 => last_estimate_stamp' > estimator.last_time
    BY <2>2 DEF admits
  <2> QED BY <2>2, <2>4, <2>6, <2>7
<1>2. CASE ~Tick
  <2>1. ~Idle
    BY DEF Idle
  <2> QED BY <1>2, <2>1 DEF OwnerNext, Next, ingestImu, ingestThrust, ingestAltitude,
       ingestSample, applyInput, BeginUpdate, EvaluateMark, EvaluateNow, Reset
<1> QED BY <1>1, <1>2

\* However stamps are ordered, no thrust sample trains the estimator twice, as long
\* as none is stamped 0.
THEOREM NoSampleTwice ==
  ASSUME StampsArePositive
  PROVE  OwnerSpec => AcceptedStampsIncrease
<1> DEFINE A == turn.phase = "tick" /\ last_sample_used' /\ estimator.valid
                  => last_estimate_stamp < last_estimate_stamp'
<1>1. TypeOK /\ TickSeesInput /\ StateFollowsHealth /\ EstimateCoherence
        /\ ThrustIsStamped /\ [OwnerNext]_vars => [A]_vars
  BY AcceptedStampMoves DEF ThrustIsStamped
<1> QED BY <1>1, TypeCorrect, TickSeesTheInput, StateIsHealths, EstimateStaysCoherent,
           ThrustStaysStamped, PTL DEF OwnerSpec, AcceptedStampsIncrease
=============================================================================
