------------------------- MODULE HoverThrustRuntime -------------------------
(***************************************************************************)
(* HoverThrustEstimatorRuntime of hover_thrust_estimator_runtime.{h,cpp}:  *)
(* the single-threaded domain core.  Callers record input samples, each    *)
(* with the clock reading at which it arrived; update(now) then runs one   *)
(* owner turn: health is evaluated at every recorded mark in arrival order *)
(* and once more at now, each change of condition moves the state machine, *)
(* and the state that results does its due work.                           *)
(*                                                                         *)
(* One turn is BeginUpdate, one EvaluateMark per mark, EvaluateNow and one *)
(* Tick action; nothing interleaves with it, since update() is one call.   *)
(* owner_turn_ and trace_sequence_, which only the debug trace reads, are  *)
(* left out.                                                               *)
(***************************************************************************)
EXTENDS HoverThrustEstimator, HoverThrustOutputModel, PeriodicGate,
        Sequences, FiniteSetsExt

CONSTANTS
  Times,              \* the readings of the owner's clock
  Arrivals,           \* per topic, the samples callers may ingest
  AppliedInputs,      \* the complete inputs the batch helper may apply
  MaxPending          \* bound: input events between two turns

Arrival == [value : Values, ignored : BOOLEAN, stamp : Nat, now : Nat]

ASSUME RuntimeAssumption ==
  /\ Times \subseteq Nat
  /\ Arrivals \in [Topics -> SUBSET Arrival]
  /\ AppliedInputs \subseteq Input
  /\ MaxPending \in Nat

VARIABLES
  input,                \* input_: the latest sample of every topic
  pending,              \* pending_input_marks_
  health,               \* health_
  machine,              \* machine_: the active alternative and its gates
  estimator,            \* estimator_
  output_model,         \* output_model_
  flags,                \* flags_
  last_sample_used,     \* last_sample_used_
  last_estimate_stamp,  \* last_estimate_stamp_sec_
  last_output,          \* last_output_
  published,            \* published_estimates_ of the latest turn
  trace,                \* transition_trace_ of the latest turn
  turn                  \* where update() is, and the now it was given

vars == <<input, pending, health, machine, estimator, output_model, flags,
          last_sample_used, last_estimate_stamp, last_output, published,
          trace, turn>>

Output == [state : States, flags : SUBSET Flags, hover_thrust : HoverThrusts,
           raw_hover_thrust : HoverThrusts, sample_used : BOOLEAN,
           source_stamp : Nat, last_estimate_stamp : Nat]

\* Mutant: the output shows where the filter is heading.
makeOutput_target(state, flagged, used, h, model, estimate_stamp) ==
  [state |-> state, flags |-> flagged, hover_thrust |-> model.target,
   raw_hover_thrust |-> model.raw, sample_used |-> used,
   source_stamp |-> h.source_stamp, last_estimate_stamp |-> estimate_stamp]

\* The initial thrust, a constant, and the quotient gravity / hover_thrust are
\* left out.
makeOutput(state, flagged, used, h, model, estimate_stamp) ==
  [state |-> state, flags |-> flagged, hover_thrust |-> model.hover_thrust,
   raw_hover_thrust |-> model.raw, sample_used |-> used,
   source_stamp |-> h.source_stamp, last_estimate_stamp |-> estimate_stamp]

\* HoverThrustSpec::handle: the alternative a condition belongs to.
TargetOf == [InputUnhealthy |-> "SelfCheck", BelowMinAltitude |-> "Ground",
             EstimationReady |-> "Airborne"]

\* Entering an alternative constructs it, with gates that have not fired.
Machine == [state : States, publish_gate : Gate, raw_update_gate : Gate]
Enter(state) == [state |-> state, publish_gate |-> FreshGate,
                 raw_update_gate |-> FreshGate]

\* "fresh": reset, and no update since.  "idle": between two turns.
Turn == [phase : {"fresh", "idle", "evaluate", "tick"}, now : Nat]
Idle == turn.phase \in {"fresh", "idle"}

-----------------------------------------------------------------------------
(* What reset() assigns. *)
ResetValues ==
  [input |-> NoInput, health |-> NoHealth, machine |-> Enter("SelfCheck"),
   estimator |-> FreshEstimator, output_model |-> FreshOutputModel,
   output |-> makeOutput("SelfCheck", {}, FALSE, NoHealth, FreshOutputModel, 0)]

Init ==
  /\ input = ResetValues.input
  /\ pending = <<>>
  /\ health = ResetValues.health
  /\ machine = ResetValues.machine
  /\ estimator = ResetValues.estimator
  /\ output_model = ResetValues.output_model
  /\ flags = {}
  /\ last_sample_used = FALSE
  /\ last_estimate_stamp = 0
  /\ last_output = ResetValues.output
  /\ published = <<>>
  /\ trace = <<>>
  /\ turn = [phase |-> "fresh", now |-> 0]

\* reset(), and setConfig() for the same configuration.
Reset ==
  /\ Idle
  /\ input' = ResetValues.input
  /\ pending' = <<>>
  /\ health' = ResetValues.health
  /\ machine' = ResetValues.machine
  /\ estimator' = ResetValues.estimator
  /\ output_model' = ResetValues.output_model
  /\ flags' = {}
  /\ last_sample_used' = FALSE
  /\ last_estimate_stamp' = 0
  /\ last_output' = ResetValues.output
  /\ published' = <<>>
  /\ trace' = <<>>
  /\ turn' = [phase |-> "fresh", now |-> 0]

-----------------------------------------------------------------------------
(* Input: between turns, samples and their marks are only recorded. *)
ReceivedSample(old, a) ==
  [value |-> a.value, stamp |-> a.stamp, received |-> TRUE,
   period |-> IF old.received THEN a.stamp - old.stamp ELSE 0]

\* Mutant: a later sample erases the fault of an earlier one.
BatchFault_latest(a, sample) == sampleTimeJumped(a.now, sample)

BatchFault(a, sample) ==
  input.batch_time_jump \/ sampleTimeJumped(a.now, sample)

ingestSample(t, a) ==
  LET sample == ReceivedSample(input.samples[t], a) IN
  /\ Idle
  /\ Len(pending) < MaxPending
  /\ input' = [samples |-> [input.samples EXCEPT ![t] = sample],
               thrust_ignored |-> IF t = "normalized_thrust"
                                    THEN a.ignored ELSE input.thrust_ignored,
               batch_time_jump |-> BatchFault(a, sample)]
  /\ pending' = Append(pending, a.now)
  /\ UNCHANGED <<health, machine, estimator, output_model, flags,
                 last_sample_used, last_estimate_stamp, last_output,
                 published, trace, turn>>

ingestImu == \E a \in Arrivals["imu_acc_z"] : ingestSample("imu_acc_z", a)

ingestThrust ==
  \E a \in Arrivals["normalized_thrust"] : ingestSample("normalized_thrust", a)

ingestAltitude == \E a \in Arrivals["altitude"] : ingestSample("altitude", a)

\* The batch helper of tests and other owners: the whole input is replaced.
applyInput ==
  \E whole \in AppliedInputs, now \in Times :
    /\ Idle
    /\ Len(pending) < MaxPending
    /\ input' = whole
    /\ pending' = Append(pending, now)
    /\ UNCHANGED <<health, machine, estimator, output_model, flags,
                   last_sample_used, last_estimate_stamp, last_output,
                   published, trace, turn>>

-----------------------------------------------------------------------------
(* update(now) *)
BeginUpdate ==
  \E now \in Times :
    /\ Idle
    /\ published' = <<>>
    /\ trace' = <<>>
    /\ turn' = [phase |-> "evaluate", now |-> now]
    /\ UNCHANGED <<input, pending, health, machine, estimator, output_model,
                   flags, last_sample_used, last_estimate_stamp, last_output>>

\* Mutants: SelfCheck keeps the target; Ground goes back to the initial one.
onEnterState_selfCheckFreezes(model, state) ==
  IF state = "Airborne" THEN model ELSE freezeTarget(model)
onEnterState_groundResets(model, state) ==
  IF state = "Airborne" THEN model ELSE setTarget(model, InitialHoverThrust)

onEnterState(model, state) ==
  CASE state = "SelfCheck" -> setTarget(model, InitialHoverThrust)
    [] state = "Ground"    -> freezeTarget(model)
    [] state = "Airborne"  -> model

\* Mutants: one edge per turn; an edge is a change of flags.
Edge_oncePerTurn(h) == h.condition # health.condition /\ trace = <<>>
Edge_byFlags(h) == h.flags # health.flags

Edge(h) == h.condition # health.condition

\* Mutant: the state an edge leaves is read after it was taken.
TraceEntry_fromAfter(now, h) ==
  [stamp |-> now, event |-> h.condition,
   from |-> TargetOf[h.condition], to |-> TargetOf[h.condition]]

TraceEntry(now, h) ==
  [stamp |-> now, event |-> h.condition,
   from |-> machine.state, to |-> TargetOf[h.condition]]

\* Mutant: the gates survive the transition.
Transition_keepsGates(to) == [machine EXCEPT !.state = to]

\* machine_->apply() of an Enter outcome.
Transition(to) == Enter(to)

\* The latest snapshot is classified at `now`, however old `now` is.
evaluateHealthAt(now) ==
  LET h  == classify(input, now)
      to == TargetOf[h.condition]
  IN /\ health' = h
     /\ IF Edge(h) /\ to # machine.state
          THEN /\ output_model' = onEnterState(output_model, to)
               /\ machine' = Transition(to)
               /\ trace' = Append(trace, TraceEntry(now, h))
          ELSE UNCHANGED <<machine, output_model, trace>>
     /\ UNCHANGED <<input, estimator, flags, last_sample_used,
                    last_estimate_stamp, last_output, published>>

EvaluateMark ==
  /\ turn.phase = "evaluate"
  /\ pending # <<>>
  /\ evaluateHealthAt(Head(pending))
  /\ pending' = Tail(pending)
  /\ UNCHANGED turn

\* Mutant: the tick follows the marks without an evaluation at now.
EvaluateNow_skipped ==
  /\ turn.phase = "evaluate"
  /\ pending = <<>>
  /\ turn' = [turn EXCEPT !.phase = "tick"]
  /\ UNCHANGED <<input, pending, health, machine, estimator, output_model,
                 flags, last_sample_used, last_estimate_stamp, last_output,
                 published, trace>>

EvaluateNow ==
  /\ turn.phase = "evaluate"
  /\ pending = <<>>
  /\ evaluateHealthAt(turn.now)
  /\ turn' = [turn EXCEPT !.phase = "tick"]
  /\ UNCHANGED pending

\* recordStateOutput(flagged, used), then publishEstimateIfDue, for a state
\* whose raw step left `model`, `raw_gate` and `estimate_stamp`.
RecordAndPublish(flagged, used, model, raw_gate, estimate_stamp) ==
  LET fires == due(machine.publish_gate, turn.now, PublishPeriod) IN
  \E driven \in IF fires THEN driveTowardTarget(model, turn.now) ELSE {model} :
    LET output == makeOutput(machine.state, flagged, used, health, driven,
                             estimate_stamp)
    IN /\ output_model' = driven
       /\ flags' = flagged
       /\ last_sample_used' = used
       /\ last_estimate_stamp' = estimate_stamp
       /\ last_output' = output
       /\ machine' = [state |-> machine.state,
                      publish_gate |-> fire(machine.publish_gate, turn.now,
                                            PublishPeriod),
                      raw_update_gate |-> raw_gate]
       /\ published' = IF fires
            THEN Append(published, [stamp |-> turn.now, output |-> output])
            ELSE published

\* The end of update(), after the tick was dispatched.
FinishTurn ==
  /\ input' = [input EXCEPT !.batch_time_jump = FALSE]
  /\ turn' = [turn EXCEPT !.phase = "idle"]
  /\ UNCHANGED <<pending, health, trace>>

\* tickState() does nothing when the condition is not the active state's.
ReturnsEarly == TargetOf[health.condition] # machine.state
UnchangedByTick ==
  UNCHANGED <<machine, estimator, output_model, flags, last_sample_used,
              last_estimate_stamp, last_output, published>>

\* tickState() of SelfCheck and of Ground.
TickOnGround ==
  /\ turn.phase = "tick"
  /\ machine.state # "Airborne"
  /\ IF ReturnsEarly THEN UnchangedByTick
     ELSE /\ RecordAndPublish(health.flags, FALSE, output_model,
                              machine.raw_update_gate, last_estimate_stamp)
          /\ UNCHANGED estimator
  /\ FinishTurn

\* tickState() of Airborne, with updateRawEstimateIfDue.
TickAirborne ==
  \E rls \in RlsOutcomes :
    LET gate     == machine.raw_update_gate
        fires    == due(gate, turn.now, RawPeriod)
        used     == fires /\ health.ready /\ admits(estimator, input) /\ rls.accepted
        trained  == IF fires /\ health.ready
                      THEN Train(estimator, input, rls) ELSE estimator
        rejected == {f \in {"RawEstimateStale"}  : fires /\ ~health.ready}
                      \cup {f \in {"EstimatorRejected"} :
                              fires /\ health.ready /\ ~used}
        model    == IF used
                      THEN setTarget(setRaw(output_model, trained.raw), trained.raw)
                      ELSE output_model
        stamp    == IF used THEN input.samples["normalized_thrust"].stamp
                            ELSE last_estimate_stamp
    IN /\ turn.phase = "tick"
       /\ machine.state = "Airborne"
       /\ IF ReturnsEarly THEN UnchangedByTick
          ELSE /\ estimator' = trained
               /\ RecordAndPublish(health.flags \cup rejected, used, model,
                                   fire(gate, turn.now, RawPeriod), stamp)
       /\ FinishTurn

Tick == TickOnGround \/ TickAirborne

-----------------------------------------------------------------------------
(* nextWake(now): when the owner has to run the next turn.  Read-only. *)
\* Mutant: only the publish gate is considered.
GateDeadlines_publishOnly(now) ==
  {nextDue(machine.publish_gate, now, PublishPeriod)}

GateDeadlines(now) ==
  {nextDue(machine.publish_gate, now, PublishPeriod)}
    \cup IF machine.state = "Airborne"
           THEN {nextDue(machine.raw_update_gate, now, RawPeriod)} ELSE {}

\* Mutant: the thrust sample alone can time out.
TimeoutEdges_thrustOnly ==
  {input.samples[t].stamp + SampleTimeout + 1 :
     t \in {u \in {"normalized_thrust"} : input.samples[u].received}}

\* The first tick at which each received sample is stale.
TimeoutEdges ==
  {input.samples[t].stamp + SampleTimeout + 1 :
     t \in {u \in Topics : input.samples[u].received}}

\* Mutant: a timeout that has passed is still a deadline.
nextWake_pastTimeouts(now) ==
  Min(GateDeadlines(now) \cup TimeoutEdges
        \cup IF pending = <<>> THEN {} ELSE {now})

nextWake(now) ==
  Min(GateDeadlines(now)
        \cup {edge \in TimeoutEdges : edge > now}
        \cup IF pending = <<>> THEN {} ELSE {now})

-----------------------------------------------------------------------------
Next ==
  \/ ingestImu \/ ingestThrust \/ ingestAltitude
  \/ BeginUpdate \/ EvaluateMark \/ EvaluateNow \/ Tick
  \/ Reset

\* The runtime under its production callers, which ingest samples one by one.
Spec == Init /\ [][Next]_vars

\* The runtime under any owner, the batch helper included.
OwnerNext == Next \/ applyInput
OwnerSpec == Init /\ [][OwnerNext]_vars
-----------------------------------------------------------------------------
(* Properties *)

Published == [stamp : Nat, output : Output]
Traced == [stamp : Nat, event : Conditions, from : States, to : States]

\* Every variable keeps the shape and the range its type gives it: thrusts stay
\* inside the configured limits whatever the least squares comes to.
TypeOK ==
  /\ input \in Input
  /\ pending \in Seq(Nat)
  /\ health \in HealthStatus
  /\ machine \in Machine
  /\ estimator \in Estimator
  /\ output_model \in OutputModel
  /\ flags \in SUBSET Flags
  /\ last_sample_used \in BOOLEAN
  /\ last_estimate_stamp \in Nat
  /\ last_output \in Output
  /\ published \in Seq(Published)
  /\ trace \in Seq(Traced)
  /\ turn \in Turn

\* The state machine is in the state of the latest condition, after every
\* evaluation of a batch: edges are dispatched only on a change of condition,
\* so a missed or doubled one would leave the two apart for good.
StateFollowsHealth == machine.state = TargetOf[health.condition]

\* Between turns with no input since, the output is the one for the input as it
\* stands and the clock the turn was given: no one-turn stale output.  A clock
\* fault of the batch was consumed by the turn, so only its flag remains.
TurnOutputIsCurrent ==
  turn.phase = "idle" /\ pending = <<>> /\ "TimeJump" \notin last_output.flags
    => LET h == classify(input, turn.now) IN
       /\ last_output.state = TargetOf[h.condition]
       /\ last_output.flags \ {"EstimatorRejected"} = h.flags
       /\ last_output.source_stamp = h.source_stamp

\* What a turn publishes is the snapshot it leaves behind, at most once, stamped
\* with the owner's clock, and that snapshot shows the output model as it is.
PublishedIsTheSnapshot ==
  Idle => /\ published \in {<<>>, <<[stamp |-> turn.now, output |-> last_output]>>}
          /\ last_output.hover_thrust = output_model.hover_thrust
          /\ last_output.raw_hover_thrust = output_model.raw

\* The transition trace of a turn is a path of the state machine that ends in
\* its state: each edge leaves the state the one before it entered, none is a
\* self-transition, and each carries the event of the state it enters.
TraceIsAPath ==
  /\ \A i \in DOMAIN trace :
       /\ trace[i].from # trace[i].to
       /\ trace[i].to = TargetOf[trace[i].event]
       /\ i > 1 => trace[i].from = trace[i - 1].to
  /\ trace # <<>> => trace[Len(trace)].to = machine.state

\* In SelfCheck the published thrust is driven toward the configured initial
\* thrust, whichever way and however often the state was entered.
SelfCheckTargetsInitial ==
  machine.state = "SelfCheck" => output_model.target = InitialHoverThrust

\* The output model and the stamp reported with it follow the estimator: raw is
\* its estimate, the stamp its last accepted one, the target that estimate or
\* the initial thrust.
EstimateCoherence ==
  /\ output_model.raw = estimator.raw
  /\ last_estimate_stamp = estimator.last_time
  /\ output_model.target \in {InitialHoverThrust, estimator.raw}

\* Asleep until nextWake, the owner misses nothing: before that instant no gate
\* is due and the condition of the input does not change.  An output that flags
\* a clock fault is the exception: a fault heals without a wake of its own.
WakeMissesNothing ==
  turn.phase = "idle" /\ pending = <<>> /\ "TimeJump" \notin last_output.flags
    => \A t \in Times : turn.now <= t /\ t < nextWake(turn.now) =>
         /\ ~due(machine.publish_gate, t, PublishPeriod)
         /\ machine.state = "Airborne" =>
              ~due(machine.raw_update_gate, t, RawPeriod)
         /\ classify(input, t).condition = health.condition

\* A turn that has just run at `now` leaves no wake at or before `now`, except by
\* what a deadline is rounded short: an owner with a stopped clock and no input
\* sleeps instead of spinning.  And the sleep is never longer than a publish period
\* past the latest publication.
WakeIsAhead ==
  turn.phase = "idle" /\ pending = <<>>
    => /\ turn.now < nextWake(turn.now) + RoundingShortfall
       /\ nextWake(turn.now) <= turn.now + RegressTolerance + PublishPeriod

\* A clock fault seen while a batch was recorded is cleared only by the tick of
\* a turn whose output reports it (or reports a topic still missing, which
\* takes precedence): no later sample erases it.
FaultIsServed ==
  [][input.batch_time_jump /\ ~input'.batch_time_jump /\ turn'.phase # "fresh"
       => /\ turn.phase = "tick"
          /\ last_output'.state = "SelfCheck"
          /\ \/ "TimeJump" \in last_output'.flags
             \/ MissingFlags(input) # {} /\ MissingFlags(input) \subseteq last_output'.flags
    ]_vars

\* The estimator moves only in an Airborne tick, on a pair that passes every
\* health check at the owner's clock, and takes that pair's thrust stamp.
TrainsOnHealthyPairs ==
  [][estimator' # estimator /\ turn'.phase # "fresh"
       => LET thrust == input.samples["normalized_thrust"] IN
          /\ turn.phase = "tick" /\ machine.state = "Airborne"
          /\ ~input.batch_time_jump /\ ~input.thrust_ignored
          /\ \A t \in Topics :
               /\ input.samples[t].received
               /\ turn.now - SampleTimeout <= input.samples[t].stamp
               /\ input.samples[t].stamp <= turn.now + FutureTolerance
               /\ -BackwardTolerance <= input.samples[t].period
               /\ input.samples[t].period <= LowRatePeriod
               /\ finite(input.samples[t])
          /\ thrust.value = "usable"
          /\ input.samples["altitude"].value # "low"
          /\ estimator'.last_time = thrust.stamp
    ]_vars

\* No thrust sample trains the estimator twice, in whatever order stamps come:
\* after the first, each turn that reports a used sample moves the reported
\* estimate stamp on (hover_thrust_rejection_test.cpp:73: a duplicate is rejected).
AcceptedStampsIncrease ==
  [][turn.phase = "tick" /\ last_sample_used' /\ estimator.valid
       => last_estimate_stamp < last_estimate_stamp']_vars

\* The target moves to the initial thrust on an edge into SelfCheck, and to the
\* estimate a sample was just accepted for in a tick of Airborne.  No other edge
\* moves it, whatever the turn before did: Ground holds it.
TargetMovesWithCause ==
  [][output_model'.target # output_model.target /\ turn'.phase # "fresh"
       => \/ /\ turn.phase = "evaluate"
             /\ machine.state # "SelfCheck" /\ machine'.state = "SelfCheck"
             /\ output_model'.target = InitialHoverThrust
          \/ /\ turn.phase = "tick" /\ machine.state = "Airborne" /\ last_sample_used'
             /\ output_model'.target = estimator'.raw
    ]_vars

-----------------------------------------------------------------------------
(* Claims of the documentation that the code does not keep *)

\* README.md:158: a time jump is a sample that jumps into the future or moves
\* backward.  No state is left on TIME_JUMP unless the batch recorded such a
\* fault or a sample shows one at the owner's clock.
NoEdgeOnSpuriousJump ==
  [][turn.phase = "evaluate" /\ machine'.state # machine.state
       => "TimeJump" \notin health'.flags \/ TimeJumped(input, turn.now)]_vars

\* README.md:174: on an Airborne tick the raw estimate is set as the output
\* target.
AirborneTargetsEstimate ==
  turn.phase = "idle" /\ last_output.state = "Airborne" /\ estimator.valid
    => output_model.target = estimator.raw
=============================================================================
