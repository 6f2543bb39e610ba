# Verification of the hover thrust estimator

TLA+ models of `hover_thrust_estimator`, the TLC runs that check them on small
instances, and theorems that TLAPS proves for every value of their constants.
Paths below are relative to the package directory `hover_thrust_estimator/`
unless they start with `README.md` (the repository's).

## 1. The system

The estimator identifies the thrust at which a multirotor hovers. Three ROS
topics (IMU, commanded thrust, altitude) feed a ROS-free, single-threaded
*runtime*; the runtime keeps the latest sample of each topic, classifies its
health, runs a three-state machine, trains a scalar recursive least squares and
publishes a filtered estimate.

| Component | State | Operations | Interacts with |
| --- | --- | --- | --- |
| Runtime core (`hover_thrust_estimator_runtime.{h,cpp}`) | latest input, pending marks, health, machine, last output, publications and trace of a turn | `setConfig`, `reset`, `ingestImu/Thrust/Altitude`, `applyInput`, `update`, `nextWake` | calls everything below; called by the ROS facade |
| Health classification (`common/health_checks.h`) | none | `classify(input, config, now)` | called at every mark and once more at the owner's clock |
| Periodic gate (`common/periodic_gate.h`) | last firing | `due` (mutates), `nextDue` (projects) | one publish gate per machine state, one raw-update gate in Airborne; constructed anew on entry |
| RLS estimator (`hover_thrust_estimator.h`) | parameter, raw estimate, last accepted stamp | `reset`, `update` | trained by the Airborne tick |
| Output model (`hover_thrust_output_model.h`) | target, filtered thrust, raw thrust, last drive | `setTarget`, `setRaw`, `freezeTarget`, `driveTowardTarget` | entries and ticks move the target, publications drive |
| Configuration (`common/config_utils.h`) | a copy each in node, runtime, estimator and output model | `normalizeConfig`, rate clamping, `setConfig` | at start, and whenever the runtime is configured |
| ROS owner loop (`hover_thrust_estimator_node.cpp`) | one-shot deadline timer, callback queue | `loadParams`, `run` | sleeps until `nextWake`, a callback or the timer, then `update` |
| ROS input producer (`src/input`) | subscriptions, queues of 10 | three callbacks | stamp and event clock of a sample are one number |
| Output and debug-trace consumers (`src/output`) | publishers | `handle` | convert a turn's publications and trace |

What is hard here: batches of samples whose stamps and event clocks come in any
order; clocks that step back; health that changes by time alone while the owner
sleeps; several state changes inside one turn; gates, timeouts and deadlines
that must agree to the last bit of a double; three copies of one estimate
(estimator, output model, published output) that survive some transitions and
not others. `PROJECT.json` lists these hazards one by one, each at its line.

What makes each part correct:

- *gate*: never fires more than its period allows over any clock history, and
  its projected deadline is never late;
- *health*: the first row of the documented table decides the condition; time
  alone heals nothing but a clock fault, and breaks health only at a timeout;
- *runtime*: machine and health never part; a turn's output is the one for the
  input and clock at hand; a clock fault anywhere in a batch is served; the
  least squares sees healthy pairs only, each at most once; the target moves
  with a cause; what is published is what is kept; `nextWake` misses nothing;
- *what is promised to a controller*: the snapshot shows one estimate with the stamp
  it was made from, a thrust between the last one and the target, and flags that
  go with its state;
- *configuration*: whatever is loaded, every part works with the same usable limits;
- *owner loop*: no deadline slept through, no busy loop, no sleep prolonged by a clock
  that is set back; both topics show the state; a shutdown ends it.

## 2. The modules

| Module | Models | State and actions against the code |
| --- | --- | --- |
| `HoverThrustTypes` | `common/types.h`, `event_types.h` | the structures as record sets; the normalised configuration as constants, with what `normalizeConfig` guarantees as assumptions |
| `PeriodicGate` | `common/periodic_gate.h` | `due` (the answer), `fire` (the gate it leaves), `nextDue` |
| `GateOwner` | a gate and its caller | `Call(now)` is one tick's `due`, with a clock that may go anywhere; `Reenter` constructs the gate anew. `earned` and `travel` are history |
| `HealthChecks` | `common/health_checks.h` | `classify` as tiers of flags; the three `xgc2_math` tests are external |
| `HealthAgeing` | idle turns | one snapshot, a clock that ticks |
| `HoverThrustEstimator` | `hover_thrust_estimator.h` | `admits` (guards of `update`), `Train`; the least squares is any outcome in `RlsOutcomes` |
| `HoverThrustOutputModel` | `hover_thrust_output_model.h` | one operator per method; a filter step lands anywhere between last output and target |
| `HoverThrustRuntime` | `hover_thrust_estimator_runtime.{h,cpp}` | variables named after the members; `ingest*`, `applyInput` and `Reset` between turns; a turn is `BeginUpdate`, an `EvaluateMark` per pending mark, `EvaluateNow`, and `TickOnGround` or `TickAirborne` |
| `EstimatorContract` | what the above promises a reader of its output | one estimate, a target, an output and a snapshot; `Enter`, `Hold`, `Accept`, `Restart`. No samples, health, gates or copies |
| `HoverThrustRefinement` | the mapping | the contract's estimate is the least squares' own (`estimator.raw`, `last_time`), its snapshot is `last_output_` |
| `ConfigNormalisation` | `common/config_utils.h`, the constructors and `setConfig` of node, runtime, estimator and output model | `Load` is `loadParams()`, `Reconfigure` the runtime's `setConfig`; one variable per copy of the configuration |
| `HoverThrustNode` | `hover_thrust_estimator_node.cpp`, `src/input`, `src/output` | `pc` is the place in `run()`: one action between two readings of the clock (`ReadWake`, `Update`, `Arm`, `StartTimer`, `Recheck`, `Adjust`), `Wake`, `RunCallback` and `StopTimer` for `callAvailable()` and what follows it, `Exit` the end of the loop; `Evaluate` and `FinishUpdate` are the runtime's own turn and the messages made of it; `FireTimer`, `RestartTimer`, `Deliver`, `AdvanceClock`, `SetClockBack` and `Shutdown` are ROS and the world; `rewound` and `late` are history |
| `MCHealth`, `MCRuntime`, `MCConfig`, `MCNode` | | constants for TLC |
| `GateProofs`, `HealthProofs`, `RuntimeProofs`, `WakeProofs`, `ContractProofs`, `ConfigProofs`, `NodeProofs`, `SleepProofs` | | theorems |

`HoverThrustRuntime` composes the estimator, the output model, the gates and
the health checks by extending their modules: as in the code they are parts
with no life of their own, advanced by the runtime alone. `update()` is one
call; it is several actions here so that the invariants also speak of the state
between two marks, and nothing else is enabled while a turn is under way.
`HoverThrustNode` extends the runtime in the same way: it is the caller that
decides when `BeginUpdate` runs and which samples are ingested. That it is one
of the callers `HoverThrustRuntime` allows is a refinement of its own,
`RuntimeIsUsedAsAllowed` (the runtime's `Spec`, under the identity mapping);
through it everything that is shown of the runtime holds of the node.

`EstimatorContract` is the abstract specification. A turn's evaluations are its
`Enter` steps or stutters, the tick is a `Hold` or an `Accept`, `reset()` is a
`Restart`, everything else stutters. That the least squares, the output model and
the published snapshot keep copies of one number is the point of the mapping: the
contract has that number once. The contract has no flag `RawEstimateStale`: that
the runtime refines it shows that no turn ever does what `README.md:177` describes for
a stale raw estimate, since Airborne ticks on fresh samples only.

`ConfigNormalisation` is about the numbers that `HoverThrustTypes` takes as constants.
Its `UsableConfig` is what `ThrustLimits` and `Periods` assume of them.

Two next-state relations differ in their callers: `Spec` has the production
callers, which ingest samples one at a time; `OwnerSpec` adds the batch helper
`applyInput`, which `hover_thrust_estimator_runtime.h:105` keeps for tests and
other owners.

### Abstractions

- *Time* is a natural number of ticks. A tick may be as small as one unit in the
  last place of a double, so "the next representable number" is `+ 1`.
  `sampleStale` is strict, hence the wake one tick past a timeout.
- *Rounding.* `due` subtracts two close doubles, which is exact, and `nextDue`
  adds, which rounds. `PeriodicGate` lets the sum fall one tick short
  (`RoundingShortfall`). The gate run has it fall short, the gate theorems
  cover both cases; the runtime runs and `node` use 0, where a period is a whole
  number of ticks, and `node_spin` uses 1. `nextWake`'s `stamp + timeout` is taken as
  exact: in doubles it may round up, which delays that wake by one unit in the last
  place if the external `sampleStale` subtracts instead of adding.
- *Values* of samples are the classes the code tells apart: usable, low (an
  altitude below the gate, a thrust of at most 1e-6), excess (a thrust above 1),
  non-finite. Thrust estimates are integers between the limits.
- *The loop.* The clock advances, is set back and stops. It stands still during a
  turn, which does not read it, and so do messages. Messages are queued at the top
  of the loop, while it waits and while it runs callbacks; in between no step reads
  the queues, so a message that comes there might as well have come at the top, or
  at the wait. For the same reason a shutdown comes at the top or at the wait, the
  only places that ask for it; the world then stands still. A message is stamped
  with the clock at which it is queued, or has no stamp.
- *roscpp* is modelled from its use: a full subscription drops its oldest message and
  keeps its callback; the timer's queued callback, which does nothing when run, is
  only a flag (`expired`); `stop()` takes it back; `setPeriod` counts anew and re-arms
  a one-shot timer that has fired; the timer thread counts the period anew when it
  finds the clock before the timer's start; a shutdown disables the queue.
- *Messages out.* The estimate has its stamp, state, flags and thrust, the debug trace
  its stamp, state and the edges of the turn with theirs. Names, constant fields,
  the counters of turns and edges, and the number shown for an unknown state are
  left out.
- *Configurations.* Doubles are integers on a grid whose unit is the 1e-6 of the
  estimator's check of gravity; NaN and the infinities are one value `NotFinite`
  outside the integers, which no code tells apart. Rates and times have grids of
  their own and are compared only with each other.
- *Tolerances* of the external timing tests are constants.
- The quotient gravity / hover thrust of the output is left out.

## 3. The runs

| Run | Question | Result |
| --- | --- | --- |
| `gate` | rate limit, deadline never late, at most one tick early | holds |
| `health` | `classify` against the repository's table; what ageing may change | holds |
| `runtime_clock` | turns over batches with every kind of clock trouble | holds |
| `runtime_values` | turns over every class of value, the filter, the batch helper; all of it as behaviours of `EstimatorContract` | holds |
| `runtime_bounce` | does TIME_JUMP need a sample that jumped, as documented? | no |
| `runtime_target` | is the raw estimate the target while Airborne, as documented? | no |
| `runtime_applyinput` | does no later call erase a recorded clock fault, as a comment says? | no |
| `config` | is what is left of any parameters usable, and the same in every part? | holds |
| `node` | no deadline slept through, no sleep too long, no turn for nothing, both topics true, every message served, expiry published, the loop comes to rest or ends; is the node a caller the runtime allows? | holds |
| `node_spin` | does a paused clock never make the loop spin, as documented, when the deadline rounds short? | no |
| `node_zero` | is a pair that was used rejected when it is offered again, as a test expects, also while the clock reads 0? | no |
| `node_timeout` | is a timeout in the past always evaluated, as a comment says? | no |

**Bounds, and why they are enough.** `gate`: 9 clock readings against a period of 3 and a
tolerance of 2, so that regressions inside and beyond the tolerance and three
firings in a row occur; forward travel is capped at `MaxTravel` = 12, four
periods. `health`: 11490 snapshots, every value class, stamps and periods on
both sides of every threshold, ages up to 9 ticks, beyond the last timeout.
`runtime_clock`: four clock readings, stamps from 1 to 4, a timeout of 2 and a low
rate beyond 2, up to `MaxPending` = 2 events per batch: two are enough for a
fault to be followed by a good sample, for a mark older than the sample it is
judged with, and for two edges in a turn; longer histories arise from further
turns. All values are usable there. `runtime_values` has every class of value
and candidates on both sides of the limits (1 and 4 against 2..4), and three clock
readings; its stamps are too close for a low rate, which `runtime_clock` has. `config`: 94 configurations: every field unusable, at its limits and beyond
them, the three thrusts in all combinations and the rates against each other and
three loop rates; both actions in any order, so that each copy is also replaced. The
defaults are ordered as the code's are (rates within the default loop rate, limits
around the initial thrust). `node`: the clock readings are 0, 1 and 3, so that it
may not have started, can step by one and jump over a deadline; a timeout of 1 and periods of 2, so that an
estimate can become overdue; three messages, enough for one of each topic
(Airborne) or for a full queue of `QueueSize` = 1. The runtime is given the samples
that callbacks make of messages (`CallbackSamples`), no others. The clock moves
anywhere in a pass outside a turn, as often as it can. It is set back at most once
(`MaxRewinds`), and may first advance, so that what the loop holds lies ahead of it;
afterwards it stands, which is the worst case for an owner that sleeps. The theorems
know no such bound. `node_timeout` has all of 0..3 and a period of 3, so that a
timeout falls between two gates.

Two things no code in the loop could exclude, and the properties allow for them and
no more. The correction of the timer comes late by the time that passes between the
reading it is counted from and `setPeriod`: `late` is that time, and the timer
expires no later than that after the deadline. And a clock that is set back after the
deadline was computed makes that deadline wrong: `SleepMissesNothing` leaves
such a clock out, `SleepIsBounded` only one that is set back between that computation
and the wait; `rewound` records which it was. Deadlock is
checked in the gate, runtime and config runs; ageing stops at its horizon, and a
node whose clock and messages have stopped, or that has ended, stops for good.

**What the violated claims show.**

1. `SettlesDown` with a rounding shortfall: `last_fire + period` may round below
   the first instant at which `now - last_fire >= period`, although the gate's
   comment says that one mirrors the other exactly. The owner loop finds its
   deadline reached and nothing due. The clock's next tick resolves it
   (`DeadlineAtMostOneTickEarly`); a stopped clock does not, and the loop runs
   turns without ever waiting.
2. `NoEdgeOnSpuriousJump`: marks are replayed against the newest snapshot. Two healthy
   samples in one batch suffice: at the first mark the second sample lies in the
   future. Airborne is left and entered again inside one turn, the target falls
   back to the initial thrust and both gates restart.
3. `AirborneTargetsEstimate`: the aftermath. On re-entry the pair at hand was
   used already, is rejected, and the target stays at the initial thrust until a
   new thrust sample is accepted.
4. `FaultIsServed` under `OwnerSpec`: `applyInput` replaces the whole input, a
   recorded fault included. Under `Spec` the property holds (`runtime_clock`) and is
   proved (`FaultReachesOutput`).
5. `PastTimeoutIsEvaluated`: the timer armed for a sample's timeout fires at the
   boundary, and the loop's next reading of the clock is at or past it.
   `nextWake` keeps only boundaries ahead of that reading, so it names the next
   gate, no turn runs, and the owner sleeps on with the health of its last turn.
   The wake for a timeout has no effect of its own: SelfCheck is entered at the
   next gate deadline or message. TLC's shortest trace has the clock pass the timeout
   between a turn and that reading instead, with the same effect. No late timer is
   needed: the claim is about those armed in time (`late` = 0). What does hold is
   `ExpiryIsPublished` (`node`): the delay ends with the publication gate.
6. `AcceptedStampsIncrease` in the node: under simulated time the clock reads 0 until
   it starts, and `main()` does not wait for it. A header without a stamp then gets
   a stamp of 0, which the estimator takes for no accepted pair at all, and the pair
   trains it at every firing of the raw gate until it is stale. With positive stamps
   the property holds (`runtime_clock`, `NoSampleTwice`); in the node stamps of 0 are
   the only exception (`NodeAcceptsOnce`).

One divergence from the table needs no run of its own. README.md:125 lets the first
matching row decide the flags, and staleness and a low rate are two rows of the table
but one tier of the code: FLAG_INPUT_RATE_LOW is published beside stale flags. The
condition is the same either way. `ConditionOfFirstRow` allows for this pair of rows
(`RowsRaisedWith`) and for no other.

**Fairness.** Only `FairNodeSpec` states any: weak fairness of the owner thread
(`Loop`) and of roscpp's timer thread (`FireTimer`, `RestartTimer`), which the
operating system schedules. Neither the clock, nor the publishers, nor a shutdown is
fair: `MessagesAreServed`, `ExpiryIsPublished`, `SettlesDown` and
`ShutdownEndsTheLoop` hold wherever the clock stops.

## 4. The theorems

All are proved for every value of the constants that satisfies the named
assumptions: `ThrustLimits`, `Periods`, `Tolerances` (what `normalizeConfig`
leaves), `CandidatesAssumption`, `GateAssumption`, `OwnerAssumption`,
`RuntimeAssumption`, `NodeAssumption`, `AgeingAssumption` and `ConfigAssumption` (the
constants have the types of their comments; the defaults of the configuration are
usable and their rates within the default loop rate). `MaxPending`, `MaxTravel`,
`Horizon`, `MaxMessages` and `MaxRewinds` bound only TLC: the theorems hold for each
value of theirs. Two theorems assume more, and say so: `TurnsHaveCause` that
`RoundingShortfall` = 0 (`node_spin` is what happens otherwise), and `NoSampleTwice`
that thrust samples have positive stamps, since the code takes a last stamp of 0 for
none. Nothing keeps the node's clock from reading 0, and no theorem about the node
assumes it: `NodeAcceptsOnce` states the exception (`node_zero` shows it).

*Gate.* `GateTypeCorrect` by plain induction. `DeadlineIsTimely` follows from the
types, and so does `DeadlineIsATickEarly`. `RateLimit` needs more than the claim:
`PaidUpToNow` in `GateProofs` adds the clock's movement since the latest firing to what was paid for, so that each
step forward is counted once and a step back within the tolerance not at all.

*Health.* `OneTick` compares two adjacent instants: no fault appears, nothing late
is taken back, and what becomes late does so one tick past its timeout. The
lemma `Tiers` reads `classify` backwards. `LateStaysLate` and
`AgeingEdgesAreTimeouts` combine the two. `TableIsFollowed` goes through the rows of
the table in order (`FirstRowIs`) and finds in each what `classify` answers.

*Runtime.* Lemmas state once what each part of a turn does: `EvaluateStep` and
`EvaluationTarget` one evaluation, `RecordStep`, `AirborneStep` and `TickStep`
the tick, `StepCases` how a step of `OwnerNext` splits. On them rest

- `TypeCorrect` (inductive as it stands);
- `StateIsHealths`, `SelfCheckIsInitial`, `EstimateStaysCoherent` and
  `TraceIsPath`, each inductive together with `TypeOK`;
- `PublishesTheSnapshot`, through `SnapshotInv`: the property speaks of the time
  between turns, the invariant also says that nothing is published before the
  tick;
- `TrainingIsHealthy` and `TargetHasCause`, action properties. The first rests on
  `TickSeesTheInput`: a tick works on health that was evaluated on the input as
  it stands at the turn's clock; `ReadyInput` reads off `classify`, test by test, what
  such an input has passed. The second says where the target goes: to the
  initial thrust on an edge into SelfCheck (`EvaluationTarget`), to the new estimate
  in the tick that accepts a sample (`TickStep`);
- `FaultReachesOutput`, under `Spec`, from that invariant and `StateIsHealths`;
- `NoSampleTwice`, an action property: a used pair is newer than the last one.

*Wake* (`WakeProofs`). `AfterTurn` is what a turn leaves behind and what lasts until the
next: no gate is due at the turn's clock, the output is the one of the health found
there, and until more input comes that is the health of the input, its batch's fault
aside. It is inductive together with `TypeOK`, `TickSeesInput` and `StateFollowsHealth`.
`OutputIsCurrent` follows at once. For `WakeIsNeverLate`, `ConditionHolds` shows that a
condition can change only at a timeout edge (the rules of ageing again), `WakeIsLeast`
that `nextWake()` is the least of the deadlines, and a gate does not become due
before its own. `WakeLiesAhead` bounds that least deadline by the publish gate's, and
from below by the turn's clock, which only a deadline that is rounded short can reach.

*Contract* (`ContractProofs`). `RuntimeKeepsContract`: an initial state maps to an initial
state, an evaluation to `Enter` or a stutter, a tick to `Hold` or `Accept`, everything
else to a stutter or `Restart`. It needs the invariants of the runtime:
`EstimateCoherence` (otherwise the copies could differ), `StateFollowsHealth` and
`TickSeesInput` (otherwise a snapshot could show flags of another state).

*Configuration* (`ConfigProofs`). Normalisation makes any configuration usable
(`LimitsOrdered` for the thrusts) and leaves a usable one as it is; hence the checks of
estimator and output model change nothing, and the rates the node has bounded
survive the runtime's. The inductive invariant says that the copies are in step with
the runtime's and the node's is within its loop rate.

*Node* (`NodeProofs`). `NodeInv` adds three facts to the types. `TraceSoFar`: a turn's edges
begin in the state the last trace message ended in. `FiredIsShown`: a publish gate
that has fired since its state was entered has published that state.
`SleepsOnFiredGate`: only such a gate lets the loop get as far as arming its timer,
for a fresh one is due at once. The last two give `TopicsShowTheState`, the first
`TraceMessagesAreAPath`; `NodeTypeCorrect` needs that the period the timer is given
was positive when it was read.

From there the proofs compose. `HeadersInv`: what is queued are headers that some
publisher sent, so that what a callback ingests is one of `CallbackSamples`
(`CallbackIngests`). With `NodeInv` it makes each step of the node a step of the runtime
or none (`CallerStep`), hence `NodeIsACaller`: the node implements the runtime's `Spec`.
Every theorem about the runtime is then one about the node: `NodeKeepsContract`,
`NodeServesFaults` and `NodeKeepsRuntime` cite them, and `NodeAcceptsOnce` rests on
the same lemma as `NoSampleTwice` and on `ThrustIsClocked`: the stamps of samples are
readings of the clock, so that only a clock that reads 0 makes the exception. `SubscribersGetTheSnapshot` needs `PublishesTheSnapshot` of the runtime:
what goes to the topic is what the runtime stands by. `TurnsHaveCause` combines
`NodeInv` with `AfterTurn` and `WakeIsLeast`: a wake that has been reached is the
deadline of a gate, since timeouts in the past are left out of it.

*Sleep* (`SleepProofs`). Two invariants. `MailInv` counts: as long as the node has not
been shut down every topic has as many messages queued as callbacks in the queue
and in the batch that is being run (`Count`, with its lemmas). So an owner whose
callback queue is empty has left no message. `SleepInv` follows the deadline from
`nextWake()` to the wait. `GatesRest`: a turn leaves no gate due at its clock; with
`WakeCovers` the deadline read at the top of the loop misses nothing (`Covers`), even
when the clock has been set back behind the turn's. `Arming`: until the timer is
armed the deadline covers what it covered and lies within a publish period of the
loop's reading, which the clock has not fallen behind. `Ticking`: the timer expires at
the deadline, but for a correction still to come or, once asleep, for what that
came late. From both follow `SleeperIsWoken`, for either rounding and any movements
of the clock, and `SleepStaysBounded`, for any number of steps back.

`CallbacksAreTaken` is about the model itself: `ingestSample` has guards (no turn under
way, room for the mark) that the code has not. `BoundInv` counts marks, queued
messages and deliveries together and shows that in the node they never refuse a
callback, so that they hide no behaviour of the loop.

Only model-checked are the liveness properties `MessagesAreServed`,
`ExpiryIsPublished`, `SettlesDown` and `ShutdownEndsTheLoop`: liveness under fairness
and `ENABLED` are outside the provers' reach. No recursive operator is used anywhere.
Every invariant and action property of a passing run is proved.

## 5. The plan

In the order of importance. All but the last are done.

1. `PeriodicGate`, `GateOwner`: the gate and its proofs.
2. `HealthChecks`, `HealthAgeing`: classification and ageing.
3. `HoverThrustEstimator`, `HoverThrustOutputModel`, `HoverThrustRuntime`: the core.
4. `RuntimeProofs`: type correctness, the safety invariants, action properties.
5. `HoverThrustNode`: the owner loop over the runtime, with liveness.
6. The owner loop under a clock that is set back and under shutdown, and the debug
   trace with the stamps of a turn's edges.
7. `EstimatorContract` and the refinement, by TLC and by proof.
8. `ConfigNormalisation` and its proofs.
9. `WakeProofs`, `NodeProofs`, `SleepProofs`, and the node as a caller of the runtime,
   which carries the runtime's theorems over to it.
10. The filter's step as a function of the clock, so that the size of a step, and not
    only its direction, can be a property.

## 6. Not modelled

- The arithmetic of the least squares and of the exponential filter: external
  libraries; the model allows every outcome their use here allows for. The size of a
  filter step is therefore no property's subject, nor is the jump of the first one
  after a reset (`hover_thrust_output_model.h:70`).
- The quotient gravity / hover thrust, and with it the division by zero that limits
  of 0 make possible (`hover_thrust_estimator_runtime.cpp:302`).
- Periods that are not finite: rates so small that a deadline overflows
  (`hover_thrust_estimator_node.cpp:69`).
- Non-finite clocks and stamps. ROS never produces them.
- An `input_rate_low_hz` of 0, which `normalizeConfig` admits: what the external
  rate test makes of it is not visible from here.
- Process entry point, launch and parameter files, message definitions, and the
  packaging and CI scripts: no state of the running program.
