----------------------------- MODULE NodeProofs -----------------------------
(***************************************************************************)
(* Proofs about HoverThrustNode, for any messages, queue depth, clock and  *)
(* schedule: the loop's types, what subscribers of the two topics can rely *)
(* on, and that the node uses the runtime as its callers may, so that what *)
(* is proved about the runtime holds in the node.                          *)
(***************************************************************************)
EXTENDS HoverThrustNode, WakeProofs, ContractProofs

-----------------------------------------------------------------------------
(* Types *)

\* What is left of the period when the timer is armed is positive.
Reads == pc \in {"start", "recheck", "adjust"} => read < deadline

NodeTypes == TypeOK /\ NodeTypeOK /\ Reads

\* A reading of the clock is a number.
LEMMA ClockType == clock \in Times => clock \in Nat
  BY RuntimeAssumption

\* A timer armed before its deadline.
LEMMA ArmedType ==
  ASSUME {clock, read, deadline} \subseteq Nat, read < deadline, NEW started \in Nat
  PROVE  ArmedSince(started) \in Timer
  BY DEF ArmedSince, Timer

\* A timer that was stopped.
LEMMA StoppedType == Stopped \in Timer
  BY DEF Stopped, Timer

\* The types hold when the loop starts.
LEMMA NodeInitType == NodeInit => NodeTypes
<1> SUFFICES ASSUME NodeInit PROVE NodeTypes
  OBVIOUS
<1>1. TypeOK
  BY InitType DEF NodeInit
<1>2. clock \in Times
  BY RuntimeAssumption, NodeAssumption, MinIsLeast DEF NodeInit
<1>3. NoEstimate \in EstimateMessage
  BY ClampRange, ThrustLimits DEF NoEstimate, EstimateMessage, HoverThrusts
<1>4. NoTrace \in TraceMessage
  BY EmptySeq DEF NoTrace, TraceMessage, States
<1>5. /\ queues \in [Topics -> Seq(Header)]
      /\ {callbacks, batch} \subseteq Seq(Topics)
  BY EmptySeq DEF NodeInit
<1>6. /\ pc = "top" /\ ok = TRUE /\ rewound = "no" /\ expired = FALSE
      /\ {rewinds, sent, deadline, read, late} \subseteq Nat
      /\ timer = Stopped /\ latched = NoEstimate /\ traced = NoTrace
  BY DEF NodeInit
<1>7. NodeTypeOK
  BY <1>2, <1>3, <1>4, <1>5, <1>6, StoppedType DEF NodeTypeOK
<1> QED BY <1>1, <1>6, <1>7 DEF NodeTypes, Reads

-----------------------------------------------------------------------------
\* The owner's steps outside a turn.
LEMMA LoopType ==
  ASSUME NodeTypes,
         ReadWake \/ Arm \/ StartTimer \/ Recheck \/ Adjust \/ Wake \/ StopTimer \/ Exit
  PROVE  NodeTypes'
<1>1. TypeOK /\ NodeTypeOK /\ Reads
  BY DEF NodeTypes
<1>2. clock \in Nat /\ {deadline, read} \subseteq Nat
  BY <1>1, ClockType DEF NodeTypeOK
<1>3. TypeOK'
  <2>1. UNCHANGED vars
    BY DEF ReadWake, Arm, StartTimer, Recheck, Adjust, Wake, StopTimer, Exit
  <2> QED BY <1>1, <2>1, TypeStep
<1>4. CASE ReadWake
  <2>1. nextWake(clock) \in Nat
    BY <1>1, <1>2, WakeIsLeast
  <2> QED BY <1>1, <1>3, <1>4, <2>1
          DEF ReadWake, NodeTypes, NodeTypeOK, Reads, history, alarm, mail, topics, world
<1>5. CASE Arm
  BY <1>1, <1>2, <1>3, <1>5
     DEF Arm, EndPass, NodeTypes, NodeTypeOK, Reads, history, alarm, mail, topics, world
<1>6. CASE StartTimer
  <2>1. timer' \in Timer
    BY <1>1, <1>2, <1>6, ArmedType DEF StartTimer, Reads
  <2> QED BY <1>1, <1>3, <1>6, <2>1
          DEF StartTimer, NodeTypes, NodeTypeOK, Reads, history, mail, topics, world
<1>7. CASE Recheck
  <2>1. timer' \in Timer /\ expired' \in BOOLEAN
    BY <1>1, <1>7, StoppedType DEF Recheck, StopsTimer, NodeTypeOK, alarm
  <2>2. /\ pc' \in {"top", "adjust", "wait"} /\ {deadline', read'} \subseteq Nat
        /\ pc' = "adjust" => read' < deadline'
    BY <1>2, <1>7 DEF Recheck, EndPass, Sleep
  <2> QED BY <1>1, <1>3, <1>7, <2>1, <2>2
          DEF Recheck, NodeTypes, NodeTypeOK, Reads, history, mail, topics, world
<1>8. CASE Adjust
  <2>1. (IF timer.armed THEN timer.started ELSE clock) \in Nat
    BY <1>1, <1>2 DEF NodeTypeOK, Timer
  <2>2. timer' \in Timer
    BY <1>1, <1>2, <1>8, <2>1, ArmedType DEF Adjust, Reads
  <2>3. late' \in Nat
    BY <1>2, <1>8 DEF Adjust
  <2> QED BY <1>1, <1>3, <1>8, <2>2, <2>3
          DEF Adjust, Sleep, NodeTypes, NodeTypeOK, Reads, history, mail, topics, world
<1>9. CASE Wake
  <2>1. {callbacks', batch'} \subseteq Seq(Topics)
    BY <1>1, <1>9, EmptySeq DEF Wake, NodeTypeOK
  <2>2. /\ pc' = "callbacks" /\ rewound' = "no" /\ late' = 0 /\ expired' = FALSE
        /\ UNCHANGED <<deadline, read, timer, queues, topics, world>>
    BY <1>9 DEF Wake
  <2>3. /\ {rewinds, sent, deadline, read, late}' \subseteq Nat /\ timer' \in Timer
        /\ queues' \in [Topics -> Seq(Header)] /\ ok' \in BOOLEAN /\ clock' \in Times
        /\ latched' \in EstimateMessage /\ traced' \in TraceMessage
    BY <1>1, <2>2 DEF NodeTypeOK, topics, world
  <2>4. NodeTypeOK'
    BY <2>1, <2>2, <2>3 DEF NodeTypeOK
  <2>5. Reads'
    BY <2>2 DEF Reads
  <2> QED BY <1>3, <2>4, <2>5 DEF NodeTypes
<1>10. CASE StopTimer
  <2>1. /\ pc' = "top" /\ timer' = Stopped /\ expired' = FALSE
        /\ UNCHANGED <<history, deadline, read, mail, topics, world>>
    BY <1>10 DEF StopTimer, StopsTimer
  <2>2. {rewinds, sent, deadline, read, late}' \subseteq Nat
    BY <1>1, <2>1 DEF NodeTypeOK, history, world
  <2>3. NodeTypeOK'
    BY <1>1, <2>1, <2>2, StoppedType DEF NodeTypeOK, history, mail, topics, world
  <2> QED BY <1>3, <2>1, <2>3 DEF NodeTypes, Reads
<1>11. CASE Exit
  BY <1>1, <1>3, <1>11
     DEF Exit, NodeTypes, NodeTypeOK, Reads, history, alarm, mail, topics, world
<1> QED BY <1>4, <1>5, <1>6, <1>7, <1>8, <1>9, <1>10, <1>11

\* A callback hands a typed sample to the runtime, or does nothing.
LEMMA CallbackType ==
  ASSUME NodeTypes, RunCallback PROVE NodeTypes'
<1>1. TypeOK /\ NodeTypeOK /\ clock \in Nat
  BY ClockType DEF NodeTypes, NodeTypeOK
<1>2. batch \in Seq(Topics) /\ batch # <<>> /\ batch' = Tail(batch)
  BY <1>1 DEF RunCallback, NodeTypeOK
<1>3. batch' \in Seq(Topics) /\ Head(batch) \in Topics
  BY <1>2, HeadTailProperties
<1> DEFINE t == Head(batch)
           m == Head(queues[t])
           a == [value |-> m.value, ignored |-> m.ignored,
                 stamp |-> StampOf(m), now |-> StampOf(m)]
<1>4. queues \in [Topics -> Seq(Header)] /\ queues[t] \in Seq(Header)
  BY <1>1, <1>3 DEF NodeTypeOK
<1>5. TypeOK' /\ queues' \in [Topics -> Seq(Header)]
  <2>1. CASE queues[t] = <<>>
    <3>1. UNCHANGED vars /\ queues' = queues
      BY <2>1 DEF RunCallback
    <3> QED BY <1>1, <1>4, <3>1, TypeStep
  <2>2. CASE queues[t] # <<>>
    <3>1. ingestSample(t, a) /\ queues' = [queues EXCEPT ![t] = Tail(@)]
      BY <2>2 DEF RunCallback
    <3>2. m \in Header /\ Tail(queues[t]) \in Seq(Header)
      BY <1>4, <2>2, HeadTailProperties
    <3>3. a \in Arrival
      BY <1>1, <3>2 DEF Header, Arrival, StampOf
    <3>4. TypeOK'
      BY <1>1, <1>3, <3>1, <3>3, IngestType
    <3> QED BY <1>4, <3>1, <3>2, <3>4
  <2> QED BY <2>1, <2>2
<1> QED BY <1>1, <1>3, <1>5
        DEF RunCallback, NodeTypes, NodeTypeOK, Reads, history, alarm, topics, world

\* The steps of a turn are the runtime's.
LEMMA TurnStep ==
  ASSUME NodeTypes, Update \/ Evaluate \/ FinishUpdate
  PROVE  /\ [OwnerNext]_vars
         /\ TypeOK'
         /\ Update => BeginUpdate
         /\ Evaluate => evaluateHealthAt(Head(pending)) \/ evaluateHealthAt(turn.now)
         /\ FinishUpdate => Tick
<1>1. Update => BeginUpdate
  BY DEF Update
<1>2. Evaluate => EvaluateMark \/ EvaluateNow
  BY DEF Evaluate
<1>3. FinishUpdate => Tick
  BY DEF FinishUpdate
<1>4. [OwnerNext]_vars
  BY <1>1, <1>2, <1>3 DEF OwnerNext, Next
<1>5. TypeOK'
  BY <1>4, TypeStep DEF NodeTypes
<1>6. EvaluateMark => evaluateHealthAt(Head(pending))
  BY DEF EvaluateMark
<1>7. EvaluateNow => evaluateHealthAt(turn.now)
  BY DEF EvaluateNow
<1> QED BY <1>1, <1>2, <1>3, <1>4, <1>5, <1>6, <1>7

\* What a tick publishes and what it leaves of the publish gate: an estimate with
\* the machine's state, or a gate that had fired in that state before.
LEMMA TickShows ==
  ASSUME TypeOK, TypeOK', Tick, published = <<>>
  PROVE  /\ machine'.state = machine.state /\ trace' = trace
         /\ \/ /\ published' = <<>>
               /\ machine'.publish_gate.initialized => machine.publish_gate.initialized
            \/ /\ published' # <<>>
               /\ Last(published') \in Published
               /\ Last(published').output.state = machine.state
<1>1. machine'.state = machine.state /\ trace' = trace
  BY TickStep
<1>2. CASE UnchangedByTick
  BY <1>1, <1>2 DEF UnchangedByTick
<1>3. ASSUME NEW flagged, NEW used, NEW model, NEW raw_gate, NEW stamp,
             RecordAndPublish(flagged, used, model, raw_gate, stamp)
      PROVE  \/ /\ published' = <<>>
                /\ machine'.publish_gate = machine.publish_gate
             \/ /\ Len(published') = 1
                /\ published'[1].output.state = machine.state
  <2>1. CASE due(machine.publish_gate, turn.now, PublishPeriod)
    <3>1. PICK driven : published' = Append(published,
            [stamp |-> turn.now, output |-> makeOutput(machine.state, flagged, used,
                                              health, driven, stamp)])
      BY <1>3, <2>1 DEF RecordAndPublish
    <3>2. published' = << [stamp |-> turn.now, output |-> makeOutput(machine.state,
                             flagged, used, health, driven, stamp)] >>
      BY <3>1
    <3> QED BY <3>2 DEF makeOutput
  <2>2. CASE ~due(machine.publish_gate, turn.now, PublishPeriod)
    BY <1>3, <2>2 DEF RecordAndPublish, fire
  <2> QED BY <2>1, <2>2
<1>4. CASE ~UnchangedByTick
  <2>1. \E flagged, used, model, raw_gate, stamp :
          RecordAndPublish(flagged, used, model, raw_gate, stamp)
    <3>1. CASE TickOnGround
      BY <1>4, <3>1 DEF TickOnGround
    <3>2. CASE TickAirborne
      BY <1>4, <3>2, Zenon DEF TickAirborne
    <3> QED BY <3>1, <3>2 DEF Tick
  <2>2. published' \in Seq(Published)
    BY DEF TypeOK
  <2>3. Len(published') = 1 => published' # <<>> /\ Last(published') = published'[1]
                               /\ published'[1] \in Published
    BY <2>2 DEF Last
  <2> QED BY <1>1, <1>3, <2>1, <2>3
<1> QED BY <1>2, <1>4

\* A turn and its messages are typed.
LEMMA TurnType ==
  ASSUME NodeTypes, pc = "turn" => published = <<>>,
         Update \/ Evaluate \/ FinishUpdate
  PROVE  NodeTypes'
<1>1. TypeOK /\ NodeTypeOK /\ TypeOK'
  BY TurnStep DEF NodeTypes
<1>2. CASE Update
  BY <1>1, <1>2 DEF Update, NodeTypes, NodeTypeOK, Reads, history, alarm, mail, topics, world
<1>3. CASE Evaluate
  BY <1>1, <1>3
     DEF Evaluate, NodeTypes, NodeTypeOK, Reads, history, loop_vars, alarm, mail, topics, world
<1>4. CASE FinishUpdate
  <2>1. Tick /\ published = <<>> /\ publishRuntimeOutputs /\ pc' = "top"
        /\ UNCHANGED <<history, deadline, read, alarm, mail, world>>
    BY <1>4 DEF FinishUpdate
  <2>2. latched' \in EstimateMessage
    <3>1. CASE published' = <<>>
      BY <1>1, <2>1, <3>1 DEF publishRuntimeOutputs, NodeTypeOK
    <3>2. CASE published' # <<>>
      <4>1. Last(published') \in Published
        BY <1>1, <2>1, <3>2, TickShows
      <4>2. makeEstimateStateMessage(Last(published')) \in EstimateMessage
        BY <4>1 DEF makeEstimateStateMessage, EstimateMessage, Published, Output
      <4> QED BY <2>1, <3>2, <4>2 DEF publishRuntimeOutputs
    <3> QED BY <3>1, <3>2
  <2>3. traced' \in TraceMessage
    <3>1. CASE trace' = <<>>
      BY <1>1, <2>1, <3>1 DEF publishRuntimeOutputs, NodeTypeOK
    <3>2. CASE trace' # <<>>
      <4>1. trace' \in Seq(Traced) /\ machine'.state \in States
        BY <1>1 DEF TypeOK, Machine
      <4>2. Last(trace') \in Traced
        BY <3>2, <4>1 DEF Last
      <4>3. makeTraceMessage(trace', machine'.state) \in TraceMessage
        BY <4>1, <4>2 DEF makeTraceMessage, TraceMessage, Traced
      <4> QED BY <2>1, <3>2, <4>3 DEF publishRuntimeOutputs
    <3> QED BY <3>1, <3>2
  <2>4. NodeTypeOK'
    BY <1>1, <2>1, <2>2, <2>3 DEF NodeTypeOK, history, alarm, mail, world
  <2> QED BY <1>1, <2>1, <2>4 DEF NodeTypes, Reads
<1> QED BY <1>2, <1>3, <1>4

\* The steps of the timer, the clock and the publishers.
LEMMA WorldType ==
  ASSUME NodeTypes,
         \/ FireTimer \/ RestartTimer \/ AdvanceClock \/ SetClockBack \/ Shutdown
         \/ \E t \in Topics : Deliver(t)
  PROVE  NodeTypes' /\ UNCHANGED <<vars, pc, topics>>
<1>1. TypeOK /\ NodeTypeOK /\ Reads /\ clock \in Nat
  BY ClockType DEF NodeTypes, NodeTypeOK
<1>2. UNCHANGED <<vars, pc, topics>>
  BY DEF FireTimer, RestartTimer, AdvanceClock, SetClockBack, Moves, Shutdown,
         Deliver, loop_vars
<1>3. TypeOK'
  BY <1>1, <1>2, TypeStep
<1>4. CASE FireTimer
  BY <1>1, <1>3, <1>4, StoppedType
     DEF FireTimer, NodeTypes, NodeTypeOK, Reads, history, mail, topics, world
<1>5. CASE RestartTimer
  <2>1. timer' \in Timer
    <3>1. timer \in Timer /\ timer' = [timer EXCEPT !.started = clock,
                                              !.expiry = clock + timer.period]
      BY <1>1, <1>5 DEF RestartTimer, NodeTypeOK
    <3>2. timer.armed \in BOOLEAN /\ {timer.started, timer.period} \subseteq Nat
      BY <3>1 DEF Timer
    <3>3. timer' = [armed |-> timer.armed, started |-> clock, period |-> timer.period,
                    expiry |-> clock + timer.period]
      BY <3>1 DEF Timer
    <3>4. clock + timer.period \in Nat
      BY <1>1, <3>2
    <3> QED BY <1>1, <3>2, <3>3, <3>4 DEF Timer
  <2> QED BY <1>1, <1>3, <1>5, <2>1
          DEF RestartTimer, NodeTypes, NodeTypeOK, Reads, history, mail, topics, world
<1>6. CASE AdvanceClock
  BY <1>1, <1>3, <1>6
     DEF AdvanceClock, Moves, NodeTypes, NodeTypeOK, Reads, history, alarm, mail, topics
<1>7. CASE SetClockBack
  BY <1>1, <1>3, <1>7
     DEF SetClockBack, Moves, NodeTypes, NodeTypeOK, Reads, history, alarm, mail, topics
<1>8. CASE Shutdown
  BY <1>1, <1>3, <1>8
     DEF Shutdown, NodeTypes, NodeTypeOK, Reads, history, loop_vars, alarm, mail, topics
<1>9. ASSUME NEW t \in Topics, Deliver(t) PROVE NodeTypes'
  <2>1. PICK m \in Messages[t] :
          LET header == [value |-> m.value, ignored |-> m.ignored,
                         stamp |-> IF m.stamped THEN clock ELSE 0]
              full   == Len(queues[t]) = QueueSize
          IN /\ sent' = sent + 1
             /\ queues' = [queues EXCEPT
                  ![t] = Append(IF full THEN Tail(@) ELSE @, header)]
             /\ callbacks' = IF full THEN callbacks ELSE Append(callbacks, t)
    BY <1>9 DEF Deliver
  <2> DEFINE header == [value |-> m.value, ignored |-> m.ignored,
                        stamp |-> IF m.stamped THEN clock ELSE 0]
  <2>2. header \in Header
    BY <1>1, NodeAssumption DEF Header, Message
  <2>3. queues[t] \in Seq(Header) /\ queues \in [Topics -> Seq(Header)]
        /\ callbacks \in Seq(Topics)
    BY <1>1 DEF NodeTypeOK
  <2>4. Len(queues[t]) = QueueSize => Tail(queues[t]) \in Seq(Header)
    <3>1. ASSUME Len(queues[t]) = QueueSize PROVE queues[t] # <<>>
      BY <2>3, <3>1, NodeAssumption
    <3> QED BY <2>3, <3>1, HeadTailProperties
  <2>5. queues' \in [Topics -> Seq(Header)]
    BY <2>1, <2>2, <2>3, <2>4, AppendProperties
  <2>6. callbacks' \in Seq(Topics) /\ sent' \in Nat
    BY <1>1, <2>1, <2>3, AppendProperties DEF NodeTypeOK
  <2>7. UNCHANGED <<history, deadline, read, alarm, batch, ok, clock, rewinds>>
    BY <1>9 DEF Deliver
  <2> QED BY <1>1, <1>2, <1>3, <2>5, <2>6, <2>7
          DEF NodeTypes, NodeTypeOK, Reads, history, alarm, topics
<1> QED BY <1>2, <1>4, <1>5, <1>6, <1>7, <1>8, <1>9

-----------------------------------------------------------------------------
(* What the topics show *)

\* The trace of a turn, as far as it has got, starts in the state the last trace
\* message ended in; outside a turn the machine is still in that state.
TraceSoFar ==
  IF pc = "turn" /\ trace # <<>> THEN trace[1].from = traced.active
                                 ELSE traced.active = machine.state

\* A gate that has fired since its state was entered published that state.
FiredIsShown == machine.publish_gate.initialized => latched.state = machine.state

\* Only a gate that has fired lets the owner get as far as arming its timer.
SleepsOnFiredGate ==
  pc \in {"arm", "start", "recheck", "adjust", "wait"} => machine.publish_gate.initialized

\* Inductive form of NodeTypeOK, TopicShowsTheState and TraceMessagesConnect.
NodeInv ==
  /\ NodeTypes
  /\ TraceIsAPath
  /\ pc = "turn" => published = <<>>
  /\ TraceSoFar
  /\ FiredIsShown
  /\ SleepsOnFiredGate

\* The invariant holds when the loop starts.
LEMMA NodeInvInit == NodeInit => NodeInv
<1> SUFFICES ASSUME NodeInit PROVE NodeInv
  OBVIOUS
<1>1. NodeTypes /\ TraceIsAPath
  BY NodeInitType, TraceInit DEF NodeInit
<1>2. /\ pc = "top" /\ traced.active = "SelfCheck"
      /\ machine.state = "SelfCheck" /\ ~machine.publish_gate.initialized
  BY DEF NodeInit, NoTrace, Init, ResetValues, Enter, FreshGate
<1> QED BY <1>1, <1>2 DEF NodeInv, TraceSoFar, FiredIsShown, SleepsOnFiredGate

\* A gate that has not fired is due at once: the wake is not ahead of the clock.
LEMMA UnfiredIsDue ==
  ASSUME TypeOK, NEW now \in Nat, ~machine.publish_gate.initialized
  PROVE  nextWake(now) <= now
<1>1. nextDue(machine.publish_gate, now, PublishPeriod) = now
  BY DEF nextDue, Restarts
<1>2. now \in WakeSet(now)
  BY <1>1 DEF WakeSet, GateDeadlines
<1> QED BY <1>2, WakeIsLeast

\* Outside a turn, the invariant needs only what the arming of the timer relies on.
LEMMA QuietStep ==
  ASSUME NodeInv, NodeTypes', TraceIsAPath',
         UNCHANGED <<machine, trace, topics>>, pc # "turn", pc' # "turn",
         SleepsOnFiredGate'
  PROVE  NodeInv'
  BY DEF NodeInv, TraceSoFar, FiredIsShown, topics

\* Around the turn the loop keeps the invariant and sends nothing.
LEMMA LoopKeeps ==
  ASSUME NodeInv,
         ReadWake \/ Arm \/ StartTimer \/ Recheck \/ Adjust \/ Wake \/ StopTimer \/ Exit
  PROVE  NodeInv' /\ UNCHANGED topics
<1>1. NodeTypes' /\ UNCHANGED <<vars, topics>>
  BY LoopType DEF NodeInv, ReadWake, Arm, StartTimer, Recheck, Adjust, Wake, StopTimer, Exit
<1>2. UNCHANGED <<machine, trace>> /\ TraceIsAPath'
  BY <1>1 DEF NodeInv, vars, TraceIsAPath
<1>3. pc # "turn" /\ pc' # "turn"
  BY DEF ReadWake, Arm, StartTimer, Recheck, Adjust, Wake, StopTimer, Exit,
         EndPass, Sleep
<1>4. SleepsOnFiredGate'
  <2>1. CASE ReadWake
    <3>1. TypeOK /\ clock \in Nat
      BY ClockType DEF NodeInv, NodeTypes, NodeTypeOK
    <3>2. nextWake(clock) \in Nat
      BY <3>1, WakeIsLeast
    <3>3. pc' = "arm" => ~(clock >= nextWake(clock))
      BY <2>1 DEF ReadWake, RunsNow
    <3>4. pc' \in {"update", "arm"}
      BY <2>1 DEF ReadWake
    <3> QED BY <1>2, <3>1, <3>2, <3>3, <3>4, UnfiredIsDue DEF SleepsOnFiredGate
  <2>2. CASE Arm \/ StartTimer \/ Recheck \/ Adjust
    BY <1>2, <2>2 DEF NodeInv, SleepsOnFiredGate, Arm, StartTimer, Recheck, Adjust
  <2>3. CASE Wake \/ StopTimer \/ Exit
    BY <2>3 DEF SleepsOnFiredGate, Wake, StopTimer, Exit
  <2> QED BY <2>1, <2>2, <2>3
<1> QED BY <1>1, <1>2, <1>3, <1>4, QuietStep

\* So does a callback, which ingests a sample.
LEMMA CallbackKeeps ==
  ASSUME NodeInv, RunCallback PROVE NodeInv' /\ UNCHANGED topics
<1>1. NodeTypes' /\ pc = "callbacks" /\ pc' = "callbacks" /\ UNCHANGED topics
  BY CallbackType DEF NodeInv, RunCallback
<1>2. UNCHANGED <<machine, trace>>
  BY DEF RunCallback, ingestSample, vars
<1>3. TraceIsAPath'
  BY <1>2 DEF NodeInv, TraceIsAPath
<1> QED BY <1>1, <1>2, <1>3, QuietStep DEF SleepsOnFiredGate

\* So do the timer, the clock, the publishers and a shutdown.
LEMMA WorldKeeps ==
  ASSUME NodeInv,
         \/ FireTimer \/ RestartTimer \/ AdvanceClock \/ SetClockBack \/ Shutdown
         \/ \E t \in Topics : Deliver(t)
  PROVE  NodeInv' /\ UNCHANGED topics
<1>1. NodeTypes' /\ UNCHANGED <<vars, pc, topics>>
  BY WorldType DEF NodeInv
<1> QED BY <1>1 DEF NodeInv, TraceIsAPath, TraceSoFar, FiredIsShown, SleepsOnFiredGate,
                    vars, topics

\* A turn starts with an empty trace, and each edge continues it.
LEMMA TurnKeeps ==
  ASSUME NodeInv, Update \/ Evaluate PROVE NodeInv' /\ UNCHANGED topics
<1>1. /\ NodeTypes' /\ TypeOK /\ [OwnerNext]_vars /\ TraceIsAPath'
      /\ Update => BeginUpdate
      /\ Evaluate => evaluateHealthAt(Head(pending)) \/ evaluateHealthAt(turn.now)
  BY TurnType, TurnStep, TraceStep DEF NodeInv, NodeTypes
<1>2. UNCHANGED topics /\ pc' = "turn"
  BY DEF Update, Evaluate, loop_vars
<1>3. CASE Update
  <2>1. trace' = <<>> /\ published' = <<>> /\ machine' = machine /\ pc = "update"
    BY <1>1, <1>3 DEF BeginUpdate, Update
  <2> QED BY <1>1, <1>2, <2>1
          DEF NodeInv, TraceSoFar, FiredIsShown, SleepsOnFiredGate, topics
<1>4. CASE Evaluate
  <2>1. PICK now : evaluateHealthAt(now)
    BY <1>1, <1>4
  <2>2. pc = "turn" /\ published' = published
    BY <1>4, <2>1 DEF Evaluate, evaluateHealthAt
  <2>3. \/ machine' = machine /\ trace' = trace
        \/ /\ ~machine'.publish_gate.initialized
           /\ trace' = Append(trace, TraceEntry(now, classify(input, now)))
    BY <2>1 DEF evaluateHealthAt, Transition, Enter, FreshGate
  <2>4. TraceSoFar'
    <3>1. CASE machine' = machine /\ trace' = trace
      BY <1>2, <2>2, <3>1 DEF NodeInv, TraceSoFar, topics
    <3>2. CASE trace' = Append(trace, TraceEntry(now, classify(input, now)))
      <4>1. trace \in Seq(Traced) /\ trace' \in Seq(Traced)
        BY <1>1 DEF TypeOK, NodeTypes
      <4>2. trace' # <<>> /\ trace'[1] = IF trace = <<>>
              THEN TraceEntry(now, classify(input, now)) ELSE trace[1]
        BY <3>2, <4>1
      <4> QED BY <1>2, <2>2, <4>2 DEF NodeInv, TraceSoFar, TraceEntry, topics
    <3> QED BY <2>3, <3>1, <3>2
  <2>5. FiredIsShown'
    BY <1>2, <2>3 DEF NodeInv, FiredIsShown, topics
  <2> QED BY <1>1, <1>2, <2>2, <2>4, <2>5 DEF NodeInv, SleepsOnFiredGate
<1> QED BY <1>3, <1>4

\* The end of a turn: what it sends fits what was sent before.
LEMMA FinishKeeps ==
  ASSUME NodeInv, FinishUpdate
  PROVE  /\ NodeInv'
         /\ traced' # traced => /\ Head(traced'.events).from = traced.active
                                /\ Last(traced'.events).to = traced'.active
<1>1. /\ NodeTypes' /\ TypeOK /\ TypeOK' /\ [OwnerNext]_vars /\ TraceIsAPath' /\ Tick
  BY TurnType, TurnStep, TraceStep DEF NodeInv, NodeTypes
<1>2. pc = "turn" /\ pc' = "top" /\ published = <<>> /\ publishRuntimeOutputs
  BY DEF NodeInv, FinishUpdate
<1>3. machine'.state = machine.state /\ trace' = trace /\ trace \in Seq(Traced)
  BY <1>1, <1>2, TickShows DEF TypeOK
<1>4. FiredIsShown'
  <2>1. CASE published' = <<>>
    BY <1>1, <1>2, <2>1, TickShows DEF NodeInv, FiredIsShown, publishRuntimeOutputs
  <2>2. CASE published' # <<>>
    <3>1. latched' = makeEstimateStateMessage(Last(published'))
          /\ Last(published').output.state = machine.state
      BY <1>1, <1>2, <2>2, TickShows DEF publishRuntimeOutputs
    <3> QED BY <1>3, <3>1 DEF FiredIsShown, makeEstimateStateMessage
  <2> QED BY <2>1, <2>2
<1>5. CASE trace = <<>>
  <2>1. traced' = traced
    BY <1>2, <1>3, <1>5 DEF publishRuntimeOutputs
  <2>2. TraceSoFar'
    BY <1>2, <1>3, <1>5, <2>1 DEF NodeInv, TraceSoFar
  <2> QED BY <1>1, <1>2, <1>4, <2>1, <2>2 DEF NodeInv, SleepsOnFiredGate
<1>6. CASE trace # <<>>
  <2>1. traced'.active = machine.state /\ traced'.events = trace
    BY <1>2, <1>3, <1>6 DEF publishRuntimeOutputs, makeTraceMessage
  <2>2. TraceSoFar'
    BY <1>2, <1>3, <2>1 DEF TraceSoFar
  <2>3. Head(trace) = trace[1] /\ Last(trace) = trace[Len(trace)]
    BY <1>3, <1>6 DEF Last
  <2>4. trace[1].from = traced.active /\ trace[Len(trace)].to = machine.state
    BY <1>2, <1>6 DEF NodeInv, TraceSoFar, TraceIsAPath
  <2> QED BY <1>1, <1>2, <1>4, <2>1, <2>2, <2>3, <2>4 DEF NodeInv, SleepsOnFiredGate
<1> QED BY <1>5, <1>6

\* Every step of the node.
LEMMA NodeStep ==
  ASSUME NodeInv, [NodeNext]_node_vars
  PROVE  /\ NodeInv'
         /\ traced' # traced => /\ Head(traced'.events).from = traced.active
                                /\ Last(traced'.events).to = traced'.active
<1>1. CASE UNCHANGED node_vars
  <2>1. UNCHANGED <<vars, pc, topics>> /\ UNCHANGED <<loop_vars, world>>
    BY <1>1 DEF node_vars, loop_vars
  <2>2. TypeOK'
    BY <2>1, TypeStep DEF NodeInv, NodeTypes
  <2>3. NodeTypes'
    BY <2>1, <2>2 DEF NodeInv, NodeTypes, NodeTypeOK, Reads, history, loop_vars, alarm, mail,
                      topics, world
  <2> QED BY <2>1, <2>3 DEF NodeInv, TraceIsAPath, TraceSoFar, FiredIsShown,
                            SleepsOnFiredGate, vars, topics
<1>2. CASE ReadWake \/ Arm \/ StartTimer \/ Recheck \/ Adjust \/ Wake \/ StopTimer \/ Exit
  BY <1>2, LoopKeeps DEF topics
<1>3. CASE RunCallback
  BY <1>3, CallbackKeeps DEF topics
<1>4. CASE Update \/ Evaluate
  BY <1>4, TurnKeeps DEF topics
<1>5. CASE FinishUpdate
  BY <1>5, FinishKeeps
<1>6. CASE \/ FireTimer \/ RestartTimer \/ AdvanceClock \/ SetClockBack \/ Shutdown
           \/ \E t \in Topics : Deliver(t)
  BY <1>6, WorldKeeps DEF topics
<1> QED BY <1>1, <1>2, <1>3, <1>4, <1>5, <1>6 DEF NodeNext, Loop

\* The invariant of the loop.
LEMMA NodeInvHolds == NodeSpec => []NodeInv
  BY NodeInvInit, NodeStep, PTL DEF NodeSpec

\* The loop's variables keep their types for any messages, queues and clock: the
\* timer is never given a negative period, wherever in a pass the clock moves.
THEOREM NodeTypeCorrect == NodeSpec => []NodeTypeOK
<1>1. NodeInv => NodeTypeOK
  BY DEF NodeInv, NodeTypes
<1> QED BY <1>1, NodeInvHolds, PTL

\* A sleeping owner's state is on both topics, however the clock moved, whatever
\* was lost of the input, and also when the timer was armed too late.
THEOREM TopicsShowTheState == NodeSpec => []TopicShowsTheState
<1>1. NodeInv => TopicShowsTheState
  BY DEF NodeInv, TraceSoFar, FiredIsShown, SleepsOnFiredGate, TopicShowsTheState
<1> QED BY <1>1, NodeInvHolds, PTL

\* The trace messages, one after another, are a path of the state machine from its
\* first state on, through any number of turns and edges.
THEOREM TraceMessagesAreAPath == NodeSpec => TraceMessagesConnect
<1> DEFINE A == traced' # traced => /\ Head(traced'.events).from = traced.active
                                    /\ Last(traced'.events).to = traced'.active
<1>1. NodeInv /\ [NodeNext]_node_vars => [A]_node_vars
  BY NodeStep
<1> QED BY <1>1, NodeInvHolds, PTL DEF NodeSpec, TraceMessagesConnect

-----------------------------------------------------------------------------
(* The node as a caller of the runtime *)

\* What a subscription queues: a message and its stamp, or 0 without one.
QueuedHeaders(t) ==
  {h \in Header : /\ h.stamp \in Times \cup {0}
                  /\ \E m \in Messages[t] : h.value = m.value /\ h.ignored = m.ignored}

\* Nothing else is queued.
HeadersInv == \A t \in Topics : queues[t] \in Seq(QueuedHeaders(t))

\* Queues are filled by deliveries and emptied from the front.
LEMMA HeadersStep ==
  ASSUME NodeTypes, HeadersInv, [NodeNext]_node_vars PROVE HeadersInv'
<1>1. queues \in [Topics -> Seq(Header)] /\ batch \in Seq(Topics) /\ clock \in Times
  BY DEF NodeTypes, NodeTypeOK
<1>2. CASE queues' = queues
  BY <1>2 DEF HeadersInv
<1>3. CASE RunCallback
  <2>1. Head(batch) \in Topics
    BY <1>1, <1>3, HeadTailProperties DEF RunCallback
  <2>2. CASE queues[Head(batch)] = <<>>
    BY <1>2, <1>3, <2>2 DEF RunCallback
  <2>3. CASE queues[Head(batch)] # <<>>
    <3>1. queues' = [queues EXCEPT ![Head(batch)] = Tail(queues[Head(batch)])]
      BY <1>3, <2>3 DEF RunCallback
    <3>2. queues[Head(batch)] \in Seq(QueuedHeaders(Head(batch)))
      BY <2>1 DEF HeadersInv
    <3>3. Tail(queues[Head(batch)]) \in Seq(QueuedHeaders(Head(batch)))
      BY <2>3, <3>2, HeadTailProperties
    <3> QED BY <1>1, <2>1, <3>1, <3>3 DEF HeadersInv
  <2> QED BY <2>2, <2>3
<1>4. ASSUME NEW t \in Topics, Deliver(t) PROVE HeadersInv'
  <2>1. PICK m \in Messages[t] :
          LET header == [value |-> m.value, ignored |-> m.ignored,
                         stamp |-> IF m.stamped THEN clock ELSE 0]
              full   == Len(queues[t]) = QueueSize
          IN queues' = [queues EXCEPT
               ![t] = Append(IF full THEN Tail(@) ELSE @, header)]
    BY <1>4 DEF Deliver
  <2> DEFINE header == [value |-> m.value, ignored |-> m.ignored,
                        stamp |-> IF m.stamped THEN clock ELSE 0]
             kept == IF Len(queues[t]) = QueueSize THEN Tail(queues[t]) ELSE queues[t]
  <2>2. header \in QueuedHeaders(t)
    <3>1. header \in Header
      BY <1>1, RuntimeAssumption, NodeAssumption DEF Header, Message
    <3> QED BY <1>1, <3>1 DEF QueuedHeaders
  <2>3. kept \in Seq(QueuedHeaders(t))
    <3>1. queues[t] \in Seq(QueuedHeaders(t))
      BY DEF HeadersInv
    <3>2. Len(queues[t]) = QueueSize => queues[t] # <<>>
      BY <3>1, NodeAssumption
    <3> QED BY <3>1, <3>2, HeadTailProperties
  <2>4. queues' = [queues EXCEPT ![t] = Append(kept, header)]
    BY <2>1
  <2> HIDE DEF header, kept
  <2>5. Append(kept, header) \in Seq(QueuedHeaders(t))
    BY <2>2, <2>3, AppendProperties
  <2> QED BY <1>1, <2>4, <2>5 DEF HeadersInv
<1>5. CASE \/ ReadWake \/ Update \/ Evaluate \/ FinishUpdate \/ Arm \/ StartTimer
           \/ Recheck \/ Adjust \/ Wake \/ StopTimer \/ Exit
  <2>1. queues' = queues
    BY <1>5 DEF ReadWake, Update, Evaluate, FinishUpdate, Arm, StartTimer, Recheck,
                Adjust, Wake, StopTimer, Exit, mail, loop_vars
  <2> QED BY <1>2, <2>1
<1>6. CASE \/ FireTimer \/ RestartTimer \/ AdvanceClock \/ SetClockBack \/ Shutdown
           \/ UNCHANGED node_vars
  <2>1. queues' = queues
    BY <1>6 DEF FireTimer, RestartTimer, AdvanceClock, SetClockBack, Moves, Shutdown,
                mail, loop_vars, node_vars
  <2> QED BY <1>2, <2>1
<1> QED BY <1>3, <1>4, <1>5, <1>6 DEF NodeNext, Loop

\* Inductive form of the theorems below.
CallerInv == NodeInv /\ HeadersInv

\* It holds.
LEMMA CallerInvHolds == NodeSpec => []CallerInv
<1>1. NodeInit => HeadersInv
  BY EmptySeq DEF NodeInit, HeadersInv
<1>2. NodeInv /\ HeadersInv /\ [NodeNext]_node_vars => HeadersInv'
  BY HeadersStep DEF NodeInv
<1> QED BY <1>1, <1>2, NodeInvHolds, PTL DEF NodeSpec, CallerInv

\* A callback ingests what it makes of a message: a sample the runtime is meant
\* for.
LEMMA CallbackIngests ==
  ASSUME CallerInv, RunCallback
  PROVE  \/ UNCHANGED vars
         \/ \E t \in Topics : \E a \in CallbackSamples[t] : ingestSample(t, a)
<1> DEFINE t == Head(batch)
           m == Head(queues[t])
           a == [value |-> m.value, ignored |-> m.ignored,
                 stamp |-> StampOf(m), now |-> StampOf(m)]
<1>1. batch \in Seq(Topics) /\ batch # <<>> /\ clock \in Times
  BY DEF CallerInv, NodeInv, NodeTypes, NodeTypeOK, RunCallback
<1>2. t \in Topics
  BY <1>1, HeadTailProperties
<1>3. CASE queues[t] = <<>>
  BY <1>3 DEF RunCallback
<1>4. CASE queues[t] # <<>>
  <2>1. ingestSample(t, a)
    BY <1>4 DEF RunCallback
  <2>2. queues[t] \in Seq(QueuedHeaders(t))
    BY <1>2 DEF CallerInv, HeadersInv
  <2>3. m \in QueuedHeaders(t)
    BY <1>4, <2>2, HeadTailProperties
  <2>4. PICK message \in Messages[t] :
          m.value = message.value /\ m.ignored = message.ignored /\ m.stamp \in Times \cup {0}
    BY <2>3 DEF QueuedHeaders
  <2>5. StampOf(m) \in Times
    BY <1>1, <2>4 DEF StampOf
  <2>6. a = [value |-> message.value, ignored |-> message.ignored,
             stamp |-> StampOf(m), now |-> StampOf(m)]
    BY <2>4
  <2>7. a \in CallbackSamples[t]
    BY <1>2, <2>5, <2>6 DEF CallbackSamples
  <2> HIDE DEF a
  <2> QED BY <1>2, <2>1, <2>7
<1> QED BY <1>3, <1>4

\* Every step of the node is one of the runtime's, or none.
LEMMA CallerStep ==
  ASSUME CallerInv, [NodeNext]_node_vars PROVE [Next]_vars
<1>1. CASE Update \/ Evaluate \/ FinishUpdate
  BY <1>1 DEF Update, Evaluate, FinishUpdate, Next
<1>2. CASE RunCallback
  <2>1. ASSUME NEW t \in Topics, NEW a \in CallbackSamples[t], ingestSample(t, a)
        PROVE  Next
    <3>1. a \in Arrivals[t]
      BY <2>1, NodeAssumption
    <3> QED BY <2>1, <3>1
            DEF Next, ingestImu, ingestThrust, ingestAltitude, Topics
  <2> QED BY <1>2, <2>1, CallbackIngests
<1>3. CASE \/ ReadWake \/ Arm \/ StartTimer \/ Recheck \/ Adjust \/ Wake
           \/ StopTimer \/ Exit
  BY <1>3 DEF ReadWake, Arm, StartTimer, Recheck, Adjust, Wake, StopTimer, Exit
<1>4. CASE \/ FireTimer \/ RestartTimer \/ AdvanceClock \/ SetClockBack \/ Shutdown
           \/ UNCHANGED node_vars \/ \E t \in Topics : Deliver(t)
  BY <1>4 DEF FireTimer, RestartTimer, AdvanceClock, SetClockBack, Moves, Shutdown,
              Deliver, node_vars
<1> QED BY <1>1, <1>2, <1>3, <1>4 DEF NodeNext, Loop

\* Whatever messages, threads, clock and shutdown do, the node is one of the
\* callers the runtime's properties are about: it calls between turns only, with
\* samples and readings the runtime is meant for, and never resets it.
THEOREM NodeIsACaller == NodeSpec => RuntimeIsUsedAsAllowed
<1>1. NodeInit => Init
  BY DEF NodeInit
<1>2. CallerInv /\ [NodeNext]_node_vars => [Next]_vars
  BY CallerStep
<1> QED BY <1>1, <1>2, CallerInvHolds, PTL
        DEF NodeSpec, RuntimeIsUsedAsAllowed, Spec

\* So it is an owner of the runtime.
LEMMA NodeIsAnOwner == NodeSpec => OwnerSpec
  BY NodeIsACaller, SpecIsOwnerSpec DEF RuntimeIsUsedAsAllowed

\* The estimator inside the node follows its contract.
THEOREM NodeKeepsContract == NodeSpec => ContractIsKept
  BY NodeIsAnOwner, RuntimeKeepsContract

\* In the node, a clock fault anywhere in a batch of callbacks reaches the output.
THEOREM NodeServesFaults == NodeSpec => FaultIsServed
  BY NodeIsACaller, FaultReachesOutput DEF RuntimeIsUsedAsAllowed

\* What the theorems about the runtime say holds inside the node, between any two
\* steps of its threads.
THEOREM NodeKeepsRuntime ==
  NodeSpec => [](/\ StateFollowsHealth /\ TurnOutputIsCurrent /\ PublishedIsTheSnapshot
                 /\ EstimateCoherence /\ SelfCheckTargetsInitial
                 /\ WakeMissesNothing /\ WakeIsAhead)
  BY NodeIsAnOwner, StateIsHealths, OutputIsCurrent, PublishesTheSnapshot,
     EstimateStaysCoherent, SelfCheckIsInitial, WakeIsNeverLate, WakeLiesAhead, PTL

\* Every thrust sample that the node has received is stamped with a reading of the
\* clock.
ThrustIsClocked == LET thrust == input.samples["normalized_thrust"] IN
                   thrust.received => thrust.stamp \in Times

\* A header's stamp is one, and a callback gives one to a header without.
LEMMA ThrustStaysClocked == NodeSpec => []ThrustIsClocked
<1>1. NodeInit => ThrustIsClocked
  BY DEF NodeInit, Init, ResetValues, NoInput, NoSample, Topics, ThrustIsClocked
<1>2. ASSUME CallerInv, ThrustIsClocked, [NodeNext]_node_vars PROVE ThrustIsClocked'
  <2>1. TypeOK /\ NodeTypes
    BY <1>2 DEF CallerInv, NodeInv, NodeTypes
  <2>2. CASE UNCHANGED vars
    BY <1>2, <2>2 DEF vars, ThrustIsClocked
  <2>3. CASE Update \/ Evaluate
    BY <1>2, <2>3 DEF Update, Evaluate, BeginUpdate, EvaluateMark, EvaluateNow,
                      evaluateHealthAt, ThrustIsClocked
  <2>4. CASE FinishUpdate
    BY <1>2, <2>1, <2>4, TickStep DEF FinishUpdate, ThrustIsClocked
  <2>5. ASSUME NEW t \in Topics, NEW a \in CallbackSamples[t],
               ingestSample(t, a)
        PROVE  ThrustIsClocked'
    <3>1. input.samples \in [Topics -> Sample]
      BY <2>1 DEF TypeOK, Input
    <3>2. input'.samples = [input.samples EXCEPT ![t] = ReceivedSample(input.samples[t], a)]
      BY <2>5 DEF ingestSample
    <3>5. a.stamp \in Times
      BY <2>5 DEF CallbackSamples
    <3>3. CASE t = "normalized_thrust"
      BY <3>1, <3>2, <3>3, <3>5 DEF ThrustIsClocked, ReceivedSample, Topics
    <3>4. CASE t # "normalized_thrust"
      BY <1>2, <3>1, <3>2, <3>4 DEF ThrustIsClocked, Topics
    <3> QED BY <3>3, <3>4
  <2>6. CASE RunCallback
    BY <1>2, <2>2, <2>5, <2>6, CallbackIngests
  <2>7. CASE ~(Update \/ Evaluate \/ FinishUpdate \/ RunCallback)
    <3>1. UNCHANGED vars
      BY <1>2, <2>7
         DEF NodeNext, Loop, ReadWake, Arm, StartTimer, Recheck, Adjust, Wake,
             StopTimer, Exit, FireTimer, RestartTimer, AdvanceClock, SetClockBack,
             Moves, Shutdown, Deliver, node_vars
    <3> QED BY <2>2, <3>1
  <2> QED BY <2>3, <2>4, <2>6, <2>7
<1> QED BY <1>1, <1>2, CallerInvHolds, PTL DEF NodeSpec

\* In the node a used pair is newer than the last one used, whatever the messages'
\* stamps.  The one exception: while the clock reads 0, as a simulated one does
\* until it starts, a header without a stamp gets none, and the code takes a pair
\* stamped 0 for none at all.  That pair may be used again, as a run shows.
THEOREM NodeAcceptsOnce ==
  NodeSpec => [][turn.phase = "tick" /\ last_sample_used'
                   => \/ last_estimate_stamp < last_estimate_stamp'
                      \/ /\ last_estimate_stamp = 0 /\ last_estimate_stamp' = 0
                         /\ 0 \in Times]_vars
<1> DEFINE A == turn.phase = "tick" /\ last_sample_used'
                  => \/ last_estimate_stamp < last_estimate_stamp'
                     \/ /\ last_estimate_stamp = 0 /\ last_estimate_stamp' = 0
                        /\ 0 \in Times
<1>1. TypeOK /\ TickSeesInput /\ StateFollowsHealth /\ EstimateCoherence
        /\ ThrustIsClocked /\ [OwnerNext]_vars => [A]_vars
  BY AcceptedStampMoves DEF ThrustIsClocked
<1> QED BY <1>1, NodeIsAnOwner, TypeCorrect, TickSeesTheInput, StateIsHealths,
           EstimateStaysCoherent, ThrustStaysClocked, PTL DEF OwnerSpec

\* What subscribers get is the snapshot that the turn leaves, under the turn's
\* clock: the topic never shows an estimate the runtime does not stand by.
THEOREM SubscribersGetTheSnapshot ==
  NodeSpec => [][latched' # latched =>
                   latched' = makeEstimateStateMessage(
                                [stamp |-> turn'.now, output |-> last_output'])]_node_vars
<1> DEFINE A == latched' # latched =>
                  latched' = makeEstimateStateMessage(
                               [stamp |-> turn'.now, output |-> last_output'])
<1>1. ASSUME TypeOK, PublishedIsTheSnapshot', [NodeNext]_node_vars PROVE [A]_node_vars
  <2>1. ASSUME latched' # latched PROVE FinishUpdate
    BY <1>1, <2>1
       DEF NodeNext, Loop, ReadWake, Update, Evaluate, Arm, StartTimer, Recheck, Adjust,
           Wake, RunCallback, StopTimer, Exit, FireTimer, RestartTimer, AdvanceClock,
           SetClockBack, Moves, Shutdown, Deliver, node_vars, topics
  <2>2. CASE FinishUpdate
    <3>1. Idle' /\ publishRuntimeOutputs
      BY <1>1, <2>2, TickStep DEF FinishUpdate, Idle
    <3>2. published' \in {<<>>, <<[stamp |-> turn'.now, output |-> last_output']>>}
      BY <1>1, <3>1 DEF PublishedIsTheSnapshot
    <3>3. \A x : Last(<<x>>) = x
      BY DEF Last
    <3> QED BY <3>1, <3>2, <3>3 DEF publishRuntimeOutputs
  <2> QED BY <2>1, <2>2
<1> QED BY <1>1, NodeIsAnOwner, TypeCorrect, PublishesTheSnapshot, PTL DEF NodeSpec

\* Where no deadline is rounded short, the loop runs no turn for nothing: a turn
\* without input finds a gate due, and none repeats a reading.  Where one is, the
\* loop may spin, as a run shows.
THEOREM TurnsHaveCause ==
  ASSUME RoundingShortfall = 0
  PROVE  NodeSpec => NoIdleTurns
<1> DEFINE A == pc = "top" /\ pc' = "update" /\ pending = <<>>
                  => GateIsDue(clock) /\ (turn.phase = "idle" => clock # turn.now)
<1>1. ASSUME NodeInv, AfterTurn, [NodeNext]_node_vars PROVE [A]_node_vars
  <2> SUFFICES ASSUME pc = "top", pc' = "update", pending = <<>> PROVE A
    OBVIOUS
  <2>1. TypeOK /\ clock \in Nat
    BY <1>1, ClockType DEF NodeInv, NodeTypes, NodeTypeOK
  <2>2. ReadWake
    BY <1>1
       DEF NodeNext, Loop, ReadWake, Update, Evaluate, FinishUpdate, Arm, StartTimer,
           Recheck, Adjust, Wake, RunCallback, StopTimer, Exit, FireTimer, RestartTimer,
           AdvanceClock, SetClockBack, Moves, Shutdown, Deliver, node_vars, loop_vars
  <2>3. nextWake(clock) \in WakeSet(clock) /\ WakeSet(clock) \subseteq Nat
    BY <2>1, WakeIsLeast
  <2>4. nextWake(clock) <= clock
    BY <2>1, <2>2, <2>3 DEF ReadWake, RunsNow
  <2>5. nextWake(clock) \in GateDeadlines(clock)
    BY <2>1, <2>3, <2>4 DEF WakeSet
  <2>6. /\ machine.publish_gate \in Gate /\ machine.raw_update_gate \in Gate
        /\ PublishPeriod \in Nat \ {0} /\ RawPeriod \in Nat \ {0}
    BY <2>1, Periods DEF TypeOK, Machine
  <2>7. ASSUME NEW g \in Gate, NEW period \in Nat \ {0}, nextDue(g, clock, period) <= clock
        PROVE  due(g, clock, period)
    <3>1. nextDue(g, clock, period) \in Nat
      BY <2>1, NextDueRange
    <3>2. ~due(g, clock, period) => clock < nextDue(g, clock, period) + RoundingShortfall
      BY <2>1, NextDueRange
    <3> QED BY <2>1, <2>7, <3>1, <3>2
  <2>8. GateIsDue(clock)
    BY <2>4, <2>5, <2>6, <2>7 DEF GateDeadlines, GateIsDue
  <2>9. turn.phase = "idle" => ~GateIsDue(turn.now)
    BY <1>1 DEF AfterTurn, GateIsDue
  <2> QED BY <2>8, <2>9
<1> QED BY <1>1, NodeInvHolds, NodeIsAnOwner, TurnLeavesBehind, PTL DEF NodeSpec, NoIdleTurns
=============================================================================
