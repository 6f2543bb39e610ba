--------------------------- MODULE HoverThrustNode ---------------------------
(***************************************************************************)
(* HoverThrustEstimatorNode::run of hover_thrust_estimator_node.cpp: the   *)
(* owner thread that sleeps on the global callback queue until a sample    *)
(* arrives or a one-shot ROS timer expires, and runs the runtime's turns.  *)
(* The ROS clock moves, and messages arrive, between any two readings of   *)
(* the clock.  Subscriber queues, callback queue and timer (roscpp) are    *)
(* modelled from their use.                                                *)
(*                                                                         *)
(* The clock advances, may be set back (a simulation that is restarted, a  *)
(* corrected wall clock), and stops for good sooner or later (one that is  *)
(* paused).  Clock and messages stand still during a turn, which reads     *)
(* neither.  What is dead is 0: the locals of a pass of the loop outside   *)
(* it, a stopped timer.  Names, texts and the counters of the debug trace  *)
(* are left out of the messages.                                           *)
(***************************************************************************)
EXTENDS HoverThrustRuntime, SequencesExt

CONSTANTS
  Messages,      \* per topic, what is published: values, and headers or none
  QueueSize,     \* kRosQueueSize, the depth of each subscription
  MaxMessages,   \* bound: messages in all
  MaxRewinds     \* bound: how often the clock steps back

Message == [value : Values, ignored : BOOLEAN, stamped : BOOLEAN]

\* What the callbacks make of the messages: one number is stamp and event clock.
CallbackSamples == [t \in Topics |->
  {[value |-> m.value, ignored |-> m.ignored, stamp |-> now, now |-> now] :
     m \in Messages[t], now \in Times}]

ASSUME NodeAssumption ==
  /\ Messages \in [Topics -> SUBSET Message]
  /\ \A t \in Topics : CallbackSamples[t] \subseteq Arrivals[t]
  /\ QueueSize \in Nat \ {0}
  /\ {MaxMessages, MaxRewinds} \subseteq Nat
  /\ MaxMessages <= MaxPending
  /\ Times # {}

VARIABLES
  pc,         \* where run() is
  ok,         \* ros::ok()
  clock,      \* what ros::Time::now() answers
  rewinds,    \* steps of the clock back, so far
  rewound,    \* whether one came since the loop last asked for its deadline
  deadline,   \* deadline_sec
  read,       \* the clock's reading that the timer's period is counted from
  late,       \* how far the clock has moved on from that reading, when asleep
  timer,      \* deadline_timer_
  callbacks,  \* the global callback queue: the topics of its callbacks ...
  expired,    \* ... and whether the timer's is in it, which does nothing when run
  batch,      \* the callbacks that callAvailable() has taken and not yet run
  queues,     \* per topic, the messages queued by the subscription
  sent,       \* messages so far
  latched,    \* the estimate last published, which late subscribers get too
  traced      \* the debug trace message last published

topics == <<latched, traced>>
world == <<ok, clock, rewinds, sent>>
alarm == <<timer, expired>>
mail == <<callbacks, batch, queues>>
history == <<rewound, late>>
loop_vars == <<pc, history, deadline, read, alarm, mail>>
node_vars == <<vars, loop_vars, topics, world>>

Header == [value : Values, ignored : BOOLEAN, stamp : Nat]
Timer == [armed : BOOLEAN, started : Nat, period : Nat, expiry : Nat]
Stopped == [armed |-> FALSE, started |-> 0, period |-> 0, expiry |-> 0]

\* Mutant: the difference is taken the wrong way round.
ArmedSince_swapped(started) ==
  [armed |-> TRUE, started |-> started, period |-> read - deadline,
   expiry |-> clock + read - deadline]

\* The timer counts its period from the clock as it now stands.  roscpp also
\* remembers when it was started.
ArmedSince(started) ==
  [armed |-> TRUE, started |-> started, period |-> deadline - read,
   expiry |-> clock + deadline - read]

EstimateMessage == [stamp : Nat, state : States \cup {"none"}, flags : SUBSET Flags,
                    hover_thrust : HoverThrusts]
NoEstimate == [stamp |-> 0, state |-> "none", flags |-> {},
               hover_thrust |-> InitialHoverThrust]

makeEstimateStateMessage(publication) ==
  [stamp |-> publication.stamp, state |-> publication.output.state,
   flags |-> publication.output.flags,
   hover_thrust |-> publication.output.hover_thrust]

TraceMessage == [stamp : Nat, active : States, events : Seq(Traced)]
NoTrace == [stamp |-> 0, active |-> "SelfCheck", events |-> <<>>]

\* Mutant: a message shows only the last edge of its turn.
makeTraceMessage_lastEdge(traces, current) ==
  [stamp |-> Last(traces).stamp, active |-> current, events |-> <<Last(traces)>>]

\* All edges of a turn in one message, under the clock of the last.
makeTraceMessage(traces, current) ==
  [stamp |-> Last(traces).stamp, active |-> current, events |-> traces]

NodeInit ==
  /\ Init
  /\ pc = "top"
  /\ ok = TRUE
  /\ clock = Min(Times)
  /\ rewinds = 0
  /\ rewound = "no"
  /\ deadline = 0
  /\ read = 0
  /\ late = 0
  /\ timer = Stopped
  /\ callbacks = <<>>
  /\ expired = FALSE
  /\ batch = <<>>
  /\ queues = [t \in Topics |-> <<>>]
  /\ sent = 0
  /\ latched = NoEstimate
  /\ traced = NoTrace

-----------------------------------------------------------------------------
(* The owner thread *)

\* Mutant: the loop runs a turn only once it is past its wake.
RunsNow_strict(now, wake) == now > wake

RunsNow(now, wake) == pending # <<>> \/ now >= wake

ReadWake ==
  /\ pc = "top" /\ ok
  /\ LET wake == nextWake(clock) IN
     IF RunsNow(clock, wake) THEN pc' = "update" /\ UNCHANGED deadline
                             ELSE pc' = "arm" /\ deadline' = wake
  /\ rewound' = "no"
  /\ UNCHANGED <<vars, late, read, alarm, mail, topics, world>>

\* The turn is given a reading of its own.
Update ==
  /\ pc = "update"
  /\ BeginUpdate /\ turn'.now = clock
  /\ pc' = "turn"
  /\ UNCHANGED <<history, deadline, read, alarm, mail, topics, world>>

Evaluate ==
  /\ pc = "turn"
  /\ EvaluateMark \/ EvaluateNow
  /\ UNCHANGED <<loop_vars, topics, world>>

\* After the turn: the latest of its estimates stays on the topic, and a turn
\* without an edge sends no trace.
publishRuntimeOutputs ==
  /\ latched' = IF published' = <<>> THEN latched
                ELSE makeEstimateStateMessage(Last(published'))
  /\ traced' = IF trace' = <<>> THEN traced
               ELSE makeTraceMessage(trace', machine'.state)

FinishUpdate ==
  /\ pc = "turn"
  /\ Tick
  /\ publishRuntimeOutputs
  /\ pc' = "top"
  /\ UNCHANGED <<history, deadline, read, alarm, mail, world>>

EndPass == pc' = "top" /\ deadline' = 0 /\ read' = 0
Sleep == pc' = "wait" /\ deadline' = 0 /\ read' = 0

Arm ==
  /\ pc = "arm"
  /\ IF clock >= deadline THEN EndPass
                          ELSE pc' = "start" /\ read' = clock /\ UNCHANGED deadline
  /\ UNCHANGED <<vars, history, alarm, mail, topics, world>>

\* stop(), setPeriod(), start(): stop() also takes back a callback of the timer
\* that nobody has run.
StartTimer ==
  /\ pc = "start"
  /\ timer' = ArmedSince(clock)
  /\ expired' = FALSE
  /\ pc' = "recheck"
  /\ UNCHANGED <<vars, history, deadline, read, mail, topics, world>>

StopsTimer == timer' = Stopped /\ expired' = FALSE

\* Mutants: a deadline that has passed is not noticed; a clock that has moved is
\* not corrected for.
Recheck_missesDeadline ==
  /\ pc = "recheck"
  /\ IF clock > read /\ clock < deadline
       THEN pc' = "adjust" /\ read' = clock /\ UNCHANGED deadline
       ELSE Sleep
  /\ UNCHANGED <<vars, history, alarm, mail, topics, world>>
Recheck_keepsPeriod ==
  /\ pc = "recheck"
  /\ IF clock >= deadline THEN EndPass /\ StopsTimer
                          ELSE Sleep /\ UNCHANGED alarm
  /\ UNCHANGED <<vars, history, mail, topics, world>>

Recheck ==
  /\ pc = "recheck"
  /\ IF clock >= deadline THEN EndPass /\ StopsTimer
     ELSE /\ IF clock > read THEN pc' = "adjust" /\ read' = clock /\ UNCHANGED deadline
                             ELSE Sleep
          /\ UNCHANGED alarm
  /\ UNCHANGED <<vars, history, mail, topics, world>>

\* setPeriod() of a started timer; a one-shot timer that has fired already is
\* armed again.
Adjust ==
  /\ pc = "adjust"
  /\ timer' = ArmedSince(IF timer.armed THEN timer.started ELSE clock)
  /\ late' = IF clock > read THEN clock - read ELSE 0
  /\ Sleep
  /\ UNCHANGED <<vars, rewound, expired, mail, topics, world>>

QueueIsEmpty == callbacks = <<>> /\ ~expired

\* Mutant: the wait ends for a callback only.
Wake_forCallbacks ==
  /\ pc = "wait"
  /\ ~QueueIsEmpty
  /\ batch' = IF ok THEN callbacks ELSE <<>>
  /\ callbacks' = <<>>
  /\ expired' = FALSE
  /\ pc' = "callbacks"
  /\ rewound' = "no"
  /\ late' = 0
  /\ UNCHANGED <<vars, deadline, read, timer, queues, topics, world>>

\* callAvailable() returns from its wait with everything that is queued, or with
\* nothing from the queue that ros::shutdown() has disabled ...
Wake ==
  /\ pc = "wait"
  /\ ok => ~QueueIsEmpty
  /\ batch' = IF ok THEN callbacks ELSE <<>>
  /\ callbacks' = <<>>
  /\ expired' = FALSE
  /\ pc' = "callbacks"
  /\ rewound' = "no"
  /\ late' = 0
  /\ UNCHANGED <<vars, deadline, read, timer, queues, topics, world>>

\* messageStampOrNow: the header's stamp, or the clock's reading for a header
\* without one, 0 too if the clock has not started.
StampOf(message) == IF message.stamp = 0 THEN clock ELSE message.stamp

\* Mutant: the event clock is the reading at which the callback runs.
RunCallback_ownClock ==
  /\ pc = "callbacks"
  /\ batch # <<>>
  /\ batch' = Tail(batch)
  /\ LET t == Head(batch) IN
     IF queues[t] = <<>> THEN UNCHANGED <<vars, queues>>
     ELSE LET m == Head(queues[t]) IN
          /\ ingestSample(t, [value |-> m.value, ignored |-> m.ignored,
                              stamp |-> StampOf(m), now |-> clock])
          /\ queues' = [queues EXCEPT ![t] = Tail(@)]
  /\ UNCHANGED <<pc, history, deadline, read, alarm, callbacks, topics, world>>

\* ... and runs it: onDeadlineTimer does nothing, a sample is ingested, with one
\* number for its stamp and its event clock.  A callback whose message is gone
\* does nothing.
RunCallback ==
  /\ pc = "callbacks"
  /\ batch # <<>>
  /\ batch' = Tail(batch)
  /\ LET t == Head(batch) IN
     IF queues[t] = <<>> THEN UNCHANGED <<vars, queues>>
     ELSE LET m == Head(queues[t]) IN
          /\ ingestSample(t, [value |-> m.value, ignored |-> m.ignored,
                              stamp |-> StampOf(m), now |-> StampOf(m)])
          /\ queues' = [queues EXCEPT ![t] = Tail(@)]
  /\ UNCHANGED <<pc, history, deadline, read, alarm, callbacks, topics, world>>

StopTimer ==
  /\ pc = "callbacks"
  /\ batch = <<>>
  /\ StopsTimer
  /\ pc' = "top"
  /\ UNCHANGED <<vars, history, deadline, read, mail, topics, world>>

Exit ==
  /\ pc = "top" /\ ~ok
  /\ pc' = "exited"
  /\ UNCHANGED <<vars, history, deadline, read, alarm, mail, topics, world>>

Loop == \/ ReadWake \/ Update \/ Evaluate \/ FinishUpdate
        \/ Arm \/ StartTimer \/ Recheck \/ Adjust
        \/ Wake \/ RunCallback \/ StopTimer \/ Exit

-----------------------------------------------------------------------------
(* The threads of ROS, and the world *)

\* The timer thread queues the callback of an expired one-shot timer ...
FireTimer ==
  /\ pc # "turn" /\ ok
  /\ timer.armed /\ timer.expiry <= clock
  /\ timer' = Stopped
  /\ expired' = TRUE
  /\ UNCHANGED <<vars, pc, history, deadline, read, mail, topics, world>>

\* ... and counts the period anew when it finds the clock before the start.
RestartTimer ==
  /\ pc # "turn" /\ ok
  /\ timer.armed /\ clock < timer.started
  /\ timer' = [timer EXCEPT !.started = clock, !.expiry = clock + timer.period]
  /\ UNCHANGED <<vars, pc, history, deadline, read, expired, mail, topics, world>>

\* A full subscription drops its oldest message and keeps the callback for it.
\* Elsewhere in a pass no step reads what is queued: a message that arrives there
\* might as well have come at the top, or come once the owner waits.
Deliver(t) ==
  \E m \in Messages[t] :
    LET header == [value |-> m.value, ignored |-> m.ignored,
                   stamp |-> IF m.stamped THEN clock ELSE 0]
        full   == Len(queues[t]) = QueueSize
    IN /\ pc \in {"top", "wait", "callbacks"} /\ ok
       /\ sent < MaxMessages
       /\ sent' = sent + 1
       /\ queues' = [queues EXCEPT
            ![t] = Append(IF full THEN Tail(@) ELSE @, header)]
       /\ callbacks' = IF full THEN callbacks ELSE Append(callbacks, t)
       /\ UNCHANGED <<vars, pc, history, deadline, read, alarm, batch, topics,
                      ok, clock, rewinds>>

Moves ==
  /\ pc # "turn" /\ ok
  /\ UNCHANGED <<vars, pc, deadline, read, late, alarm, mail, topics, ok, sent>>

\* Bound: once it has been set back for the last time it stands.
AdvanceClock ==
  /\ Moves
  /\ rewinds < MaxRewinds \/ rewinds = 0
  /\ clock' \in {c \in Times : c > clock}
  /\ UNCHANGED <<rewound, rewinds>>

SetClockBack ==
  /\ Moves
  /\ rewinds < MaxRewinds
  /\ clock' \in {c \in Times : c < clock}
  /\ rewinds' = rewinds + 1
  /\ rewound' = CASE pc \in {"arm", "start", "recheck", "adjust"} -> "arming"
                  [] pc = "wait" /\ rewound = "no" -> "asleep"
                  [] OTHER -> rewound

\* ros::shutdown(), from a signal handler's thread.  Nothing else in a pass asks
\* ros::ok() or the queue: a shutdown there might as well come at the next of
\* these two places.  The world then stands still.
Shutdown ==
  /\ ok
  /\ pc \in {"top", "wait"}
  /\ ok' = FALSE
  /\ UNCHANGED <<vars, loop_vars, topics, clock, rewinds, sent>>

NodeNext == \/ Loop \/ FireTimer \/ RestartTimer
            \/ AdvanceClock \/ SetClockBack \/ Shutdown
            \/ \E t \in Topics : Deliver(t)

NodeSpec == NodeInit /\ [][NodeNext]_node_vars

\* The owner thread and the timer thread are scheduled; nothing makes a message
\* arrive or the clock move.
FairNodeSpec ==
  NodeSpec /\ WF_node_vars(Loop) /\ WF_node_vars(FireTimer) /\ WF_node_vars(RestartTimer)

-----------------------------------------------------------------------------
(* Properties *)

\* The loop's variables keep their types.
NodeTypeOK ==
  /\ pc \in {"top", "update", "turn", "arm", "start", "recheck", "adjust",
             "wait", "callbacks", "exited"}
  /\ ok \in BOOLEAN
  /\ clock \in Times
  /\ rewound \in {"no", "arming", "asleep"}
  /\ {rewinds, sent, deadline, read, late} \subseteq Nat
  /\ timer \in Timer
  /\ expired \in BOOLEAN
  /\ {callbacks, batch} \subseteq Seq(Topics)
  /\ queues \in [Topics -> Seq(Header)]
  /\ latched \in EstimateMessage
  /\ traced \in TraceMessage

\* The node is one of the callers that the runtime's own properties are about,
\* whatever threads and clock do: it calls the runtime between turns only, with
\* samples and clock readings the runtime is meant for, and sees each turn through.
RuntimeIsUsedAsAllowed == Spec

GateIsDue(t) ==
  \/ due(machine.publish_gate, t, PublishPeriod)
  \/ machine.state = "Airborne" /\ due(machine.raw_update_gate, t, RawPeriod)

\* The loop runs no turn for nothing: without input it runs one only at a reading
\* that lets a gate fire, and never twice at the same reading.
NoIdleTurns ==
  [][pc = "top" /\ pc' = "update" /\ pending = <<>>
       => GateIsDue(clock) /\ (turn.phase = "idle" => clock # turn.now)]_node_vars

\* Whoever sleeps will be woken in time: a sleeping owner has left no input
\* unserved, neither a mark nor a message, and unless a callback already waits for
\* it its timer expires before a gate can be due, and before every timeout that is
\* still ahead can strike.  It is late by no more than the clock moved between
\* run()'s last reading and setPeriod(), which nothing protects.  The clock is
\* taken not to have stepped back since the deadline was computed.
SleepMissesNothing ==
  pc = "wait" /\ QueueIsEmpty /\ rewound = "no"
    => /\ pending = <<>>
       /\ ok => \A t \in Topics : queues[t] = <<>>
       /\ timer.armed
       /\ \A t \in Times : turn.now <= t /\ t + late < timer.expiry =>
            ~GateIsDue(t)
       /\ \A edge \in TimeoutEdges : clock < edge => timer.expiry <= edge + late

\* A clock that is set back does not put the owner to sleep for the time it was
\* set back by: the next turn is at most a publish period (and the tolerance of
\* the gates) ahead, however far back the clock went and whether it did so before
\* the sleep or during it.  Only between computing the deadline and the wait,
\* which nothing protects, can it do that harm.
SleepIsBounded ==
  pc = "wait" /\ QueueIsEmpty /\ rewound # "arming" /\ timer.started <= clock
    => timer.armed /\ timer.expiry <= clock + RegressTolerance + PublishPeriod + late

\* The topics never contradict a sleeping runtime: a subscriber sees the state
\* the machine is in, on the latched topic however recently it was entered, and
\* on the debug trace although that is silent in turns without an edge.
TopicShowsTheState ==
  pc = "wait" => latched.state = machine.state /\ traced.active = machine.state

\* Read one after another, the debug trace messages are one unbroken path through
\* the states: each begins where the one before it said the machine was.
TraceMessagesConnect ==
  [][traced' # traced => /\ Head(traced'.events).from = traced.active
                         /\ Last(traced'.events).to = traced'.active]_node_vars

\* Every message that was queued is taken and evaluated by a turn, unless the
\* node is shut down: there comes a time when none is left of any topic.
MessagesAreServed ==
  (\E t \in Topics : queues[t] # <<>>)
    ~> (pending = <<>> /\ \A t \in Topics : queues[t] = <<>>) \/ ~ok

OlderThan(age) == \E t \in Topics :
  input.samples[t].received /\ clock - input.samples[t].stamp > age

\* Samples are older than the timeout by a publish period, and by what the timer
\* is late.
Overdue == OlderThan(SampleTimeout + PublishPeriod - 1 + late)

\* An estimate is not left standing on overdue samples: subscribers learn of it,
\* or fresh samples arrive, although no callback announces a timeout and the clock
\* may stop at any reading.
ExpiryIsPublished ==
  latched.state # "SelfCheck" /\ Overdue
    ~> latched.state = "SelfCheck" \/ ~Overdue \/ ~ok

\* README.md:28: a paused clock does not cause a polling loop.  Once no message
\* comes and the clock stands, the owner falls asleep for good.
SettlesDown == <>[](pc \in {"wait", "exited"})

\* The wait has no bound of its own, and still a shutdown ends the loop, wherever
\* in a pass it comes.
ShutdownEndsTheLoop == ~ok ~> pc = "exited"

-----------------------------------------------------------------------------
(* A comment that the code does not keep *)

\* hover_thrust_estimator_runtime.cpp:172: once a timeout is in the past, health
\* has been, or is about to be, evaluated at now.  An owner that armed its timer
\* and sleeps has not left a passed timeout without an evaluation.
PastTimeoutIsEvaluated ==
  pc = "wait" /\ QueueIsEmpty /\ late = 0 /\ clock < timer.expiry
    => \A edge \in TimeoutEdges : edge <= clock => turn.now >= edge
=============================================================================
