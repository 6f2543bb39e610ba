----------------------------- MODULE SleepProofs -----------------------------
(***************************************************************************)
(* Proofs about the sleep of HoverThrustNode's owner: no message waits for *)
(* it, its timer expires before anything becomes due, and within a publish *)
(* period however far the clock is set back, except by what the clock      *)
(* moved between the last correction of the timer and its new start.       *)
(***************************************************************************)
EXTENDS NodeProofs, FiniteSetTheorems, FunctionTheorems

-----------------------------------------------------------------------------
(* Counting callbacks *)

\* How many callbacks for a topic a queue of them holds.
Places(s, t) == {i \in 1..Len(s) : s[i] = t}
Count(s, t) == Cardinality(Places(s, t))

\* It is a number.
LEMMA CountType ==
  ASSUME NEW s \in Seq(Topics), NEW t
  PROVE  IsFiniteSet(Places(s, t)) /\ Count(s, t) \in Nat
<1>1. IsFiniteSet(1..Len(s)) /\ Places(s, t) \in SUBSET (1..Len(s))
  BY FS_Interval DEF Places
<1>2. IsFiniteSet(Places(s, t))
  BY <1>1, FS_Subset
<1> QED BY <1>2, FS_CardinalityType DEF Count

\* An empty queue holds none.
LEMMA CountNone ==
  ASSUME NEW t
  PROVE  Count(<<>>, t) = 0
<1>1. Places(<<>>, t) = {}
  BY DEF Places
<1> QED BY <1>1, FS_EmptySet DEF Count

\* A callback that is appended counts for its own topic.
LEMMA CountAppend ==
  ASSUME NEW s \in Seq(Topics), NEW u \in Topics, NEW t
  PROVE  Count(Append(s, u), t) = Count(s, t) + (IF u = t THEN 1 ELSE 0)
<1>1. IsFiniteSet(Places(s, t)) /\ Count(s, t) \in Nat
  BY CountType
<1>2. Len(s) \in Nat /\ Len(s) + 1 \notin Places(s, t)
  BY DEF Places
<1>3. /\ Len(Append(s, u)) = Len(s) + 1
      /\ \A i \in 1..Len(s) : Append(s, u)[i] = s[i]
      /\ Append(s, u)[Len(s) + 1] = u
  BY AppendProperties
<1>4. CASE u = t
  <2>1. Places(Append(s, u), t) = Places(s, t) \cup {Len(s) + 1}
    BY <1>2, <1>3, <1>4 DEF Places
  <2> QED BY <1>1, <1>2, <1>4, <2>1, FS_AddElement DEF Count
<1>5. CASE u # t
  <2>1. Places(Append(s, u), t) = Places(s, t)
    BY <1>2, <1>3, <1>5 DEF Places
  <2> QED BY <1>1, <1>5, <2>1 DEF Count
<1> QED BY <1>4, <1>5

\* A callback that is taken no longer does.
LEMMA CountTail ==
  ASSUME NEW s \in Seq(Topics), s # <<>>, NEW t
  PROVE  Count(s, t) = Count(Tail(s), t) + (IF Head(s) = t THEN 1 ELSE 0)
<1> DEFINE Left == Places(s, t) \ {1}
           f == [i \in Places(Tail(s), t) |-> i + 1]
<1>1. /\ Tail(s) \in Seq(Topics) /\ Len(Tail(s)) = Len(s) - 1 /\ Len(s) \in Nat \ {0}
      /\ \A i \in 1..Len(Tail(s)) : Tail(s)[i] = s[i + 1]
      /\ Head(s) = s[1]
  BY HeadTailProperties, EmptySeq
<1>2. /\ IsFiniteSet(Places(s, t)) /\ Count(s, t) \in Nat
      /\ IsFiniteSet(Places(Tail(s), t)) /\ Count(Tail(s), t) \in Nat
  BY <1>1, CountType
<1>3. \A i \in Places(Tail(s), t) : i + 1 \in Left /\ i \in Int
  BY <1>1 DEF Places
<1>4. \A j \in Left : j - 1 \in Places(Tail(s), t) /\ (j - 1) + 1 = j
  BY <1>1 DEF Places
<1>5. f \in [Places(Tail(s), t) -> Left]
  BY <1>3
<1>6. \A a, b \in Places(Tail(s), t) : f[a] = f[b] => a = b
  BY <1>3
<1>7. \A j \in Left : \E i \in Places(Tail(s), t) : f[i] = j
  BY <1>4
<1>8. f \in Bijection(Places(Tail(s), t), Left)
  <2> HIDE DEF f, Left
  <2> QED BY <1>5, <1>6, <1>7, Fun_IsBij
<1>9. Cardinality(Left) = Count(Tail(s), t)
  <2>1. ExistsBijection(Places(Tail(s), t), Left)
    BY <1>8, Fun_ExistsBij
  <2> HIDE DEF Left
  <2> QED BY <1>2, <2>1, FS_Bijection DEF Count
<1>10. Cardinality(Left) = IF 1 \in Places(s, t) THEN Count(s, t) - 1 ELSE Count(s, t)
  BY <1>2, FS_RemoveElement DEF Count
<1>11. 1 \in Places(s, t) <=> Head(s) = t
  BY <1>1 DEF Places
<1> HIDE DEF Left, f
<1> QED BY <1>2, <1>9, <1>10, <1>11

-----------------------------------------------------------------------------
(* The messages that wait *)

\* Until a shutdown throws callbacks away, every queued message has one of its
\* own: in the callback queue, or taken and not yet run.
MailInv ==
  /\ pc # "callbacks" => batch = <<>>
  /\ ok => \A t \in Topics : Len(queues[t]) = Count(callbacks, t) + Count(batch, t)

\* At first nothing waits.
LEMMA MailInit == NodeInit => MailInv
<1> SUFFICES ASSUME NodeInit PROVE MailInv
  OBVIOUS
<1>1. batch = <<>> /\ callbacks = <<>> /\ \A t \in Topics : queues[t] = <<>>
  BY DEF NodeInit
<1> QED BY <1>1, CountNone DEF MailInv

\* A message that arrives brings a callback, or takes over that of the message it
\* pushes out; a callback that runs takes its message.
LEMMA MailStep ==
  ASSUME NodeTypes, MailInv, [NodeNext]_node_vars PROVE MailInv'
<1>1. /\ callbacks \in Seq(Topics) /\ batch \in Seq(Topics)
      /\ queues \in [Topics -> Seq(Header)]
  BY DEF NodeTypes, NodeTypeOK
<1>2. CASE UNCHANGED <<mail, ok>> /\ (pc' # "callbacks" => pc # "callbacks")
  <2>1. batch' = batch /\ callbacks' = callbacks /\ queues' = queues /\ ok' = ok
    BY <1>2 DEF mail
  <2> QED BY <1>2, <2>1 DEF MailInv
<1>3. CASE \/ ReadWake \/ Update \/ Evaluate \/ FinishUpdate \/ Arm \/ StartTimer
           \/ Recheck \/ Adjust \/ Exit
  <2>1. UNCHANGED <<mail, ok>> /\ pc # "callbacks"
    BY <1>3 DEF ReadWake, Update, Evaluate, FinishUpdate, Arm, StartTimer, Recheck,
                Adjust, Exit, loop_vars, world
  <2> QED BY <1>2, <2>1
<1>4. CASE Wake
  <2>1. /\ pc = "wait" /\ pc' = "callbacks" /\ callbacks' = <<>>
        /\ queues' = queues /\ ok' = ok
        /\ ok => batch' = callbacks
    BY <1>4 DEF Wake, world
  <2>2. \A t \in Topics : Count(callbacks', t) = 0 /\ (batch = <<>> => Count(batch, t) = 0)
    BY <2>1, CountNone
  <2>3. ASSUME ok, NEW t \in Topics
        PROVE  Len(queues'[t]) = Count(callbacks', t) + Count(batch', t)
    <3>1. batch = <<>> /\ Len(queues[t]) = Count(callbacks, t) + Count(batch, t)
      BY <2>1, <2>3 DEF MailInv
    <3>2. Count(callbacks, t) \in Nat /\ batch' = callbacks /\ queues'[t] = queues[t]
      BY <1>1, <2>1, <2>3, CountType
    <3> QED BY <2>2, <3>1, <3>2
  <2> QED BY <2>1, <2>3 DEF MailInv
<1>5. CASE RunCallback
  <2>1. /\ batch # <<>> /\ batch' = Tail(batch) /\ pc = "callbacks" /\ pc' = pc
        /\ callbacks' = callbacks /\ ok' = ok
        /\ \/ queues[Head(batch)] = <<>> /\ queues' = queues
           \/ /\ queues[Head(batch)] # <<>>
              /\ queues' = [queues EXCEPT ![Head(batch)] = Tail(@)]
    BY <1>5 DEF RunCallback, world
  <2>2. Head(batch) \in Topics
    BY <1>1, <2>1, HeadTailProperties
  <2>3. ASSUME ok, NEW t \in Topics
        PROVE  Len(queues'[t]) = Count(callbacks', t) + Count(batch', t)
    <3>1. Len(queues[t]) = Count(callbacks, t) + Count(batch, t)
      BY <2>3 DEF MailInv
    <3>2. /\ Count(callbacks, t) \in Nat /\ Count(batch, t) \in Nat
          /\ Count(batch', t) \in Nat
      <4>1. batch' \in Seq(Topics)
        BY <1>1, <2>1, HeadTailProperties
      <4> QED BY <1>1, <4>1, CountType
    <3>3. Count(batch, t) = Count(batch', t) + (IF Head(batch) = t THEN 1 ELSE 0)
      BY <1>1, <2>1, CountTail
    <3>4. CASE Head(batch) = t
      <4>1. queues[t] # <<>>
        BY <3>1, <3>2, <3>3, <3>4
      <4>2. Len(queues'[t]) = Len(queues[t]) - 1
        BY <1>1, <2>1, <3>4, <4>1, HeadTailProperties
      <4> QED BY <2>1, <3>1, <3>2, <3>3, <3>4, <4>2
    <3>5. CASE Head(batch) # t
      <4>1. queues'[t] = queues[t]
        BY <1>1, <2>1, <3>5
      <4> QED BY <2>1, <3>1, <3>2, <3>3, <3>5, <4>1
    <3> QED BY <3>4, <3>5
  <2> QED BY <2>1, <2>3 DEF MailInv
<1>6. CASE StopTimer
  <2>1. batch = <<>> /\ UNCHANGED <<mail, ok>>
    BY <1>6 DEF StopTimer, world
  <2> QED BY <2>1 DEF MailInv, mail
<1>7. CASE FireTimer \/ RestartTimer \/ AdvanceClock \/ SetClockBack
  <2>1. UNCHANGED <<mail, ok, pc>>
    BY <1>7 DEF FireTimer, RestartTimer, AdvanceClock, SetClockBack, Moves, world
  <2> QED BY <1>2, <2>1
<1>8. CASE Shutdown
  <2>1. ~ok' /\ batch' = batch /\ pc' = pc
    BY <1>8 DEF Shutdown, loop_vars, mail
  <2> QED BY <2>1 DEF MailInv
<1>9. ASSUME NEW u \in Topics, Deliver(u) PROVE MailInv'
  <2>1. PICK m \in Messages[u] :
          LET header == [value |-> m.value, ignored |-> m.ignored,
                         stamp |-> IF m.stamped THEN clock ELSE 0]
              full   == Len(queues[u]) = QueueSize
          IN /\ queues' = [queues EXCEPT
                  ![u] = Append(IF full THEN Tail(@) ELSE @, header)]
             /\ callbacks' = IF full THEN callbacks ELSE Append(callbacks, u)
    BY <1>9 DEF Deliver
  <2>2. batch' = batch /\ pc' = pc /\ ok' = ok
    BY <1>9 DEF Deliver
  <2> DEFINE header == [value |-> m.value, ignored |-> m.ignored,
                        stamp |-> IF m.stamped THEN clock ELSE 0]
  <2>3. header \in Header
    BY ClockType, NodeAssumption DEF Header, Message, NodeTypes, NodeTypeOK
  <2> HIDE DEF header
  <2>4. ASSUME ok, NEW t \in Topics
        PROVE  Len(queues'[t]) = Count(callbacks', t) + Count(batch', t)
    <3>1. Len(queues[t]) = Count(callbacks, t) + Count(batch, t)
      BY <2>4 DEF MailInv
    <3>2. Count(callbacks, t) \in Nat /\ Count(batch, t) \in Nat /\ Len(queues[t]) \in Nat
      BY <1>1, CountType
    <3>3. CASE t # u
      <4>1. queues'[t] = queues[t]
        BY <1>1, <2>1, <3>3
      <4>2. Count(callbacks', t) = Count(callbacks, t)
        BY <1>1, <2>1, <3>2, <3>3, CountAppend
      <4> QED BY <2>2, <3>1, <4>1, <4>2
    <3>4. CASE t = u /\ Len(queues[u]) = QueueSize
      <4>1. queues'[u] = Append(Tail(queues[u]), header) /\ callbacks' = callbacks
        BY <1>1, <2>1, <3>4 DEF header
      <4>2. queues[u] # <<>>
        BY <1>1, <3>4, NodeAssumption
      <4>3. Len(queues'[u]) = Len(queues[u])
        <5>1. Tail(queues[u]) \in Seq(Header) /\ Len(Tail(queues[u])) = Len(queues[u]) - 1
          BY <1>1, <4>2, HeadTailProperties
        <5>2. Len(queues'[u]) = Len(Tail(queues[u])) + 1
          BY <2>3, <4>1, <5>1, AppendProperties
        <5> QED BY <1>1, <5>1, <5>2
      <4> QED BY <2>2, <3>1, <3>4, <4>1, <4>3
    <3>5. CASE t = u /\ Len(queues[u]) # QueueSize
      <4>1. queues'[u] = Append(queues[u], header) /\ callbacks' = Append(callbacks, u)
        BY <1>1, <2>1, <3>5 DEF header
      <4>2. Len(queues'[u]) = Len(queues[u]) + 1
        BY <1>1, <2>3, <4>1, AppendProperties
      <4>3. Count(callbacks', t) = Count(callbacks, t) + 1
        BY <1>1, <3>5, <4>1, CountAppend
      <4> QED BY <2>2, <3>1, <3>2, <3>5, <4>2, <4>3
    <3> QED BY <3>3, <3>4, <3>5
  <2> QED BY <2>2, <2>4 DEF MailInv
<1>10. CASE UNCHANGED node_vars
  <2>1. UNCHANGED <<mail, ok, pc>>
    BY <1>10 DEF node_vars, loop_vars, world
  <2> QED BY <1>2, <2>1
<1> QED BY <1>3, <1>4, <1>5, <1>6, <1>7, <1>8, <1>9, <1>10 DEF NodeNext, Loop

\* The invariant of the mail.
LEMMA MailInvHolds == NodeSpec => []MailInv
<1>1. NodeInv => NodeTypes
  BY DEF NodeInv
<1> QED BY <1>1, MailInit, MailStep, NodeInvHolds, PTL DEF NodeSpec

\* An owner that waits for callbacks and finds none has no message before it.
LEMMA NothingWaits ==
  ASSUME NodeTypes, MailInv, pc = "wait", QueueIsEmpty, ok
  PROVE  \A t \in Topics : queues[t] = <<>>
<1>1. callbacks = <<>> /\ batch = <<>> /\ queues \in [Topics -> Seq(Header)]
  BY DEF QueueIsEmpty, MailInv, NodeTypes, NodeTypeOK
<1>2. ASSUME NEW t \in Topics PROVE queues[t] = <<>>
  <2>1. Len(queues[t]) = Count(callbacks, t) + Count(batch, t)
    BY DEF MailInv
  <2>2. Count(callbacks, t) = 0 /\ Count(batch, t) = 0
    BY <1>1, CountNone
  <2> QED BY <1>1, <2>1, <2>2, EmptySeq
<1> QED BY <1>2

-----------------------------------------------------------------------------
(* The bounds of the model *)

\* The messages that no turn has evaluated.
Unserved == Len(pending) + Len(queues["imu_acc_z"]) + Len(queues["normalized_thrust"])
              + Len(queues["altitude"])

\* The runtime is inside a turn when the loop is, and what waits was sent.
BoundInv ==
  /\ Idle <=> pc # "turn"
  /\ Unserved <= sent
  /\ sent <= MaxMessages

\* A sum of four lengths.
LEMMA UnservedType ==
  ASSUME Len(pending) \in Nat, \A t \in Topics : Len(queues[t]) \in Nat
  PROVE  /\ Unserved \in Nat
         /\ Len(pending) <= Unserved
         /\ \A t \in Topics : Len(pending) + Len(queues[t]) <= Unserved
<1>1. /\ Len(queues["imu_acc_z"]) \in Nat /\ Len(queues["normalized_thrust"]) \in Nat
      /\ Len(queues["altitude"]) \in Nat
  BY DEF Topics
<1>2. \A p, i, h, a \in Nat : /\ p + i + h + a \in Nat /\ p <= p + i + h + a
                              /\ p + i <= p + i + h + a /\ p + h <= p + i + h + a
                              /\ p + a <= p + i + h + a
  OBVIOUS
<1>3. /\ Unserved \in Nat /\ Len(pending) <= Unserved
      /\ Len(pending) + Len(queues["imu_acc_z"]) <= Unserved
      /\ Len(pending) + Len(queues["normalized_thrust"]) <= Unserved
      /\ Len(pending) + Len(queues["altitude"]) <= Unserved
  BY <1>1, <1>2 DEF Unserved
<1> QED BY <1>3 DEF Topics

\* Where one queue is replaced, the sum moves by the difference.
LEMMA UnservedStep ==
  ASSUME queues \in [Topics -> Seq(Header)], Len(pending) \in Nat,
         NEW t \in Topics, NEW q \in Seq(Header), NEW d \in Int,
         queues' = [queues EXCEPT ![t] = q], Len(pending') = Len(pending) + d
  PROVE  /\ Unserved' = Unserved + d + Len(q) - Len(queues[t])
         /\ Unserved \in Nat /\ Len(queues[t]) \in Nat /\ Len(queues[t]) <= Unserved
         /\ Len(q) \in Nat
<1>1. \A u \in Topics : Len(queues[u]) \in Nat /\ Len(queues'[u]) \in Nat
  OBVIOUS
<1>2. \A u \in Topics : queues'[u] = IF u = t THEN q ELSE queues[u]
  OBVIOUS
<1>3. CASE t = "imu_acc_z"
  BY <1>1, <1>2, <1>3 DEF Topics, Unserved
<1>4. CASE t = "normalized_thrust"
  BY <1>1, <1>2, <1>4 DEF Topics, Unserved
<1>5. CASE t = "altitude"
  BY <1>1, <1>2, <1>5 DEF Topics, Unserved
<1> QED BY <1>3, <1>4, <1>5 DEF Topics

\* Every step.
LEMMA BoundStep ==
  ASSUME NodeTypes, BoundInv, [NodeNext]_node_vars PROVE BoundInv'
<1>1. /\ TypeOK /\ queues \in [Topics -> Seq(Header)] /\ sent \in Nat
      /\ pending \in Seq(Nat) /\ Len(pending) \in Nat /\ batch \in Seq(Topics)
      /\ \A t \in Topics : Len(queues[t]) \in Nat
  BY DEF NodeTypes, NodeTypeOK, TypeOK
<1>2. CASE UNCHANGED <<turn, pending, queues, sent>> /\ (pc = "turn" <=> pc' = "turn")
  BY <1>2 DEF BoundInv, Idle, Unserved
<1>3. CASE \/ ReadWake \/ Arm \/ StartTimer \/ Recheck \/ Adjust \/ Wake
           \/ StopTimer \/ Exit
  <2>1. UNCHANGED <<vars, queues, world>> /\ pc # "turn" /\ pc' # "turn"
    BY <1>3 DEF ReadWake, Arm, StartTimer, Recheck, Adjust, Wake, StopTimer, Exit,
                EndPass, Sleep, mail
  <2> QED BY <1>2, <2>1 DEF vars, world
<1>4. CASE Update
  <2>1. turn'.phase = "evaluate" /\ pc' = "turn" /\ UNCHANGED <<pending, mail, world>>
    BY <1>4 DEF Update, BeginUpdate
  <2> QED BY <2>1 DEF BoundInv, Idle, Unserved, mail, world
<1>5. CASE Evaluate
  <2>1. UNCHANGED <<loop_vars, world>> /\ pc = "turn"
    BY <1>5 DEF Evaluate
  <2>2. UNCHANGED <<queues, sent, pc>>
    BY <2>1 DEF loop_vars, mail, world
  <2>3. ~Idle /\ ~Idle'
    BY <1>1, <1>5 DEF Evaluate, EvaluateMark, EvaluateNow, TypeOK, Turn, Idle
  <2>4. Len(pending') \in Nat /\ Len(pending') <= Len(pending)
    <3>1. CASE EvaluateMark
      BY <1>1, <3>1, HeadTailProperties DEF EvaluateMark
    <3>2. CASE EvaluateNow
      BY <1>1, <3>2 DEF EvaluateNow
    <3> QED BY <1>5, <3>1, <3>2 DEF Evaluate
  <2>5. Unserved' <= Unserved /\ Unserved \in Nat /\ Unserved' \in Nat
    BY <1>1, <2>2, <2>4 DEF Unserved, Topics
  <2>6. Unserved' <= sent'
    BY <1>1, <2>2, <2>5 DEF BoundInv
  <2> QED BY <2>1, <2>2, <2>3, <2>6 DEF BoundInv
<1>6. CASE FinishUpdate
  <2>1. turn'.phase = "idle" /\ pc' = "top" /\ UNCHANGED <<pending, mail, world>>
    BY <1>1, <1>6, TickStep DEF FinishUpdate, Tick, TickOnGround, TickAirborne, FinishTurn
  <2> QED BY <2>1 DEF BoundInv, Idle, Unserved, mail, world
<1>7. CASE RunCallback
  <2>1. /\ batch # <<>> /\ pc = "callbacks" /\ UNCHANGED <<pc, world>>
        /\ \/ queues[Head(batch)] = <<>> /\ UNCHANGED <<vars, queues>>
           \/ /\ queues[Head(batch)] # <<>>
              /\ queues' = [queues EXCEPT ![Head(batch)] = Tail(@)]
              /\ \E now : pending' = Append(pending, now)
              /\ turn' = turn
    BY <1>7 DEF RunCallback, ingestSample
  <2>2. CASE UNCHANGED <<vars, queues>>
    BY <1>2, <2>1, <2>2 DEF vars, world
  <2>3. CASE /\ queues[Head(batch)] # <<>>
             /\ queues' = [queues EXCEPT ![Head(batch)] = Tail(@)]
             /\ \E now : pending' = Append(pending, now)
             /\ turn' = turn
    <3> DEFINE t == Head(batch)
    <3>1. t \in Topics /\ queues[t] \in Seq(Header)
      BY <1>1, <2>1, HeadTailProperties
    <3>2. Tail(queues[t]) \in Seq(Header) /\ Len(Tail(queues[t])) = Len(queues[t]) - 1
      BY <2>3, <3>1, HeadTailProperties
    <3>3. Len(pending') = Len(pending) + 1
      BY <1>1, <2>3
    <3> HIDE DEF t
    <3>4. queues' = [queues EXCEPT ![t] = Tail(queues[t])]
      BY <2>3 DEF t
    <3>5. Unserved' <= sent
      <4>1. /\ Unserved' = Unserved + 1 + Len(Tail(queues[t])) - Len(queues[t])
            /\ Unserved \in Nat /\ Len(queues[t]) \in Nat
        BY <1>1, <3>1, <3>2, <3>3, <3>4, UnservedStep, 1 \in Int
      <4>2. Unserved <= sent
        BY DEF BoundInv
      <4>3. \A u, l \in Nat : u + 1 + (l - 1) - l = u
        OBVIOUS
      <4>4. Unserved' = Unserved
        BY <3>2, <4>1, <4>3
      <4> QED BY <4>2, <4>4
    <3>6. Unserved' <= sent' /\ sent' = sent
      BY <1>1, <2>1, <3>5 DEF world
    <3> QED BY <2>1, <2>3, <3>6 DEF BoundInv, Idle
  <2> QED BY <2>1, <2>2, <2>3
<1>8. CASE FireTimer \/ RestartTimer \/ AdvanceClock \/ SetClockBack \/ Shutdown
  <2>1. UNCHANGED <<vars, pc, mail, sent>>
    BY <1>8 DEF FireTimer, RestartTimer, AdvanceClock, SetClockBack, Moves, Shutdown,
                loop_vars, world
  <2> QED BY <1>2, <2>1 DEF vars, mail
<1>9. ASSUME NEW t \in Topics, Deliver(t) PROVE BoundInv'
  <2>1. PICK m \in Messages[t] :
          LET header == [value |-> m.value, ignored |-> m.ignored,
                         stamp |-> IF m.stamped THEN clock ELSE 0]
              full   == Len(queues[t]) = QueueSize
          IN /\ sent < MaxMessages
             /\ sent' = sent + 1
             /\ queues' = [queues EXCEPT
                  ![t] = Append(IF full THEN Tail(@) ELSE @, header)]
    BY <1>9 DEF Deliver
  <2>2. UNCHANGED <<turn, pending, pc>>
    BY <1>9 DEF Deliver, vars
  <2> DEFINE header == [value |-> m.value, ignored |-> m.ignored,
                        stamp |-> IF m.stamped THEN clock ELSE 0]
             kept == IF Len(queues[t]) = QueueSize THEN Tail(queues[t]) ELSE queues[t]
  <2>3. header \in Header
    BY ClockType, NodeAssumption DEF Header, Message, NodeTypes, NodeTypeOK
  <2>4. kept \in Seq(Header) /\ Len(kept) <= Len(queues[t]) /\ Len(kept) \in Nat
    <3>1. CASE Len(queues[t]) = QueueSize
      <4>1. queues[t] # <<>> /\ queues[t] \in Seq(Header)
        BY <1>1, <3>1, NodeAssumption
      <4> QED BY <3>1, <4>1, HeadTailProperties
    <3>2. CASE Len(queues[t]) # QueueSize
      BY <1>1, <3>2
    <3> QED BY <3>1, <3>2
  <2>5. queues' = [queues EXCEPT ![t] = Append(kept, header)]
    BY <2>1
  <2> HIDE DEF header, kept
  <2>6. Append(kept, header) \in Seq(Header) /\ Len(Append(kept, header)) = Len(kept) + 1
    BY <2>3, <2>4, AppendProperties
  <2>7. Unserved' <= sent + 1
    <3>1. Len(pending') = Len(pending) + 0
      BY <1>1, <2>2
    <3>2. /\ Unserved' = Unserved + 0 + Len(Append(kept, header)) - Len(queues[t])
          /\ Unserved \in Nat /\ Len(queues[t]) \in Nat
      BY <1>1, <2>5, <2>6, <3>1, UnservedStep, 0 \in Int
    <3>3. Unserved <= sent
      BY DEF BoundInv
    <3> QED BY <1>1, <2>4, <2>6, <3>2, <3>3
  <2>8. sent' <= MaxMessages
    BY <1>1, <2>1, NodeAssumption
  <2> QED BY <2>1, <2>2, <2>7, <2>8 DEF BoundInv, Idle
<1>10. CASE UNCHANGED node_vars
  <2>1. UNCHANGED <<vars, pc, mail, world>>
    BY <1>10 DEF node_vars, loop_vars
  <2> QED BY <1>2, <2>1 DEF vars, mail, world
<1> QED BY <1>3, <1>4, <1>5, <1>6, <1>7, <1>8, <1>9, <1>10 DEF NodeNext, Loop

\* Whatever comes at whatever time, a callback that finds its message is never
\* refused for the bound on the marks or for a turn in progress: those guards of
\* the model's ingestSample() cut no behaviour of the loop.
THEOREM CallbacksAreTaken ==
  NodeSpec => [](pc = "callbacks" /\ batch # <<>> /\ queues[Head(batch)] # <<>>
                   => Idle /\ Len(pending) < MaxPending)
<1>1. NodeInit => BoundInv
  <2> SUFFICES ASSUME NodeInit PROVE BoundInv
    OBVIOUS
  <2>1. /\ pc = "top" /\ Idle /\ pending = <<>> /\ sent = 0
        /\ \A t \in Topics : queues[t] = <<>>
    BY DEF NodeInit, Init, Idle
  <2>2. /\ Len(pending) = 0 /\ Len(queues["imu_acc_z"]) = 0
        /\ Len(queues["normalized_thrust"]) = 0 /\ Len(queues["altitude"]) = 0
    BY <2>1 DEF Topics
  <2>3. Unserved = 0 + 0 + 0 + 0
    BY <2>2 DEF Unserved
  <2> QED BY <2>1, <2>3, NodeAssumption DEF BoundInv
<1>2. NodeInv /\ BoundInv
        => (pc = "callbacks" /\ batch # <<>> /\ queues[Head(batch)] # <<>>
              => Idle /\ Len(pending) < MaxPending)
  <2> SUFFICES ASSUME NodeInv, BoundInv, pc = "callbacks", batch # <<>>,
                      queues[Head(batch)] # <<>>
               PROVE  Idle /\ Len(pending) < MaxPending
    OBVIOUS
  <2>1. /\ queues \in [Topics -> Seq(Header)] /\ pending \in Seq(Nat)
        /\ sent \in Nat /\ batch \in Seq(Topics)
    BY DEF NodeInv, NodeTypes, NodeTypeOK, TypeOK
  <2>2. Head(batch) \in Topics
    BY <2>1, HeadTailProperties
  <2>3. /\ \A t \in Topics : Len(queues[t]) \in Nat
        /\ Len(queues[Head(batch)]) \in Nat \ {0} /\ Len(pending) \in Nat
    BY <2>1, <2>2, EmptySeq
  <2>4. Len(pending) + Len(queues[Head(batch)]) <= Unserved /\ Unserved \in Nat
    BY <2>2, <2>3, UnservedType
  <2>5. Len(pending) < Unserved
    BY <2>3, <2>4
  <2> QED BY <2>1, <2>3, <2>4, <2>5, NodeAssumption, RuntimeAssumption DEF BoundInv
<1>3. NodeInv => NodeTypes
  BY DEF NodeInv
<1> QED BY <1>1, <1>2, <1>3, BoundStep, NodeInvHolds, PTL DEF NodeSpec

-----------------------------------------------------------------------------
(* What the sleep relies on *)

MaxSleep == RegressTolerance + PublishPeriod

\* Neither gate of the active state would fire at t.
NothingDue(t) == ~GateIsDue(t)

\* An owner woken at d has missed nothing.
Covers(d) ==
  /\ pending = <<>>
  /\ \A t \in Nat : turn.now <= t /\ t < d => NothingDue(t)
  /\ \A edge \in TimeoutEdges : clock < edge => d <= edge

\* A turn leaves no gate due at its own clock.
GatesRest == pc # "turn" /\ machine.publish_gate.initialized => NothingDue(turn.now)

\* While the timer is being armed: the deadline, and the loop's reading of the clock.
Arming ==
  pc \in {"arm", "start", "recheck", "adjust"} =>
    /\ rewound \in {"no", "arming"}
    /\ rewound = "no" => Covers(deadline)
    /\ rewound = "no" /\ pc = "arm" => deadline <= clock + MaxSleep
    /\ rewound = "no" /\ pc # "arm" => deadline <= read + MaxSleep /\ read <= clock

\* Once it is armed: it has fired or will, no later than the deadline unless the
\* clock is about to be found ahead of the reading, and soon after its start.
Ticking ==
  /\ pc \in {"top", "update", "turn", "arm", "start"} => ~timer.armed
  /\ pc \in {"recheck", "adjust", "wait"} => timer.armed \/ expired
  /\ pc # "wait" => late = 0
  /\ pc \in {"recheck", "adjust", "wait"} /\ timer.armed /\ rewound # "arming" =>
       /\ timer.expiry <= timer.started + MaxSleep + late
       /\ timer.period <= MaxSleep
       /\ rewound = "no" => timer.started <= clock
       /\ pc # "wait" => deadline <= timer.started + MaxSleep
       /\ pc = "recheck" /\ clock = read => timer.expiry = deadline
       /\ pc = "wait" /\ rewound = "no" => Covers(timer.expiry - late)

\* Inductive form of SleepMissesNothing and SleepIsBounded.
SleepInv ==
  /\ NodeInv
  /\ StateFollowsHealth
  /\ GatesRest
  /\ Arming
  /\ Ticking

-----------------------------------------------------------------------------
(* The deadline *)

\* A sum of two configured numbers.
LEMMA MaxSleepType == MaxSleep \in Nat
  BY Periods, GateAssumption DEF MaxSleep

\* A gate that was not due at an earlier clock a is not due from then on until
\* the deadline it gave at b, whichever of the two clocks is ahead.
LEMMA NotDueUntil ==
  ASSUME NEW g \in Gate, NEW period \in Nat \ {0},
         NEW a \in Nat, NEW b \in Nat, NEW t \in Nat,
         ~due(g, a, period), b < nextDue(g, b, period),
         a <= t, t < nextDue(g, b, period)
  PROVE  ~due(g, t, period)
  BY GateAssumption DEF due, nextDue, Restarts, Gate

\* The wake for which the loop arms its timer misses nothing and is near.
LEMMA WakeCovers ==
  ASSUME TypeOK, clock \in Nat, NothingDue(turn.now), pending = <<>>,
         clock < nextWake(clock)
  PROVE  Covers(nextWake(clock)) /\ nextWake(clock) <= clock + MaxSleep
<1> DEFINE wake == nextWake(clock)
           publish == nextDue(machine.publish_gate, clock, PublishPeriod)
           raw == nextDue(machine.raw_update_gate, clock, RawPeriod)
<1>1. /\ machine.publish_gate \in Gate /\ machine.raw_update_gate \in Gate
      /\ turn.now \in Nat
  BY DEF TypeOK, Machine, Turn
<1>2. PublishPeriod \in Nat \ {0} /\ RawPeriod \in Nat \ {0} /\ RegressTolerance \in Nat
  BY Periods, GateAssumption
<1>3. publish \in Nat /\ raw \in Nat /\ publish <= clock + RegressTolerance + PublishPeriod
  BY <1>1, <1>2, NextDueRange
<1>4. /\ WakeSet(clock) \subseteq Nat /\ wake \in WakeSet(clock)
      /\ \A y \in WakeSet(clock) : wake <= y
  BY WakeIsLeast
<1>5. /\ publish \in WakeSet(clock)
      /\ machine.state = "Airborne" => raw \in WakeSet(clock)
      /\ \A edge \in TimeoutEdges : clock < edge => edge \in WakeSet(clock)
  <2>1. \A edge \in TimeoutEdges : edge \in Nat
    BY Periods DEF TimeoutEdges, TypeOK, Input, Sample
  <2>2. publish \in GateDeadlines(clock)
        /\ (machine.state = "Airborne" => raw \in GateDeadlines(clock))
    BY DEF GateDeadlines
  <2> QED BY <2>1, <2>2 DEF WakeSet
<1>6. ASSUME NEW t \in Nat, turn.now <= t, t < wake PROVE NothingDue(t)
  <2>1. wake <= publish /\ (machine.state = "Airborne" => wake <= raw) /\ wake \in Nat
    BY <1>4, <1>5
  <2> HIDE DEF wake, publish, raw
  <2>2. clock < publish /\ t < publish
    BY <1>3, <1>6, <2>1 DEF wake
  <2>3. machine.state = "Airborne" => clock < raw /\ t < raw
    BY <1>3, <1>6, <2>1 DEF wake
  <2>4. ~due(machine.publish_gate, t, PublishPeriod)
    BY <1>1, <1>2, <1>6, <2>2, NotDueUntil DEF publish, NothingDue, GateIsDue
  <2>5. machine.state = "Airborne" => ~due(machine.raw_update_gate, t, RawPeriod)
    BY <1>1, <1>2, <1>6, <2>3, NotDueUntil DEF raw, NothingDue, GateIsDue
  <2> QED BY <2>4, <2>5 DEF NothingDue, GateIsDue
<1>7. \A edge \in TimeoutEdges : clock < edge => wake <= edge
  BY <1>4, <1>5
<1>8. wake <= clock + MaxSleep
  <2>1. wake <= publish /\ wake \in Nat
    BY <1>4, <1>5
  <2> HIDE DEF wake, publish
  <2> QED BY <1>2, <1>3, <2>1 DEF MaxSleep
<1> QED BY <1>6, <1>7, <1>8 DEF Covers

-----------------------------------------------------------------------------
(* The steps *)

\* Numbers behind the types.
LEMMA SleepTypes ==
  ASSUME NodeInv
  PROVE  /\ TypeOK /\ clock \in Nat /\ deadline \in Nat /\ read \in Nat /\ late \in Nat
         /\ timer.started \in Nat /\ timer.period \in Nat /\ timer.expiry \in Nat
         /\ timer.armed \in BOOLEAN
<1>1. TypeOK /\ clock \in Nat /\ {late, deadline, read} \subseteq Nat /\ timer \in Timer
  BY ClockType DEF NodeInv, NodeTypes, NodeTypeOK
<1> QED BY <1>1 DEF Timer

\* At first the loop has not got that far.
LEMMA SleepInit == NodeInit => SleepInv
<1> SUFFICES ASSUME NodeInit PROVE SleepInv
  OBVIOUS
<1>1. NodeInv /\ StateFollowsHealth
  BY NodeInvInit, StateInit DEF NodeInit
<1>2. pc = "top" /\ late = 0 /\ ~timer.armed
  BY DEF NodeInit, Stopped
<1>3. ~machine.publish_gate.initialized
  BY DEF NodeInit, Init, ResetValues, Enter, FreshGate
<1> QED BY <1>1, <1>2, <1>3 DEF SleepInv, GatesRest, Arming, Ticking

\* Outside the turn, gates and health stay; a tick asks every gate of its state.
LEMMA RestStep ==
  ASSUME SleepInv, [NodeNext]_node_vars
  PROVE  StateFollowsHealth' /\ GatesRest'
<1>1. NodeTypes /\ TypeOK /\ StateFollowsHealth
  BY DEF SleepInv, NodeInv, NodeTypes
<1>2. CASE UNCHANGED <<machine, health, turn>> /\ (pc' # "turn" => pc # "turn")
  BY <1>2 DEF SleepInv, StateFollowsHealth, GatesRest, NothingDue, GateIsDue
<1>3. CASE Update \/ Evaluate \/ FinishUpdate
  <2>1. StateFollowsHealth' /\ (FinishUpdate => Tick)
    BY <1>1, <1>3, TurnStep, StateStep
  <2>2. CASE Update \/ Evaluate
    <3>1. pc' = "turn"
      BY <2>2 DEF Update, Evaluate, loop_vars
    <3> QED BY <2>1, <3>1 DEF GatesRest
  <2>3. CASE FinishUpdate
    <3>1. Tick /\ turn'.now = turn.now /\ machine'.state = machine.state /\ ~ReturnsEarly
      BY <1>1, <2>1, <2>3, TickStep DEF StateFollowsHealth, ReturnsEarly
    <3>2. /\ machine.publish_gate \in Gate /\ machine.raw_update_gate \in Gate
          /\ turn.now \in Nat
      BY <1>1 DEF TypeOK, Machine, Turn
    <3>3. PublishPeriod \in Nat \ {0} /\ RawPeriod \in Nat \ {0}
      BY Periods
    <3>4. /\ ~due(machine'.publish_gate, turn.now, PublishPeriod)
          /\ machine.state = "Airborne" => ~due(machine'.raw_update_gate, turn.now, RawPeriod)
      BY <1>1, <3>1, <3>2, <3>3, TickFires, FiredIsNotDue
    <3> QED BY <2>1, <3>1, <3>4 DEF GatesRest, NothingDue, GateIsDue
  <2> QED BY <1>3, <2>2, <2>3
<1>4. CASE RunCallback
  <2>1. UNCHANGED <<machine, health, turn, pc>>
    BY <1>4 DEF RunCallback, ingestSample, vars
  <2> QED BY <1>2, <2>1
<1>5. CASE \/ ReadWake \/ Arm \/ StartTimer \/ Recheck \/ Adjust \/ Wake \/ StopTimer \/ Exit
  <2>1. UNCHANGED vars /\ pc # "turn"
    BY <1>5 DEF ReadWake, Arm, StartTimer, Recheck, Adjust, Wake, StopTimer, Exit
  <2> QED BY <1>2, <2>1 DEF vars
<1>6. CASE \/ FireTimer \/ RestartTimer \/ AdvanceClock \/ SetClockBack \/ Shutdown
           \/ \E t \in Topics : Deliver(t)
  <2>1. UNCHANGED <<vars, pc>>
    BY <1>1, <1>6, WorldType
  <2> QED BY <1>2, <2>1 DEF vars
<1>7. CASE UNCHANGED node_vars
  <2>1. UNCHANGED <<vars, pc>>
    BY <1>7 DEF node_vars, loop_vars
  <2> QED BY <1>2, <2>1 DEF vars
<1> QED BY <1>3, <1>4, <1>5, <1>6, <1>7 DEF NodeNext, Loop

\* A bound by the clock is one by a later clock.
LEMMA LaterStill ==
  ASSUME NEW x \in Nat, NEW y \in Nat, NEW d \in Nat, NEW a \in Nat, NEW b \in Nat, a < b
  PROVE  /\ x <= a + d => x <= b + d
         /\ y <= a => y <= b
  OBVIOUS

\* A wake stays good while only time passes.
LEMMA CoversStays ==
  ASSUME UNCHANGED vars, clock <= clock', clock \in Nat, clock' \in Nat, TypeOK
  PROVE  /\ deadline' = deadline /\ Covers(deadline) => Covers(deadline)'
         /\ timer' = timer /\ late' = late /\ Covers(timer.expiry - late)
              => Covers(timer.expiry - late)'
         /\ timer'.expiry - late' = deadline /\ Covers(deadline)
              => Covers(timer.expiry - late)'
<1>1. UNCHANGED <<pending, turn, machine>> /\ TimeoutEdges' = TimeoutEdges
  BY DEF vars, TimeoutEdges
<1>2. \A edge \in TimeoutEdges : edge \in Nat
  BY Periods DEF TimeoutEdges, TypeOK, Input, Sample
<1>3. \A edge \in TimeoutEdges : clock' < edge => clock < edge
  BY <1>1, <1>2
<1> QED BY <1>1, <1>3 DEF Covers, NothingDue, GateIsDue

\* Most steps leave the arming of the timer alone or end it.
LEMMA ArmingStep ==
  ASSUME SleepInv, NodeInv', [NodeNext]_node_vars PROVE Arming'
<1>1. /\ TypeOK /\ clock \in Nat /\ deadline \in Nat /\ read \in Nat
      /\ MaxSleep \in Nat /\ GatesRest /\ Arming
  BY SleepTypes, MaxSleepType DEF SleepInv
<1>2. clock' \in Nat
  BY RuntimeAssumption DEF NodeInv, NodeTypes, NodeTypeOK
<1>3. CASE UNCHANGED <<vars, pc, rewound, deadline, read, clock>>
  <2>1. Covers(deadline) => Covers(deadline)'
    <3>1. UNCHANGED vars /\ clock <= clock' /\ deadline' = deadline
      BY <1>1, <1>3
    <3> QED BY <1>1, <1>2, <3>1, CoversStays
  <2>2. /\ pc' = pc /\ rewound' = rewound /\ deadline' = deadline /\ read' = read
        /\ clock' = clock
    BY <1>3
  <2> QED BY <1>1, <2>1, <2>2 DEF Arming
<1>4. CASE \/ Update \/ Evaluate \/ FinishUpdate \/ RunCallback
           \/ Wake \/ StopTimer \/ Exit
  <2>1. pc' \in {"turn", "top", "callbacks", "exited"}
    BY <1>4
       DEF Update, Evaluate, FinishUpdate, RunCallback, Wake, StopTimer, Exit, loop_vars
  <2> QED BY <1>1, <2>1 DEF Arming
<1>5. CASE ReadWake
  <2>1. /\ pc = "top" /\ rewound' = "no" /\ UNCHANGED <<vars, clock>>
        /\ pc' \in {"update", "arm"}
        /\ pc' = "arm" => /\ deadline' = nextWake(clock) /\ pending = <<>>
                          /\ ~(clock >= nextWake(clock))
    BY <1>5 DEF ReadWake, RunsNow, world
  <2>2. CASE pc' = "arm"
    <3>1. nextWake(clock) \in Nat
      BY <1>1, WakeIsLeast
    <3>2. clock < nextWake(clock) /\ machine.publish_gate.initialized
      BY <1>1, <2>1, <2>2, <3>1, UnfiredIsDue
    <3>3. NothingDue(turn.now)
      BY <1>1, <2>1, <3>2 DEF GatesRest
    <3>4. Covers(nextWake(clock)) /\ nextWake(clock) <= clock + MaxSleep
      BY <1>1, <2>1, <2>2, <3>2, <3>3, WakeCovers
    <3>5. UNCHANGED <<pending, turn, machine, clock>> /\ TimeoutEdges' = TimeoutEdges
      BY <2>1 DEF vars, TimeoutEdges
    <3>6. Covers(deadline)'
      BY <2>1, <2>2, <3>4, <3>5 DEF Covers, NothingDue, GateIsDue
    <3> QED BY <1>1, <2>1, <2>2, <3>4, <3>6 DEF Arming
  <2> QED BY <1>1, <2>1, <2>2 DEF Arming
<1>6. CASE Arm \/ StartTimer \/ Recheck \/ Adjust
  <2>1. /\ UNCHANGED <<vars, clock, rewound>>
        /\ pc' \in {"start", "recheck", "adjust"} => deadline' = deadline
    BY <1>6 DEF Arm, StartTimer, Recheck, Adjust, EndPass, Sleep, history, world
  <2>2. deadline' = deadline /\ Covers(deadline) => Covers(deadline)'
    <3>1. UNCHANGED vars /\ clock <= clock'
      BY <1>1, <2>1
    <3> QED BY <1>1, <1>2, <3>1, CoversStays
  <2>3. CASE Arm
    <3>1. /\ pc = "arm" /\ pc' \in {"top", "start"}
          /\ pc' = "start" => read' = clock /\ deadline' = deadline
      BY <2>3 DEF Arm, EndPass
    <3> QED BY <1>1, <2>1, <2>2, <3>1 DEF Arming
  <2>4. CASE StartTimer
    <3>1. pc = "start" /\ pc' = "recheck" /\ deadline' = deadline /\ read' = read
      BY <2>4 DEF StartTimer
    <3> QED BY <1>1, <2>1, <2>2, <3>1 DEF Arming
  <2>5. CASE Recheck
    <3>1. /\ pc = "recheck" /\ pc' \in {"top", "adjust", "wait"}
          /\ pc' = "adjust" => read' = clock /\ clock > read /\ deadline' = deadline
      BY <2>5 DEF Recheck, EndPass, Sleep
    <3> QED BY <1>1, <2>1, <2>2, <3>1 DEF Arming
  <2>6. CASE Adjust
    BY <1>1, <2>1, <2>6 DEF Adjust, Sleep, Arming
  <2> QED BY <1>6, <2>3, <2>4, <2>5, <2>6
<1>7. CASE AdvanceClock
  <2>1. UNCHANGED <<vars, pc, rewound, deadline, read>> /\ clock < clock'
    BY <1>1, <1>2, <1>7 DEF AdvanceClock, Moves
  <2>2. deadline' = deadline /\ Covers(deadline) => Covers(deadline)'
    BY <1>1, <1>2, <2>1, CoversStays
  <2>3. /\ deadline <= clock + MaxSleep => deadline <= clock' + MaxSleep
        /\ read <= clock => read <= clock'
    BY <1>1, <1>2, <2>1, LaterStill
  <2>4. pc' = pc /\ rewound' = rewound /\ deadline' = deadline /\ read' = read
    BY <2>1
  <2> QED BY <1>1, <2>2, <2>3, <2>4 DEF Arming
<1>8. CASE SetClockBack
  <2>1. /\ UNCHANGED pc
        /\ pc \in {"arm", "start", "recheck", "adjust"} => rewound' = "arming"
    BY <1>8 DEF SetClockBack, Moves
  <2> QED BY <1>1, <2>1 DEF Arming
<1>9. CASE FireTimer \/ RestartTimer \/ Shutdown \/ \E t \in Topics : Deliver(t)
  <2>1. UNCHANGED <<vars, pc, rewound, deadline, read, clock>>
    BY <1>9 DEF FireTimer, RestartTimer, Shutdown, Deliver, loop_vars, history, world
  <2> QED BY <1>3, <2>1
<1>10. CASE UNCHANGED node_vars
  BY <1>3, <1>10 DEF node_vars, loop_vars, history, world
<1> QED BY <1>4, <1>5, <1>6, <1>7, <1>8, <1>9, <1>10 DEF NodeNext, Loop

\* A timer armed for a deadline d from a reading r at clock c.
LEMMA ArmedRange ==
  ASSUME NEW c \in Nat, NEW r \in Nat, NEW d \in Nat, NEW m \in Nat, r <= c, d <= r + m
  PROVE  /\ c + d - r <= c + m /\ d - r <= m /\ d <= c + m
         /\ c = r => c + d - r = d
  OBVIOUS

\* What was added can be taken off again.
LEMMA WhatIsAdded ==
  ASSUME NEW x \in Nat, NEW y \in Nat, NEW z, z = x + y
  PROVE  z - y = x
  OBVIOUS

\* A step that leaves loop, clock and timer alone.
LEMMA TickingStays ==
  ASSUME SleepInv, UNCHANGED <<vars, pc, history, deadline, read, clock, timer, expired>>
  PROVE  Ticking'
<1>1. /\ TypeOK /\ clock \in Nat /\ Ticking
  BY SleepTypes DEF SleepInv
<1>2. UNCHANGED vars /\ clock <= clock' /\ clock' \in Nat
      /\ timer' = timer /\ late' = late /\ rewound' = rewound
  BY <1>1 DEF history
<1>3. Covers(timer.expiry - late) => Covers(timer.expiry - late)'
  BY <1>1, <1>2, CoversStays
<1> QED BY <1>1, <1>2, <1>3 DEF Ticking

\* The loop's own steps keep the timer as described.
LEMMA TickingLoop ==
  ASSUME SleepInv,
         \/ ReadWake \/ Update \/ Evaluate \/ FinishUpdate \/ Arm \/ StartTimer
         \/ Recheck \/ Adjust \/ Wake \/ RunCallback \/ StopTimer \/ Exit
  PROVE  Ticking'
<1>1. /\ TypeOK /\ clock \in Nat /\ deadline \in Nat /\ read \in Nat
      /\ timer.started \in Nat /\ timer.armed \in BOOLEAN /\ MaxSleep \in Nat
      /\ Arming /\ Ticking
  BY SleepTypes, MaxSleepType DEF SleepInv
<1>2. CASE ReadWake \/ Update \/ Evaluate \/ FinishUpdate \/ Arm
  <2>1. /\ pc \in {"top", "update", "turn", "arm"} /\ timer' = timer /\ late' = late
        /\ pc' \in {"update", "arm", "turn", "top", "start"}
    BY <1>2
       DEF ReadWake, Update, Evaluate, FinishUpdate, Arm, EndPass, loop_vars, history, alarm
  <2> QED BY <1>1, <2>1 DEF Ticking
<1>3. CASE Wake \/ RunCallback \/ Exit
  <2>1. pc' \in {"callbacks", "exited"} /\ late' = 0
    BY <1>1, <1>3 DEF Wake, RunCallback, Exit, history, Ticking
  <2> QED BY <2>1 DEF Ticking
<1>4. CASE StopTimer
  <2>1. pc = "callbacks" /\ pc' = "top" /\ late' = late /\ ~timer'.armed
    BY <1>4 DEF StopTimer, StopsTimer, Stopped, history
  <2> QED BY <1>1, <2>1 DEF Ticking
<1>5. CASE StartTimer
  <2>1. /\ pc = "start" /\ pc' = "recheck" /\ timer' = ArmedSince(clock)
        /\ UNCHANGED <<rewound, late, deadline, read, clock>>
    BY <1>5 DEF StartTimer, history, world
  <2>2. /\ timer'.armed /\ timer'.started = clock /\ timer'.period = deadline - read
        /\ timer'.expiry = clock + deadline - read /\ late' = 0
    BY <1>1, <2>1 DEF ArmedSince, Ticking
  <2>3. CASE rewound = "no"
    <3>1. read <= clock /\ deadline <= read + MaxSleep
      BY <1>1, <2>1, <2>3 DEF Arming
    <3>2. /\ timer'.expiry <= clock + MaxSleep /\ timer'.period <= MaxSleep
          /\ deadline <= clock + MaxSleep /\ (clock = read => timer'.expiry = deadline)
      BY <1>1, <2>2, <3>1, ArmedRange
    <3>3. timer'.expiry <= timer'.started + MaxSleep + late'
      BY <1>1, <2>2, <3>2
    <3> QED BY <1>1, <2>1, <2>2, <2>3, <3>2, <3>3 DEF Ticking
  <2>4. CASE rewound # "no"
    <3>1. rewound' = "arming"
      BY <1>1, <2>1, <2>4 DEF Arming
    <3> QED BY <2>1, <2>2, <3>1 DEF Ticking
  <2> QED BY <2>3, <2>4
<1>6. CASE Recheck
  <2>1. /\ pc = "recheck" /\ UNCHANGED <<vars, rewound, late, clock>>
        /\ \/ pc' = "top" /\ ~timer'.armed
           \/ /\ pc' = "adjust" /\ clock > read /\ deadline' = deadline
              /\ UNCHANGED <<timer, expired>>
           \/ /\ pc' = "wait" /\ ~(clock > read)
              /\ UNCHANGED <<timer, expired>>
    BY <1>6 DEF Recheck, EndPass, Sleep, StopsTimer, Stopped, alarm, history, world
  <2>2. late = 0 /\ late' = 0
    BY <1>1, <2>1 DEF Ticking
  <2>3. CASE pc' = "top" /\ ~timer'.armed
    BY <2>2, <2>3 DEF Ticking
  <2>4. CASE /\ pc' = "adjust" /\ clock > read /\ deadline' = deadline
             /\ UNCHANGED <<timer, expired>>
    BY <1>1, <2>1, <2>2, <2>4 DEF Ticking
  <2>5. CASE pc' = "wait" /\ ~(clock > read) /\ UNCHANGED <<timer, expired>>
    <3>1. rewound = "no" /\ timer.armed => timer.expiry = deadline /\ Covers(deadline)
      <4>1. rewound = "no" => read <= clock /\ Covers(deadline)
        BY <1>1, <2>1 DEF Arming
      <4>2. read <= clock => clock = read
        BY <1>1, <2>5
      <4> QED BY <1>1, <2>1, <4>1, <4>2 DEF Ticking
    <3>2. rewound = "no" /\ timer.armed => Covers(timer.expiry - late)'
      <4>1. UNCHANGED vars /\ clock <= clock' /\ clock' \in Nat /\ timer' = timer
        BY <1>1, <2>1, <2>5
      <4>2. timer.expiry = deadline => timer'.expiry - late' = deadline
        BY <1>1, <2>2, <4>1
      <4> QED BY <1>1, <3>1, <4>1, <4>2, CoversStays
    <3> QED BY <1>1, <2>1, <2>2, <2>5, <3>2 DEF Ticking
  <2> QED BY <2>1, <2>3, <2>4, <2>5
<1>7. CASE Adjust
  <2>1. /\ pc = "adjust" /\ pc' = "wait" /\ UNCHANGED <<vars, rewound, clock>>
        /\ timer' = ArmedSince(IF timer.armed THEN timer.started ELSE clock)
        /\ late' = IF clock > read THEN clock - read ELSE 0
    BY <1>7 DEF Adjust, Sleep, world
  <2>2. /\ timer'.armed /\ timer'.period = deadline - read
        /\ timer'.started = IF timer.armed THEN timer.started ELSE clock
        /\ timer'.expiry = clock + deadline - read
    BY <2>1 DEF ArmedSince
  <2>3. CASE rewound = "no"
    <3>1. read <= clock /\ deadline <= read + MaxSleep /\ Covers(deadline)
      BY <1>1, <2>1, <2>3 DEF Arming
    <3>2. late' \in Nat /\ timer'.expiry = deadline + late' /\ timer'.period <= MaxSleep
          /\ deadline <= clock + MaxSleep
      BY <1>1, <2>1, <2>2, <3>1, ArmedRange
    <3>3. timer'.started \in Nat /\ timer'.started <= clock
          /\ deadline <= timer'.started + MaxSleep
      <4>1. CASE timer.armed
        BY <1>1, <2>1, <2>2, <2>3, <4>1 DEF Ticking
      <4>2. CASE ~timer.armed
        BY <1>1, <2>2, <3>2, <4>2
      <4> QED BY <4>1, <4>2
    <3>4. timer'.expiry <= timer'.started + MaxSleep + late'
      BY <1>1, <3>2, <3>3
    <3>5. Covers(timer.expiry - late)'
      <4>1. UNCHANGED vars /\ clock <= clock' /\ clock' \in Nat
        BY <1>1, <2>1
      <4>2. deadline \in Nat /\ late' \in Nat
        BY <1>1, <3>2
      <4>3. timer'.expiry - late' = deadline
        BY <3>2, <4>2, WhatIsAdded
      <4> QED BY <1>1, <3>1, <4>1, <4>3, CoversStays
    <3> QED BY <2>1, <2>2, <2>3, <3>2, <3>3, <3>4, <3>5 DEF Ticking
  <2>4. CASE rewound # "no"
    <3>1. rewound' = "arming"
      BY <1>1, <2>1, <2>4 DEF Arming
    <3> QED BY <2>1, <2>2, <3>1 DEF Ticking
  <2> QED BY <2>3, <2>4
<1> QED BY <1>2, <1>3, <1>4, <1>5, <1>6, <1>7

\* Timer, clock and world keep it so.
LEMMA TickingWorld ==
  ASSUME SleepInv, NodeInv',
         \/ FireTimer \/ RestartTimer \/ AdvanceClock \/ SetClockBack \/ Shutdown
         \/ \E t \in Topics : Deliver(t)
  PROVE  Ticking'
<1>1. /\ TypeOK /\ clock \in Nat /\ deadline \in Nat /\ read \in Nat /\ late \in Nat
      /\ timer.started \in Nat /\ timer.period \in Nat /\ timer.expiry \in Nat
      /\ MaxSleep \in Nat /\ Arming /\ Ticking
  BY SleepTypes, MaxSleepType DEF SleepInv
<1>2. clock' \in Nat
  BY RuntimeAssumption DEF NodeInv, NodeTypes, NodeTypeOK
<1>3. CASE FireTimer
  <2>1. ~timer'.armed /\ expired' /\ UNCHANGED <<pc, late>>
    BY <1>3 DEF FireTimer, Stopped, history
  <2> QED BY <1>1, <2>1 DEF Ticking
<1>4. CASE RestartTimer
  <2>1. /\ timer.armed /\ clock < timer.started
        /\ timer' = [timer EXCEPT !.started = clock, !.expiry = clock + timer.period]
        /\ UNCHANGED <<pc, rewound, late, deadline, read, expired, clock>>
    BY <1>4 DEF RestartTimer, history, world
  <2>2. /\ timer'.armed /\ timer'.started = clock /\ timer'.period = timer.period
        /\ timer'.expiry = clock + timer.period
    BY <1>4, <2>1 DEF SleepInv, NodeInv, NodeTypes, NodeTypeOK, Timer
  <2>3. pc \in {"recheck", "adjust", "wait"} /\ rewound # "arming" =>
          pc = "wait" /\ rewound # "no" /\ timer.period <= MaxSleep
    BY <1>1, <2>1 DEF Ticking, Arming
  <2>4. timer.period <= MaxSleep => timer'.expiry <= timer'.started + MaxSleep + late'
    BY <1>1, <2>1, <2>2
  <2> QED BY <1>1, <2>1, <2>2, <2>3, <2>4 DEF Ticking
<1>5. CASE AdvanceClock
  <2>1. /\ UNCHANGED <<vars, pc, rewound, late, deadline, read, timer, expired>>
        /\ clock < clock'
    BY <1>1, <1>2, <1>5 DEF AdvanceClock, Moves, alarm
  <2>2. Covers(timer.expiry - late) => Covers(timer.expiry - late)'
    <3>1. UNCHANGED vars /\ clock <= clock' /\ timer' = timer /\ late' = late
      BY <1>1, <1>2, <2>1
    <3> QED BY <1>1, <1>2, <3>1, CoversStays
  <2>3. timer.started <= clock => timer.started <= clock'
    BY <1>1, <1>2, <2>1, LaterStill
  <2>4. pc = "recheck" /\ rewound = "no" => clock' # read
    <3>1. pc = "recheck" /\ rewound = "no" => read <= clock
      BY <1>1 DEF Arming
    <3> QED BY <1>1, <1>2, <2>1, <3>1
  <2>5. pc = "recheck" /\ rewound # "arming" => rewound = "no"
    BY <1>1 DEF Arming
  <2> QED BY <1>1, <2>1, <2>2, <2>3, <2>4, <2>5 DEF Ticking
<1>6. CASE SetClockBack
  <2>1. /\ UNCHANGED <<pc, late, deadline, read, timer, expired>>
        /\ pc \in {"arm", "start", "recheck", "adjust"} => rewound' = "arming"
        /\ pc = "wait" => rewound' # "no" /\ (rewound' # "arming" => rewound # "arming")
    BY <1>6 DEF SetClockBack, Moves, alarm
  <2> QED BY <1>1, <2>1 DEF Ticking
<1>7. CASE Shutdown \/ \E t \in Topics : Deliver(t)
  <2>1. UNCHANGED <<vars, pc, history, deadline, read, clock, timer, expired>>
    BY <1>7 DEF Shutdown, Deliver, loop_vars, alarm
  <2> QED BY <2>1, TickingStays
<1> QED BY <1>3, <1>4, <1>5, <1>6, <1>7

\* Every step of the node.
LEMMA SleepStep ==
  ASSUME SleepInv, [NodeNext]_node_vars PROVE SleepInv'
<1>1. NodeInv'
  BY NodeStep DEF SleepInv
<1>2. StateFollowsHealth' /\ GatesRest'
  BY RestStep
<1>3. Arming'
  BY <1>1, ArmingStep
<1>4. Ticking'
  <2>1. CASE UNCHANGED node_vars
    <3>1. UNCHANGED <<vars, pc, history, deadline, read, clock, timer, expired>>
      BY <2>1 DEF node_vars, loop_vars, alarm, world
    <3> QED BY <3>1, TickingStays
  <2>2. CASE Loop
    BY <2>2, TickingLoop DEF Loop
  <2>3. CASE \/ FireTimer \/ RestartTimer \/ AdvanceClock \/ SetClockBack \/ Shutdown
             \/ \E t \in Topics : Deliver(t)
    BY <1>1, <2>3, TickingWorld
  <2> QED BY <2>1, <2>2, <2>3 DEF NodeNext
<1> QED BY <1>1, <1>2, <1>3, <1>4 DEF SleepInv

-----------------------------------------------------------------------------
\* A sleeping owner has left no mark and no message behind, and its timer expires
\* before any gate of its state is due and any timeout still ahead strikes, late by
\* no more than the clock moved while it was corrected: whatever callbacks came,
\* wherever and however often the clock moved in a pass and however the gates'
\* deadlines are rounded (run(), hover_thrust_estimator_node.cpp).
THEOREM SleeperIsWoken == NodeSpec => []SleepMissesNothing
<1>1. SleepInv /\ MailInv => SleepMissesNothing
  <2> SUFFICES ASSUME SleepInv, MailInv, pc = "wait", QueueIsEmpty, rewound = "no"
               PROVE  /\ pending = <<>>
                      /\ ok => \A t \in Topics : queues[t] = <<>>
                      /\ timer.armed
                      /\ \A t \in Times : turn.now <= t /\ t + late < timer.expiry =>
                           ~GateIsDue(t)
                      /\ \A edge \in TimeoutEdges :
                           clock < edge => timer.expiry <= edge + late
    BY DEF SleepMissesNothing
  <2>1. timer.armed /\ Covers(timer.expiry - late)
    BY DEF SleepInv, Ticking, QueueIsEmpty
  <2>2. timer.expiry \in Nat /\ late \in Nat /\ TypeOK
    BY SleepTypes DEF SleepInv
  <2>3. \A edge \in TimeoutEdges : edge \in Nat
    BY <2>2, Periods DEF TimeoutEdges, TypeOK, Input, Sample
  <2>4. ASSUME NEW t \in Times, turn.now <= t, t + late < timer.expiry
        PROVE  ~GateIsDue(t)
    <3>1. t \in Nat /\ t < timer.expiry - late
      BY <2>2, <2>4, RuntimeAssumption
    <3> QED BY <2>1, <2>4, <3>1 DEF Covers, NothingDue
  <2>5. \A edge \in TimeoutEdges : clock < edge => timer.expiry <= edge + late
    BY <2>1, <2>2, <2>3 DEF Covers
  <2>6. ok => \A t \in Topics : queues[t] = <<>>
    BY NothingWaits DEF SleepInv, NodeInv
  <2> QED BY <2>1, <2>4, <2>5, <2>6 DEF Covers
<1> QED BY <1>1, SleepInit, SleepStep, MailInvHolds, PTL DEF NodeSpec

\* However far and however often the clock is set back while the owner sleeps, or
\* was before it asked for its deadline, its timer expires within a publish period
\* and the gates' tolerance, late by no more than a correction of it was.
THEOREM SleepStaysBounded == NodeSpec => []SleepIsBounded
<1>1. SleepInv => SleepIsBounded
  <2> SUFFICES ASSUME SleepInv, pc = "wait", QueueIsEmpty, rewound # "arming",
                      timer.started <= clock
               PROVE  /\ timer.armed
                      /\ timer.expiry <= clock + RegressTolerance + PublishPeriod + late
    BY DEF SleepIsBounded
  <2>1. timer.armed /\ timer.expiry <= timer.started + MaxSleep + late
    BY DEF SleepInv, Ticking, QueueIsEmpty
  <2>2. /\ timer.started \in Nat /\ timer.expiry \in Nat /\ clock \in Nat /\ late \in Nat
        /\ RegressTolerance \in Nat /\ PublishPeriod \in Nat
    BY SleepTypes, Periods, GateAssumption DEF SleepInv
  <2> QED BY <2>1, <2>2 DEF MaxSleep
<1> QED BY <1>1, SleepInit, SleepStep, PTL DEF NodeSpec
=============================================================================
