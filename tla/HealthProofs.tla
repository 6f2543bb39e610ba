---------------------------- MODULE HealthProofs ----------------------------
(***************************************************************************)
(* Proofs about HealthAgeing: what time alone does to the health of an     *)
(* input snapshot, for every snapshot and every configuration.             *)
(***************************************************************************)
EXTENDS HealthAgeing, TLAPS

Aged == input \in Input /\ clock \in Nat

\* What ages is a snapshot, at some reading of the clock.
LEMMA AgeType == Spec => []Aged
<1>1. Init => Aged
  BY AgeingAssumption DEF Init, Aged
<1>2. Aged /\ [Next]_vars => Aged'
  BY DEF Aged, Next, Age, vars
<1> QED BY <1>1, <1>2, PTL DEF Spec

\* The clock fault is the only flag of its tier, and of no other tier.
LEMMA TierFlags ==
  ASSUME NEW i \in Input, NEW now \in Nat
  PROVE  /\ "TimeJump" \notin MissingFlags(i)
         /\ "TimeJump" \notin LateFlags(i, now)
         /\ "TimeJump" \notin InvalidFlags(i)
  BY DEF MissingFlags, LateFlags, InvalidFlags, InvalidTopics, MissingFlag,
         StaleFlag, InvalidFlag, Topics

\* The tiers of classify(), read backwards.
LEMMA Tiers ==
  ASSUME NEW i \in Input, NEW now \in Nat
  PROVE  LET h == classify(i, now) IN
         /\ "TimeJump" \in h.flags <=> MissingFlags(i) = {} /\ TimeJumped(i, now)
         /\ MissingFlags(i) # {} =>
              h.condition = "InputUnhealthy" /\ h.flags = MissingFlags(i)
         /\ MissingFlags(i) = {} /\ TimeJumped(i, now) => h.condition = "InputUnhealthy"
         /\ MissingFlags(i) = {} /\ ~TimeJumped(i, now) /\ LateFlags(i, now) # {} =>
              h.condition = "InputUnhealthy" /\ h.flags = LateFlags(i, now)
<1>1. \A f : unhealthy(f).flags = f /\ unhealthy(f).condition = "InputUnhealthy"
  BY DEF unhealthy, NoHealth
<1>2. [unhealthy({"BelowMinAltitude"}) EXCEPT !.condition = "BelowMinAltitude"].flags
        = {"BelowMinAltitude"}
  BY DEF unhealthy, NoHealth
<1> QED BY <1>1, <1>2, TierFlags DEF classify

\* With nothing missing, no fault and nothing late, the clock has no say.
LEMMA Timeless ==
  ASSUME NEW i \in Input, NEW now \in Nat, NEW later \in Nat,
         MissingFlags(i) = {},
         ~TimeJumped(i, now), LateFlags(i, now) = {},
         ~TimeJumped(i, later), LateFlags(i, later) = {}
  PROVE  classify(i, now) = classify(i, later)
  BY DEF classify

\* One tick on, a fault that was not there has not appeared, and what was stale
\* or slow still is.
LEMMA OneTick ==
  ASSUME NEW i \in Input, NEW now \in Nat
  PROVE  /\ TimeJumped(i, now + 1) => TimeJumped(i, now)
         /\ LateFlags(i, now) \subseteq LateFlags(i, now + 1)
         /\ LateFlags(i, now) = {} /\ LateFlags(i, now + 1) # {} =>
              \E t \in Topics : now + 1 = i.samples[t].stamp + SampleTimeout + 1
<1>1. \A t \in Topics : i.samples[t].stamp \in Nat
  BY DEF Input, Sample
<1>2. SampleTimeout \in Nat /\ FutureTolerance \in Nat
  BY Periods, Tolerances
<1>3. \A t \in Topics : /\ sampleTimeJumped(now + 1, i.samples[t]) =>
                             sampleTimeJumped(now, i.samples[t])
                        /\ sampleStale(now, i.samples[t]) =>
                             sampleStale(now + 1, i.samples[t])
  BY <1>1, <1>2 DEF sampleTimeJumped, sampleStale
<1>4. TimeJumped(i, now + 1) => TimeJumped(i, now)
  BY <1>3 DEF TimeJumped
<1>5. LateFlags(i, now) \subseteq LateFlags(i, now + 1)
  BY <1>3 DEF LateFlags
<1>6. ASSUME LateFlags(i, now) = {}, LateFlags(i, now + 1) # {}
      PROVE  \E t \in Topics : now + 1 = i.samples[t].stamp + SampleTimeout + 1
  <2>1. ~\E t \in Topics : sampleRateLow(i.samples[t])
    BY <1>6 DEF LateFlags
  <2>2. PICK t \in Topics : sampleStale(now + 1, i.samples[t])
    BY <1>6, <2>1 DEF LateFlags
  <2>3. ~sampleStale(now, i.samples[t])
    BY <1>6 DEF LateFlags
  <2> QED BY <1>1, <1>2, <2>2, <2>3 DEF sampleStale
<1> QED BY <1>4, <1>5, <1>6

\* Waiting makes no late snapshot healthy, however long the owner waits.
THEOREM LateStaysLate == Spec => LateIsForGood
<1> DEFINE A == LateFlags(input, clock) # {} /\ "TimeJump" \notin health.flags
                  => /\ health'.condition = health.condition
                     /\ health.flags \subseteq health'.flags
<1>1. Aged /\ [Next]_vars => [A]_vars
  <2> SUFFICES ASSUME Aged, Age, LateFlags(input, clock) # {},
                      "TimeJump" \notin health.flags
               PROVE  /\ health'.condition = health.condition
                      /\ health.flags \subseteq health'.flags
    BY DEF Next
  <2>1. input \in Input /\ clock \in Nat /\ clock + 1 \in Nat
        /\ health = classify(input, clock) /\ health' = classify(input, clock + 1)
    BY DEF Aged, Age, health
  <2>2. CASE MissingFlags(input) # {}
    BY <2>1, <2>2, Tiers
  <2>3. CASE MissingFlags(input) = {}
    <3>1. ~TimeJumped(input, clock) /\ ~TimeJumped(input, clock + 1)
      BY <2>1, <2>3, Tiers, OneTick
    <3>2. LateFlags(input, clock) \subseteq LateFlags(input, clock + 1)
      BY <2>1, OneTick
    <3> QED BY <2>1, <2>3, <3>1, <3>2, Tiers
  <2> QED BY <2>2, <2>3
<1> QED BY <1>1, AgeType, PTL DEF Spec, LateIsForGood

\* The instants at which time alone changes the condition are known in advance:
\* the healing of a fault, and the timeouts that nextWake() wakes the owner for.
THEOREM AgeingEdgesAreTimeouts == Spec => AgeingEdges
<1> DEFINE A ==
      /\ "TimeJump" \in health'.flags => "TimeJump" \in health.flags
      /\ health'.condition # health.condition
           => \/ "TimeJump" \in health.flags
              \/ /\ health'.condition = "InputUnhealthy"
                 /\ \E t \in Topics : clock' = input.samples[t].stamp + SampleTimeout + 1
<1>1. Aged /\ [Next]_vars => [A]_vars
  <2> SUFFICES ASSUME Aged, Age PROVE A
    BY DEF Next
  <2>1. input \in Input /\ clock \in Nat /\ clock + 1 \in Nat /\ clock' = clock + 1
        /\ health = classify(input, clock) /\ health' = classify(input, clock + 1)
    BY DEF Aged, Age, health
  <2>2. "TimeJump" \in health'.flags => "TimeJump" \in health.flags
    BY <2>1, Tiers, OneTick
  <2>3. ASSUME health'.condition # health.condition, "TimeJump" \notin health.flags
        PROVE  /\ health'.condition = "InputUnhealthy"
               /\ \E t \in Topics : clock + 1 = input.samples[t].stamp + SampleTimeout + 1
    <3>1. MissingFlags(input) = {}
      BY <2>1, <2>3, Tiers
    <3>2. ~TimeJumped(input, clock) /\ ~TimeJumped(input, clock + 1)
      BY <2>1, <2>3, <3>1, Tiers, OneTick
    <3>3. LateFlags(input, clock) \subseteq LateFlags(input, clock + 1)
      BY <2>1, OneTick
    <3>4. LateFlags(input, clock) = {}
      BY <2>1, <2>3, <3>1, <3>2, <3>3, Tiers
    <3>5. LateFlags(input, clock + 1) # {}
      BY <2>1, <2>3, <3>1, <3>2, <3>4, Timeless
    <3> QED BY <2>1, <3>1, <3>2, <3>4, <3>5, Tiers, OneTick
  <2> QED BY <2>1, <2>2, <2>3
<1> QED BY <1>1, AgeType, PTL DEF Spec, AgeingEdges

-----------------------------------------------------------------------------
\* The first row that holds is the only row that holds after none.
LEMMA FirstRowIs ==
  ASSUME NEW n \in 1..7, Row(n), \A m \in 1..(n - 1) : ~Row(m)
  PROVE  FirstRow = n
<1> DEFINE First(k) == Row(k) /\ \A m \in 1..(k - 1) : ~Row(m)
<1>1. FirstRow \in 1..7 /\ First(FirstRow)
  BY DEF FirstRow
<1>2. ~(FirstRow < n) /\ ~(n < FirstRow)
  BY <1>1
<1> QED BY <1>1, <1>2

\* Each tier of classify() is a row of the table, or two of them.
LEMMA RowsAreTiers ==
  ASSUME Aged
  PROVE  /\ Row(1) <=> MissingFlags(input) # {}
         /\ Row(2) <=> TimeJumped(input, clock)
         /\ ~Row(1) => (Row(3) \/ Row(4) <=> LateFlags(input, clock) # {})
         /\ Row(5) <=> InvalidFlags(input) # {}
         /\ Row(6) <=> input.samples["altitude"].value = "low"
         /\ Row(7)
<1>0. /\ SampleTimeout \in Nat /\ FutureTolerance \in Nat
      /\ BackwardTolerance \in Nat /\ LowRatePeriod \in Nat
  BY Periods, Tolerances
<1>1. /\ clock \in Nat
      /\ \A t \in Topics : /\ input.samples[t].stamp \in Nat
                           /\ input.samples[t].period \in Int
                           /\ input.samples[t].value \in Values
  BY DEF Aged, Input, Sample
<1>2. Row(1) <=> MissingFlags(input) # {}
  BY DEF Row, MissingFlags
<1>3. Row(2) <=> TimeJumped(input, clock)
  <2>1. ASSUME NEW t \in Topics
        PROVE  sampleTimeJumped(clock, input.samples[t]) <=>
                 \/ input.samples[t].stamp - clock > FutureTolerance
                 \/ input.samples[t].period + BackwardTolerance < 0
    BY <1>0, <1>1 DEF sampleTimeJumped
  <2>2. Row(2) <=> \/ input.batch_time_jump
                   \/ \E t \in Topics :
                        \/ input.samples[t].stamp - clock > FutureTolerance
                        \/ input.samples[t].period + BackwardTolerance < 0
    BY DEF Row
  <2> QED BY <2>1, <2>2 DEF TimeJumped
<1>4. ASSUME ~Row(1) PROVE Row(3) \/ Row(4) <=> LateFlags(input, clock) # {}
  <2>1. \A t \in Topics : input.samples[t].received
    BY <1>4 DEF Row
  <2>2. ASSUME NEW t \in Topics
        PROVE  /\ sampleStale(clock, input.samples[t]) <=>
                    clock > input.samples[t].stamp + SampleTimeout
               /\ sampleRateLow(input.samples[t]) <=>
                    input.samples[t].period > LowRatePeriod
    BY <1>0, <1>1, <2>1 DEF sampleStale, sampleRateLow
  <2>3. /\ Row(3) <=> \E t \in Topics : sampleStale(clock, input.samples[t])
        /\ Row(4) <=> \E t \in Topics : sampleRateLow(input.samples[t])
    BY <2>2 DEF Row
  <2> QED BY <2>3 DEF LateFlags
<1>5. Row(5) <=> InvalidFlags(input) # {}
  <2>1. Row(5) <=> InvalidTopics(input) # {}
    BY <1>1 DEF Row, InvalidTopics, finite, Values, Topics
  <2> QED BY <2>1 DEF InvalidFlags
<1>6. Row(6) <=> input.samples["altitude"].value = "low"
  BY DEF Row
<1>7. Row(7)
  BY DEF Row
<1> QED BY <1>2, <1>3, <1>4, <1>5, <1>6, <1>7

\* What classify() answers for the snapshot, row by row.
LEMMA AnswerOfRow ==
  ASSUME Aged
  PROVE  /\ FirstRow \in 1..7
         /\ FirstRow = 1 => health = unhealthy(MissingFlags(input))
         /\ FirstRow = 2 => health = unhealthy({"TimeJump"})
         /\ FirstRow \in {3, 4} => health = unhealthy(LateFlags(input, clock))
         /\ FirstRow = 5 => health = unhealthy(InvalidFlags(input))
         /\ FirstRow = 6 => health = [unhealthy({"BelowMinAltitude"}) EXCEPT
                                        !.condition = "BelowMinAltitude"]
         /\ FirstRow = 7 => health = [condition |-> "EstimationReady", flags |-> {},
              ready |-> TRUE,
              source_stamp |-> input.samples["normalized_thrust"].stamp]
         /\ Row(FirstRow) /\ \A m \in 1..(FirstRow - 1) : ~Row(m)
<1>1. PICK n \in 1..7 : Row(n) /\ \A m \in 1..(n - 1) : ~Row(m)
  <2>1. Row(7)
    BY RowsAreTiers
  <2> QED BY <2>1
<1>2. FirstRow = n
  BY <1>1, FirstRowIs
<1>3. /\ Row(1) <=> MissingFlags(input) # {}
      /\ Row(2) <=> TimeJumped(input, clock)
      /\ ~Row(1) => (Row(3) \/ Row(4) <=> LateFlags(input, clock) # {})
      /\ Row(5) <=> InvalidFlags(input) # {}
      /\ Row(6) <=> input.samples["altitude"].value = "low"
  BY RowsAreTiers
<1>4. CASE n = 1
  BY <1>1, <1>2, <1>3, <1>4 DEF health, classify
<1>5. CASE n = 2
  <2>1. ~Row(1) /\ Row(2)
    BY <1>1, <1>5
  <2> QED BY <1>1, <1>2, <1>3, <1>5, <2>1 DEF health, classify
<1>6. CASE n \in {3, 4}
  <2>1. ~Row(1) /\ ~Row(2) /\ (Row(3) \/ Row(4))
    BY <1>1, <1>6
  <2> QED BY <1>1, <1>2, <1>3, <1>6, <2>1 DEF health, classify
<1>7. CASE n \in {5, 6, 7}
  <2>1. ~Row(1) /\ ~Row(2) /\ ~Row(3) /\ ~Row(4)
    BY <1>1, <1>7
  <2>2. /\ n = 5 => Row(5)
        /\ n = 6 => ~Row(5) /\ Row(6)
        /\ n = 7 => ~Row(5) /\ ~Row(6)
    BY <1>1, <1>7
  <2> QED BY <1>1, <1>2, <1>3, <1>7, <2>1, <2>2 DEF health, classify
<1> QED BY <1>1, <1>4, <1>5, <1>6, <1>7

\* The code classifies as the table of README.md:153-163 says, for every snapshot
\* and every configuration: the condition, a flag of the row and none of another
\* (but a low rate beside staleness), and readiness with its stamp.
THEOREM TableIsFollowed == Spec => []ConditionOfFirstRow
<1>1. Aged => ConditionOfFirstRow
  <2> SUFFICES ASSUME Aged PROVE ConditionOfFirstRow
    OBVIOUS
  <2> DEFINE n == FirstRow
  <2>0. n \in 1..7 /\ Row(n) /\ \A m \in 1..(n - 1) : ~Row(m)
    BY AnswerOfRow
  <2>1. \A f : /\ unhealthy(f).flags = f /\ unhealthy(f).condition = "InputUnhealthy"
               /\ unhealthy(f).ready = FALSE /\ unhealthy(f).source_stamp = 0
    BY DEF unhealthy, NoHealth
  <2> DEFINE raised == UNION {RowFlags[m] : m \in RowsRaisedWith(n)}
  <2>9. /\ n # 3 => raised = RowFlags[n]
        /\ n = 3 => raised = RowFlags[3] \cup RowFlags[4]
    BY DEF RowsRaisedWith
  <2> HIDE DEF raised
  <2>10. SUFFICES /\ health.condition = RowCondition(n)
                  /\ (health.flags \cap RowFlags[n] = {}) <=> (n = 7)
                  /\ health.flags \subseteq raised
                  /\ health.ready <=> n = 7
                  /\ health.source_stamp = IF n = 7
                       THEN input.samples["normalized_thrust"].stamp ELSE 0
    BY DEF ConditionOfFirstRow, raised
  <2>11. LateFlags(input, clock) \subseteq RowFlags[3] \cup RowFlags[4]
    BY DEF LateFlags, StaleFlag, Topics, RowFlags
  <2>2. CASE n = 1
    <3>1. health = unhealthy(MissingFlags(input)) /\ MissingFlags(input) # {}
      BY <2>0, <2>2, AnswerOfRow, RowsAreTiers
    <3>2. MissingFlags(input) \subseteq RowFlags[1]
      BY DEF MissingFlags, MissingFlag, Topics, RowFlags
    <3>3. health.flags \cap RowFlags[1] # {}
      BY <2>1, <3>1, <3>2
    <3> QED BY <2>1, <2>2, <2>9, <3>1, <3>2, <3>3 DEF RowCondition
  <2>3. CASE n = 2
    <3>1. health = unhealthy({"TimeJump"}) /\ RowFlags[2] = {"TimeJump"}
      BY <2>3, AnswerOfRow DEF RowFlags
    <3> QED BY <2>1, <2>3, <2>9, <3>1 DEF RowCondition
  <2>4. CASE n = 3
    <3>1. health = unhealthy(LateFlags(input, clock))
      BY <2>4, AnswerOfRow
    <3>2. PICK t \in Topics : clock > input.samples[t].stamp + SampleTimeout
      BY <2>0, <2>4 DEF Row
    <3>3. sampleStale(clock, input.samples[t])
      BY <3>2, Periods DEF sampleStale, Aged, Input, Sample
    <3>4. StaleFlag[t] \in LateFlags(input, clock) /\ StaleFlag[t] \in RowFlags[3]
      BY <3>3 DEF LateFlags, RowFlags, StaleFlag, Topics
    <3>5. health.flags \cap RowFlags[3] # {}
      BY <2>1, <3>1, <3>4
    <3> QED BY <2>1, <2>4, <2>9, <2>11, <3>1, <3>5 DEF RowCondition
  <2>5. CASE n = 4
    <3>1. health = unhealthy(LateFlags(input, clock))
      BY <2>5, AnswerOfRow
    <3>2. ~Row(1) /\ Row(4)
      BY <2>0, <2>5
    <3>3. "InputRateLow" \in LateFlags(input, clock)
      BY <3>2 DEF Row, LateFlags, sampleRateLow
    <3>4. RowFlags[4] = {"InputRateLow"}
      BY DEF RowFlags
    <3>5. health.flags \cap RowFlags[4] # {}
      BY <2>1, <3>1, <3>3, <3>4
    <3>6. ~Row(3)
      BY <2>0, <2>5
    <3>7. \A t \in Topics : ~sampleStale(clock, input.samples[t])
      BY <3>6, Periods DEF Row, sampleStale, Aged, Input, Sample
    <3>8. LateFlags(input, clock) \subseteq RowFlags[4]
      BY <3>4, <3>7 DEF LateFlags
    <3> QED BY <2>1, <2>5, <2>9, <3>1, <3>5, <3>8 DEF RowCondition
  <2>6. CASE n = 5
    <3>1. health = unhealthy(InvalidFlags(input)) /\ InvalidFlags(input) # {}
      BY <2>0, <2>6, AnswerOfRow, RowsAreTiers
    <3>2. InvalidFlags(input) \subseteq RowFlags[5]
      BY DEF InvalidFlags, InvalidTopics, InvalidFlag, RowFlags
    <3>3. health.flags \cap RowFlags[5] # {}
      BY <2>1, <3>1, <3>2
    <3> QED BY <2>1, <2>6, <2>9, <3>1, <3>2, <3>3 DEF RowCondition
  <2>7. CASE n = 6
    <3>1. /\ health.flags = {"BelowMinAltitude"} /\ ~health.ready
          /\ health.condition = "BelowMinAltitude" /\ health.source_stamp = 0
      BY <2>7, AnswerOfRow DEF unhealthy, NoHealth
    <3>2. RowFlags[6] = {"BelowMinAltitude"}
      BY DEF RowFlags
    <3> QED BY <2>7, <2>9, <3>1, <3>2 DEF RowCondition
  <2>8. CASE n = 7
    <3>1. health = [condition |-> "EstimationReady", flags |-> {}, ready |-> TRUE,
                    source_stamp |-> input.samples["normalized_thrust"].stamp]
      BY <2>8, AnswerOfRow
    <3> QED BY <2>8, <2>9, <3>1 DEF RowCondition
  <2> QED BY <2>0, <2>2, <2>3, <2>4, <2>5, <2>6, <2>7, <2>8
<1> QED BY <1>1, AgeType, PTL
=============================================================================
