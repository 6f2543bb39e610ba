--------------------------- MODULE ContractProofs ---------------------------
(***************************************************************************)
(* HoverThrustRuntime implements EstimatorContract, under any owner and    *)
(* for every value of the constants.                                       *)
(***************************************************************************)
EXTENDS HoverThrustRefinement, RuntimeProofs

\* The flags of a health status go with its condition: an unhealthy one has at
\* least one fault to show, a ready one none.
LEMMA FlagsOfCondition ==
  ASSUME NEW i \in Input, NEW now \in Int
  PROVE  LET h == classify(i, now) IN
         /\ h.condition = "InputUnhealthy" =>
              h.flags # {} /\ h.flags \subseteq Contract!InputFaults
         /\ h.condition = "BelowMinAltitude" => h.flags = {"BelowMinAltitude"}
         /\ h.condition = "EstimationReady" => h.flags = {} /\ h.ready
<1>1. /\ MissingFlags(i) \subseteq Contract!InputFaults
      /\ LateFlags(i, now) \subseteq Contract!InputFaults
      /\ InvalidFlags(i) \subseteq Contract!InputFaults
  BY DEF MissingFlags, LateFlags, InvalidFlags, InvalidTopics, MissingFlag,
         StaleFlag, InvalidFlag, Topics, Contract!InputFaults
<1>2. \A f : unhealthy(f).flags = f /\ unhealthy(f).condition = "InputUnhealthy"
  BY DEF unhealthy, NoHealth
<1>3. LET low == [unhealthy({"BelowMinAltitude"}) EXCEPT !.condition = "BelowMinAltitude"]
      IN  low.flags = {"BelowMinAltitude"} /\ low.condition = "BelowMinAltitude"
  BY DEF unhealthy, NoHealth
<1>4. {"TimeJump"} \subseteq Contract!InputFaults
  BY DEF Contract!InputFaults
<1> QED BY <1>1, <1>2, <1>3, <1>4 DEF classify

\* A tick's output explains the state it is in.
LEMMA TickExplains ==
  ASSUME TypeOK, StateFollowsHealth, TickSeesInput, Tick
  PROVE  /\ ~ReturnsEarly
         /\ Contract!Explains(last_output'.flags)
         /\ last_sample_used' => machine.state = "Airborne" /\ last_output'.flags = {}
<1>1. ~ReturnsEarly
  BY DEF ReturnsEarly, StateFollowsHealth
<1>2. /\ input \in Input /\ turn.now \in Nat /\ health = classify(input, turn.now)
      /\ health.condition \in Conditions
  BY TickStep DEF TypeOK, Turn, TickSeesInput, HealthStatus
<1>3. /\ last_output'.flags = flags'
      /\ machine.state # "Airborne" => flags' = health.flags
      /\ health.ready => flags' \subseteq health.flags \cup {"EstimatorRejected"}
      /\ last_sample_used' => flags' = health.flags /\ health.ready
      /\ last_sample_used' => machine.state = "Airborne"
  BY <1>1, TickStep DEF makeOutput
<1>4. CASE health.condition = "InputUnhealthy"
  <2>1. machine.state = "SelfCheck"
    BY <1>4 DEF StateFollowsHealth, TargetOf
  <2> QED BY <1>1, <1>2, <1>3, <1>4, <2>1, FlagsOfCondition DEF Contract!Explains
<1>5. CASE health.condition = "BelowMinAltitude"
  <2>1. machine.state = "Ground"
    BY <1>5 DEF StateFollowsHealth, TargetOf
  <2> QED BY <1>1, <1>2, <1>3, <1>5, <2>1, FlagsOfCondition DEF Contract!Explains
<1>6. CASE health.condition = "EstimationReady"
  <2>1. machine.state = "Airborne"
    BY <1>6 DEF StateFollowsHealth, TargetOf
  <2>2. flags' \subseteq {"EstimatorRejected"} /\ (last_sample_used' => flags' = {})
    BY <1>2, <1>3, <1>6, FlagsOfCondition
  <2> QED BY <1>1, <1>3, <2>1, <2>2 DEF Contract!Explains
<1> QED BY <1>2, <1>4, <1>5, <1>6 DEF Conditions

\* The output's step of the contract.
LEMMA TickDrives ==
  ASSUME TypeOK, TypeOK', Driven(output_model, output_model')
  PROVE  Contract!Drive
  BY DEF TypeOK, OutputModel, Driven, Contract!Drive

\* Starting, or starting over, starts the contract.
LEMMA InitRefines == Init => Contract!Init
<1> SUFFICES ASSUME Init PROVE Contract!Init
  OBVIOUS
<1>1. Clamp(InitialHoverThrust) = InitialHoverThrust
  BY ClampRange
<1>2. machine.state = "SelfCheck"
  BY DEF Init, ResetValues, Enter
<1>3. estimator.raw = InitialHoverThrust /\ estimator.last_time = 0
  BY <1>1 DEF Init, ResetValues, FreshEstimator
<1>4. /\ output_model.target = InitialHoverThrust
      /\ output_model.hover_thrust = InitialHoverThrust
  BY DEF Init, ResetValues, FreshOutputModel
<1>5. last_output = makeOutput("SelfCheck", {}, FALSE, NoHealth, FreshOutputModel, 0)
  BY DEF Init, ResetValues
<1>6. ShownSnapshot = Contract!Restarted
  BY <1>5 DEF makeOutput, FreshOutputModel, ShownSnapshot, Contract!Restarted
<1> QED BY <1>2, <1>3, <1>4, <1>6 DEF Contract!Init

\* A tick ends a turn of the contract: with the estimate as it was, or with one
\* accepted.
LEMMA TickRefines ==
  ASSUME TypeOK, TypeOK', StateFollowsHealth, TickSeesInput, EstimateCoherence,
         EstimateCoherence', Tick
  PROVE  Contract!Hold \/ Contract!Accept
<1>1. ~ReturnsEarly /\ machine'.state = machine.state
  BY TickExplains, TickStep
<1>2. last_output' = makeOutput(machine.state, flags', last_sample_used',
                                health, output_model', last_estimate_stamp')
  BY <1>1, TickStep
<1>3. Contract!Drive
  BY <1>1, TickStep, TickDrives
<1>4. Contract!Explains(last_output'.flags)
  BY TickExplains
<1>5. /\ output_model'.raw = estimator'.raw
      /\ last_estimate_stamp' = estimator'.last_time
  BY DEF EstimateCoherence
<1>6. ShownSnapshot' = Contract!Snapshot(last_output'.flags, last_sample_used')
  BY <1>1, <1>2, <1>5 DEF ShownSnapshot, Contract!Snapshot, makeOutput
<1>7. ShownSnapshot'.flags = last_output'.flags
  BY DEF ShownSnapshot
<1>8. last_sample_used' \in BOOLEAN
  BY DEF TypeOK
<1>9. CASE ~last_sample_used'
  <2>1. UNCHANGED estimator /\ output_model'.target = output_model.target
    BY <1>9, TickStep
  <2>2. last_sample_used' = FALSE
    BY <1>8, <1>9
  <2> QED BY <1>1, <1>3, <1>4, <1>6, <1>7, <2>1, <2>2 DEF Contract!Hold
<1>10. CASE last_sample_used'
  <2>1. /\ machine.state = "Airborne" /\ output_model'.target = estimator'.raw
        /\ estimator'.last_time = input.samples["normalized_thrust"].stamp
        /\ admits(estimator, input)
    BY <1>1, <1>10, TickStep
  <2>2. /\ estimator \in Estimator /\ estimator' \in Estimator
        /\ estimator.last_time \in Nat /\ estimator'.raw \in HoverThrusts
    BY DEF TypeOK, Estimator
  <2>3. estimator.last_time = 0 \/ estimator.last_time < estimator'.last_time
    BY <2>1, <2>2 DEF admits
  <2>4. last_sample_used' = TRUE /\ last_output'.flags = {}
    BY <1>8, <1>10, TickExplains
  <2> QED BY <1>1, <1>3, <1>6, <2>1, <2>2, <2>3, <2>4 DEF Contract!Accept
<1> QED BY <1>9, <1>10

\* An evaluation of health changes the contract's state or nothing of it.
LEMMA EvaluationRefines ==
  ASSUME TypeOK, TypeOK', Evaluation
  PROVE  [Contract!Next]_Contract!contract_vars
<1>1. PICK now \in Nat : evaluateHealthAt(now)
  BY DEF Evaluation
<1>2. UNCHANGED <<estimator, last_output>>
  BY <1>1 DEF evaluateHealthAt
<1>3. UNCHANGED ShownSnapshot
  BY <1>2 DEF ShownSnapshot
<1>4. machine'.state \in {"SelfCheck", "Ground", "Airborne"}
  BY DEF TypeOK, Machine, States
<1>5. CASE machine'.state = machine.state
  <2>1. output_model' = output_model
    BY <1>1, <1>5, EvaluationTarget
  <2> QED BY <1>2, <1>3, <1>5, <2>1 DEF Contract!contract_vars
<1>6. CASE machine'.state # machine.state
  <2>1. Contract!Enter(machine'.state)
    BY <1>1, <1>2, <1>3, <1>6, EvaluationTarget DEF Contract!Enter
  <2> QED BY <1>4, <2>1 DEF Contract!Next
<1> QED BY <1>5, <1>6

\* What the owner relies on, a published snapshot in particular, follows the
\* contract whatever the samples, clocks and batches are.
THEOREM RuntimeKeepsContract == OwnerSpec => ContractIsKept
<1>1. Init => Contract!Init
  BY InitRefines
<1>2. ASSUME TypeOK, TypeOK', StateFollowsHealth, TickSeesInput, EstimateCoherence,
             EstimateCoherence', [OwnerNext]_vars
      PROVE  [Contract!Next]_Contract!contract_vars
  <2>1. CASE UNCHANGED Unrecorded
    BY <2>1 DEF Unrecorded, Contract!contract_vars, ShownSnapshot
  <2>2. CASE BeginUpdate
    BY <2>2 DEF BeginUpdate, Contract!contract_vars, ShownSnapshot
  <2>3. CASE Evaluation
    BY <1>2, <2>3, EvaluationRefines
  <2>4. CASE Tick
    BY <1>2, <2>4, TickRefines DEF Contract!Next
  <2>5. CASE Init'
    <3>1. Contract!Init'
      BY <2>5, InitRefines, PTL
    <3>2. Contract!Restart
      BY <3>1 DEF Contract!Init, Contract!Restart
    <3> QED BY <3>2 DEF Contract!Next
  <2>6. CASE UNCHANGED vars
    BY <2>6 DEF vars, Contract!contract_vars, ShownSnapshot
  <2> QED BY <1>2, <2>1, <2>2, <2>3, <2>4, <2>5, <2>6, StepCases
<1> QED BY <1>1, <1>2, TypeCorrect, StateIsHealths, TickSeesTheInput,
           EstimateStaysCoherent, PTL
        DEF OwnerSpec, ContractIsKept, Contract!Spec
=============================================================================
