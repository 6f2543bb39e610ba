---------------------------- MODULE HealthChecks ----------------------------
(***************************************************************************)
(* health_checks::classify of common/health_checks.h: the health of an     *)
(* input snapshot at one instant.  The three tests of sample timing come   *)
(* from xgc2_math and are modelled from their use here.                    *)
(***************************************************************************)
EXTENDS HoverThrustTypes

sampleTimeJumped(now, sample) ==
  \/ sample.stamp > now + FutureTolerance
  \/ sample.period < -BackwardTolerance

sampleStale(now, sample) == now - sample.stamp > SampleTimeout

sampleRateLow(sample) == sample.received /\ sample.period > LowRatePeriod

finite(sample) == sample.value # "nonfinite"

-----------------------------------------------------------------------------
MissingFlags(input) ==
  {MissingFlag[t] : t \in {u \in Topics : ~input.samples[u].received}}

\* Mutants: the fault of an earlier sample of the batch is not looked at; the
\* test of the stamp against the clock is symmetric; a sample that moved back is
\* left to the batch's flag.
TimeJumped_latestOnly(input, now) ==
  \E t \in Topics : sampleTimeJumped(now, input.samples[t])
TimeJumped_symmetric(input, now) ==
  \/ input.batch_time_jump
  \/ \E t \in Topics : \/ sampleTimeJumped(now, input.samples[t])
                       \/ input.samples[t].stamp < now - SampleTimeout - FutureTolerance
TimeJumped_stampsOnly(input, now) ==
  \/ input.batch_time_jump
  \/ \E t \in Topics : input.samples[t].stamp > now + FutureTolerance

TimeJumped(input, now) ==
  \/ input.batch_time_jump
  \/ \E t \in Topics : sampleTimeJumped(now, input.samples[t])

\* Mutants: the rate is looked at only when nothing is stale, or not at all.
LateFlags_oneTier(input, now) ==
  LET stale == {u \in Topics : sampleStale(now, input.samples[u])} IN
  IF stale # {} THEN {StaleFlag[t] : t \in stale}
  ELSE {f \in {"InputRateLow"} : \E t \in Topics : sampleRateLow(input.samples[t])}
LateFlags_staleOnly(input, now) ==
  {StaleFlag[t] : t \in {u \in Topics : sampleStale(now, input.samples[u])}}

LateFlags(input, now) ==
  {StaleFlag[t] : t \in {u \in Topics : sampleStale(now, input.samples[u])}}
    \cup {f \in {"InputRateLow"} : \E t \in Topics : sampleRateLow(input.samples[t])}

\* Mutant: an ignored thrust counts like any other.
InvalidTopics_thrustNeverIgnored(input) ==
  {t \in {"imu_acc_z", "altitude"} : ~finite(input.samples[t])}
    \cup {t \in {"normalized_thrust"} : input.samples[t].value # "usable"}

InvalidTopics(input) ==
  {t \in {"imu_acc_z", "altitude"} : ~finite(input.samples[t])}
    \cup {t \in {"normalized_thrust"} :
            input.thrust_ignored \/ input.samples[t].value # "usable"}

InvalidFlags(input) == {InvalidFlag[t] : t \in InvalidTopics(input)}

unhealthy(flags) == [NoHealth EXCEPT !.flags = flags]

\* The first tier of faults that is not empty decides, and only its flags
\* are raised.
classify(input, now) ==
  IF MissingFlags(input) # {} THEN unhealthy(MissingFlags(input))
  ELSE IF TimeJumped(input, now) THEN unhealthy({"TimeJump"})
  ELSE IF LateFlags(input, now) # {} THEN unhealthy(LateFlags(input, now))
  ELSE IF InvalidFlags(input) # {} THEN unhealthy(InvalidFlags(input))
  ELSE IF input.samples["altitude"].value = "low"
    THEN [unhealthy({"BelowMinAltitude"}) EXCEPT !.condition = "BelowMinAltitude"]
  ELSE [condition |-> "EstimationReady", flags |-> {}, ready |-> TRUE,
        source_stamp |-> input.samples["normalized_thrust"].stamp]
=============================================================================
