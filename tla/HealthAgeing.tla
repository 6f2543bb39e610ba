---------------------------- MODULE HealthAgeing ----------------------------
(***************************************************************************)
(* The health of one input snapshot as nothing but time passes: the idle   *)
(* turns of the owner, which evaluate the same snapshot at later and later *)
(* clock readings.  README.md's table of classification rules serves as    *)
(* the reference for classify().                                           *)
(***************************************************************************)
EXTENDS HealthChecks

CONSTANTS
  Snapshots,   \* the inputs considered
  Horizon      \* bound: the last reading of the clock

ASSUME AgeingAssumption == Snapshots \subseteq Input /\ Horizon \in Nat

VARIABLES input, clock
vars == <<input, clock>>

Init == input \in Snapshots /\ clock = 0

Age == /\ clock < Horizon
       /\ clock' = clock + 1
       /\ UNCHANGED input

Next == Age
Spec == Init /\ [][Next]_vars

health == classify(input, clock)

-----------------------------------------------------------------------------
(* The reference: README.md:153-163, one entry per row of the table. *)
Row(n) ==
  LET s == input.samples IN
  CASE n = 1 -> \E t \in Topics : ~s[t].received
    [] n = 2 -> \/ input.batch_time_jump
                \/ \E t \in Topics : \/ s[t].stamp - clock > FutureTolerance
                                     \/ s[t].period + BackwardTolerance < 0
    [] n = 3 -> \E t \in Topics : clock > s[t].stamp + SampleTimeout
    [] n = 4 -> \E t \in Topics : s[t].period > LowRatePeriod
    [] n = 5 -> \/ \E t \in Topics : s[t].value = "nonfinite"
                \/ s["normalized_thrust"].value \in {"low", "excess"}
                \/ input.thrust_ignored
    [] n = 6 -> s["altitude"].value = "low"
    [] n = 7 -> TRUE

RowCondition(n) == IF n = 7 THEN "EstimationReady"
                   ELSE IF n = 6 THEN "BelowMinAltitude" ELSE "InputUnhealthy"

RowFlags == << {"ImuMissing", "ThrustMissing", "AltitudeMissing"}, {"TimeJump"},
               {"ImuStale", "ThrustStale", "AltitudeStale"}, {"InputRateLow"},
               {"ImuInvalid", "ThrustInvalid", "AltitudeInvalid"},
               {"BelowMinAltitude"}, {} >>

FirstRow == CHOOSE n \in 1..7 : Row(n) /\ \A m \in 1..(n - 1) : ~Row(m)

\* The rows whose flags may be raised with row n: staleness and a low rate, two
\* rows of the table, are one tier of the code.
RowsRaisedWith(n) == IF n = 3 THEN {3, 4} ELSE {n}

\* README.md:125: "The first matching condition determines the health condition
\* and the flags published with the output".  The condition is that of the first
\* row of the table that holds, one of the row's flags is raised when it has any,
\* no other row's is, except a low rate beside staleness, and readiness comes with
\* its stamp.
ConditionOfFirstRow ==
  /\ health.condition = RowCondition(FirstRow)
  /\ (health.flags \cap RowFlags[FirstRow] = {}) <=> (FirstRow = 7)
  /\ health.flags \subseteq UNION {RowFlags[n] : n \in RowsRaisedWith(FirstRow)}
  /\ health.ready <=> FirstRow = 7
  /\ health.source_stamp = IF FirstRow = 7
       THEN input.samples["normalized_thrust"].stamp ELSE 0

\* A snapshot that is late stays late: waiting never makes it healthy again, nor
\* takes back a stale flag.
LateIsForGood ==
  [][LateFlags(input, clock) # {} /\ "TimeJump" \notin health.flags
       => /\ health'.condition = health.condition
          /\ health.flags \subseteq health'.flags]_vars

\* Time alone changes the condition at two kinds of instants: when a sample from
\* the future is no longer one, and one tick past some sample's timeout, which is
\* the wake nextWake() asks for.  It never brings up a clock fault.
AgeingEdges ==
  [][/\ "TimeJump" \in health'.flags => "TimeJump" \in health.flags
     /\ health'.condition # health.condition
          => \/ "TimeJump" \in health.flags
             \/ /\ health'.condition = "InputUnhealthy"
                /\ \E t \in Topics :
                     clock' = input.samples[t].stamp + SampleTimeout + 1]_vars
=============================================================================
