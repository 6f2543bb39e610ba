----------------------------- MODULE MCRuntime -----------------------------
(***************************************************************************)
(* Values for the constants of HoverThrustRuntime that a configuration     *)
(* file cannot write.  A sample that ROS delivers is stamped by the clock  *)
(* it is evaluated at (hover_thrust_input_producer.cpp passes one number   *)
(* for both); an embedded caller may pass any two.                         *)
(***************************************************************************)
EXTENDS HoverThrustRefinement

Stamped(value, stamp, now) ==
  [value |-> value, ignored |-> FALSE, stamp |-> stamp, now |-> now]
RosStamped(value, stamps) == {Stamped(value, s, s) : s \in stamps}
Ignored(stamps) == {[a EXCEPT !.ignored = TRUE] : a \in RosStamped("usable", stamps)}

\* Clock faults: usable samples that arrive in any order of their stamps, and
\* one thrust sample that arrives late.
ClockArrivals ==
  [imu_acc_z |-> RosStamped("usable", 1..4),
   normalized_thrust |-> RosStamped("usable", {1, 2, 4}) \cup {Stamped("usable", 1, 3)},
   altitude |-> RosStamped("usable", {2})]

\* The same without the late sample: what ROS delivers.
RosArrivals ==
  [ClockArrivals EXCEPT !["normalized_thrust"] = RosStamped("usable", {1, 2, 4})]

\* Value faults: every class of value.
ValueArrivals ==
  [imu_acc_z |-> RosStamped("usable", {1}) \cup RosStamped("nonfinite", {2}),
   normalized_thrust |-> RosStamped("usable", {1, 2})
                           \cup RosStamped("excess", {2}) \cup Ignored({2}),
   altitude |-> RosStamped("usable", {2}) \cup RosStamped("low", {2})]

Batch(stamp, altitude) ==
  [samples |-> [t \in Topics |->
      [value |-> IF t = "altitude" THEN altitude ELSE "usable",
       stamp |-> stamp, period |-> 0, received |-> TRUE]],
   thrust_ignored |-> FALSE, batch_time_jump |-> FALSE]

NoBatches == {}
ReadyBatches == {Batch(1, "usable"), Batch(2, "usable")}
=============================================================================
