------------------------------ MODULE MCHealth ------------------------------
(* Snapshots for HealthAgeing: every class of sample, within small bounds. *)
EXTENDS HealthAgeing

Received(values, stamps, periods) ==
  [value : values, stamp : stamps, period : periods, received : {TRUE}]

SampleSnapshots ==
  [samples : [imu_acc_z : {NoSample} \cup Received({"usable", "nonfinite"}, {3, 4}, {-2, 0, 3}),
              normalized_thrust : {NoSample} \cup Received(Values, {2, 5}, {-1, 2}),
              altitude : {NoSample} \cup Received({"usable", "low", "nonfinite"}, {3, 6}, {0, 3})],
   thrust_ignored : BOOLEAN, batch_time_jump : BOOLEAN]
=============================================================================
