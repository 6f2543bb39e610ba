------------------------------- MODULE MCNode -------------------------------
(* Messages for HoverThrustNode. *)
EXTENDS HoverThrustNode

Stamped(value) == [value |-> value, ignored |-> FALSE, stamped |-> TRUE]
Unstamped(value) == [Stamped(value) EXCEPT !.stamped = FALSE]

FlightMessages ==
  [imu_acc_z |-> {Stamped("usable")},
   normalized_thrust |-> {Unstamped("usable")},
   altitude |-> {Stamped("usable")}]

NoBatches == {}
=============================================================================
