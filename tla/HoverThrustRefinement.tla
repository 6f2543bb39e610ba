------------------------ MODULE HoverThrustRefinement ------------------------
(***************************************************************************)
(* HoverThrustRuntime implements EstimatorContract.  The contract's one    *)
(* estimate is the least squares' own; that output model and snapshot show *)
(* the same number is what has to be shown.                                *)
(***************************************************************************)
EXTENDS HoverThrustRuntime

ShownSnapshot ==
  [state |-> last_output.state, flags |-> last_output.flags,
   hover_thrust |-> last_output.hover_thrust,
   raw_hover_thrust |-> last_output.raw_hover_thrust,
   sample_used |-> last_output.sample_used,
   last_estimate_stamp |-> last_output.last_estimate_stamp]

Contract == INSTANCE EstimatorContract WITH
  Thrusts  <- HoverThrusts,
  Initial  <- InitialHoverThrust,
  state    <- machine.state,
  raw      <- estimator.raw,
  stamp    <- estimator.last_time,
  target   <- output_model.target,
  thrust   <- output_model.hover_thrust,
  snapshot <- ShownSnapshot

\* Every behaviour of the runtime, the batch helper included, is one of the
\* contract: whatever a batch does to the state, the snapshot shows the state
\* the machine is in, flags that go with it, the one estimate there is with the
\* stamp it was made from, and a thrust between the last one and the target.
ContractIsKept == Contract!Spec
=============================================================================
