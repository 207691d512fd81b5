----------------------------- MODULE MCEventBus -----------------------------
(***************************************************************************)
(* Instances of EventBus for TLC, with the invariant its proofs rest on.   *)
(***************************************************************************)
EXTENDS EventBusProofs, TLC

=============================================================================
