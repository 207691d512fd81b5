-------------------------- MODULE MCGpuOrchestrator --------------------------
(***************************************************************************)
(* Instances of GpuOrchestrator for TLC.                                   *)
(***************************************************************************)
EXTENDS GpuOrchestrator, TLC

=============================================================================
