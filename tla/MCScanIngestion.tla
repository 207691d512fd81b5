--------------------------- MODULE MCScanIngestion ---------------------------
(***************************************************************************)
(* Instances of ScanIngestion for TLC, with the invariant its proofs rest  *)
(* on.                                                                     *)
(***************************************************************************)
EXTENDS ScanIngestionProofs, TLC

=============================================================================
