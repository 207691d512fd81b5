--------------------------- MODULE MCCasePipeline ---------------------------
(***************************************************************************)
(* Instances of CasePipeline for TLC.                                      *)
(***************************************************************************)
EXTENDS CasePipelineProofs, TLC

\* Cases are interchangeable: no action or invariant names one.
CaseSymmetry == Permutations(Case)

=============================================================================
