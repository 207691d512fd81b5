--------------------------- MODULE MCOperatorView ---------------------------
(***************************************************************************)
(* Instances of OperatorView for TLC.                                      *)
(***************************************************************************)
EXTENDS OperatorView, TLC

=============================================================================
