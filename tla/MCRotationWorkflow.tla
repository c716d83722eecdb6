------------------------- MODULE MCRotationWorkflow -------------------------
(***************************************************************************)
(* Instances of RotationWorkflow for TLC.                                  *)
(***************************************************************************)
EXTENDS RotationWorkflow, TLC

CONSTANTS b1, b2

=============================================================================
