------------------------ MODULE MCDataForestRotation ------------------------
(***************************************************************************)
(* Instances of DataForestRotation for TLC: a Seed with one address and a  *)
(* provider that can hand out two more.                                    *)
(***************************************************************************)
EXTENDS DataForestRotation, TLC

CONSTANTS o, n1, n2

Handed == {n1, n2}

=============================================================================
