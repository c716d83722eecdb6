-------------------------- MODULE MCHcloudRotation --------------------------
(***************************************************************************)
(* Instances of HcloudRotation for TLC: one or two transactions, their two *)
(* addresses each and one address left over from an earlier rotation.      *)
(***************************************************************************)
EXTENDS HcloudRotation, TLC

CONSTANTS t1, t2, o1, o2, n1, n2, left

OldAddresses == (t1 :> o1) @@ (t2 :> o2)
NewAddresses == (t1 :> n1) @@ (t2 :> n2)

OldOf1 == t1 :> o1
NewOf1 == t1 :> n1

=============================================================================
