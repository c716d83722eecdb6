-------------------------- MODULE MCCloudflareDns ---------------------------
(***************************************************************************)
(* Instances of CloudflareDns for TLC: two accounts whose tokens overlap   *)
(* in one record, each with a record of its own.                           *)
(***************************************************************************)
EXTENDS CloudflareDns, TLC

CONSTANTS a1, both, a2

TwoAccounts == {1, 2}
Overlap     == (1 :> {a1, both}) @@ (2 :> {both, a2})
FirstNamed  == (1 :> {a1}) @@ (2 :> {})

=============================================================================
