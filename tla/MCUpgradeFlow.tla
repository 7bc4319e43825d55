---------------------------- MODULE MCUpgradeFlow ----------------------------
(***************************************************************************)
(* Small instances of UpgradeFlow for TLC.                                 *)
(***************************************************************************)
EXTENDS UpgradeFlow, TLC

Symmetry == Permutations(Requests)

=============================================================================
