---------------------------- MODULE MCStellarAid ----------------------------
(***************************************************************************)
(* Small instances of StellarAid for TLC.  No action or property tells one *)
(* user from another, nor one asset from another.                          *)
(***************************************************************************)
EXTENDS StellarAid, TLC

CONSTANTS u1, u2, xlm, usdc

Users == {u1, u2}
Assets == {xlm, usdc}
Symmetry == Permutations(Users) \cup Permutations(Assets)

=============================================================================
