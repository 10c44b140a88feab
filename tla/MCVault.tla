------------------------------- MODULE MCVault -------------------------------
(***************************************************************************)
(* A small instance of Vault: two keypairs, two passwords, one hex key,    *)
(* and every sequence of MaxOps operations.                                *)
(***************************************************************************)
EXTENDS Vault, TLC

Symmetric == Permutations(Keys) \cup Permutations(Passwords)
=============================================================================
