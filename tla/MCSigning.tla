------------------------------ MODULE MCSigning ------------------------------
(***************************************************************************)
(* A small instance of Signing: two transactions, two files, and a clock   *)
(* set to and fro between two milliseconds of one second.                  *)
(***************************************************************************)
EXTENDS Signing, TLC

Symmetric == Permutations(Xdrs) \cup Permutations(Paths)
=============================================================================
