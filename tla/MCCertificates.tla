--------------------------- MODULE MCCertificates ---------------------------
(***************************************************************************)
(* Small instances of Certificates for TLC: lists shorter than a chunk,    *)
(* longer than one, with and without a remainder, and of more pages than   *)
(* certificates.                                                           *)
(***************************************************************************)
EXTENDS Certificates

SmallLists == {<< >>, <<0>>, <<6, 0>>, <<0, 1, 0>>, <<5, 0, 0, 6, 0>>}

=============================================================================
