---------------------------- MODULE MCR2Multipart ----------------------------
(* R2Multipart on small sets.                                              *)
EXTENDS R2Multipart, TLC

Symmetry == Permutations(Uploads)
=============================================================================
