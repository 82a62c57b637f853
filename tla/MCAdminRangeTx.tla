--------------------------- MODULE MCAdminRangeTx ---------------------------
(* AdminRangeTx on small sets, with their symmetry.                        *)
EXTENDS AdminRangeTx, TLC

Symmetry == Permutations(Members) \cup Permutations(Orgs) \cup Permutations(Txs)
=============================================================================
