----------------------------- MODULE MCSessions -----------------------------
(* Sessions on small sets, with the symmetry of requests.                  *)
EXTENDS Sessions, TLC

Symmetry == Permutations(Requests)
=============================================================================
