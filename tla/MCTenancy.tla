----------------------------- MODULE MCTenancy -------------------------------
(* Tenancy on small sets.                                                  *)
EXTENDS Tenancy, TLC

Symmetry ==
    Permutations(Orgs) \cup Permutations(Docs) \cup Permutations(Titles)
      \cup Permutations(Hashes) \cup Permutations(Requests)
=============================================================================
