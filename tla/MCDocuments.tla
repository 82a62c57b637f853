----------------------------- MODULE MCDocuments -----------------------------
(* Documents on small sets.                                                *)
EXTENDS Documents, TLC

Symmetry ==
    Permutations(Docs) \cup Permutations(Contents) \cup Permutations(Exts)
      \cup Permutations(Requests)
=============================================================================
