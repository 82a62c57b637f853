-------------------------- MODULE MCMembershipCache --------------------------
(* MembershipCache on small sets, with the symmetry of its requests.       *)
EXTENDS MembershipCache, TLC

Symmetry == Permutations(Readers) \cup Permutations(Writers)
=============================================================================
