---------------------------- MODULE MCChatSession ----------------------------
(* ChatSession on small sets.                                              *)
EXTENDS ChatSession, TLC

Symmetry == Permutations(Conversations) \cup Permutations(Texts)
=============================================================================
