-------------------------- MODULE MCKnowledgeStore --------------------------
(***************************************************************************)
(* An instance of KnowledgeStore for TLC.                                  *)
(***************************************************************************)
EXTENDS KnowledgeStore, TLC

KeySymmetry == Permutations(Keys)
=============================================================================
