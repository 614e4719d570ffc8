----------------------- MODULE MCKnowledgePublication -----------------------
(* Instances of KnowledgePublication for TLC. *)
EXTENDS KnowledgePublication, TLC

Symmetry == Permutations(Drafts) \cup Permutations(Builds) \cup Permutations(Sources)
=============================================================================
