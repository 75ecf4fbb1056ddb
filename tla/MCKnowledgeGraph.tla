-------------------------- MODULE MCKnowledgeGraph --------------------------
(* Model values for the configuration of KnowledgeGraph; all entities are of *)
(* one type.  The run checks invariants only, so symmetry is sound.          *)
EXTENDS KnowledgeGraph, TLC
CONSTANTS e1, e2, e3, r1, r2, owns, person, m1, m2, v1

MCTypeOf == [e \in Entity |-> person]

(* Words 2: a variant of 3, 3, and 4: a legal suffix, which persons keep.     *)
MCSpelling == 2 :> 3

MCSymmetry == Permutations(Entity) \cup Permutations(Relationship) \cup Permutations(Merger)
=============================================================================
