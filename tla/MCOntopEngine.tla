--------------------------- MODULE MCOntopEngine ---------------------------
(* Two sessions that write the same rows, and two workers.                   *)
EXTENDS OntopEngine, TLC

MCSymmetry == Permutations(Sessions) \cup Permutations(Workers) \cup Permutations(Rows)
=============================================================================
