---------------------------- MODULE MCGeneration ----------------------------
(* Generation on small instances.                                          *)
EXTENDS Generation, TLC

\* Projects, request slots and rollback slots are interchangeable.
Symmetry == Permutations(Project) \cup Permutations(Run) \cup Permutations(Undo)
=============================================================================
