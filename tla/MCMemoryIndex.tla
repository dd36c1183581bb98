--------------------------- MODULE MCMemoryIndex ----------------------------
(* Small instances of MemoryIndex for TLC. *)
EXTENDS MemoryIndex, TLC

\* Memory ids and tasks are interchangeable.
Symmetry == Permutations(Memories) \cup Permutations(Tasks)
=============================================================================
