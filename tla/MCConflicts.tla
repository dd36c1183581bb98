---------------------------- MODULE MCConflicts -----------------------------
(* Small instances of Conflicts for TLC. *)
EXTENDS Conflicts, TLC

\* Two claims that contradict each other where their scopes meet.
MCClaims == {[scope |-> {"s"}, object |-> "x"],
             [scope |-> {"s", "t"}, object |-> "y"]}

\* One scope: three claims that contradict one another.
MCOneScope == {[scope |-> {"s"}, object |-> o] : o \in {"x", "y", "z"}}

\* Calls of resolve_conflict are interchangeable.
Symmetry == Permutations(Resolvers)
=============================================================================
