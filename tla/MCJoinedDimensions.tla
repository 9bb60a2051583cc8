--------------------------- MODULE MCJoinedDimensions ---------------------------
(* Finite instances of JoinedDimensions: the names and the categories are   *)
(* interchangeable.                                                         *)
EXTENDS JoinedDimensions, TLC

Symmetry == Permutations(Names) \cup Permutations(Categories)

================================================================================
