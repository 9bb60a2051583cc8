---------------------------- MODULE MCScd2Dimension ----------------------------
(* Finite instances of Scd2Dimension: attributes are interchangeable.      *)
EXTENDS Scd2Dimension, TLC

Symmetry == Permutations(Attrs)

================================================================================
