----------------------------- MODULE MCUnifiedSilver -----------------------------
(* Instances of UnifiedSilver for TLC: the cfg files give the bounds.  The keys *)
(* of a table are interchangeable.                                              *)
EXTENDS UnifiedSilver, TLC

Symmetry == Permutations(Keys)

================================================================================
