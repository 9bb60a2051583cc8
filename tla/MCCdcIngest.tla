------------------------------ MODULE MCCdcIngest ------------------------------
(* Finite instances of CdcIngest: the typed tables are interchangeable.       *)
EXTENDS CdcIngest, TLC

Symmetry == Permutations(Tables)

================================================================================
