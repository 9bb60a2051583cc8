------------------------------ MODULE MCGoldRelease ------------------------------
(* Finite instances of GoldRelease: the bounds are in the .cfg files.       *)
EXTENDS GoldRelease

================================================================================
