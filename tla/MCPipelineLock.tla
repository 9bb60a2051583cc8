----------------------------- MODULE MCPipelineLock -----------------------------
(* Instances of PipelineLock for TLC: the timings are in the cfg files.  Jobs *)
(* and owner ids are interchangeable, which the safety runs use.              *)
EXTENDS PipelineLock, TLC

Symmetry == Permutations(Jobs) \cup Permutations(OwnerIds)

================================================================================
