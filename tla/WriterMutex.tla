------------------------------ MODULE WriterMutex ------------------------------
(***************************************************************************)
(* What the shared writer lock promises to the jobs that publish Silver    *)
(* and Gold: configs/base.yaml says that it "serializes Silver/Gold        *)
(* publication", so at any time at most one job is inside.                 *)
(***************************************************************************)

CONSTANT Jobs        \* the batch, stream and repair jobs that may publish

VARIABLE inside      \* the jobs that are between acquiring and releasing

TypeOK == inside \subseteq Jobs

Init == inside = {}

(* A job enters only while nobody is inside. *)
Enter(j) == inside = {} /\ inside' = {j}

(* A job leaves, by finishing or by dying. *)
Leave(j) == j \in inside /\ inside' = inside \ {j}

Next == \E j \in Jobs : Enter(j) \/ Leave(j)

Spec == Init /\ [][Next]_inside

================================================================================
