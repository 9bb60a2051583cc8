----------------------------- MODULE GoldPublication -----------------------------
(***************************************************************************)
(* What the release marker promises to the readers of Gold                 *)
(* (control/gold_releases.py: "atomically publish and resolve version-     *)
(* pinned Gold snapshots").  Of each source table a release shows a prefix *)
(* of its events, one that is no shorter than the prefix it claims to have *)
(* consumed.  A publication replaces the whole release in one step, and no *)
(* table goes back.  Between publications a release never changes, whatever*)
(* is written to the tables.                                               *)
(***************************************************************************)
EXTENDS Integers

CONSTANTS Tables,    \* the source tables
          Nothing    \* nothing has been published

VARIABLES source,    \* events committed in each source table
          release    \* per table, the events claimed and the events shown

vars == <<source, release>>

Prefixes == [Tables -> Nat]

Init == source = [t \in Tables |-> 0] /\ release = Nothing

Commit(t) ==
    /\ source' = [source EXCEPT ![t] = @ + 1]
    /\ UNCHANGED release

Publish ==
    /\ release' \in [claimed : Prefixes, shown : Prefixes]
    /\ \A t \in Tables : release'.claimed[t] <= release'.shown[t] /\ release'.shown[t] <= source[t]
    /\ release # Nothing => \A t \in Tables : release.shown[t] <= release'.shown[t]
    /\ UNCHANGED source

Next == (\E t \in Tables : Commit(t)) \/ Publish

Spec == Init /\ [][Next]_vars

================================================================================
