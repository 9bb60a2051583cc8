------------------------------ MODULE PipelineLock ------------------------------
(***************************************************************************)
(* The Delta-backed writer lock of control/cloud_lock.py.  The lock is one *)
(* row of a Delta table.  A contender runs a MERGE that inserts the row if *)
(* it is absent and overwrites it if it has expired, reads the row back    *)
(* and enters when the row carries its own uuid; otherwise it sleeps and   *)
(* tries again until its deadline.  The row is never renewed while the     *)
(* body runs, and the exit deletes it only if it still carries the uuid.   *)
(*                                                                         *)
(* Time is counted in polls (the five seconds the retry loop sleeps).  The *)
(* row's expires_at is kept as the polls it has left, so that time has no  *)
(* bound.  A uuid is an identifier no live contender and no row carries.   *)
(***************************************************************************)
EXTENDS Naturals

CONSTANTS Jobs,      \* the jobs that use the lock
          OwnerIds,  \* the owner_id values uuid4 can produce
          NoOwner,   \* no owner_id: an idle job, an absent row
          TTL,       \* cloud_lock_ttl_seconds, in polls
          LockWait,  \* lock_wait_seconds, in polls
          MaxHold    \* the longest a body runs under the lock, in polls

ASSUME PipelineLockAssumption ==
    /\ TTL \in Nat \ {0}
    /\ LockWait \in Nat
    /\ MaxHold \in Nat
    /\ NoOwner \notin OwnerIds

(* The acquisition and the body together fit in the time to live. *)
SafeTiming == LockWait + 1 + MaxHold < TTL

VARIABLES phase,     \* where each job is in cloud_pipeline_lock
          owner,     \* the owner_id of its current acquisition
          waited,    \* polls since it started to acquire
          held,      \* polls since it entered the body
          lease      \* the row: its owner and the polls it has left

vars == <<phase, owner, waited, held, lease>>

Phases == {"idle", "merge", "readback", "decide", "sleep", "held"}
Acquiring == {"merge", "readback", "decide", "sleep"}

TypeOK ==
    /\ phase \in [Jobs -> Phases]
    /\ owner \in [Jobs -> OwnerIds \cup {NoOwner}]
    /\ waited \in [Jobs -> 0..(LockWait + 1)]
    /\ held \in [Jobs -> 0..MaxHold]
    /\ lease \in [owner : OwnerIds \cup {NoOwner}, left : 0..TTL]

NoLease == [owner |-> NoOwner, left |-> 0]

Init ==
    /\ phase = [j \in Jobs |-> "idle"]
    /\ owner = [j \in Jobs |-> NoOwner]
    /\ waited = [j \in Jobs |-> 0]
    /\ held = [j \in Jobs |-> 0]
    /\ lease = NoLease

--------------------------------------------------------------------------------
(* Operators named Bug... are variants of the operator that follows them,   *)
(* each with one plausible mistake; no action uses them.                    *)

(* No expiry condition on whenMatchedUpdate. *)
BugTakeableAlways == TRUE

(* The MERGE may write the row: it is absent or target.expires_at <= now. *)
Takeable == lease.owner = NoOwner \/ lease.left = 0

(* uuid4: an identifier carried by no job and by no row. *)
Fresh(id) == id # lease.owner /\ \A k \in Jobs : owner[k] # id

(* The job stops using the lock, without touching the row. *)
Abandon(j) ==
    /\ phase' = [phase EXCEPT ![j] = "idle"]
    /\ owner' = [owner EXCEPT ![j] = NoOwner]
    /\ UNCHANGED <<waited, held>>

Request(j) ==
    /\ phase[j] = "idle"
    /\ \E id \in OwnerIds : Fresh(id) /\ owner' = [owner EXCEPT ![j] = id]
    /\ phase' = [phase EXCEPT ![j] = "merge"]
    /\ waited' = [waited EXCEPT ![j] = 0]
    /\ held' = [held EXCEPT ![j] = 0]
    /\ UNCHANGED lease

(* whenMatchedUpdate moves expires_at of a row that has not expired. *)
BugMergeRefreshesExpiry(j) ==
    /\ phase[j] = "merge"
    /\ phase' = [phase EXCEPT ![j] = "readback"]
    /\ lease' = [owner |-> IF Takeable THEN owner[j] ELSE lease.owner, left |-> TTL]
    /\ UNCHANGED <<owner, waited, held>>

(* One optimistic Delta commit: insert, take over, or leave the row alone. *)
LeaseMerge(j) ==
    /\ phase[j] = "merge"
    /\ phase' = [phase EXCEPT ![j] = "readback"]
    /\ lease' = IF Takeable THEN [owner |-> owner[j], left |-> TTL] ELSE lease
    /\ UNCHANGED <<owner, waited, held>>

(* A concurrent-modification error in the MERGE or in the read that follows. *)
Conflict(j) ==
    /\ phase[j] \in {"merge", "readback"}
    /\ phase' = [phase EXCEPT ![j] = "decide"]
    /\ UNCHANGED <<owner, waited, held, lease>>

(* The body is entered when the MERGE succeeded, whoever owns the row. *)
BugReadBackUnchecked(j) ==
    /\ phase[j] = "readback"
    /\ phase' = [phase EXCEPT ![j] = IF lease.owner # NoOwner THEN "held" ELSE "decide"]
    /\ UNCHANGED <<owner, waited, held, lease>>

ReadBack(j) ==
    /\ phase[j] = "readback"
    /\ phase' = [phase EXCEPT ![j] = IF lease.owner = owner[j] THEN "held" ELSE "decide"]
    /\ UNCHANGED <<owner, waited, held, lease>>

(* No deadline. *)
BugRetryForever(j) ==
    /\ phase[j] = "decide"
    /\ phase' = [phase EXCEPT ![j] = "sleep"]
    /\ UNCHANGED <<owner, waited, held, lease>>

Retry(j) ==
    /\ phase[j] = "decide"
    /\ waited[j] < LockWait
    /\ phase' = [phase EXCEPT ![j] = "sleep"]
    /\ UNCHANGED <<owner, waited, held, lease>>

(* PipelineLockUnavailable after the deadline; the row is left as it is. *)
TimeOut(j) ==
    /\ phase[j] = "decide"
    /\ waited[j] >= LockWait
    /\ Abandon(j)
    /\ UNCHANGED lease

(* Any other error while acquiring: raised at once, a row of its own included. *)
AcquireError(j) ==
    /\ phase[j] \in {"merge", "readback"}
    /\ Abandon(j)
    /\ UNCHANGED lease

(* The DELETE has no owner_id condition. *)
BugReleaseAnyRow(j) ==
    /\ phase[j] = "held"
    /\ lease' = NoLease
    /\ Abandon(j)

(* The finally block deletes the row with this lock_name and this owner_id. *)
Release(j) ==
    /\ phase[j] = "held"
    /\ lease' = IF lease.owner = owner[j] THEN NoLease ELSE lease
    /\ Abandon(j)

(* The DELETE itself fails: the job ends and the row stays until it expires. *)
ReleaseError(j) ==
    /\ phase[j] = "held"
    /\ Abandon(j)
    /\ UNCHANGED lease

(* The driver dies; nothing is cleaned up. *)
Crash(j) ==
    /\ phase[j] # "idle"
    /\ Abandon(j)
    /\ UNCHANGED lease

(* Environment assumption: bodies end within MaxHold polls and the attempt  *)
(* that runs past the deadline is over one poll after it.                   *)
OnTime(j) ==
    /\ phase[j] = "held" => held[j] < MaxHold
    /\ phase[j] \in Acquiring => waited[j] <= LockWait

(* The remaining time is not compared with zero. *)
BugTickPastZero ==
    /\ \A j \in Jobs : OnTime(j)
    /\ lease' = [lease EXCEPT !.left = @ - 1]
    /\ UNCHANGED <<phase, owner, waited, held>>

Tick ==
    /\ \A j \in Jobs : OnTime(j)
    /\ lease' = [lease EXCEPT !.left = IF @ = 0 THEN 0 ELSE @ - 1]
    /\ waited' = [j \in Jobs |-> IF phase[j] \in Acquiring THEN waited[j] + 1 ELSE waited[j]]
    /\ held' = [j \in Jobs |-> IF phase[j] = "held" THEN held[j] + 1 ELSE held[j]]
    /\ phase' = [j \in Jobs |-> IF phase[j] = "sleep" THEN "merge" ELSE phase[j]]
    /\ UNCHANGED owner

--------------------------------------------------------------------------------
Attempt(j) == LeaseMerge(j) \/ ReadBack(j) \/ Retry(j) \/ TimeOut(j)

JobStep(j) ==
    \/ Request(j) \/ Attempt(j) \/ Conflict(j) \/ AcquireError(j)
    \/ Release(j) \/ ReleaseError(j) \/ Crash(j)

Next == Tick \/ \E j \in Jobs : JobStep(j)

Spec == Init /\ [][Next]_vars

(* The loop of a live contender runs on, bodies end, and time passes. *)
Fairness ==
    /\ WF_vars(Tick)
    /\ \A j \in Jobs : WF_vars(Attempt(j)) /\ WF_vars(Release(j))

FairSpec == Spec /\ Fairness

--------------------------------------------------------------------------------
Holders == {j \in Jobs : phase[j] = "held"}

(* No two jobs publish Silver or Gold at the same time: the claim of        *)
(* configs/base.yaml about cloud_pipeline_lock.                             *)
MutualExclusion == \A j, k \in Holders : j = k

(* cloud_pipeline_lock implements the abstract writer lock. *)
Mutex == INSTANCE WriterMutex WITH inside <- Holders
ImplementsMutex == Mutex!Spec

(* A row that has not expired disappears or changes hands only when the job *)
(* that wrote it leaves its body: neither a contender, nor a waiter that    *)
(* gives up, nor a holder whose own row was taken over ends it (the         *)
(* owner_id condition of the final DELETE and the expiry condition of the   *)
(* MERGE).                                                                  *)
LiveLeaseEndedByOwner ==
    [][ lease.owner # NoOwner /\ lease.left > 0 /\ lease'.owner # lease.owner
        => \E j \in Holders : owner[j] = lease.owner /\ j \notin Holders' ]_vars

(* A contender does not wait forever: it enters, is refused or fails (the   *)
(* deadline of the retry loop).                                             *)
ContenderAnswered == \A j \in Jobs : phase[j] = "merge" ~> phase[j] \in {"held", "idle"}

(* A row whose job is gone (crash, failed DELETE, error after the MERGE)    *)
(* blocks nobody forever: it expires, whatever the contenders do.           *)
Orphaned == lease.owner # NoOwner /\ \A j \in Jobs : owner[j] # lease.owner
OrphanExpires == Orphaned ~> (~Orphaned \/ lease.left = 0)

================================================================================
