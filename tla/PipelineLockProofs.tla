--------------------------- MODULE PipelineLockProofs ---------------------------
(***************************************************************************)
(* What PipelineLock guarantees for every number of jobs and every timing. *)
(* Type correctness and the protection of a live row hold for every        *)
(* timing; mutual exclusion needs SafeTiming, because the row is never     *)
(* renewed: the time that a job has spent since its MERGE, and the time    *)
(* the row has left, always add up to the time to live.                    *)
(***************************************************************************)
EXTENDS PipelineLock, TLAPS

(* The row of a job that is still acquiring or inside its body has not run *)
(* out: what is left of it and what the job has spent make up TTL.         *)
RowAccounted(j) ==
    /\ lease.owner = owner[j] /\ phase[j] \in Acquiring => lease.left + waited[j] >= TTL
    /\ phase[j] = "held" =>
          /\ lease.owner = owner[j]
          /\ lease.left + waited[j] + held[j] >= TTL

(* An owner_id belongs to one job that is not idle. *)
OwnersDistinct ==
    /\ \A j \in Jobs : phase[j] # "idle" => owner[j] \in OwnerIds
    /\ \A j, k \in Jobs : phase[j] # "idle" /\ phase[k] # "idle" /\ owner[j] = owner[k] => j = k

LockInv ==
    /\ TypeOK
    /\ OwnersDistinct
    /\ \A j \in Jobs : RowAccounted(j)

--------------------------------------------------------------------------------
(* Every variable stays in its type, whatever the timing (cloud_pipeline_lock). *)
THEOREM TypeCorrect == Spec => []TypeOK
<1>. USE PipelineLockAssumption
<1>1. Init => TypeOK
  BY DEF Init, TypeOK, NoLease, Phases
<1>2. TypeOK /\ [Next]_vars => TypeOK'
  <2>. SUFFICES ASSUME TypeOK, [Next]_vars
                PROVE  TypeOK'
    OBVIOUS
  <2>. USE DEF TypeOK, Phases, Acquiring
  <2>1. CASE Tick
    <3>1. \A j \in Jobs : OnTime(j)
      BY <2>1 DEF Tick
    <3>2. phase' \in [Jobs -> Phases] /\ owner' \in [Jobs -> OwnerIds \cup {NoOwner}]
      BY <2>1 DEF Tick
    <3>3. waited' \in [Jobs -> 0..(LockWait + 1)]
      BY <2>1, <3>1 DEF Tick, OnTime
    <3>4. held' \in [Jobs -> 0..MaxHold]
      BY <2>1, <3>1 DEF Tick, OnTime
    <3>5. lease' \in [owner : OwnerIds \cup {NoOwner}, left : 0..TTL]
      BY <2>1 DEF Tick
    <3>. QED BY <3>2, <3>3, <3>4, <3>5
  <2>2. ASSUME NEW j \in Jobs, JobStep(j)
        PROVE  TypeOK'
    <3>1. CASE Request(j)
      BY <3>1 DEF Request
    <3>2. CASE LeaseMerge(j)
      BY <3>2 DEF LeaseMerge
    <3>3. CASE ReadBack(j) \/ Retry(j) \/ Conflict(j)
      BY <3>3 DEF ReadBack, Retry, Conflict
    <3>4. CASE TimeOut(j) \/ AcquireError(j) \/ ReleaseError(j) \/ Crash(j)
      BY <3>4 DEF TimeOut, AcquireError, ReleaseError, Crash, Abandon
    <3>5. CASE Release(j)
      BY <3>5 DEF Release, Abandon, NoLease
    <3>. QED BY <2>2, <3>1, <3>2, <3>3, <3>4, <3>5 DEF JobStep, Attempt
  <2>3. CASE UNCHANGED vars
    BY <2>3 DEF vars
  <2>. QED BY <2>1, <2>2, <2>3 DEF Next
<1>. QED BY <1>1, <1>2, PTL DEF Spec

--------------------------------------------------------------------------------
(* Under SafeTiming a row in use has not run out when anybody's MERGE runs. *)
LEMMA LiveRowIsNotTakeable ==
    ASSUME SafeTiming, LockInv, NEW j \in Jobs, phase[j] # "idle", lease.owner = owner[j]
    PROVE  ~Takeable
<1>1. lease.owner # NoOwner
  BY PipelineLockAssumption DEF LockInv, OwnersDistinct
<1>2. waited[j] \in 0..(LockWait + 1) /\ held[j] \in 0..MaxHold /\ lease.left \in 0..TTL
  BY DEF LockInv, TypeOK
<1>3. lease.left # 0
  BY <1>2, PipelineLockAssumption DEF LockInv, RowAccounted, SafeTiming, TypeOK, Phases, Acquiring
<1>. QED BY <1>1, <1>3 DEF Takeable

(* Every step keeps LockInv; only the MERGE of another job and the passage of *)
(* time could disturb the account of a row.                                   *)
LEMMA LockInvStep ==
    ASSUME SafeTiming, LockInv, TypeOK', [Next]_vars
    PROVE  LockInv'
<1>. USE PipelineLockAssumption
<1>t. TypeOK
  BY DEF LockInv
<1>1. CASE Tick
  <2>1. OwnersDistinct'
    BY <1>1, <1>t DEF LockInv, OwnersDistinct, Tick, TypeOK
  <2>2. ASSUME NEW j \in Jobs
        PROVE  RowAccounted(j)'
    <3>1. /\ waited[j] \in Nat /\ held[j] \in Nat /\ lease.left \in Nat /\ lease.owner' = lease.owner
          /\ owner'[j] = owner[j] /\ lease'.left = IF lease.left = 0 THEN 0 ELSE lease.left - 1
      BY <1>1, <1>t DEF Tick, TypeOK
    <3>2. phase[j] # "idle" /\ lease.owner = owner[j] => lease.left # 0
      BY LiveRowIsNotTakeable DEF Takeable
    <3>3. CASE phase[j] \in Acquiring
      <4>1. waited'[j] = waited[j] + 1 /\ phase'[j] \in Acquiring /\ phase'[j] # "held"
        BY <1>1, <1>t, <3>3 DEF Tick, TypeOK, Acquiring
      <4>. QED BY <3>1, <3>2, <3>3, <4>1 DEF LockInv, RowAccounted, Acquiring
    <3>4. CASE phase[j] = "held"
      <4>1. waited'[j] = waited[j] /\ held'[j] = held[j] + 1 /\ phase'[j] = "held"
        BY <1>1, <1>t, <3>4 DEF Tick, TypeOK, Acquiring
      <4>2. lease.owner = owner[j] /\ lease.left + waited[j] + held[j] >= TTL
        BY <3>4 DEF LockInv, RowAccounted
      <4>. QED BY <3>1, <3>2, <3>4, <4>1, <4>2 DEF RowAccounted, Acquiring
    <3>5. CASE phase[j] = "idle"
      <4>1. phase'[j] = "idle"
        BY <1>1, <1>t, <3>5 DEF Tick, TypeOK
      <4>. QED BY <4>1 DEF RowAccounted, Acquiring
    <3>. QED BY <1>t, <3>3, <3>4, <3>5 DEF TypeOK, Phases, Acquiring
  <2>. QED BY <2>1, <2>2 DEF LockInv
<1>2. ASSUME NEW j \in Jobs, JobStep(j)
      PROVE  LockInv'
  <2>1. CASE Request(j)
    <3>1. OwnersDistinct'
      BY <1>t, <2>1 DEF LockInv, OwnersDistinct, Request, Fresh, TypeOK
    <3>2. \A k \in Jobs : RowAccounted(k)'
      BY <1>t, <2>1 DEF LockInv, RowAccounted, Request, Fresh, TypeOK, Acquiring
    <3>. QED BY <3>1, <3>2 DEF LockInv
  <2>2. CASE LeaseMerge(j)
    <3>1. OwnersDistinct'
      BY <1>t, <2>2 DEF LockInv, OwnersDistinct, LeaseMerge, TypeOK
    <3>2. ASSUME NEW k \in Jobs
          PROVE  RowAccounted(k)'
      <4>1. phase'[j] = "readback" /\ (k # j => phase'[k] = phase[k]) /\ phase[j] = "merge"
        BY <1>t, <2>2 DEF LeaseMerge, TypeOK
      <4>2. CASE ~Takeable
        BY <1>t, <2>2, <4>1, <4>2 DEF LockInv, RowAccounted, LeaseMerge, TypeOK, Acquiring
      <4>3. CASE Takeable
        <5>1. lease'.owner = owner[j] /\ lease'.left = TTL /\ owner' = owner /\ waited' = waited
          BY <2>2, <4>3 DEF LeaseMerge
        <5>2. phase[k] # "held"
          BY <4>3, LiveRowIsNotTakeable DEF LockInv, RowAccounted
        <5>3. waited[k] \in Nat /\ phase'[k] # "held"
          BY <1>t, <4>1, <5>2 DEF TypeOK
        <5>. QED BY <5>1, <5>3 DEF RowAccounted
      <4>. QED BY <4>2, <4>3
    <3>. QED BY <3>1, <3>2 DEF LockInv
  <2>3. CASE ReadBack(j)
    <3>1. OwnersDistinct'
      BY <1>t, <2>3 DEF LockInv, OwnersDistinct, ReadBack, TypeOK
    <3>2. ASSUME NEW k \in Jobs
          PROVE  RowAccounted(k)'
      <4>1. /\ waited[k] \in Nat /\ held[k] \in Nat /\ lease.left \in Nat
            /\ k # j => phase'[k] = phase[k]
            /\ phase[j] = "readback"
            /\ phase'[j] = IF lease.owner = owner[j] THEN "held" ELSE "decide"
            /\ UNCHANGED <<owner, waited, held, lease>>
        BY <1>t, <2>3 DEF ReadBack, TypeOK
      <4>. QED BY <4>1 DEF LockInv, RowAccounted, Acquiring
    <3>. QED BY <3>1, <3>2 DEF LockInv
  <2>4. CASE Retry(j) \/ Conflict(j)
    <3>1. /\ OwnersDistinct'
          /\ \A k \in Jobs : RowAccounted(k)'
      BY <1>t, <2>4 DEF LockInv, OwnersDistinct, RowAccounted, Retry, Conflict, TypeOK, Acquiring
    <3>. QED BY <3>1 DEF LockInv
  <2>5. CASE TimeOut(j) \/ AcquireError(j) \/ ReleaseError(j) \/ Crash(j)
    <3>1. Abandon(j) /\ UNCHANGED lease
      BY <2>5 DEF TimeOut, AcquireError, ReleaseError, Crash
    <3>2. /\ OwnersDistinct'
          /\ \A k \in Jobs : RowAccounted(k)'
      BY <1>t, <3>1 DEF LockInv, OwnersDistinct, RowAccounted, Abandon, TypeOK, Acquiring
    <3>. QED BY <3>2 DEF LockInv
  <2>6. CASE Release(j)
    <3>1. OwnersDistinct'
      BY <1>t, <2>6 DEF LockInv, OwnersDistinct, Release, Abandon, TypeOK
    <3>2. ASSUME NEW k \in Jobs
          PROVE  RowAccounted(k)'
      <4>1. phase'[j] = "idle" /\ phase[j] = "held"
        BY <1>t, <2>6 DEF Release, Abandon, TypeOK
      <4>2. CASE k = j
        BY <4>1, <4>2 DEF RowAccounted, Acquiring
      <4>3. CASE k # j
        <5>1. /\ phase'[k] = phase[k] /\ owner'[k] = owner[k] /\ UNCHANGED <<waited, held>>
              /\ lease' = IF lease.owner = owner[j] THEN NoLease ELSE lease
          BY <1>t, <2>6, <4>3 DEF Release, Abandon, TypeOK
        <5>2. phase[k] # "idle" => owner[k] # owner[j] /\ owner[k] # NoOwner
          BY <4>1, <4>3 DEF LockInv, OwnersDistinct
        <5>. QED BY <5>1, <5>2 DEF LockInv, RowAccounted, NoLease, Acquiring
      <4>. QED BY <4>2, <4>3
    <3>. QED BY <3>1, <3>2 DEF LockInv
  <2>. QED BY <1>2, <2>1, <2>2, <2>3, <2>4, <2>5, <2>6 DEF JobStep, Attempt
<1>3. CASE UNCHANGED vars
  BY <1>3 DEF LockInv, vars, TypeOK, OwnersDistinct, RowAccounted
<1>. QED BY <1>1, <1>2, <1>3 DEF Next

(* LockInv holds in every state when the lease outlives every body. *)
LEMMA LockInvariant == ASSUME SafeTiming PROVE Spec => []LockInv
<1>1. Init => LockInv
  BY PipelineLockAssumption
     DEF Init, LockInv, TypeOK, Phases, NoLease, OwnersDistinct, RowAccounted, Acquiring
<1>2. LockInv /\ TypeOK' /\ [Next]_vars => LockInv'
  BY LockInvStep
<1>. QED BY <1>1, <1>2, TypeCorrect, PTL DEF Spec

--------------------------------------------------------------------------------
(* Two holders would both own the one row. *)
LEMMA OneHolder == LockInv => MutualExclusion
  BY DEF LockInv, MutualExclusion, Holders, RowAccounted, OwnersDistinct

(* If acquisition and body always fit in cloud_lock_ttl_seconds, no two jobs *)
(* are ever between the yield and the final DELETE at the same time.         *)
THEOREM LockExcludes == ASSUME SafeTiming PROVE Spec => []MutualExclusion
  BY LockInvariant, OneHolder, PTL

(* Under the same condition every step of the lock is a step of the abstract *)
(* writer lock, or invisible to it.                                          *)
THEOREM LockImplementsMutex == ASSUME SafeTiming PROVE Spec => ImplementsMutex
<1>1. Init => Mutex!Init
  BY DEF Init, Mutex!Init, Holders
<1>2. LockInv /\ [Next]_vars => [Mutex!Next]_Holders
  <2>. SUFFICES ASSUME LockInv, [Next]_vars
                PROVE  Mutex!Next \/ Holders' = Holders
    OBVIOUS
  <2>t. phase \in [Jobs -> Phases]
    BY DEF LockInv, TypeOK
  <2>1. CASE Tick
    BY <2>t, <2>1 DEF Tick, Holders
  <2>2. ASSUME NEW j \in Jobs, JobStep(j)
        PROVE  Mutex!Next \/ Holders' = Holders
    <3>1. CASE ReadBack(j)
      <4>1. CASE lease.owner = owner[j]
        <5>1. Holders = {}
          BY <3>1, <4>1 DEF ReadBack, LockInv, RowAccounted, OwnersDistinct, Holders
        <5>2. Holders' = {j}
          BY <2>t, <3>1, <4>1, <5>1 DEF ReadBack, Holders
        <5>. QED BY <5>1, <5>2 DEF Mutex!Next, Mutex!Enter
      <4>2. CASE lease.owner # owner[j]
        BY <2>t, <3>1, <4>2 DEF ReadBack, Holders
      <4>. QED BY <4>1, <4>2
    <3>2. CASE Release(j) \/ TimeOut(j) \/ AcquireError(j) \/ ReleaseError(j) \/ Crash(j)
      <4>1. Holders' = Holders \ {j}
        BY <2>t, <3>2 DEF Release, TimeOut, AcquireError, ReleaseError, Crash, Abandon, Holders
      <4>. QED BY <4>1 DEF Mutex!Next, Mutex!Leave
    <3>3. CASE Request(j) \/ LeaseMerge(j) \/ Conflict(j) \/ Retry(j)
      BY <2>t, <3>3 DEF Request, LeaseMerge, Conflict, Retry, Holders
    <3>. QED BY <2>2, <3>1, <3>2, <3>3 DEF JobStep, Attempt
  <2>3. CASE UNCHANGED vars
    BY <2>3 DEF vars, Holders
  <2>. QED BY <2>1, <2>2, <2>3 DEF Next
<1>. QED BY <1>1, <1>2, LockInvariant, PTL DEF Spec, ImplementsMutex, Mutex!Spec

(* Whatever the timing, a row that has not expired is taken from its owner    *)
(* only by that owner's own exit.                                             *)
THEOREM LiveLeaseProtected == Spec => LiveLeaseEndedByOwner
<1>. DEFINE Taken == lease.owner # NoOwner /\ lease.left > 0 /\ lease'.owner # lease.owner
            ByOwner == \E j \in Holders : owner[j] = lease.owner /\ j \notin Holders'
<1>1. TypeOK /\ [Next]_vars => [Taken => ByOwner]_vars
  <2>. SUFFICES ASSUME TypeOK, Next, Taken
                PROVE  ByOwner
    BY DEF vars
  <2>1. ~Tick
    BY DEF Tick, TypeOK
  <2>2. PICK j \in Jobs : JobStep(j)
    BY <2>1 DEF Next
  <2>3. CASE LeaseMerge(j)
    BY <2>3, PipelineLockAssumption DEF LeaseMerge, Takeable, TypeOK
  <2>4. CASE Release(j)
    BY <2>4 DEF Release, Abandon, Holders, TypeOK
  <2>5. ~(Request(j) \/ ReadBack(j) \/ Retry(j) \/ TimeOut(j) \/ Conflict(j)
          \/ AcquireError(j) \/ ReleaseError(j) \/ Crash(j))
    BY DEF Request, ReadBack, Retry, TimeOut, Conflict, AcquireError, ReleaseError, Crash
  <2>. QED BY <2>2, <2>3, <2>4, <2>5 DEF JobStep, Attempt
<1>. QED BY <1>1, TypeCorrect, PTL DEF Spec, LiveLeaseEndedByOwner

================================================================================
