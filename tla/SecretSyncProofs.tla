--------------------------- MODULE SecretSyncProofs ---------------------------
(***************************************************************************)
(* Proofs about SecretReconciler: what the target may be replaced by, what *)
(* the status may say of it, and that the whole implements SecretSync.     *)
(* They rest on one invariant, about the copies of the object, its         *)
(* finalizer, its generations and what a pass knows of the target.         *)
(***************************************************************************)
EXTENDS SecretReconcilerProofs

-----------------------------------------------------------------------------
(* The invariant *)

(* The calls of a pass that comes after the finalizer *)
Protected == PCs \ {"idle", "finalizer", "unfinalize"}

(***************************************************************************)
(* A copy that no write has overtaken is the object that is stored, and so *)
(* is what the pass would write back, up to the status it has prepared.    *)
(***************************************************************************)
CopiesAgree ==
    /\ cacheFresh => cached = cr
    /\ pass.fresh => /\ pc # "idle"
                     /\ obj.phase = cr.phase /\ obj.uid = cr.uid
                     /\ obj.gen = cr.gen /\ obj.fin = cr.fin
                     /\ pc \notin {"status", "fail", "fail5m"} => obj = cr
                     /\ pc = "unfinalize" => cacheFresh
    /\ pc = "idle" => obj = NoObject

(* The object a live copy with the finalizer was read from is still there. *)
StillHeld(o) ==
    o.phase = "live" /\ o.fin => cr.uid = o.uid /\ cr.phase # "absent" /\ cr.fin

(* What a pass relies on from the finalizer, and what is gone with the object *)
FinalizerProtects ==
    /\ StillHeld(cached) /\ StillHeld(obj)
    /\ pc = "finalizer" => obj.phase = "live"
    /\ pc = "unfinalize" => obj.phase = "deleting" /\ ~gauge
    /\ pc \in Protected => obj.phase = "live" /\ obj.fin
    /\ cr.phase = "deleting" => cr.fin
    /\ cr.phase = "absent" => cr.ready # "True"
    /\ GaugeNeedsObject

(* Generations are seen in order: nothing is newer than what it is made of. *)
GenerationsOrdered ==
    /\ 1 <= cached.gen /\ cached.gen <= cr.gen
    /\ target.from <= cached.gen /\ cr.obs <= cached.gen /\ cached.obs <= cached.gen
    /\ 1 <= cached.uid /\ cached.uid <= cr.uid /\ cr.uid <= MaxUid
    /\ pc # "idle" =>
         /\ 1 <= obj.uid /\ obj.uid <= cr.uid
         /\ 1 <= obj.gen /\ obj.gen <= cached.gen
         /\ target.from <= obj.gen /\ cr.obs <= obj.gen /\ obj.obs <= obj.gen

(* What is known of the target, by its metadata and by the pass *)
TargetKnown ==
    /\ target.exists /\ target.from = None => target.owner \in {None, Other}
    /\ pc \in {"hash", "record", "write"} /\ pass.got \in Partial =>
         ~target.exists \/ target.from = None
    /\ pc \in {"rollout", "status"} => target.from \in {None, obj.gen}
    /\ pc \in {"fail", "fail5m"} => obj.ready = "False"
    /\ ReadyReflectsSpec

(* The inductive invariant *)
SyncInv == CopiesAgree /\ FinalizerProtects /\ GenerationsOrdered /\ TargetKnown

-----------------------------------------------------------------------------
(* The invariant is one *)

(* Generations, owners and identities are numbers. *)
LEMMA Counts ==
    ASSUME TypeOK
    PROVE  /\ cr.gen \in Nat /\ cached.gen \in Nat /\ obj.gen \in Nat
           /\ cr.obs \in Nat /\ cached.obs \in Nat /\ obj.obs \in Nat
           /\ cr.uid \in Nat /\ cached.uid \in Nat /\ obj.uid \in Nat
           /\ target.from \in Nat /\ target.owner \in Nat
           /\ Other \in Nat /\ Other # None /\ MaxUid \in Nat /\ 1 <= MaxUid
  BY ConstantsAssumption DEF TypeOK, Objects, Secrets, Other, None

(* A FerrVaultSecret that was just created satisfies it. *)
LEMMA InitSyncInv == Init => SyncInv
  BY ConstantsAssumption
  DEF Init, SyncInv, CopiesAgree, FinalizerProtects, StillHeld, GenerationsOrdered,
      TargetKnown, GaugeNeedsObject, ReadyReflectsSpec, Protected, PCs, NoSecret,
      Created, NoPass, NoObject, Gone, None

(* An update that is refused, or that never arrives, ends the pass. *)
LEMMA FailedUpdate ==
    ASSUME SyncInv, NEW o, UpdateFails(o), ~Accepted(o)
    PROVE  SyncInv'
  BY DEF UpdateFails, ReturnError, Idle, NoPass, NoObject, Gone, cluster, SyncInv,
     CopiesAgree, FinalizerProtects, StillHeld, GenerationsOrdered, TargetKnown,
     GaugeNeedsObject, ReadyReflectsSpec, Protected, PCs, None

(* No call of Reconcile, no fault and no outside event breaks it. *)
LEMMA NextSyncInv ==
    ASSUME TypeOK, SyncInv, [Next]_vars
    PROVE  SyncInv'
<1> USE Counts
<1> USE DEF SyncInv, CopiesAgree, FinalizerProtects, StillHeld, GenerationsOrdered,
      TargetKnown, GaugeNeedsObject, ReadyReflectsSpec, Protected, PCs, None
<1>1. CASE BeginGone
  BY <1>1 DEF BeginGone, cluster, DeleteLastSyncTimestamp
<1>2. CASE BeginLive
  BY <1>2 DEF BeginLive, cluster, NoPass
<1>3. CASE BeginDeleting
  BY <1>3 DEF BeginDeleting, cluster, NoPass, DeleteLastSyncTimestamp
<1>4. CASE AddFinalizer
  <2> DEFINE o == [obj EXCEPT !.fin = TRUE]
  <2>1. CASE UpdateFails(o) /\ ~Accepted(o)
    BY <2>1, FailedUpdate
  <2>2. CASE Accepted(o)
    <3>1. /\ pc = "finalizer" /\ pass.fresh /\ obj = cr /\ cr' = o /\ cacheFresh' = FALSE
          /\ UNCHANGED <<cached, target, gauge>>
      BY <1>4, <2>2 DEF AddFinalizer, UpdateFails, Accepted, cluster
    <3>2. /\ o.phase = cr.phase /\ o.uid = cr.uid /\ o.gen = cr.gen /\ o.fin = TRUE
          /\ o.ready = cr.ready /\ o.obs = cr.obs
      BY <3>1 DEF TypeOK, Objects
    <3>3. \/ obj' = o /\ pc' = "conn" /\ pass' = pass
          \/ Idle
      BY <1>4 DEF AddFinalizer, UpdateFails, ReturnError
    <3> HIDE DEF o
    <3>4. CASE obj' = o /\ pc' = "conn" /\ pass' = pass
      BY <3>1, <3>2, <3>4
    <3>5. CASE Idle
      BY <3>1, <3>2, <3>5 DEF Idle, NoPass, NoObject, Gone
    <3> QED
      BY <3>3, <3>4, <3>5
  <2> QED
    BY <1>4, <2>1, <2>2 DEF AddFinalizer
<1>5. CASE RemoveFinalizer
  BY <1>5 DEF RemoveFinalizer, cluster, UpdateFails, Accepted, ReturnError, Idle,
     NoPass, NoObject, Gone, TypeOK, Objects
<1>6. CASE GetConnection
  BY <1>6 DEF GetConnection, cluster, FailReady, TypeOK, Objects, Passes
<1>7. CASE LoadToken
  BY <1>7 DEF LoadToken, cluster, FailReady, TypeOK, Objects, Passes
<1>8. CASE RevealRateLimited
  BY <1>8 DEF RevealRateLimited, ReturnAfter, Idle, NoPass, NoObject, Gone, cluster
<1>9. CASE RevealFails
  BY <1>9 DEF RevealFails, cluster, FailReady, TypeOK, Objects, Passes
<1>10. CASE Reveal
  BY <1>10 DEF Reveal, cluster, FailReady, TypeOK, Objects, Passes
<1>11. CASE CheckTargetExists
  <2>1. /\ pc = "exists" /\ UNCHANGED <<cr, cached, cacheFresh, target, gauge, pass>>
        /\ \/ pc' = "hash" /\ obj' = obj /\ ~target.exists
           \/ /\ pc' = "fail"
              /\ obj' \in {[obj EXCEPT !.ready = "False"],
                           [[obj EXCEPT !.obs = obj.gen] EXCEPT !.ready = "False"]}
    BY <1>11 DEF CheckTargetExists, LeaveTarget, FailReady, cluster
  <2>2. obj' # obj =>
          /\ obj'.phase = obj.phase /\ obj'.uid = obj.uid /\ obj'.gen = obj.gen
          /\ obj'.fin = obj.fin /\ obj'.ready = "False" /\ obj'.obs \in {obj.obs, obj.gen}
    BY <2>1 DEF TypeOK, Objects
  <2>3. CASE pc' = "hash" /\ obj' = obj /\ ~target.exists
    BY <2>1, <2>3
  <2>4. CASE pc' = "fail" /\ obj'.ready = "False"
    BY <2>1, <2>2, <2>4
  <2> QED
    BY <2>1, <2>2, <2>3, <2>4 DEF TypeOK, Objects
<1>12. CASE ReadContentHash
  BY <1>12 DEF ReadContentHash, cluster, FailReady, TypeOK, Objects, Passes
<1>13. CASE RecordPendingRollout
  BY <1>13 DEF RecordPendingRollout, cluster, UpdateFails, Accepted, ReturnError,
     Idle, NoPass, NoObject, Gone, TypeOK, Objects
<1>14. CASE EnsureTargetSecret
  BY <1>14 DEF EnsureTargetSecret, WriteTarget, Synced, StartRollout, FailReady,
     TypeOK, Objects, Passes, Secrets
<1>15. CASE \E w \in Workloads : TriggerRollout(w)
  <2>1. /\ UNCHANGED <<cr, cached, cacheFresh, target, pc, obj, gauge>>
        /\ pc = "rollout" /\ pass'.fresh = pass.fresh
    BY <1>15 DEF TriggerRollout, TypeOK, Passes
  <2> QED
    BY <2>1
<1>16. CASE EndRollout
  BY <1>16 DEF EndRollout, AfterRollout, cluster, TypeOK, Objects
<1>17. CASE UpdateStatus
  <2>1. CASE UpdateFails(FinalStatus) /\ ~Accepted(FinalStatus)
    BY <2>1, FailedUpdate
  <2>2. CASE Accepted(FinalStatus)
    <3>1. /\ pc = "status" /\ pass.fresh /\ cr' = FinalStatus /\ cacheFresh' = FALSE
          /\ UNCHANGED <<cached, target>> /\ Idle
      BY <1>17, <2>2 DEF UpdateStatus, UpdateFails, Accepted, cluster, ReturnError,
         ReturnAfterRefresh
    <3>2. /\ FinalStatus.phase = obj.phase /\ FinalStatus.uid = obj.uid
          /\ FinalStatus.gen = obj.gen /\ FinalStatus.fin = obj.fin
          /\ FinalStatus.obs = obj.gen
      BY DEF FinalStatus, TypeOK, Objects
    <3> QED
      BY <3>1, <3>2 DEF Idle, NoPass, NoObject, Gone
  <2> QED
    BY <1>17, <2>1, <2>2 DEF UpdateStatus
<1>18. CASE UpdateFailStatus
  BY <1>18 DEF UpdateFailStatus, cluster, UpdateFails, Accepted, ReturnError,
     ReturnAfter, ReturnAfterRefresh, Idle, NoPass, NoObject, Gone, TypeOK, Objects
<1>19. CASE Crash
  BY <1>19 DEF Crash, Idle, NoPass, NoObject, Gone, cluster
<1>20. CASE CacheSync
  BY <1>20 DEF CacheSync, cluster
<1>21. CASE ConnectionTouched
  BY <1>21 DEF ConnectionTouched, cluster
<1>22. CASE SpecEdit
  BY <1>22 DEF SpecEdit, Overwritten, cluster, TypeOK, Objects, Passes
<1>23. CASE Delete
  BY <1>23 DEF Delete, Overwritten, Gone, cluster, TypeOK, Objects, Passes
<1>24. CASE Recreate
  BY <1>24 DEF Recreate, Overwritten, Created, cluster, TypeOK, Objects, Passes
<1>25. CASE VaultChange
  BY <1>25 DEF VaultChange, operator
<1>26. CASE ConnEdit
  BY <1>26 DEF ConnEdit
<1>27. CASE TargetDelete
  BY <1>27 DEF TargetDelete, TargetBecomes, NoSecret
<1>28. CASE TargetDrift
  BY <1>28 DEF TargetDrift, TargetBecomes, TypeOK, Secrets
<1>29. CASE ForeignTarget
  BY <1>29 DEF ForeignTarget, TargetBecomes, NoSecret
<1>30. CASE GarbageCollect
  BY <1>30 DEF GarbageCollect, TargetBecomes, NoSecret
<1>31. CASE \E w \in Workloads : PodStart(w) \/ PodRestart(w) \/ Reapply(w) \/ WorkloadGone(w)
  BY <1>31 DEF PodStart, PodRestart, Reapply, WorkloadGone, operator
<1>32. CASE UNCHANGED vars
  BY <1>32 DEF vars, cluster, operator
<1> QED
  BY <1>1, <1>2, <1>3, <1>4, <1>5, <1>6, <1>7, <1>8, <1>9, <1>10, <1>11, <1>12, <1>13, <1>14, <1>15, <1>16, <1>17, <1>18, <1>19, <1>20, <1>21, <1>22, <1>23, <1>24, <1>25, <1>26, <1>27, <1>28, <1>29, <1>30, <1>31, <1>32
  DEF Next, Reconcile, Environment

(* It holds in every state. *)
LEMMA SyncInvariant == Spec => []SyncInv
  BY InitSyncInv, NextSyncInv, TypeCorrect, PTL DEF Spec

(***************************************************************************)
(* Ready=True with an observedGeneration is never said of a target that    *)
(* was rendered from an earlier generation, whatever the faults, crashes,  *)
(* outdated copies and outside events.                                     *)
(***************************************************************************)
THEOREM ReadyIsTrue == Spec => []ReadyReflectsSpec
<1>1. SyncInv => ReadyReflectsSpec
  BY DEF SyncInv, TargetKnown
<1> QED
  BY <1>1, SyncInvariant, PTL

(***************************************************************************)
(* The LastSyncTimestamp series goes before the finalizer does: no series  *)
(* is left of a FerrVaultSecret that is gone, or about to go unannounced.  *)
(***************************************************************************)
THEOREM GaugeGoesFirst == Spec => []GaugeNeedsObject
<1>1. SyncInv => GaugeNeedsObject
  BY DEF SyncInv, FinalizerProtects
<1> QED
  BY <1>1, SyncInvariant, PTL

-----------------------------------------------------------------------------
(* What the target is replaced by *)

(* Who writes the target, and what pass they leave behind *)
LEMMA TargetWriters ==
    ASSUME [Next]_vars, target' # target
    PROVE  \/ pc = "write" /\ Writable /\ target' = Synced(target, obj, TokenTarget, pass.got)
           \/ (TargetDelete \/ TargetDrift \/ ForeignTarget) /\ pc' = pc
           \/ GarbageCollect /\ pc' = pc
  BY DEF Next, Reconcile, Environment, vars, cluster, operator,
     BeginGone, BeginLive, BeginDeleting, AddFinalizer, RemoveFinalizer, UpdateFails,
     GetConnection, LoadToken, RevealRateLimited, RevealFails, Reveal,
     CheckTargetExists, ReadContentHash, RecordPendingRollout, EnsureTargetSecret,
     WriteTarget, TriggerRollout, EndRollout, UpdateStatus, UpdateFailStatus, Crash,
     CacheSync, ConnectionTouched, SpecEdit, Delete, Recreate, Overwritten,
     VaultChange, ConnEdit, TargetDelete, TargetDrift, ForeignTarget, GarbageCollect,
     TargetBecomes, PodStart, PodRestart, Reapply, WorkloadGone

(* A Secret that ensureTargetSecret may write is the token Secret, or passes  *)
(* for the operator's own; and what the operator wrote only if no keys are    *)
(* missing.                                                                   *)
LEMMA WritableTargets ==
    ASSUME TypeOK, SyncInv, pc = "write", Writable, ~TokenTarget, target.exists
    PROVE  Unclaimed(target) \/ (target.from # None /\ pass.got \notin Partial)
  BY Counts DEF Writable, Adoptable, Ownable, Unclaimed, SyncInv, GenerationsOrdered,
     TargetKnown, None

(***************************************************************************)
(* adoptable and SetControllerReference at work: what somebody else put    *)
(* under the target's name, without the marker of the operator or with     *)
(* another controller, is neither overwritten nor garbage-collected,       *)
(* unless the pass has seen that it is the connection's token Secret.      *)
(***************************************************************************)
THEOREM ForeignSecretsKept == Spec => ForeignSecretUntouched
<1>1. TypeOK /\ SyncInv /\ [Next]_vars =>
        [Theirs(target) /\ target' # target
          /\ (OperatorWrote \/ spent' = spent) => TokenTarget]_vars
  <2> SUFFICES ASSUME TypeOK, SyncInv, [Next]_vars,
                      Theirs(target), target' # target,
                      OperatorWrote \/ spent' = spent
               PROVE  TokenTarget
    OBVIOUS
  <2>1. CASE pc = "write" /\ Writable
    BY <2>1, WritableTargets DEF Theirs
  <2>2. CASE (TargetDelete \/ TargetDrift \/ ForeignTarget) /\ pc' = pc
    <3>1. target.exists
      BY DEF Theirs
    <3>2. spent' = spent + 1 /\ ~OperatorWrote
      BY <2>2, <3>1 DEF TargetDelete, TargetDrift, ForeignTarget, Disrupts, OperatorWrote
    <3>3. spent \in Nat
      BY DEF TypeOK
    <3> QED
      BY <3>2, <3>3
  <2>3. CASE GarbageCollect
    BY <2>3 DEF GarbageCollect, SyncInv, TargetKnown, Theirs
  <2> QED
    BY <2>1, <2>2, <2>3, TargetWriters
<1> QED
  BY <1>1, TypeCorrect, SyncInvariant, PTL DEF Spec, ForeignSecretUntouched

(***************************************************************************)
(* targetExists and adoptable together: between the check that there is no *)
(* target and the write somebody else may create one, and then it is not   *)
(* adopted, or it had the marker and no owner.  A target of the operator's *)
(* own is created by nobody but the pass itself.                           *)
(***************************************************************************)
THEOREM PartialDataCreatesOnly == Spec => PartialNeverReplaces
<1>1. TypeOK /\ SyncInv /\ [Next]_vars =>
        [OperatorWrote /\ pass.got \in Partial /\ ~TokenTarget
            => ~target.exists \/ Unclaimed(target)]_vars
  BY TargetWriters, WritableTargets DEF OperatorWrote
<1> QED
  BY <1>1, TypeCorrect, SyncInvariant, PTL DEF Spec, PartialNeverReplaces

-----------------------------------------------------------------------------
(* The refinement of SecretSync *)

(* A FerrVaultSecret that was just created is one that was just asked for. *)
LEMMA InitSync == Init => Sync!Init
  BY ConstantsAssumption
  DEF Init, Sync!Init, Sync!Nothing, Sync!Absent, Sync!Foreign, Holds, Lent, Holding,
      Seen, Theirs, Unclaimed, Promised, TokenTarget, Created, NoSecret, NoPass, None, Contents

(* To mark what is held as written leaves the rest of it alone. *)
LEMMA MarkWritten ==
    ASSUME NEW c, NEW g, NEW h, h = [content |-> c, gen |-> g, written |-> FALSE]
    PROVE  [h EXCEPT !.written = TRUE] = [content |-> c, gen |-> g, written |-> TRUE]
<1>1. \A W : \A w \in W, r \in [content : {c}, gen : {g}, written : W] :
         [r EXCEPT !.written = w] = [content |-> c, gen |-> g, written |-> w]
  OBVIOUS
<1>2. h \in [content : {c}, gen : {g}, written : BOOLEAN]
  OBVIOUS
<1> QED
  BY <1>1, <1>2, Zenon

(* Every step of SecretReconciler is one of SecretSync, or invisible to it. *)
LEMMA NextSync ==
    ASSUME TypeOK, SyncInv, [Next]_vars
    PROVE  [Sync!Next]_Sync!vars
<1> USE Counts
<1> USE DEF SyncInv, CopiesAgree, FinalizerProtects, StillHeld, GenerationsOrdered,
      TargetKnown, Protected, PCs, None, Sync!vars, Sync!Nothing, Sync!Absent, Sync!Foreign,
      Sync!Unclaimed, Sync!Ours, Theirs, Unclaimed, Holds, Lent, Holding, Seen, Promised, TokenTarget
<1>1. CASE BeginGone
  <2>1. UNCHANGED Sync!vars
    BY <1>1 DEF BeginGone, cluster
  <2> QED
    BY <2>1 DEF Sync!Next
<1>2. CASE BeginLive
  <2>1. UNCHANGED Sync!vars
    BY <1>2 DEF BeginLive, NoPass, cluster
  <2> QED
    BY <2>1 DEF Sync!Next
<1>3. CASE BeginDeleting
  <2>1. UNCHANGED Sync!vars
    BY <1>3 DEF BeginDeleting, NoPass, cluster
  <2> QED
    BY <2>1 DEF Sync!Next
<1>4. CASE AddFinalizer
  <2>1. UNCHANGED Sync!vars
    BY <1>4 DEF AddFinalizer, cluster, UpdateFails, Accepted, ReturnError, Idle, TypeOK,
       Objects
  <2> QED
    BY <2>1 DEF Sync!Next
<1>5. CASE RemoveFinalizer
  <2>1. UNCHANGED Sync!vars \/ Sync!Release
    BY <1>5 DEF RemoveFinalizer, cluster, UpdateFails, Accepted, ReturnError, Idle,
       Gone, Sync!Release
  <2> QED
    BY <2>1 DEF Sync!Next
<1>6. CASE GetConnection
  <2>1. UNCHANGED Sync!vars \/ Sync!Look
    BY <1>6 DEF GetConnection, cluster, FailReady, TypeOK, Passes, Sync!Look
  <2> QED
    BY <2>1 DEF Sync!Next
<1>7. CASE LoadToken
  <2>1. UNCHANGED Sync!vars \/ Sync!Forget
    BY <1>7 DEF LoadToken, cluster, FailReady, Sync!Forget
  <2> QED
    BY <2>1 DEF Sync!Next
<1>8. CASE RevealRateLimited
  <2>1. Sync!Forget
    BY <1>8 DEF RevealRateLimited, ReturnAfter, Idle, cluster, Sync!Forget
  <2> QED
    BY <2>1 DEF Sync!Next
<1>9. CASE RevealFails
  <2>1. Sync!Forget
    BY <1>9 DEF RevealFails, FailReady, cluster, Sync!Forget
  <2> QED
    BY <2>1 DEF Sync!Next
<1>10. CASE Reveal
  <2> HIDE DEF Holding, Seen
  <2>1. CASE pc' = "fail"
    <3>1. Sync!Forget
      BY <1>10, <2>1 DEF Reveal, cluster, Sync!Forget, Holding, Seen
    <3> QED
      BY <3>1 DEF Sync!Next
  <2>2. CASE pc' # "fail"
    <3>1. /\ pc = "reveal" /\ pc' \in {"exists", "hash"}
          /\ vault \notin Broken /\ (TokenTarget => HoldsToken(vault))
          /\ pass' = [pass EXCEPT !.got = vault]
          /\ UNCHANGED <<cr, target, vault, conn, obj>>
      BY <1>10, <2>2 DEF Reveal, FailReady, cluster
    <3>2. pass'.got = vault /\ pass'.via = pass.via
      BY <3>1 DEF TypeOK, Passes
    <3>3. obj.gen \in 1..cr.gen /\ obj.gen >= target.from /\ obj.gen >= Promised
          /\ cr.phase # "absent"
      BY <3>1
    <3>4. Holding = Sync!Nothing
      BY <3>1 DEF Holding
    <3>5. Holding' = [content |-> vault, gen |-> obj.gen, written |-> FALSE]
      <4>1. Holding' = [content |-> vault, gen |-> obj.gen,
                        written |-> pc' \in {"rollout", "status"}]
        BY <3>1, <3>2 DEF Holding
      <4>2. (pc' \in {"rollout", "status"}) = FALSE
        BY <3>1
      <4> QED
        BY <4>1, <4>2, Zenon
    <3>6. Seen.gen \in {0, target.from}
      BY DEF Seen
    <3>7. ~(Lent /\ vault \in Keyless) /\ Lent' = Lent
      BY <3>1, <3>2 DEF HoldsToken
    <3>8. UNCHANGED <<cr.gen, cr.phase # "absent", vault, conn = "self", Seen, Promised>>
      BY <3>1 DEF Seen
    <3>9. \E gen \in 1..cr.gen :
            /\ gen >= Seen.gen /\ gen >= Promised
            /\ Holding' = [content |-> vault, gen |-> gen, written |-> FALSE]
      <4>1. obj.gen >= Seen.gen
        BY <3>3, <3>6
      <4> QED
        BY <3>3, <3>5, <4>1, Zenon
    <3>10. Sync!Fetch
      BY <3>1, <3>3, <3>4, <3>7, <3>8, <3>9 DEF Sync!Fetch
    <3> QED
      BY <3>10 DEF Sync!Next
  <2> QED
    BY <2>1, <2>2
<1>11. CASE CheckTargetExists
  <2>1. UNCHANGED Sync!vars \/ Sync!Forget
    BY <1>11 DEF CheckTargetExists, FailReady, cluster, Sync!Forget
  <2> QED
    BY <2>1 DEF Sync!Next
<1>12. CASE ReadContentHash
  <2>1. UNCHANGED Sync!vars \/ Sync!Forget
    BY <1>12 DEF ReadContentHash, FailReady, cluster, TypeOK, Passes, Sync!Forget
  <2> QED
    BY <2>1 DEF Sync!Next
<1>13. CASE RecordPendingRollout
  <2>1. UNCHANGED Sync!vars \/ Sync!Forget
    BY <1>13 DEF RecordPendingRollout, cluster, UpdateFails, Accepted, ReturnError,
       Idle, TypeOK, Objects, Sync!Forget
  <2> QED
    BY <2>1 DEF Sync!Next
<1>14. CASE EnsureTargetSecret
  <2> HIDE DEF Holding, Seen
  <2>1. /\ pc = "write" /\ UNCHANGED <<cr, vault, conn>>
    BY <1>14 DEF EnsureTargetSecret
  <2>2. CASE FailReady(obj, "fail") /\ UNCHANGED <<target, pass>>
    <3>1. Sync!Forget
      BY <2>1, <2>2 DEF FailReady, Sync!Forget, Holding, Seen
    <3> QED
      BY <3>1 DEF Sync!Next
  <2>3. CASE Writable /\ WriteTarget
    <3>1. /\ target'.exists /\ target'.data = pass.got /\ target'.from = obj.gen
      BY <2>3 DEF WriteTarget, Synced
    <3>2. /\ Lent \/ Seen.by # "others"
          /\ Lent \/ Seen.by # "operator" \/ pass.got \notin Partial
      BY <2>1, <2>3, WritableTargets DEF Seen
    <3>3. /\ Holding = [content |-> pass.got, gen |-> obj.gen, written |-> FALSE]
          /\ obj.gen # None /\ cr.phase # "absent"
      <4>1. Holding = [content |-> pass.got, gen |-> obj.gen,
                       written |-> pc \in {"rollout", "status"}]
        BY <2>1 DEF Holding
      <4>2. (pc \in {"rollout", "status"}) = FALSE
        BY <2>1
      <4>3. Holding = [content |-> pass.got, gen |-> obj.gen, written |-> FALSE]
        BY <4>1, <4>2, Zenon
      <4> QED
        BY <2>1, <4>3
    <3>4. Seen' = Sync!Ours(pass.got, obj.gen)
      BY <2>1, <3>1 DEF Seen
    <3>5. CASE pc' = "fail"
      <4>1. Holding' = Sync!Nothing /\ ~Lent'
        BY <3>5 DEF Holding
      <4>2. Sync!Write
        BY <2>1, <3>2, <3>3, <3>4, <4>1 DEF Sync!Write
      <4> QED
        BY <4>2 DEF Sync!Next
    <3>6. CASE StartRollout
      <4>1. /\ pc' \in {"rollout", "status"} /\ obj'.gen = obj.gen
            /\ pass'.got = pass.got /\ pass'.via = pass.via
        BY <3>6 DEF StartRollout, TypeOK, Objects, Passes
      <4>2. Holding' = [content |-> pass.got, gen |-> obj.gen, written |-> TRUE]
        <5>1. Holding' = [content |-> pass.got, gen |-> obj.gen,
                          written |-> pc' \in {"rollout", "status"}]
          BY <4>1 DEF Holding
        <5>2. (pc' \in {"rollout", "status"}) = TRUE
          BY <4>1
        <5> QED
          BY <5>1, <5>2, Zenon
      <4>3. Holding' = [Holding EXCEPT !.written = TRUE]
        <5>1. [Holding EXCEPT !.written = TRUE]
                = [content |-> pass.got, gen |-> obj.gen, written |-> TRUE]
          BY ONLY <3>3, MarkWritten, Zenon
        <5> QED
          BY ONLY <4>2, <5>1, Zenon
      <4>4. Lent' = Lent
        BY <2>1, <4>1
      <4>5. Sync!Write
        BY <2>1, <3>2, <3>3, <3>4, <4>3, <4>4 DEF Sync!Write
      <4> QED
        BY <4>5 DEF Sync!Next
    <3> QED
      BY <1>14, <2>2, <3>5, <3>6 DEF EnsureTargetSecret
  <2> QED
    BY <1>14, <2>2, <2>3 DEF EnsureTargetSecret
<1>15. CASE \E w \in Workloads : TriggerRollout(w)
  <2>1. pc = "rollout" /\ UNCHANGED <<cr, target, vault, conn, pc, obj>>
    BY <1>15 DEF TriggerRollout
  <2>2. pass'.got = pass.got /\ pass'.via = pass.via
    <3>1. pass \in Passes
      BY DEF TypeOK
    <3> QED
      BY ONLY <1>15, <3>1 DEF TriggerRollout, Passes
  <2>3. UNCHANGED Sync!vars
    BY <2>1, <2>2
  <2> QED
    BY <2>3 DEF Sync!Next
<1>16. CASE EndRollout
  <2>1. UNCHANGED Sync!vars
    BY <1>16 DEF EndRollout, AfterRollout, cluster, TypeOK, Objects
  <2> QED
    BY <2>1 DEF Sync!Next
<1>17. CASE UpdateStatus
  <2>1. pc = "status" /\ Idle /\ UNCHANGED <<vault, conn, target>>
    BY <1>17 DEF UpdateStatus, UpdateFails, ReturnError, ReturnAfterRefresh, cluster
  <2>2. CASE ~Accepted(FinalStatus)
    <3>1. UNCHANGED cr
      BY <1>17, <2>2 DEF UpdateStatus, UpdateFails
    <3>2. Sync!Forget
      BY <2>1, <3>1 DEF Idle, Sync!Forget
    <3> QED
      BY <3>2 DEF Sync!Next
  <2>3. CASE Accepted(FinalStatus)
    <3>1. cr' = FinalStatus /\ pass.fresh
      BY <2>3 DEF Accepted
    <3>2. /\ cr'.phase = obj.phase /\ cr'.gen = obj.gen /\ cr'.obs = obj.gen
          /\ cr'.ready = IF pass.got \in Partial THEN "False" ELSE "True"
      BY <3>1 DEF FinalStatus, TypeOK, Objects
    <3>3. Sync!Promise
      BY <2>1, <3>1, <3>2 DEF Idle, Sync!Promise
    <3> QED
      BY <3>3 DEF Sync!Next
  <2> QED
    BY <2>2, <2>3
<1>18. CASE UpdateFailStatus
  <2>1. UNCHANGED Sync!vars \/ Sync!Refuse
    BY <1>18 DEF UpdateFailStatus, cluster, UpdateFails, Accepted, ReturnError,
       ReturnAfter, ReturnAfterRefresh, Idle, Sync!Refuse
  <2> QED
    BY <2>1 DEF Sync!Next
<1>19. CASE Crash
  <2>1. Sync!Forget
    BY <1>19 DEF Crash, Idle, cluster, Sync!Forget
  <2> QED
    BY <2>1 DEF Sync!Next
<1>20. CASE CacheSync
  <2>1. UNCHANGED Sync!vars
    BY <1>20 DEF CacheSync, cluster
  <2> QED
    BY <2>1 DEF Sync!Next
<1>21. CASE ConnectionTouched
  <2>1. UNCHANGED Sync!vars
    BY <1>21 DEF ConnectionTouched, cluster
  <2> QED
    BY <2>1 DEF Sync!Next
<1>22. CASE SpecEdit
  <2>1. Sync!Ask
    BY <1>22 DEF SpecEdit, Overwritten, cluster, TypeOK, Objects, Passes, Sync!Ask
  <2> QED
    BY <2>1 DEF Sync!Next
<1>23. CASE Delete
  <2>1. Sync!Ask \/ Sync!Release
    BY <1>23 DEF Delete, Overwritten, Gone, cluster, TypeOK, Objects, Passes, Sync!Ask,
       Sync!Release
  <2> QED
    BY <2>1 DEF Sync!Next
<1>24. CASE Recreate
  <2>1. Sync!Ask
    BY <1>24 DEF Recreate, Overwritten, Created, cluster, TypeOK, Passes, Sync!Ask
  <2> QED
    BY <2>1 DEF Sync!Next
<1>25. CASE VaultChange
  <2>1. Sync!VaultChange
    BY <1>25 DEF VaultChange, operator, Sync!VaultChange
  <2> QED
    BY <2>1 DEF Sync!Next
<1>26. CASE ConnEdit
  <2>1. Sync!ConnEdit
    BY <1>26 DEF ConnEdit, Sync!ConnEdit
  <2> QED
    BY <2>1 DEF Sync!Next
<1>27. CASE TargetDelete
  <2>1. Sync!Others
    BY <1>27 DEF TargetDelete, TargetBecomes, NoSecret, Sync!Others
  <2> QED
    BY <2>1 DEF Sync!Next
<1>28. CASE TargetDrift
  <2>1. Sync!Others
    BY <1>28 DEF TargetDrift, TargetBecomes, TypeOK, Secrets, Sync!Others
  <2> QED
    BY <2>1 DEF Sync!Next
<1>29. CASE ForeignTarget
  <2>1. Sync!Others
    BY <1>29 DEF ForeignTarget, TargetBecomes, NoSecret, Sync!Others
  <2> QED
    BY <2>1 DEF Sync!Next
<1>30. CASE GarbageCollect
  <2>1. Sync!Others
    BY <1>30 DEF GarbageCollect, TargetBecomes, NoSecret, Sync!Others
  <2> QED
    BY <2>1 DEF Sync!Next
<1>31. CASE \E w \in Workloads : PodStart(w) \/ PodRestart(w) \/ Reapply(w) \/ WorkloadGone(w)
  <2>1. UNCHANGED Sync!vars
    BY <1>31 DEF PodStart, PodRestart, Reapply, WorkloadGone, operator
  <2> QED
    BY <2>1 DEF Sync!Next
<1>32. CASE UNCHANGED vars
  <2>1. UNCHANGED Sync!vars
    BY <1>32 DEF vars, cluster, operator
  <2> QED
    BY <2>1 DEF Sync!Next
<1> QED
  BY <1>1, <1>2, <1>3, <1>4, <1>5, <1>6, <1>7, <1>8, <1>9, <1>10, <1>11, <1>12, <1>13, <1>14, <1>15, <1>16, <1>17, <1>18, <1>19, <1>20, <1>21, <1>22, <1>23, <1>24, <1>25, <1>26, <1>27, <1>28, <1>29, <1>30, <1>31, <1>32
  DEF Next, Reconcile, Environment

(***************************************************************************)
(* Every behaviour of SecretReconciler is one of SecretSync: no pass, on   *)
(* whatever copy, in whatever interleaving with crashes, lost replies and  *)
(* others' writes, does more to the target and the status than to fetch a  *)
(* content for a generation that was asked for, write it and promise it.   *)
(***************************************************************************)
THEOREM Implementation == Spec => ImplementsSync
  BY InitSync, NextSync, TypeCorrect, SyncInvariant, PTL DEF Spec, ImplementsSync,
     Sync!Spec

-----------------------------------------------------------------------------
(* The token Secret survives *)

(***************************************************************************)
(* The environment of the theorem: the connection is not edited, and       *)
(* nobody else deletes the target.                                         *)
(***************************************************************************)
Entrusted == Events \cap {"ConnEdit", "TargetDelete"} = {}

(* What a pass for a self connection knows, and what it leaves unowned. *)
TokenInv ==
    conn = "self" =>
        /\ target.exists /\ HoldsToken(target.data) /\ target.owner = None
        /\ pc \in {"token", "reveal"} \/ Holds => TokenTarget
        /\ Holds => HoldsToken(pass.got)

(* What somebody else writes into the token Secret holds a token. *)
LEMMA EditedHoldsToken == HoldsToken(Edited)
  BY ConstantsAssumption DEF HoldsToken, Edited, Contents, None

(* The Secret the connection authenticates with exists from the start. *)
LEMMA InitTokenInv == Init => TokenInv
  BY EditedHoldsToken DEF Init, TokenInv, NoSecret, TokenTarget, Holds

(* The steps that do not touch the target *)
LEMMA TokenBystanders ==
    ASSUME TypeOK, TokenInv, [Next]_vars, conn = "self", UNCHANGED <<conn, target>>,
           ~EnsureTargetSecret
    PROVE  TokenInv'
<1>1. /\ Holds' => Holds \/ (pc = "reveal" /\ HoldsToken(pass'.got) /\ pass'.via = pass.via)
      /\ Holds /\ Holds' => pass'.got = pass.got /\ pass'.via = pass.via
      /\ pc' \in {"token", "reveal"} =>
           \/ pass'.via = conn
           \/ pc \in {"token", "reveal"} /\ pass'.via = pass.via
  BY DEF Next, Reconcile, Environment, vars, cluster, operator, TypeOK, Passes,
     BeginGone, BeginLive, BeginDeleting, AddFinalizer, RemoveFinalizer, UpdateFails,
     GetConnection, LoadToken, RevealRateLimited, RevealFails, Reveal, FailReady,
     CheckTargetExists, ReadContentHash, RecordPendingRollout, EndRollout, TriggerRollout,
     UpdateStatus, UpdateFailStatus, Crash, ReturnError, ReturnAfter,
     ReturnAfterRefresh, Idle, CacheSync, ConnectionTouched, SpecEdit, Delete, Recreate,
     Overwritten, VaultChange, ConnEdit, TargetDelete, TargetDrift, ForeignTarget,
     GarbageCollect, TargetBecomes, PodStart, PodRestart, Reapply, WorkloadGone,
     Holds, TokenInv, TokenTarget
<1> QED
  BY <1>1 DEF TokenInv, TokenTarget, Holds

(* Nothing breaks it in such an environment. *)
LEMMA NextTokenInv ==
    ASSUME Entrusted, TypeOK, TokenInv, [Next]_vars
    PROVE  TokenInv'
<1>1. conn' = conn
  BY DEF Entrusted, Next, Reconcile, Environment, vars, cluster, operator,
     BeginGone, BeginLive, BeginDeleting, AddFinalizer, RemoveFinalizer, UpdateFails,
     GetConnection, LoadToken, RevealRateLimited, RevealFails, Reveal,
     CheckTargetExists, ReadContentHash, RecordPendingRollout, EnsureTargetSecret,
     EndRollout, TriggerRollout, UpdateStatus, UpdateFailStatus, Crash, CacheSync,
     ConnectionTouched, SpecEdit, Delete, Recreate, Overwritten, VaultChange, ConnEdit,
     Disrupts, TargetDelete, TargetDrift, ForeignTarget, GarbageCollect, TargetBecomes,
     PodStart, PodRestart, Reapply, WorkloadGone
<1> SUFFICES ASSUME conn = "self" PROVE TokenInv'
  BY <1>1 DEF TokenInv
<1>2. CASE EnsureTargetSecret
  <2>1. /\ pc = "write" /\ TokenTarget /\ HoldsToken(pass.got)
        /\ pass'.got = pass.got /\ pass'.via = pass.via
    BY <1>2 DEF EnsureTargetSecret, StartRollout, FailReady, TypeOK, Passes, TokenInv, Holds
  <2>2. CASE WriteTarget
    <3>1. target'.exists /\ target'.data = pass.got /\ target'.owner = None
      BY <2>1, <2>2 DEF WriteTarget, Synced, WithoutOwner, TokenInv
    <3> QED
      BY <1>1, <2>1, <3>1 DEF TokenInv, TokenTarget
  <2>3. CASE target' = target
    BY <1>1, <2>1, <2>3 DEF TokenInv, TokenTarget
  <2> QED
    BY <1>2, <2>2, <2>3 DEF EnsureTargetSecret
<1>3. CASE TargetDrift
  <2>1. /\ UNCHANGED <<pc, pass>>
        /\ target'.exists /\ target'.data = Edited /\ target'.owner = target.owner
    BY <1>3 DEF TargetDrift, TargetBecomes, TypeOK, Secrets, TokenInv
  <2> QED
    BY <1>1, <2>1, EditedHoldsToken DEF TokenInv, Holds, TokenTarget
<1>4. CASE ~EnsureTargetSecret /\ ~TargetDrift
  <2>1. target' = target
    BY <1>4 DEF Entrusted, Next, Reconcile, Environment, vars, cluster, operator,
       BeginGone, BeginLive, BeginDeleting, AddFinalizer, RemoveFinalizer, UpdateFails,
       GetConnection, LoadToken, RevealRateLimited, RevealFails, Reveal,
       CheckTargetExists, ReadContentHash, RecordPendingRollout,
       EndRollout, TriggerRollout, UpdateStatus, UpdateFailStatus, Crash, CacheSync,
       ConnectionTouched, SpecEdit, Delete, Recreate, Overwritten, VaultChange, ConnEdit,
       Disrupts, TargetDelete, ForeignTarget, GarbageCollect, TargetBecomes,
       PodStart, PodRestart, Reapply, WorkloadGone, TokenInv
  <2> QED
    BY <1>1, <1>4, <2>1, TokenBystanders
<1> QED
  BY <1>2, <1>3, <1>4

(***************************************************************************)
(* A FerrVaultSecret whose target is the token Secret of its connection    *)
(* leaves the token there for good: each write keeps the key, because      *)
(* what was revealed without it is refused, and takes no ownership, so     *)
(* that the garbage collector has no claim once the object is deleted.     *)
(* The vault may lose the key, the data may be edited, objects deleted and *)
(* re-created, calls fail and the operator die.                            *)
(***************************************************************************)
THEOREM TokenKept == Entrusted /\ Spec => []TokenSecretSurvives
<1>1. TokenInv => TokenSecretSurvives
  BY DEF TokenInv, TokenSecretSurvives
<1>2. ASSUME Entrusted PROVE Spec => []TokenSecretSurvives
  <2>1. TypeOK /\ TokenInv /\ [Next]_vars => TokenInv'
    BY <1>2, NextTokenInv
  <2> QED
    BY <1>1, <2>1, InitTokenInv, TypeCorrect, PTL DEF Spec
<1> QED
  BY <1>2

-----------------------------------------------------------------------------
(* A workload is restarted once for a content *)

(* A pass that holds a content holds one, and a rollout is of the target's. *)
Revealed ==
    /\ Holds => pass.got # None
    /\ pc = "rollout" => target.hash \in {None, pass.got}

(* What the pass knows of the hash it will replace, and has put on record of it *)
Baseline ==
    /\ pc \in {"record", "write"} => target.hash \in {None, pass.prev}
    /\ pc = "record" => pass.prev # None
    /\ pc = "write" /\ obj.work # {} /\ obj.last = None =>
         pass.prev \in {None, pass.got}

(* By some copy of the object that is stored, the target's content is yet to *)
(* be rolled out.  Copies of an object of an earlier UID do not matter.      *)
Owing ==
    /\ target.hash # None
    /\ \E o \in {cr, cached, obj} : o.uid = cr.uid /\ o.last \notin {None, target.hash}

(***************************************************************************)
(* A workload that was restarted since the target's hash last changed      *)
(* bears the mark of the object that may still want to restart it, so that *)
(* patchPodTemplate finds nothing more to do: either that object did it,   *)
(* or it came later and, having seen that hash first, owes nothing.        *)
(***************************************************************************)
Counted ==
    \A w \in Workloads :
        restarts[w] # 0 =>
            /\ restarts[w] = 1
            /\ pods[w].there =>
                 /\ pc = "rollout" => pods[w].mark[obj.uid] = pass.got
                 /\ Owing => pods[w].mark[cr.uid] = target.hash

RestartInv == Revealed /\ Baseline /\ Counted

(* A FerrVaultSecret that was just created has restarted nothing. *)
LEMMA InitRestartInv == Init => RestartInv
  BY DEF Init, RestartInv, Revealed, Holds, Baseline, Counted

(* What a step that touches neither the target nor a workload must leave alone *)
Indifferent ==
    /\ Revealed' /\ Baseline'
    /\ Owing' => Owing /\ cr'.uid = cr.uid
    /\ pc' = "rollout" => pc = "rollout" /\ obj'.uid = obj.uid /\ pass'.got = pass.got

(* An update, accepted or not, stores what the pass had in hand. *)
LEMMA UpdatesIndifferent ==
    ASSUME TypeOK, SyncInv, RestartInv, NEW o, UpdateFails(o),
           o.uid = obj.uid, o.last \in {None, obj.last, target.hash}
    PROVE  Indifferent
  BY DEF UpdateFails, Accepted, ReturnError, Idle, NoPass, NoObject, Gone, cluster,
     Indifferent, RestartInv, Revealed, Holds, Baseline, Owing, SyncInv, CopiesAgree, None

(* The steps of a pass before and after the write, and of everybody else *)
LEMMA StepsIndifferent ==
    ASSUME TypeOK, SyncInv, RestartInv, [Next]_vars,
           ~EnsureTargetSecret, \A w \in Workloads : ~TriggerRollout(w),
           UNCHANGED <<target, pods, restarts>>
    PROVE  Indifferent
<1> USE Counts, Numbers
<1> USE DEF Indifferent, RestartInv, Revealed, Holds, Baseline, Owing, None
<1>1. CASE BeginGone
  BY <1>1 DEF BeginGone
<1>2. CASE BeginLive
  BY <1>2 DEF BeginLive, cluster, NoPass
<1>3. CASE BeginDeleting
  BY <1>3 DEF BeginDeleting, cluster, NoPass
<1>4. CASE AddFinalizer
  <2> DEFINE o == [obj EXCEPT !.fin = TRUE]
  <2>1. o.uid = obj.uid /\ o.last = obj.last
    BY DEF TypeOK, Objects
  <2>2. CASE Accepted(o) /\ obj' = o /\ pc' = "conn" /\ UNCHANGED <<cached, target, pass>>
    <3>1. cr' = o /\ o.uid = cr.uid /\ pc = "finalizer"
      BY <1>4, <2>1, <2>2 DEF AddFinalizer, Accepted, SyncInv, CopiesAgree
    <3> QED
      BY <2>1, <2>2, <3>1
  <2> QED
    BY <1>4, <2>1, <2>2, UpdatesIndifferent DEF AddFinalizer, cluster
<1>5. CASE RemoveFinalizer
  <2>1. Gone(obj).uid = obj.uid /\ Gone(obj).last = None
    BY DEF Gone
  <2>2. CASE Accepted(Gone(obj)) /\ Idle /\ UNCHANGED <<cached, target>>
    BY <1>5, <2>1, <2>2 DEF RemoveFinalizer, Accepted, Idle, NoPass, NoObject, Gone,
       SyncInv, CopiesAgree
  <2> QED
    BY <1>5, <2>1, <2>2, UpdatesIndifferent DEF RemoveFinalizer, cluster
<1>6. CASE GetConnection
  BY <1>6 DEF GetConnection, cluster, FailReady, TypeOK, Objects, Passes
<1>7. CASE LoadToken
  BY <1>7 DEF LoadToken, cluster, FailReady, TypeOK, Objects, Passes
<1>8. CASE RevealRateLimited
  BY <1>8 DEF RevealRateLimited, ReturnAfter, Idle, NoPass, NoObject, Gone, cluster
<1>9. CASE RevealFails
  BY <1>9 DEF RevealFails, cluster, FailReady, TypeOK, Objects, Passes
<1>10. CASE Reveal
  BY <1>10 DEF Reveal, cluster, FailReady, TypeOK, Objects, Passes
<1>11. CASE CheckTargetExists
  <2>1. /\ pc = "exists" /\ pc' \in {"fail", "hash"}
        /\ UNCHANGED <<cr, cached, target, pass>>
    BY <1>11 DEF CheckTargetExists, FailReady, cluster
  <2>2. obj'.uid = obj.uid /\ obj'.last = obj.last
    BY <1>11 DEF CheckTargetExists, FailReady, TypeOK, Objects
  <2> QED
    BY <2>1, <2>2
<1>12. CASE ReadContentHash
  BY <1>12 DEF ReadContentHash, MustRecord, RolloutDue, cluster, FailReady, TypeOK,
     Objects, Passes
<1>13. CASE RecordPendingRollout
  <2> DEFINE o == [obj EXCEPT !.last = pass.prev]
  <2>1. o.uid = obj.uid /\ o.last = pass.prev /\ pc = "record"
    BY <1>13 DEF RecordPendingRollout, TypeOK, Objects
  <2>2. CASE Accepted(o) /\ obj' = o /\ pc' = "write" /\ UNCHANGED <<cached, target, pass>>
    <3>1. cr' = o /\ o.uid = cr.uid
      BY <2>1, <2>2 DEF Accepted, SyncInv, CopiesAgree
    <3> QED
      BY <2>1, <2>2, <3>1
  <2>3. CASE UpdateFails(o)
    <3>1. /\ cr' = cr \/ (cr' = o /\ obj.uid = cr.uid)
          /\ UNCHANGED <<cached, target>>
      BY <2>3 DEF UpdateFails, Accepted, cluster, SyncInv, CopiesAgree
    <3>2. pc' = "idle" /\ obj'.last = None
      BY <2>3 DEF UpdateFails, ReturnError, Idle, NoObject, Gone
    <3> HIDE DEF o
    <3> QED
      BY <2>1, <3>1, <3>2
  <2> QED
    BY <1>13, <2>2, <2>3 DEF RecordPendingRollout, cluster
<1>14. CASE EndRollout
  BY <1>14 DEF EndRollout, AfterRollout, cluster, TypeOK, Objects
<1>15. CASE UpdateStatus
  <2>1. FinalStatus.uid = obj.uid /\ FinalStatus.last = obj.last
    BY DEF FinalStatus, TypeOK, Objects
  <2>2. CASE Accepted(FinalStatus) /\ Idle /\ UNCHANGED <<cached, target>>
    BY <1>15, <2>1, <2>2 DEF UpdateStatus, Accepted, Idle, NoPass, NoObject, Gone,
       SyncInv, CopiesAgree
  <2> QED
    BY <1>15, <2>1, <2>2, UpdatesIndifferent
    DEF UpdateStatus, cluster, ReturnError, ReturnAfterRefresh
<1>16. CASE UpdateFailStatus
  <2>1. CASE Accepted(obj) /\ Idle /\ UNCHANGED <<cached, target>>
    BY <1>16, <2>1 DEF UpdateFailStatus, Accepted, Idle, NoPass, NoObject, Gone,
       SyncInv, CopiesAgree
  <2> QED
    BY <1>16, <2>1, UpdatesIndifferent
    DEF UpdateFailStatus, cluster, ReturnAfter, ReturnAfterRefresh
<1>17. CASE Crash
  BY <1>17 DEF Crash, Idle, NoPass, NoObject, Gone, cluster
<1>18. CASE CacheSync
  BY <1>18 DEF CacheSync, cluster
<1>19. CASE ConnectionTouched
  BY <1>19 DEF ConnectionTouched, cluster
<1>20. CASE SpecEdit
  BY <1>20 DEF SpecEdit, Overwritten, cluster, TypeOK, Objects, Passes
<1>21. CASE Delete
  BY <1>21 DEF Delete, Overwritten, Gone, cluster, TypeOK, Objects, Passes
<1>22. CASE Recreate
  BY <1>22 DEF Recreate, Overwritten, Created, cluster, TypeOK, Passes, SyncInv,
     CopiesAgree, NoObject, Gone, GenerationsOrdered
<1>23. CASE VaultChange
  BY <1>23 DEF VaultChange, operator
<1>24. CASE ConnEdit
  BY <1>24 DEF ConnEdit
<1>25. CASE TargetDelete \/ TargetDrift \/ ForeignTarget \/ GarbageCollect
  BY <1>25 DEF TargetDelete, TargetDrift, ForeignTarget, GarbageCollect, TargetBecomes
<1>26. CASE \E w \in Workloads : PodStart(w) \/ PodRestart(w) \/ Reapply(w) \/ WorkloadGone(w)
  BY <1>26 DEF PodStart, PodRestart, Reapply, WorkloadGone, operator
<1>27. CASE UNCHANGED vars
  BY <1>27 DEF vars, cluster, operator
<1> QED
  BY <1>1, <1>2, <1>3, <1>4, <1>5, <1>6, <1>7, <1>8, <1>9, <1>10, <1>11, <1>12,
     <1>13, <1>14, <1>15, <1>16, <1>17, <1>18, <1>19, <1>20, <1>21, <1>22, <1>23,
     <1>24, <1>25, <1>26, <1>27
  DEF Next, Reconcile, Environment

(***************************************************************************)
(* The environment of the theorem: no manifest is re-applied without the   *)
(* operator's annotations, and nobody puts a Secret under the target's     *)
(* name that comes with a content hash of its own.                         *)
(***************************************************************************)
Unforged == Events \cap {"Reapply", "ForeignTarget"} = {}

(* Nothing breaks RestartInv in such an environment. *)
LEMMA NextRestartInv ==
    ASSUME Unforged, TypeOK, SyncInv, RestartInv, [Next]_vars
    PROVE  RestartInv'
<1> USE Numbers
<1> USE DEF RestartInv, Revealed, Holds, Baseline, Owing, Counted, None
<1>1. CASE EnsureTargetSecret
  <2>1. /\ pc = "write" /\ pass.got # None /\ pass'.got = pass.got
        /\ pc' \in {"rollout", "status", "fail"} /\ UNCHANGED <<cr, cached, pods>>
        /\ obj'.uid = obj.uid /\ obj.uid = cr.uid
    BY <1>1 DEF EnsureTargetSecret, StartRollout, FailReady, TypeOK, Passes, Objects,
       SyncInv, FinalizerProtects, StillHeld, Protected, PCs
  <2>2. CASE FailReady(obj, "fail") /\ UNCHANGED <<target, restarts>>
    BY <2>1, <2>2 DEF FailReady, TypeOK, Objects
  <2>3. CASE WriteTarget
    <3>1. target'.hash = pass.got
      BY <2>3 DEF WriteTarget, Synced
    <3>2. obj'.last \in {None, pass.got, obj.last}
      BY <1>1 DEF EnsureTargetSecret, StartRollout, FailReady, TypeOK, Objects
    <3>3. CASE target.hash = pass.got
      <4>1. restarts' = restarts
        BY <2>3, <3>3 DEF WriteTarget
      <4>2. pc' = "rollout" => obj.last \notin {None, pass.got}
        <5>1. pc' = "rollout" => obj.work # {} /\ RolloutDue(obj.last, pass.prev, pass.got)
          BY <1>1, <2>1 DEF EnsureTargetSecret, StartRollout, FailReady
        <5> QED
          BY <2>1, <5>1 DEF RolloutDue
      <4>3. Owing' => Owing
        BY <2>1, <3>1, <3>2, <3>3
      <4>4. pc' = "rollout" => Owing
        BY <2>1, <3>3, <4>2
      <4> QED
        BY <2>1, <3>1, <3>3, <4>1, <4>3, <4>4
    <3>4. CASE target.hash # pass.got
      <4>1. \A w \in Workloads : restarts'[w] = 0
        BY <2>3, <3>4 DEF WriteTarget
      <4> QED
        BY <2>1, <3>1, <4>1
    <3> QED
      BY <3>3, <3>4
  <2> QED
    BY <1>1, <2>2, <2>3 DEF EnsureTargetSecret
<1>2. ASSUME NEW w \in Workloads, TriggerRollout(w)
      PROVE  RestartInv'
  <2>1. /\ pc = "rollout" /\ pass'.got = pass.got
        /\ UNCHANGED <<pc, target, cr, cached, obj>>
        /\ UNCHANGED <<pods, restarts>> \/ (pods[w].there /\ PatchPodTemplate(w))
        /\ obj.uid = cr.uid
    BY <1>2 DEF TriggerRollout, TypeOK, Passes, SyncInv, FinalizerProtects, StillHeld,
       Protected, PCs
  <2>2. CASE UNCHANGED <<pods, restarts>>
    BY <2>1, <2>2
  <2>3. CASE pods[w].there /\ pods[w].mark[obj.uid] # pass.got /\ PatchPodTemplate(w)
    <3>1. restarts[w] = 0
      BY <2>1, <2>3
    <3>2. /\ restarts'[w] = 1
          /\ \A x \in Workloads \ {w} : restarts'[x] = restarts[x]
      BY <2>3, <3>1 DEF PatchPodTemplate, TypeOK
    <3>3. /\ pods'[w].mark[obj.uid] = pass.got
          /\ \A x \in Workloads \ {w} : pods'[x] = pods[x]
      <4>1. pods' = [pods EXCEPT ![w] = Marked(w, obj.uid, pass.got)]
        BY <2>3 DEF PatchPodTemplate
      <4>2. obj.uid \in 1..MaxUid
        BY <2>1, Counts DEF SyncInv, GenerationsOrdered
      <4> QED
        BY ONLY <4>1, <4>2, TypeOK, w \in Workloads, RestartedPods
    <3> QED
      BY <2>1, <3>2, <3>3
  <2> QED
    BY <2>1, <2>2, <2>3 DEF PatchPodTemplate
<1>3. CASE TargetDelete \/ TargetDrift \/ GarbageCollect
  <2>1. UNCHANGED <<cr, cached, obj, pc, pass, pods, restarts>>
    BY <1>3 DEF TargetDelete, TargetDrift, GarbageCollect, TargetBecomes
  <2>2. target'.hash \in {None, target.hash}
    BY <1>3 DEF TargetDelete, TargetDrift, GarbageCollect, TargetBecomes, NoSecret,
       TypeOK, Secrets
  <2> QED
    BY <2>1, <2>2
<1>4. ASSUME NEW w \in Workloads, PodStart(w) \/ PodRestart(w) \/ WorkloadGone(w)
      PROVE  RestartInv'
  <2>1. UNCHANGED <<cr, cached, obj, pc, pass, target, restarts>>
    BY <1>4 DEF PodStart, PodRestart, WorkloadGone, operator
  <2>2. /\ pods'[w].there => pods[w].there /\ pods'[w].mark = pods[w].mark
        /\ \A x \in Workloads \ {w} : pods'[x] = pods[x]
    <3>1. CASE PodStart(w) \/ PodRestart(w)
      <4>1. /\ pods[w].there /\ pods' = [pods EXCEPT ![w] = Restarted(w, target)]
        BY <3>1 DEF PodStart, PodRestart
      <4>2. /\ pods'[w].mark = pods[w].mark
            /\ \A x \in Workloads \ {w} : pods'[x] = pods[x]
        BY ONLY <4>1, TypeOK, w \in Workloads, RestartedPods
      <4> QED
        BY <4>1, <4>2
    <3>2. CASE WorkloadGone(w)
      BY <3>2 DEF WorkloadGone, TypeOK
    <3> QED
      BY <1>4, <3>1, <3>2
  <2> QED
    BY <2>1, <2>2
<1>5. ASSUME NEW w \in Workloads PROVE ~Reapply(w) /\ ~ForeignTarget
  BY DEF Reapply, ForeignTarget, Disrupts, Unforged
<1>6. CASE /\ ~EnsureTargetSecret /\ \A w \in Workloads : ~TriggerRollout(w)
           /\ ~(TargetDelete \/ TargetDrift \/ GarbageCollect)
           /\ \A w \in Workloads : ~(PodStart(w) \/ PodRestart(w) \/ WorkloadGone(w))
  <2>1. UNCHANGED <<target, pods, restarts>>
    <3>1. ~ForeignTarget
      BY DEF ForeignTarget, Disrupts, Unforged
    <3> QED
      BY ONLY <1>5, <1>6, <3>1, [Next]_vars
      DEF Next, Reconcile, Environment, vars, cluster, operator, BeginGone, BeginLive,
          BeginDeleting, AddFinalizer, RemoveFinalizer, UpdateFails, GetConnection,
          LoadToken, RevealRateLimited, RevealFails, Reveal, CheckTargetExists,
          ReadContentHash, RecordPendingRollout, EndRollout, UpdateStatus,
          UpdateFailStatus, Crash, CacheSync, ConnectionTouched, SpecEdit, Delete,
          Recreate, Overwritten, VaultChange, ConnEdit
  <2>2. Indifferent
    BY ONLY <1>6, <2>1, TypeOK, SyncInv, RestartInv, [Next]_vars, StepsIndifferent
  <2> QED
    BY <2>1, <2>2 DEF Indifferent
<1> QED
  BY <1>1, <1>2, <1>3, <1>4, <1>6

(***************************************************************************)
(* However often a rollout is tried again, after a failed or unanswered    *)
(* call, a conflict or a crash, and whatever happens to the target, the    *)
(* vault and the connection meanwhile, no workload is restarted twice for  *)
(* a content.  While the object lives, the mark that patchPodTemplate left *)
(* under its UID stops it; one that is created again bears another UID and *)
(* finds no mark, but owes only what changes after it has seen the target. *)
(***************************************************************************)
THEOREM RestartedAtMostOnce == Unforged /\ Spec => []RestartedOnce
<1>1. RestartInv => RestartedOnce
  BY DEF RestartInv, Counted, RestartedOnce
<1>2. ASSUME Unforged PROVE Spec => []RestartedOnce
  <2>1. TypeOK /\ SyncInv /\ RestartInv /\ [Next]_vars => RestartInv'
    BY <1>2, NextRestartInv
  <2> QED
    BY <1>1, <2>1, InitRestartInv, SyncInvariant, TypeCorrect, PTL DEF Spec
<1> QED
  BY <1>2
=============================================================================
