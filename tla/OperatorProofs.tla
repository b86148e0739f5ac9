---------------------------- MODULE OperatorProofs ----------------------------
(***************************************************************************)
(* Proofs about Operator: what the proofs about the two reconcilers say of *)
(* each holds in the process that runs both, and the token Secret between  *)
(* them outlasts everything that happens there.                            *)
(*                                                                         *)
(* The lemmas of SecretSyncProofs and ConnectionReconcilerProofs are used  *)
(* with Operator's variables in the place of theirs.                       *)
(***************************************************************************)
EXTENDS Operator, TLAPS

SP == INSTANCE SecretSyncProofs WITH
    Workloads <- {}, WorkLists <- {{}}, Broken <- {}, Partial <- {}, Blank <- {},
    ConnKinds <- {"absent"} \cup Kinds, Events <- SecretEvents,
    cached <- crCached, cacheFresh <- crFresh, conn <- Found(connCached),
    pods <- <<>>, gauge <- syncGauge, restarts <- <<>>

CP == INSTANCE ConnectionReconcilerProofs WITH
    Secrets <- {TheSecret}, Worlds <- {"healthy", "unread"}, Events <- ConnectionEvents,
    cached <- connCached, cacheFresh <- connFresh,
    refs <- Referring(cr), cachedRefs <- Referring(crCached), world <- World,
    pc <- connPc, obj <- connObj, fresh <- connPassFresh,
    queued <- connQueued, gauge <- readyGauge, throttled <- connThrottled

-----------------------------------------------------------------------------
(* The parts in the whole *)

(* The constants of the parts are as their modules assume. *)
LEMMA PartsAssumptions == SP!ConstantsAssumption /\ CP!ConnectionAssumption
  BY OperatorAssumption
  DEF SP!ConstantsAssumption, SP!Contents, SP!ConnStates, SP!EventKinds,
      CP!ConnectionAssumption, CP!WorldKinds, CP!EventKinds

(* The steps of a FerrVaultSecret in the process are those of its module. *)
LEMMA SecretSteps ==
    /\ S!Reconcile => SP!Next
    /\ S!CacheSync \/ S!GarbageCollect \/ S!Delete \/ S!Recreate \/ S!VaultChange => SP!Next
<1>1. S!Reconcile => SP!Reconcile
  BY DEF S!Reconcile, SP!Reconcile, S!BeginGone, SP!BeginGone, S!BeginLive,
         SP!BeginLive, S!BeginDeleting, SP!BeginDeleting, S!AddFinalizer,
         SP!AddFinalizer, S!RemoveFinalizer, SP!RemoveFinalizer, S!GetConnection,
         SP!GetConnection, S!LoadToken, SP!LoadToken, S!RevealRateLimited,
         SP!RevealRateLimited, S!RevealFails, SP!RevealFails, S!Reveal, SP!Reveal,
         S!CheckTargetExists, SP!CheckTargetExists, S!ReadContentHash,
         SP!ReadContentHash, S!RecordPendingRollout, SP!RecordPendingRollout,
         S!EnsureTargetSecret, SP!EnsureTargetSecret, S!TriggerRollout,
         SP!TriggerRollout, S!EndRollout, SP!EndRollout, S!UpdateStatus,
         SP!UpdateStatus, S!UpdateFailStatus, SP!UpdateFailStatus, S!Disrupts,
         SP!Disrupts, S!Adoptable, SP!Adoptable, S!Ownable, SP!Ownable,
         S!HoldsToken, SP!HoldsToken, S!WithoutOwner, SP!WithoutOwner, S!Synced,
         SP!Synced, S!Notified, SP!Notified, S!Restarted, SP!Restarted, S!Idle,
         SP!Idle, S!ReturnError, SP!ReturnError, S!ReturnAfterRefresh,
         SP!ReturnAfterRefresh, S!ReturnAfter, SP!ReturnAfter, S!FailReady,
         SP!FailReady, S!Accepted, SP!Accepted, S!UpdateFails, SP!UpdateFails,
         S!DeleteLastSyncTimestamp, SP!DeleteLastSyncTimestamp, S!TokenTarget,
         SP!TokenTarget, S!TokenReadable, SP!TokenReadable, S!LeaveTarget,
         SP!LeaveTarget, S!RolloutDue, SP!RolloutDue, S!MustRecord, SP!MustRecord,
         S!StartRollout, SP!StartRollout, S!Differs, SP!Differs, S!WriteTarget,
         SP!WriteTarget, S!Writable, SP!Writable, S!PatchPodTemplate,
         SP!PatchPodTemplate, S!AfterRollout, SP!AfterRollout, S!FinalStatus,
         SP!FinalStatus, S!cluster, SP!cluster, S!operator, SP!operator, S!vars,
         SP!vars, S!None, SP!None, S!Contents, SP!Contents, S!Edited, SP!Edited,
         S!Other, SP!Other, S!NoObject, SP!NoObject, S!NoPass, SP!NoPass,
         S!NoSecret, SP!NoSecret, S!Gone, SP!Gone, S!Created, SP!Created
<1>2. S!CacheSync \/ S!GarbageCollect \/ S!Delete \/ S!Recreate \/ S!VaultChange
        => SP!Environment
  BY DEF SP!Environment, S!CacheSync, SP!CacheSync, S!GarbageCollect, SP!GarbageCollect, S!Delete,
         SP!Delete, S!Recreate, SP!Recreate, S!VaultChange, SP!VaultChange,
         S!TargetBecomes, SP!TargetBecomes, S!Overwritten, SP!Overwritten,
         S!Disrupts, SP!Disrupts, S!Notified, SP!Notified, S!cluster, SP!cluster,
         S!operator, SP!operator, S!None, SP!None, S!Contents, SP!Contents,
         S!Other, SP!Other, S!NoSecret, SP!NoSecret, S!Gone, SP!Gone, S!Created,
         SP!Created
<1> QED
  BY <1>1, <1>2 DEF SP!Next

(* And so are those of its connection. *)
LEMMA ConnectionSteps ==
    C!Reconcile \/ C!Crash \/ C!CacheSync \/ C!Delete \/ C!Create => CP!Next
  BY DEF CP!Next, CP!Environment, C!Reconcile, CP!Reconcile, C!BeginGone, CP!BeginGone, C!Begin, CP!Begin,
         C!AddFinalizer, CP!AddFinalizer, C!ProbeRateLimited, CP!ProbeRateLimited,
         C!Probe, CP!Probe, C!UpdateStatus, CP!UpdateStatus, C!SetConnectionReady,
         CP!SetConnectionReady, C!ListDependants, CP!ListDependants,
         C!RemoveFinalizer, CP!RemoveFinalizer, C!UpdateBlocked, CP!UpdateBlocked,
         C!Crash, CP!Crash, C!CacheSync, CP!CacheSync, C!Delete, CP!Delete,
         C!Create, CP!Create, C!Disrupts, CP!Disrupts, C!Idle, CP!Idle,
         C!ReturnError, CP!ReturnError, C!ReturnAfter, CP!ReturnAfter, C!Accepted,
         CP!Accepted, C!UpdateFails, CP!UpdateFails, C!Dependants, CP!Dependants,
         C!Overwritten, CP!Overwritten, C!Gone, CP!Gone, C!Created, CP!Created,
         C!object, CP!object, C!dependants, CP!dependants, C!operator, CP!operator

-----------------------------------------------------------------------------
(* The invariants of the parts *)

PartsInv == kind \in Kinds /\ SP!TypeOK /\ SP!SyncInv /\ CP!ReleaseInv

(* What a FerrVaultSecret's pass finds of the connection is a state of one. *)
LEMMA FoundType == ASSUME kind \in Kinds PROVE \A o : Found(o) \in SP!ConnStates
  BY OperatorAssumption DEF Found, SP!ConnStates

(* What handleDelete lists is a list of references. *)
LEMMA ReferringType ==
    ASSUME NEW o \in SP!Objects
    PROVE  /\ Referring(o) \in CP!References
           /\ \A s \in {TheSecret} : Referring(o)[s] # "none" <=> o.phase # "absent"
  BY DEF Referring, CP!References, SP!Objects, TheSecret

(* Both begin as their modules say. *)
LEMMA InitPartsInv == Init => PartsInv
<1> SUFFICES ASSUME Init PROVE PartsInv
  OBVIOUS
<1>1. SP!Init
  BY DEF Init, S!Init, SP!Init, S!Created, SP!Created, S!NoSecret, SP!NoSecret, S!NoObject,
     SP!NoObject, S!NoPass, SP!NoPass, S!Gone, SP!Gone, S!None, SP!None, S!Edited, SP!Edited
<1>2. CP!Init
  BY DEF Init, C!Init, CP!Init, C!Created, CP!Created, C!Gone, CP!Gone
<1>3. SP!TypeOK /\ SP!SyncInv
  BY <1>1, SP!InitTypeOK, SP!InitSyncInv, PartsAssumptions
<1>4. CP!ReleaseInv
  BY <1>2, CP!InitReleaseInv, PartsAssumptions
<1> QED
  BY <1>3, <1>4 DEF Init, PartsInv

(* The steps of Operator that are one of the FerrVaultSecret *)
SecretStep == SecretReconcile \/ SecretSync \/ CollectGarbage \/ SecretEvent

(* A step of the FerrVaultSecret leaves the connection's invariant alone: *)
(* one that goes is not waited for any more.                              *)
LEMMA SecretStepInv == PartsInv /\ SecretStep => PartsInv'
<1> SUFFICES ASSUME PartsInv, SecretStep PROVE PartsInv'
  OBVIOUS
<1>1. /\ UNCHANGED <<kind, connectionRest>> /\ Beside
      /\ \/ S!Reconcile
         \/ S!CacheSync \/ S!GarbageCollect \/ S!Delete \/ S!Recreate \/ S!VaultChange
  BY DEF SecretStep, SecretReconcile, SecretSync, CollectGarbage, SecretEvent
<1>2. SP!TypeOK' /\ SP!SyncInv'
  BY <1>1, SecretSteps, SP!NextTypeOK, SP!NextSyncInv, PartsAssumptions DEF PartsInv
<1>3. crCached' = crCached \/ (crCached' = cr /\ cr' = cr)
  BY <1>1 DEF S!Reconcile, S!BeginGone, S!BeginLive, S!BeginDeleting, S!AddFinalizer,
     S!RemoveFinalizer, S!UpdateFails, S!GetConnection, S!LoadToken, S!RevealRateLimited,
     S!RevealFails, S!Reveal, S!CheckTargetExists, S!ReadContentHash,
     S!RecordPendingRollout, S!EnsureTargetSecret, S!TriggerRollout, S!EndRollout,
     S!UpdateStatus, S!UpdateFailStatus, S!CacheSync, S!GarbageCollect, S!TargetBecomes,
     S!Delete, S!Recreate, S!Overwritten, S!VaultChange
<1>4. /\ cr \in SP!Objects /\ crCached \in SP!Objects
      /\ cr' \in SP!Objects /\ crCached' \in SP!Objects /\ spent' \in Nat
  BY <1>2 DEF PartsInv, SP!TypeOK
<1>5. /\ UNCHANGED <<conn, connCached, connFresh, connPc, connObj, connPassFresh, met,
                     readyGauge, connThrottled>>
      /\ known' = {s \in known : cr'.phase # "absent"}
      /\ connQueued \in BOOLEAN => connQueued' \in BOOLEAN
  BY <1>1 DEF connectionRest, Beside
<1>6. CP!TypeOK'
  <2>1. Referring(cr)' \in CP!References /\ Referring(crCached)' \in CP!References
    BY <1>4, ReferringType
  <2>2. World' \in CP!WorldKinds
    BY DEF World, CP!WorldKinds
  <2> QED
    BY <1>4, <1>5, <2>1, <2>2 DEF PartsInv, CP!ReleaseInv, CP!TypeOK
<1>7. CP!KnownRefer'
  <2>1. \A s \in known : s \in {TheSecret} /\ crCached.phase # "absent"
    BY <1>4, ReferringType DEF PartsInv, CP!ReleaseInv, CP!TypeOK, CP!KnownRefer
  <2>2. \A s \in known' : s \in known /\ cr'.phase # "absent" /\ crCached'.phase # "absent"
    BY <1>3, <1>5, <2>1
  <2>3. \A s \in known' : Referring(cr)'[s] # "none" /\ Referring(crCached)'[s] # "none"
    BY <1>4, <2>1, <2>2, ReferringType
  <2>4. known' # {} => conn'.phase = "deleting"
    BY <1>5, <2>2 DEF PartsInv, CP!ReleaseInv, CP!KnownRefer
  <2> QED
    BY <2>3, <2>4 DEF CP!KnownRefer
<1>8. CP!CopiesAgree' /\ CP!Released'
  BY <1>5 DEF PartsInv, CP!ReleaseInv, CP!CopiesAgree, CP!Released
<1> QED
  BY <1>1, <1>2, <1>6, <1>7, <1>8 DEF PartsInv, CP!ReleaseInv

(* The steps of Operator that are one of the connection *)
ConnectionStep == ConnectionReconcile \/ ConnectionEvent \/ ConnectionSync

(* A step of the connection is none that the FerrVaultSecret's invariant *)
(* could notice.                                                         *)
LEMMA ConnectionStepInv == PartsInv /\ ConnectionStep => PartsInv'
<1> SUFFICES ASSUME PartsInv, ConnectionStep PROVE PartsInv'
  OBVIOUS
<1>1. /\ C!Reconcile \/ C!CacheSync \/ C!Delete \/ C!Create
      /\ UNCHANGED <<kind, cr, crCached, crFresh, target, vault, pc, obj, pass, syncGauge,
                     throttled>>
      /\ queued \in BOOLEAN => queued' \in BOOLEAN
  BY DEF ConnectionStep, ConnectionReconcile, ConnectionEvent, ConnectionSync, secretSide,
     secretObject, TellReferring
<1>2. CP!ReleaseInv'
  BY <1>1, ConnectionSteps, CP!NextReleaseInv, PartsAssumptions DEF PartsInv
<1>3. SP!TypeOK'
  <2>1. Found(connCached)' \in SP!ConnStates
    BY <1>1, FoundType DEF PartsInv, Found
  <2>2. spent' \in Nat
    BY <1>2 DEF CP!ReleaseInv, CP!TypeOK
  <2> QED
    BY <1>1, <2>1, <2>2 DEF PartsInv, SP!TypeOK
<1>4. SP!SyncInv'
  BY <1>1 DEF PartsInv, SP!SyncInv, SP!CopiesAgree, SP!FinalizerProtects, SP!StillHeld,
     SP!GenerationsOrdered, SP!TargetKnown, SP!GaugeNeedsObject, SP!ReadyReflectsSpec
<1> QED
  BY <1>1, <1>2, <1>3, <1>4 DEF PartsInv

(* Both die together, and the next process lists what there is. *)
LEMMA CrashInv == PartsInv /\ Crash => PartsInv'
<1> SUFFICES ASSUME PartsInv, Crash PROVE PartsInv'
  OBVIOUS
<1>1. /\ C!Crash
      /\ crCached' = cr /\ crFresh' = TRUE
      /\ pc' = "idle" /\ obj' = SP!NoObject /\ pass' = SP!NoPass
      /\ queued' = (cr.phase # "absent")
      /\ syncGauge' = FALSE /\ throttled' = FALSE
      /\ UNCHANGED <<kind, cr, target, vault>>
  BY DEF Crash, S!Idle, S!NoObject, SP!NoObject, S!NoPass, SP!NoPass, S!Gone, SP!Gone,
     S!None, SP!None
<1>2. CP!ReleaseInv'
  BY <1>1, ConnectionSteps, CP!NextReleaseInv, PartsAssumptions DEF PartsInv
<1>3. SP!TypeOK'
  <2>1. Found(connCached)' \in SP!ConnStates
    BY <1>1, FoundType DEF PartsInv, Found
  <2>2. spent' \in Nat
    BY <1>2 DEF CP!ReleaseInv, CP!TypeOK
  <2>3. SP!NoPass \in SP!Passes /\ SP!NoObject \in SP!Objects
    BY SP!ValueTypes, PartsAssumptions
  <2> QED
    BY <1>1, <2>1, <2>2, <2>3 DEF PartsInv, SP!TypeOK, SP!PCs
<1>4. SP!SyncInv'
  <2>1. SP!TypeOK /\ SP!SyncInv
    BY DEF PartsInv
  <2>2. ~ pass'.fresh
    <3>1. SP!NoPass.fresh = FALSE
      BY DEF SP!NoPass
    <3> QED
      BY <1>1, <3>1
  <2>3. SP!CopiesAgree' /\ SP!TargetKnown'
    <3>1. SP!CopiesAgree'
      BY <1>1, <2>2 DEF SP!CopiesAgree
    <3>2. SP!TargetKnown'
      BY <1>1, <2>1 DEF SP!SyncInv, SP!TargetKnown, SP!ReadyReflectsSpec
    <3> QED
      BY <3>1, <3>2
  <2>4. SP!FinalizerProtects'
    <3>1. SP!NoObject.phase = "absent"
      BY DEF SP!NoObject, SP!Gone
    <3> QED
      BY <1>1, <2>1, <3>1 DEF SP!SyncInv, SP!FinalizerProtects, SP!StillHeld,
         SP!GaugeNeedsObject, SP!Protected, SP!PCs
  <2>5. SP!GenerationsOrdered'
    <3>1. /\ 1 <= cr.gen /\ target.from <= cr.gen /\ cr.obs <= cr.gen
          /\ 1 <= cr.uid /\ cr.uid <= MaxUid /\ cr.uid \in Nat
      BY <2>1, SP!Counts, PartsAssumptions DEF SP!SyncInv, SP!GenerationsOrdered
    <3> QED
      BY <1>1, <2>1, <3>1, SP!Counts, PartsAssumptions DEF SP!GenerationsOrdered
  <2> QED
    BY <2>3, <2>4, <2>5 DEF SP!SyncInv
<1> QED
  BY <1>1, <1>2, <1>3, <1>4 DEF PartsInv

(* Every step of the process is one of these. *)
LEMMA Steps == Next => SecretStep \/ ConnectionStep \/ Crash
  BY DEF Next, SecretStep, ConnectionStep

(* Nothing that happens in the process breaks the invariants of its parts. *)
LEMMA NextPartsInv == PartsInv /\ [Next]_vars => PartsInv'
<1> SUFFICES ASSUME PartsInv, [Next]_vars PROVE PartsInv'
  OBVIOUS
<1>1. CASE Next
  BY <1>1, Steps, SecretStepInv, ConnectionStepInv, CrashInv
<1>2. CASE UNCHANGED vars
  <2>1. SP!TypeOK' = SP!TypeOK
    BY <1>2 DEF vars, secretSide, secretObject, connectionRest, SP!TypeOK, Found
  <2>2. SP!SyncInv' = SP!SyncInv
    BY <1>2 DEF vars, secretSide, secretObject, SP!SyncInv, SP!CopiesAgree,
       SP!FinalizerProtects, SP!StillHeld, SP!GenerationsOrdered, SP!TargetKnown,
       SP!GaugeNeedsObject, SP!ReadyReflectsSpec
  <2>3. CP!ReleaseInv' = CP!ReleaseInv
    BY <1>2 DEF vars, secretSide, secretObject, connectionRest, CP!ReleaseInv, CP!TypeOK,
       CP!KnownRefer, CP!CopiesAgree, CP!Released, Referring, World
  <2> QED
    BY <1>2, <2>1, <2>2, <2>3 DEF vars, PartsInv
<1> QED
  BY <1>1, <1>2

(* They hold in every state. *)
LEMMA PartsInvariant == Spec => []PartsInv
  BY InitPartsInv, NextPartsInv, PTL DEF Spec

(***************************************************************************)
(* What each reconciler guarantees by itself, it guarantees next to the    *)
(* other: Ready=True of a FerrVaultSecret is true of its target, its       *)
(* series goes before it does, and the connection's finalizer outlasts the *)
(* FerrVaultSecrets that the operator knew of, in a process whose two      *)
(* loops, informers and crashes interleave.                                *)
(***************************************************************************)
THEOREM PartsKeepPromises ==
    Spec => [](S!ReadyReflectsSpec /\ S!GaugeNeedsObject /\ C!KnownDependantsFirst)
<1>1. PartsInv => S!ReadyReflectsSpec
  BY DEF PartsInv, SP!SyncInv, SP!TargetKnown, SP!ReadyReflectsSpec, S!ReadyReflectsSpec,
     SP!None, S!None
<1>2. PartsInv => S!GaugeNeedsObject
  BY DEF PartsInv, SP!SyncInv, SP!FinalizerProtects, SP!GaugeNeedsObject, S!GaugeNeedsObject
<1>3. PartsInv => C!KnownDependantsFirst
  BY DEF PartsInv, CP!ReleaseInv, CP!KnownRefer, C!KnownDependantsFirst
<1> QED
  BY <1>1, <1>2, <1>3, PartsInvariant, PTL

-----------------------------------------------------------------------------
(* The token Secret between them *)

(***************************************************************************)
(* A Secret that holds the token of a "self" connection stays unowned, and *)
(* a pass that has read the connection knows that its target is the token  *)
(* Secret and has nothing in hand that lacks the token.  Whether there is  *)
(* a connection at the moment does not matter.                             *)
(***************************************************************************)
TokenHeld ==
    kind = "self" =>
        /\ target.exists /\ S!HoldsToken(target.data) /\ target.owner = S!None
        /\ pc \in {"token", "reveal"} \/ S!Holds => S!TokenTarget
        /\ S!Holds => S!HoldsToken(pass.got)

(* The token is there before the operator is. *)
LEMMA InitTokenHeld == Init => TokenHeld
<1> SUFFICES ASSUME Init, kind = "self" PROVE TokenHeld
  BY DEF TokenHeld
<1>1. Found(connCached) = "self"
  BY DEF Init, Found, C!Created
<1>2. target.exists /\ target.data = S!Edited /\ target.owner = S!None /\ pc = "idle"
  BY <1>1 DEF Init, S!Init, S!NoSecret
<1>3. S!HoldsToken(S!Edited)
  BY OperatorAssumption DEF S!HoldsToken, S!Edited, S!None
<1> QED
  BY <1>2, <1>3 DEF TokenHeld, S!Holds

(* A write of the token Secret keeps the key and takes no ownership. *)
LEMMA WriteTokenHeld ==
    ASSUME kind = "self", kind' = kind, SP!TypeOK, TokenHeld, S!EnsureTargetSecret
    PROVE  TokenHeld'
<1>1. /\ pc = "write" /\ S!TokenTarget /\ S!HoldsToken(pass.got)
      /\ pass'.got = pass.got /\ pass'.via = pass.via
  BY DEF S!EnsureTargetSecret, S!StartRollout, S!FailReady, SP!TypeOK, SP!Passes, TokenHeld,
     S!Holds
<1>2. CASE S!WriteTarget
  <2>1. target'.exists /\ target'.data = pass.got /\ target'.owner = S!None
    BY <1>1, <1>2 DEF S!WriteTarget, S!Synced, S!WithoutOwner, TokenHeld
  <2> QED
    BY <1>1, <2>1 DEF TokenHeld, S!TokenTarget
<1>3. CASE target' = target
  BY <1>1, <1>3 DEF TokenHeld, S!TokenTarget
<1> QED
  BY <1>2, <1>3 DEF S!EnsureTargetSecret

(* The steps of the FerrVaultSecret that do not touch its target *)
LEMMA ReadersTokenHeld ==
    ASSUME kind = "self", kind' = kind, SP!TypeOK, TokenHeld, SecretStep, ~S!EnsureTargetSecret
    PROVE  TokenHeld'
<1>1. \/ S!Reconcile
      \/ S!CacheSync \/ S!GarbageCollect \/ S!Delete \/ S!Recreate \/ S!VaultChange
  BY DEF SecretStep, SecretReconcile, SecretSync, CollectGarbage, SecretEvent
<1>2. target' = target
  BY <1>1 DEF S!Reconcile, S!BeginGone, S!BeginLive, S!BeginDeleting, S!AddFinalizer,
     S!RemoveFinalizer, S!UpdateFails, S!GetConnection, S!LoadToken, S!RevealRateLimited,
     S!RevealFails, S!Reveal, S!CheckTargetExists, S!ReadContentHash,
     S!RecordPendingRollout, S!TriggerRollout, S!EndRollout, S!UpdateStatus,
     S!UpdateFailStatus, S!CacheSync, S!GarbageCollect, S!Delete, S!Recreate,
     S!Overwritten, S!VaultChange, S!cluster, TokenHeld
<1>3. /\ S!Holds' => S!Holds \/ (pc = "reveal" /\ S!HoldsToken(pass'.got) /\ pass'.via = pass.via)
      /\ S!Holds /\ S!Holds' => pass'.got = pass.got /\ pass'.via = pass.via
      /\ pc' \in {"token", "reveal"} =>
           \/ pass'.via = kind
           \/ pc \in {"token", "reveal"} /\ pass'.via = pass.via
  BY <1>1 DEF S!Reconcile, S!BeginGone, S!BeginLive, S!BeginDeleting, S!AddFinalizer,
     S!RemoveFinalizer, S!UpdateFails, S!GetConnection, S!LoadToken, S!RevealRateLimited,
     S!RevealFails, S!Reveal, S!FailReady, S!CheckTargetExists, S!ReadContentHash,
     S!RecordPendingRollout, S!TriggerRollout, S!EndRollout, S!UpdateStatus,
     S!UpdateFailStatus, S!ReturnError, S!ReturnAfter, S!ReturnAfterRefresh, S!Idle,
     S!CacheSync, S!GarbageCollect, S!TargetBecomes, S!Delete, S!Recreate, S!Overwritten,
     S!VaultChange, S!operator, S!Holds, S!TokenTarget, SP!TypeOK, SP!Passes, TokenHeld, Found
<1> QED
  BY <1>2, <1>3 DEF TokenHeld, S!TokenTarget, S!Holds

(* No step of the process takes the token away. *)
LEMMA NextTokenHeld == SP!TypeOK /\ TokenHeld /\ [Next]_vars => TokenHeld'
<1> SUFFICES ASSUME SP!TypeOK, TokenHeld, [Next]_vars, kind' = "self" PROVE TokenHeld'
  BY DEF TokenHeld
<1>1. kind' = kind
  BY DEF Next, SecretReconcile, SecretSync, CollectGarbage, SecretEvent, ConnectionReconcile,
     ConnectionEvent, ConnectionSync, Crash, vars
<1>2. CASE SecretStep
  BY <1>1, <1>2, WriteTokenHeld, ReadersTokenHeld
<1>3. CASE ConnectionStep \/ UNCHANGED vars
  <2>1. UNCHANGED <<kind, target, pc, pass>>
    BY <1>3 DEF ConnectionStep, ConnectionReconcile, ConnectionEvent, ConnectionSync,
       secretSide, vars
  <2> QED
    BY <2>1 DEF TokenHeld, S!Holds, S!TokenTarget
<1>4. CASE Crash
  <2>1. pc' = "idle" /\ target' = target
    BY <1>4 DEF Crash, S!Idle
  <2> QED
    BY <1>1, <2>1 DEF TokenHeld, S!Holds
<1> QED
  BY <1>2, <1>3, <1>4, Steps

(***************************************************************************)
(* The token Secret that one reconciler writes and the other reads keeps   *)
(* its key and its life: through every deletion and re-creation of either  *)
(* object, in whichever order, and every loss of the key in the vault.     *)
(***************************************************************************)
THEOREM TokenOutlastsAll == Spec => []TokenOutlasts
<1>1. TokenHeld => TokenOutlasts
  BY DEF TokenHeld, TokenOutlasts, S!TokenSecretSurvives, Found
<1>2. PartsInv => SP!TypeOK
  BY DEF PartsInv
<1> QED
  BY <1>1, <1>2, InitTokenHeld, NextTokenHeld, PartsInvariant, PTL DEF Spec
=============================================================================
