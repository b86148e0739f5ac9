----------------------- MODULE SecretReconcilerProofs -----------------------
(***************************************************************************)
(* Proofs about SecretReconciler: the type invariant, and that a rollout   *)
(* that is owed is never forgotten.                                        *)
(***************************************************************************)
EXTENDS SecretReconciler, TLAPS

-----------------------------------------------------------------------------
(* Types of the values and of the updates the actions make *)

(* The initial and idle values of the variables are of their types. *)
LEMMA ValueTypes ==
    /\ None \in Hashes /\ None \in Nat /\ 1 \in Contents /\ 1 \in Nat
    /\ Contents \subseteq Hashes
    /\ NoPass \in Passes /\ NoSecret \in Secrets /\ NoObject \in Objects
    /\ Unmarked \in [1..MaxUid -> Hashes]
  BY ConstantsAssumption
  DEF Unmarked, None, Hashes, Contents, NoPass, Passes, ConnStates, NoSecret, Secrets,
      NoObject, Gone, Objects, Tri

(* Removal, creation and the updates of fields keep an object an object. *)
LEMMA ObjectTypes ==
    ASSUME NEW o \in Objects
    PROVE  /\ o.uid \in Nat /\ o.gen \in Nat /\ o.work \in SUBSET Workloads
           /\ Gone(o) \in Objects
           /\ [o EXCEPT !.fin = TRUE] \in Objects
           /\ [o EXCEPT !.ready = "False"] \in Objects
           /\ [o EXCEPT !.phase = "deleting", !.gen = @ + 1] \in Objects
           /\ \A h \in Hashes : [o EXCEPT !.last = h] \in Objects
           /\ \A g \in Nat : [o EXCEPT !.obs = g] \in Objects
           /\ \A g \in Nat : \A t, u \in Tri :
                [o EXCEPT !.obs = g, !.ready = t, !.rolled = u] \in Objects
           /\ \A ws \in SUBSET Workloads, f \in BOOLEAN :
                [o EXCEPT !.gen = @ + 1, !.work = ws, !.refresh = f] \in Objects
<1>1. o.uid \in Nat /\ o.gen \in Nat /\ o.gen + 1 \in Nat /\ o.work \in SUBSET Workloads
  BY DEF Objects
<1>2. Gone(o) \in Objects
  BY <1>1 DEF Gone, Objects, Hashes, None, Tri
<1>3. [o EXCEPT !.phase = "deleting", !.gen = @ + 1] \in Objects
  BY <1>1 DEF Objects
<1>4. \A ws \in SUBSET Workloads, f \in BOOLEAN :
         [o EXCEPT !.gen = @ + 1, !.work = ws, !.refresh = f] \in Objects
  BY <1>1 DEF Objects
<1>5. \A g \in Nat : \A t, u \in Tri :
         [o EXCEPT !.obs = g, !.ready = t, !.rolled = u] \in Objects
  BY DEF Objects
<1>6. [o EXCEPT !.fin = TRUE] \in Objects /\ [o EXCEPT !.ready = "False"] \in Objects
  BY DEF Objects, Tri
<1>7. /\ \A h \in Hashes : [o EXCEPT !.last = h] \in Objects
      /\ \A g \in Nat : [o EXCEPT !.obs = g] \in Objects
  BY DEF Objects
<1> QED
  BY <1>1, <1>2, <1>3, <1>4, <1>5, <1>6, <1>7

(* An object that has just been created is an object. *)
LEMMA CreatedType ==
    ASSUME NEW i \in Nat, NEW g \in Nat, NEW ws \in SUBSET Workloads,
           NEW f \in BOOLEAN
    PROVE  Created(i, g, ws, f) \in Objects
  BY DEF Objects, Created, Hashes, None, Tri

(* The updates of the locals keep them of their types. *)
LEMMA PassTypes ==
    ASSUME NEW p \in Passes
    PROVE  /\ p.got \in Hashes /\ p.prev \in Hashes
           /\ \A b \in BOOLEAN : [p EXCEPT !.fresh = b] \in Passes
           /\ \A v \in ConnStates : [p EXCEPT !.via = v] \in Passes
           /\ \A h \in Hashes : [p EXCEPT !.got = h] \in Passes
           /\ \A h \in Hashes : [p EXCEPT !.prev = h] \in Passes
           /\ \A ws \in SUBSET Workloads : [p EXCEPT !.todo = ws] \in Passes
           /\ \A w \in Workloads : [p EXCEPT !.todo = @ \ {w}] \in Passes
           /\ \A w \in Workloads :
                [p EXCEPT !.todo = @ \ {w}, !.failed = TRUE] \in Passes
  BY DEF Passes

(* What ensureTargetSecret writes is a Secret. *)
LEMMA SyncedType ==
    ASSUME NEW s \in Secrets, NEW o \in Objects, NEW tok \in BOOLEAN, NEW h \in Hashes
    PROVE  Synced(s, o, tok, h) \in Secrets
  BY DEF Secrets, Synced, WithoutOwner, Objects, None

(* What others make of the target are Secrets. *)
LEMMA SecretTypes ==
    ASSUME NEW s \in Secrets
    PROVE  /\ s.hash \in Hashes /\ s.data \in Hashes \cup {Edited}
           /\ [s EXCEPT !.data = Edited] \in Secrets
           /\ [NoSecret EXCEPT !.exists = TRUE, !.data = Edited] \in Secrets
           /\ \A b \in BOOLEAN, i \in {None, Other}, h \in Hashes :
                [NoSecret EXCEPT !.exists = TRUE, !.data = Edited, !.managed = b,
                   !.owner = i, !.hash = h] \in Secrets
<1>1. Other \in Nat
  BY ConstantsAssumption DEF Other
<1>2. ASSUME NEW b \in BOOLEAN, NEW i \in {None, Other}, NEW h \in Hashes
      PROVE  [NoSecret EXCEPT !.exists = TRUE, !.data = Edited, !.managed = b,
                !.owner = i, !.hash = h] \in Secrets
  <2>1. i \in Nat
    BY <1>1 DEF None
  <2> QED
    BY <2>1 DEF Secrets, NoSecret, None
<1>3. [NoSecret EXCEPT !.exists = TRUE, !.data = Edited] \in Secrets
  BY DEF Secrets, NoSecret, None, Hashes
<1>4. /\ s.hash \in Hashes /\ s.data \in Hashes \cup {Edited}
      /\ [s EXCEPT !.data = Edited] \in Secrets
  BY DEF Secrets
<1> QED
  BY <1>2, <1>3, <1>4

(* Restarting the pods of a workload, with or without a new annotation. *)
LEMMA PodTypes ==
    ASSUME pods \in [Workloads -> Pod], target \in Secrets,
           NEW w \in Workloads
    PROVE  /\ [pods EXCEPT ![w] = Restarted(w, target)] \in [Workloads -> Pod]
           /\ \A i, h : h \in Hashes =>
                [pods EXCEPT ![w] = Marked(w, i, h)] \in [Workloads -> Pod]
           /\ [pods EXCEPT ![w] = [Restarted(w, target) EXCEPT
                 !.there = TRUE, !.mark = Unmarked]] \in [Workloads -> Pod]
           /\ [pods EXCEPT ![w] = [there |-> FALSE, mark |-> Unmarked, runs |-> None]]
                \in [Workloads -> Pod]
<1>1. None \in Hashes /\ Unmarked \in [1..MaxUid -> Hashes]
  BY DEF Hashes, Unmarked
<1>2. Restarted(w, target) \in Pod
  BY <1>1 DEF Restarted, Pod, Secrets
<1>3. ASSUME NEW i, NEW h \in Hashes PROVE Marked(w, i, h) \in Pod
  <2>1. ASSUME NEW p \in Pod PROVE [p EXCEPT !.mark[i] = h] \in Pod
    <3>1. [p.mark EXCEPT ![i] = h] \in [1..MaxUid -> Hashes]
      BY <2>1 DEF Pod
    <3>2. [p EXCEPT !.mark[i] = h] = [p EXCEPT !.mark = [p.mark EXCEPT ![i] = h]]
      BY <2>1 DEF Pod
    <3> QED
      BY <2>1, <3>1, <3>2 DEF Pod
  <2> QED
    BY <1>2, <2>1 DEF Marked
<1> QED
  BY <1>1, <1>2, <1>3 DEF Pod

-----------------------------------------------------------------------------
(* Type correctness *)

(* The states Init allows are well-typed. *)
LEMMA InitTypeOK == Init => TypeOK
<1> SUFFICES ASSUME Init PROVE TypeOK
  OBVIOUS
<1>1. PICK ws \in WorkLists, f \in Refreshes : cr = Created(1, 1, ws, f)
  BY DEF Init
<1>2. cr \in Objects
  BY <1>1, ValueTypes, CreatedType, ConstantsAssumption
<1>3. target \in Secrets
  BY <1>2, ValueTypes, SecretTypes DEF Init
<1>4. pods \in [Workloads -> Pod]
  BY ValueTypes DEF Init, Pod
<1>5. conn \in ConnStates /\ vault \in Contents /\ spent \in Nat
  BY ValueTypes, ConstantsAssumption DEF Init
<1>6. restarts \in [Workloads -> 0..2]
  BY DEF Init
<1> QED
  BY <1>2, <1>3, <1>4, <1>5, <1>6, ValueTypes DEF Init, TypeOK, PCs

(* The count of outside events stays a number. *)
LEMMA DisruptsType == ASSUME NEW e, spent \in Nat, Disrupts(e) PROVE spent' \in Nat
  BY DEF Disrupts

(* The ends of a pass leave well-typed idle locals. *)
LEMMA IdleTypes == Idle => pc' \in PCs /\ obj' \in Objects /\ pass' \in Passes
  BY ValueTypes DEF Idle, PCs

(* failReady leaves a well-typed object, at the status update that follows. *)
LEMMA FailReadyTypes ==
    ASSUME NEW o \in Objects, NEW at \in {"fail", "fail5m"}, queued \in BOOLEAN,
           FailReady(o, at)
    PROVE  pc' \in PCs /\ obj' \in Objects /\ queued' \in BOOLEAN
  BY ObjectTypes DEF FailReady, PCs

(* An update that returns an error ends the pass well-typed. *)
LEMMA UpdateFailsTypes ==
    ASSUME TypeOK, NEW o \in Objects, UpdateFails(o)
    PROVE  TypeOK'
  BY IdleTypes, DisruptsType DEF UpdateFails, TypeOK, Accepted, ReturnError, cluster

(* Every call of Reconcile and every outside event preserves the types. *)
LEMMA NextTypeOK == TypeOK /\ [Next]_vars => TypeOK'
<1> SUFFICES ASSUME TypeOK, [Next]_vars PROVE TypeOK'
  OBVIOUS
<1> USE ValueTypes, DisruptsType
<1>1. CASE BeginGone
  BY <1>1 DEF BeginGone, TypeOK, cluster, DeleteLastSyncTimestamp
<1>2. CASE BeginLive
  BY <1>2, PassTypes DEF BeginLive, TypeOK, cluster, PCs, ConnStates
<1>3. CASE BeginDeleting
  BY <1>3, PassTypes DEF BeginDeleting, TypeOK, cluster, PCs, ConnStates,
     DeleteLastSyncTimestamp
<1>4. CASE AddFinalizer
  <2>1. [obj EXCEPT !.fin = TRUE] \in Objects
    BY ObjectTypes DEF TypeOK
  <2> QED
    BY <1>4, <2>1, UpdateFailsTypes DEF AddFinalizer, TypeOK, cluster, Accepted, PCs
<1>5. CASE RemoveFinalizer
  <2>1. Gone(obj) \in Objects
    BY ObjectTypes DEF TypeOK
  <2> QED
    BY <1>5, <2>1, UpdateFailsTypes, IdleTypes
    DEF RemoveFinalizer, TypeOK, cluster, Accepted
<1>6. CASE GetConnection
  BY <1>6, FailReadyTypes, PassTypes DEF GetConnection, TypeOK, cluster, PCs
<1>7. CASE LoadToken
  BY <1>7, FailReadyTypes, PassTypes DEF LoadToken, TypeOK, cluster, PCs
<1>8. CASE RevealRateLimited
  BY <1>8, IdleTypes DEF RevealRateLimited, TypeOK, cluster, ReturnAfter
<1>9. CASE RevealFails
  BY <1>9, FailReadyTypes DEF RevealFails, TypeOK, cluster
<1>10. CASE Reveal
  BY <1>10, FailReadyTypes, PassTypes DEF Reveal, TypeOK, cluster, PCs
<1>11. CASE CheckTargetExists
  <2>1. [obj EXCEPT !.obs = obj.gen] \in Objects
    BY ObjectTypes DEF TypeOK
  <2> QED
    BY <1>11, <2>1, FailReadyTypes DEF CheckTargetExists, TypeOK, cluster, PCs
<1>12. CASE ReadContentHash
  BY <1>12, FailReadyTypes, PassTypes, SecretTypes
  DEF ReadContentHash, TypeOK, cluster, PCs
<1>13. CASE RecordPendingRollout
  <2>1. [obj EXCEPT !.last = pass.prev] \in Objects
    BY ObjectTypes, PassTypes DEF TypeOK
  <2> QED
    BY <1>13, <2>1, UpdateFailsTypes DEF RecordPendingRollout, TypeOK, cluster, Accepted, PCs
<1>14. CASE EnsureTargetSecret
  <2>1. pass.got \in Hashes /\ TokenTarget \in BOOLEAN /\ Synced(target, obj, TokenTarget, pass.got) \in Secrets
    BY PassTypes, SyncedType DEF TypeOK, TokenTarget
  <2>2. WriteTarget => /\ target' \in Secrets /\ queued' \in BOOLEAN
                       /\ restarts' \in [Workloads -> 0..2]
    BY <2>1 DEF WriteTarget, TypeOK, Notified
  <2>3. StartRollout => pc' \in PCs /\ obj' \in Objects /\ pass' \in Passes
    <3>1. obj.work \in SUBSET Workloads
      BY ObjectTypes DEF TypeOK
    <3>2. /\ [pass EXCEPT !.todo = obj.work] \in Passes
          /\ \A h \in Hashes : [obj EXCEPT !.last = h] \in Objects
      BY <3>1, ObjectTypes, PassTypes DEF TypeOK
    <3>3. (IF obj.work = {} THEN None ELSE pass.got) \in Hashes
      BY <2>1
    <3> QED
      BY <3>2, <3>3 DEF StartRollout, TypeOK, PCs
  <2>4. /\ cr' \in Objects /\ cached' \in Objects /\ cacheFresh' \in BOOLEAN
        /\ pods' \in [Workloads -> Pod] /\ vault' \in Contents /\ conn' \in ConnStates
        /\ gauge' \in BOOLEAN /\ throttled' \in BOOLEAN
    BY <1>14 DEF EnsureTargetSecret, TypeOK
  <2>5. spent' \in Nat
    BY <1>14 DEF EnsureTargetSecret, TypeOK
  <2>6. /\ target' \in Secrets /\ queued' \in BOOLEAN
        /\ restarts' \in [Workloads -> 0..2]
        /\ pc' \in PCs /\ obj' \in Objects /\ pass' \in Passes
    BY <1>14, <2>2, <2>3, FailReadyTypes, ObjectTypes DEF EnsureTargetSecret, TypeOK, PCs
  <2> QED
    BY <2>4, <2>5, <2>6 DEF TypeOK
<1>15. CASE \E w \in Workloads : TriggerRollout(w)
  <2>1. PICK w \in Workloads : TriggerRollout(w)
    BY <1>15
  <2>2. PatchPodTemplate(w) => /\ pods' \in [Workloads -> Pod]
                               /\ restarts' \in [Workloads -> 0..2]
    <3>1. pass.got \in Hashes
      BY PassTypes DEF TypeOK
    <3>2. CASE pods[w].mark[obj.uid] = pass.got
      BY <3>2 DEF PatchPodTemplate, TypeOK
    <3>3. CASE pods[w].mark[obj.uid] # pass.got
      <4>1. [restarts EXCEPT ![w] = IF @ = 0 THEN 1 ELSE 2] \in [Workloads -> 0..2]
        BY DEF TypeOK
      <4>2. [pods EXCEPT ![w] = Marked(w, obj.uid, pass.got)] \in [Workloads -> Pod]
        BY <3>1, PodTypes DEF TypeOK
      <4> QED
        BY <3>3, <4>1, <4>2 DEF PatchPodTemplate
    <3> QED
      BY <3>2, <3>3
  <2>3. pods' \in [Workloads -> Pod] /\ restarts' \in [Workloads -> 0..2]
    BY <2>1, <2>2 DEF TriggerRollout, TypeOK
  <2>4. spent' \in Nat /\ pass' \in Passes
    BY <2>1, PassTypes DEF TriggerRollout, TypeOK
  <2> QED
    BY <2>1, <2>3, <2>4 DEF TriggerRollout, TypeOK
<1>16. CASE EndRollout
  BY <1>16, ObjectTypes, PassTypes DEF EndRollout, TypeOK, cluster, PCs, AfterRollout
<1>17. CASE UpdateStatus
  <2>1. FinalStatus \in Objects
    BY ObjectTypes DEF FinalStatus, TypeOK, Tri, Tri
  <2> QED
    BY <1>17, <2>1, UpdateFailsTypes, IdleTypes
    DEF UpdateStatus, TypeOK, cluster, Accepted, ReturnError, ReturnAfterRefresh
<1>18. CASE UpdateFailStatus
  BY <1>18, UpdateFailsTypes, IdleTypes
  DEF UpdateFailStatus, TypeOK, cluster, Accepted, ReturnAfter, ReturnAfterRefresh
<1>19. CASE Crash
  BY <1>19, IdleTypes DEF Crash, TypeOK, cluster
<1>20. CASE CacheSync
  BY <1>20 DEF CacheSync, TypeOK, cluster
<1>21. CASE ConnectionTouched
  BY <1>21 DEF ConnectionTouched, TypeOK, cluster
<1>22. CASE SpecEdit
  <2>1. PICK ws \in WorkLists, f \in Refreshes :
          Overwritten([cr EXCEPT !.gen = @ + 1, !.work = ws, !.refresh = f])
    BY <1>22 DEF SpecEdit
  <2>2. spent' \in Nat
    BY <1>22 DEF SpecEdit, TypeOK
  <2>3. [cr EXCEPT !.gen = @ + 1, !.work = ws, !.refresh = f] \in Objects
    BY ObjectTypes, ConstantsAssumption DEF TypeOK
  <2> QED
    BY <2>1, <2>2, <2>3, PassTypes DEF Overwritten, TypeOK, cluster
<1>23. CASE Delete
  BY <1>23, ObjectTypes, PassTypes, ConstantsAssumption
  DEF Delete, TypeOK, cluster, Overwritten, ConnStates
<1>24. CASE Recreate
  <2>1. PICK ws \in WorkLists, f \in Refreshes :
          Overwritten(Created(cr.uid + 1, cr.gen + 1, ws, f))
    BY <1>24 DEF Recreate
  <2>2. spent' \in Nat
    BY <1>24 DEF Recreate, TypeOK
  <2>3. cr.uid + 1 \in Nat /\ cr.gen + 1 \in Nat
    <3>1. cr \in Objects
      BY DEF TypeOK
    <3>2. cr.uid \in Nat /\ cr.gen \in Nat
      BY ONLY <3>1 DEF Objects
    <3> QED
      BY ONLY <3>2
  <2>4. Created(cr.uid + 1, cr.gen + 1, ws, f) \in Objects
    BY <2>3, CreatedType, ConstantsAssumption
  <2> QED
    BY <2>1, <2>2, <2>4, PassTypes DEF Overwritten, TypeOK, cluster
<1>25. CASE VaultChange
  BY <1>25 DEF VaultChange, TypeOK, operator
<1>26. CASE ConnEdit
  BY <1>26, ConstantsAssumption DEF ConnEdit, TypeOK
<1>27. CASE TargetDelete
  BY <1>27 DEF TargetDelete, TypeOK, TargetBecomes
<1>28. CASE TargetDrift
  BY <1>28, SecretTypes DEF TargetDrift, TypeOK, TargetBecomes
<1>29. CASE ForeignTarget
  <2>1. PICK b \in BOOLEAN, i \in {None, Other}, h \in Hashes :
          TargetBecomes([NoSecret EXCEPT !.exists = TRUE, !.data = Edited,
                          !.managed = b, !.owner = i, !.hash = h])
    BY <1>29 DEF ForeignTarget
  <2>2. spent' \in Nat
    BY <1>29 DEF ForeignTarget, TypeOK
  <2>3. target' \in Secrets
    BY <2>1, SecretTypes DEF TargetBecomes, TypeOK
  <2> QED
    BY <2>1, <2>2, <2>3 DEF TargetBecomes, TypeOK
<1>30. CASE GarbageCollect
  BY <1>30 DEF GarbageCollect, TypeOK, TargetBecomes
<1>31. CASE \E w \in Workloads : PodStart(w) \/ PodRestart(w) \/ Reapply(w) \/ WorkloadGone(w)
  <2>1. PICK w \in Workloads : PodStart(w) \/ PodRestart(w) \/ Reapply(w) \/ WorkloadGone(w)
    BY <1>31
  <2>2. CASE PodStart(w) \/ PodRestart(w)
    BY <2>2, PodTypes DEF PodStart, PodRestart, TypeOK, operator
  <2>3. CASE Reapply(w)
    BY <2>3, PodTypes DEF Reapply, TypeOK, operator
  <2>4. CASE WorkloadGone(w)
    BY <2>4, PodTypes DEF WorkloadGone, TypeOK, operator
  <2> QED
    BY <2>1, <2>2, <2>3, <2>4
<1>32. CASE UNCHANGED vars
  BY <1>32 DEF vars, TypeOK, cluster, operator
<1> QED
  BY <1>1, <1>2, <1>3, <1>4, <1>5, <1>6, <1>7, <1>8, <1>9, <1>10, <1>11, <1>12,
     <1>13, <1>14, <1>15, <1>16, <1>17, <1>18, <1>19, <1>20, <1>21, <1>22, <1>23,
     <1>24, <1>25, <1>26, <1>27, <1>28, <1>29, <1>30, <1>31, <1>32
  DEF Next, Reconcile, Environment

(* Every variable keeps its type. *)
THEOREM TypeCorrect == Spec => []TypeOK
  BY InitTypeOK, NextTypeOK, PTL DEF Spec

-----------------------------------------------------------------------------
(* A rollout that is owed is never forgotten *)

(***************************************************************************)
(* The environment of the theorem: the vault never takes an old content    *)
(* back, nobody else writes or deletes the target, the object is not       *)
(* re-created, and the list of workloads stays the same.  Faults, lost     *)
(* replies, crashes, outdated caches, spec edits, deletion and everything  *)
(* that happens to the workloads are allowed.                              *)
(***************************************************************************)
Calm ==
    /\ Events \cap {"VaultRevert", "TargetDelete", "TargetDrift",
                     "ForeignTarget", "Recreate"} = {}
    /\ "self" \notin ConnKinds
    /\ \A a, b \in WorkLists : a = b

(* What the calm environment keeps constant. *)
Constancy ==
    /\ conn # "self" /\ pass.via # "self"
    /\ cr.uid = 1 /\ cached.uid = 1 /\ target.owner \in {None, 1}
    /\ cr.phase # "absent" => cr.work \in WorkLists
    /\ cached.phase # "absent" => cached.work \in WorkLists
    /\ pc # "idle" => obj.uid = 1 /\ obj.work \in WorkLists

(* Copies that are fresh agree with the stored object. *)
Agreement ==
    /\ cacheFresh => cached = cr
    /\ pass.fresh => /\ pc # "idle" /\ cr.phase # "absent"
                     /\ obj.phase = cr.phase /\ obj.work = cr.work
                     /\ pc # "status" => obj.last = cr.last

(* Hashes only grow: nothing on record is newer than the target. *)
Order ==
    /\ target.data = target.hash /\ target.hash <= vault
    /\ cr.last <= target.hash /\ cached.last <= target.hash
    /\ pc # "idle" => obj.last <= target.hash
    /\ \A w \in Workloads : pods[w].runs <= target.hash /\ pods[w].mark[1] <= target.hash

(* A workload patched for the content the target holds runs it. *)
Patched ==
    \A w \in Workloads :
        pods[w].mark[1] # None /\ pods[w].mark[1] = target.hash => ~Stale(w)

(* What the pass knows of the target it is about to write, or wrote. *)
Progress ==
    /\ pc \in {"exists", "hash", "record", "write"} =>
         pass.got # None /\ target.hash <= pass.got /\ pass.got <= vault
    /\ pc \in {"record", "write"} => pass.prev = target.hash
    /\ pc \in {"rollout", "status"} => pass.got # None /\ pass.got = target.hash
    /\ pc = "record" => obj.work # {} /\ obj.last = None /\ pass.prev # None
    /\ pc \notin {"rollout", "status"} => ~pass.failed
    /\ pc = "write" /\ obj.work # {} /\ obj.last = None =>
         pass.prev \in {None, pass.got}

(* Once a rollout hash is stored, every later copy has one. *)
Remembered ==
    cr.work # {} =>
        /\ cached.last # None => cr.last # None
        /\ pc \notin {"idle", "status"} /\ obj.last # None => cr.last # None

(* What the pass found out about the rollout, up to its status update. *)
RolloutProgress ==
    /\ pc = "rollout" =>
         /\ obj.work # {} /\ obj.last \notin {None, pass.got}
         /\ pass.failed \/ \A w \in obj.work \ pass.todo : ~Stale(w)
    /\ pc = "status" /\ obj.work # {} =>
         IF pass.failed THEN obj.last \notin {None, pass.got}
         ELSE /\ obj.last = pass.got
              /\ pass.fresh => \A w \in obj.work : ~Stale(w)

(* The owed rollout is on record. *)
OnRecord == (\E w \in cr.work : Stale(w)) => cr.last \notin {None, target.hash}

(* The inductive invariant *)
RolloutInv ==
    /\ Constancy /\ Agreement
    /\ cr.phase # "absent" =>
         Order /\ Patched /\ Progress /\ Remembered /\ RolloutProgress /\ OnRecord

(* Hashes, contents and workload lists as the provers see them *)
LEMMA Numbers ==
    ASSUME TypeOK
    PROVE  /\ cr.last \in Nat /\ cached.last \in Nat /\ obj.last \in Nat
           /\ pass.got \in Nat /\ pass.prev \in Nat /\ vault \in Nat /\ vault # None
           /\ target.hash \in Nat /\ target.data \in Nat
           /\ \A w \in Workloads :
                pods[w].runs \in Nat /\ \A i \in 1..MaxUid : pods[w].mark[i] \in Nat
           /\ 1 \in 1..MaxUid
           /\ cr.work \subseteq Workloads /\ obj.work \subseteq Workloads
           /\ cached.work \subseteq Workloads
<1>1. \A h \in Hashes \cup {Edited} : h \in Nat
  BY ConstantsAssumption DEF Hashes, Contents, Edited, None
<1>2. \A w \in Workloads :
        pods[w].runs \in Nat /\ \A i \in 1..MaxUid : pods[w].mark[i] \in Nat
  <2>1. ASSUME NEW w \in Workloads, NEW i \in 1..MaxUid PROVE pods[w].mark[i] \in Hashes
    BY <2>1 DEF TypeOK, Pod
  <2> QED
    BY <1>1, <2>1 DEF TypeOK, Pod
<1>3. 1 \in 1..MaxUid
  BY ConstantsAssumption
<1>4. vault \in Nat /\ vault # None
  BY ConstantsAssumption DEF TypeOK, Contents, None
<1>5. /\ cr.last \in Hashes /\ cached.last \in Hashes /\ obj.last \in Hashes
      /\ pass.got \in Hashes /\ pass.prev \in Hashes
      /\ target.hash \in Hashes /\ target.data \in Hashes \cup {Edited}
      /\ cr.work \subseteq Workloads /\ obj.work \subseteq Workloads
      /\ cached.work \subseteq Workloads
  BY DEF TypeOK, Objects, Passes, Secrets
<1> QED
  BY <1>1, <1>2, <1>3, <1>4, <1>5

(* What restarting the pods of w does to them, with or without an annotation. *)
LEMMA RestartedPods ==
    ASSUME TypeOK, NEW w \in Workloads
    PROVE  /\ LET p == [pods EXCEPT ![w] = Restarted(w, target)] IN
              /\ p[w].mark = pods[w].mark
              /\ p[w].runs = IF target.exists THEN target.data ELSE None
              /\ \A x \in Workloads \ {w} : p[x] = pods[x]
           /\ \A h, i : i \in 1..MaxUid =>
              LET p == [pods EXCEPT ![w] = Marked(w, i, h)] IN
              /\ p[w].mark[i] = h
              /\ p[w].runs = IF target.exists THEN target.data ELSE None
              /\ \A x \in Workloads \ {w} : p[x] = pods[x]
           /\ LET p == [pods EXCEPT ![w] = [Restarted(w, target) EXCEPT
                                              !.there = TRUE, !.mark = Unmarked]] IN
              /\ \A i \in 1..MaxUid : p[w].mark[i] = None
              /\ p[w].runs = IF target.exists THEN target.data ELSE None
              /\ \A x \in Workloads \ {w} : p[x] = pods[x]
<1>1. pods[w] \in Pod /\ pods \in [Workloads -> Pod]
  BY DEF TypeOK
<1>2. \A q : /\ [pods EXCEPT ![w] = q][w] = q
             /\ \A x \in Workloads \ {w} : [pods EXCEPT ![w] = q][x] = pods[x]
  BY <1>1
<1>3. LET r == Restarted(w, target) IN
      /\ r.mark = pods[w].mark
      /\ r.runs = IF target.exists THEN target.data ELSE None
  BY <1>1 DEF Restarted, Pod
<1>4. ASSUME NEW h, NEW i \in 1..MaxUid
      PROVE  LET r == Marked(w, i, h) IN
             /\ r.mark[i] = h
             /\ r.runs = IF target.exists THEN target.data ELSE None
  BY <1>1 DEF Marked, Restarted, Pod
<1>5. LET r == [Restarted(w, target) EXCEPT !.there = TRUE, !.mark = Unmarked] IN
      /\ \A i \in 1..MaxUid : r.mark[i] = None
      /\ r.runs = IF target.exists THEN target.data ELSE None
  BY <1>1 DEF Restarted, Pod, Unmarked
<1> QED
  BY <1>2, <1>3, <1>4, <1>5

(* A FerrVaultSecret that was just created owes no rollout. *)
LEMMA InitRolloutInv == Calm /\ Init => RolloutInv
<1> SUFFICES ASSUME Calm, Init PROVE RolloutInv
  OBVIOUS
<1>1. \A w \in Workloads : pods[w].mark[1] = None /\ pods[w].runs = None
  BY ConstantsAssumption DEF Init, Unmarked
<1>2. conn # "self" /\ target = NoSecret
  BY DEF Calm, Init
<1>3. PICK ws \in WorkLists, f \in Refreshes : cr = Created(1, 1, ws, f)
  BY DEF Init
<1>4. /\ cr.uid = 1 /\ cr.work = ws /\ cr.last = None /\ cr.phase = "live"
      /\ cached = cr /\ vault = 1
  BY <1>3 DEF Init, Created
<1>5. /\ target.hash = None /\ target.data = None /\ target.owner = None
      /\ pc = "idle" /\ cacheFresh = TRUE /\ pass = NoPass
  BY <1>2 DEF Init, NoSecret, None
<1>6. \A w \in cr.work : ~Stale(w)
  BY <1>1, <1>4, ConstantsAssumption DEF Stale
<1>7. Order /\ Patched
  BY <1>1, <1>4, <1>5 DEF Order, Patched, None
<1>8. Constancy /\ Agreement
  BY <1>2, <1>4, <1>5 DEF Constancy, Agreement, NoPass
<1>9. Progress /\ Remembered /\ RolloutProgress /\ OnRecord
  BY <1>4, <1>5, <1>6 DEF Progress, Remembered, RolloutProgress, OnRecord, NoPass
<1> QED
  BY <1>7, <1>8, <1>9 DEF RolloutInv

(* No call of Reconcile and no event of a calm environment breaks RolloutInv. *)
LEMMA NextRolloutInv ==
    ASSUME Calm, TypeOK, RolloutInv, [Next]_vars
    PROVE  RolloutInv'
<1> USE Numbers
<1> USE DEF RolloutInv, Constancy, Agreement, Order, Patched, Progress,
      Remembered, RolloutProgress, OnRecord, Stale, None
<1>1. CASE BeginGone
  BY <1>1 DEF BeginGone, cluster
<1>2. CASE BeginLive
  BY <1>2 DEF BeginLive, cluster, NoPass
<1>3. CASE BeginDeleting
  BY <1>3 DEF BeginDeleting, cluster, NoPass
<1>4. CASE AddFinalizer
  BY <1>4 DEF AddFinalizer, cluster, UpdateFails, Accepted, ReturnError,
     ReturnAfter, ReturnAfterRefresh, Idle, NoPass, TypeOK, Objects
<1>5. CASE RemoveFinalizer
  BY <1>5 DEF RemoveFinalizer, Gone, cluster, UpdateFails, Accepted, ReturnError,
     ReturnAfter, ReturnAfterRefresh, Idle, NoPass, TypeOK, Objects
<1>6. CASE GetConnection
  BY <1>6 DEF GetConnection, cluster, FailReady, TypeOK, Objects, Passes
<1>7. CASE LoadToken
  BY <1>7 DEF LoadToken, cluster, FailReady, TypeOK, Objects, Passes
<1>8. CASE RevealRateLimited
  BY <1>8 DEF RevealRateLimited, ReturnAfter, Idle, NoPass, cluster
<1>9. CASE RevealFails
  BY <1>9 DEF RevealFails, cluster, FailReady, TypeOK, Objects, Passes
<1>10. CASE Reveal
  BY <1>10 DEF Reveal, cluster, FailReady, TypeOK, Objects, Passes
<1>11. CASE CheckTargetExists
  <2>1. /\ pc = "exists" /\ pc' \in {"fail", "hash"}
        /\ UNCHANGED <<cr, cached, cacheFresh, cluster, pass, gauge, throttled, restarts>>
    BY <1>11 DEF CheckTargetExists, FailReady
  <2>2. /\ obj'.phase = obj.phase /\ obj'.uid = obj.uid
        /\ obj'.work = obj.work /\ obj'.last = obj.last
    BY <1>11 DEF CheckTargetExists, FailReady, TypeOK, Objects
  <2> QED
    BY <2>1, <2>2 DEF cluster
<1>12. CASE ReadContentHash
  BY <1>12 DEF ReadContentHash, MustRecord, RolloutDue, cluster, FailReady, TypeOK,
     Objects, Passes
<1>13. CASE RecordPendingRollout
  BY <1>13 DEF RecordPendingRollout, cluster, UpdateFails, Accepted, ReturnError,
     ReturnAfter, ReturnAfterRefresh, Idle, NoPass, TypeOK, Objects
<1>14. CASE EnsureTargetSecret
  <2>1. /\ pc = "write" /\ obj.last \in Nat
        /\ UNCHANGED <<cr, cached, cacheFresh, pods, vault, conn>>
    BY <1>14 DEF EnsureTargetSecret
  <2>2. CASE FailReady(obj, "fail") /\ UNCHANGED <<target, pass>>
    BY <2>1, <2>2 DEF FailReady, TypeOK, Objects
  <2>3. CASE WriteTarget
    <3>1. /\ target'.hash = pass.got /\ target'.data = pass.got
          /\ target'.owner \in {0, 1}
      BY <2>1, <2>3 DEF WriteTarget, Synced, TokenTarget, TypeOK, Objects, Secrets
    <3>2. cr.phase # "absent" => OnRecord'
      <4> SUFFICES ASSUME cr.phase # "absent", NEW w \in cr.work, Stale(w)'
                   PROVE  cr.last \notin {None, pass.got}
        BY <2>1, <3>1
      <4>1. CASE target.hash = pass.got
        BY <2>1, <3>1, <4>1
      <4>2. CASE target.hash # pass.got
        <5>1. target.hash # None
          BY <2>1, <3>1
        <5>2. cr.work # {} /\ obj.work = cr.work
          BY <2>1 DEF Calm
        <5>3. obj.last # None
          BY <2>1, <4>2, <5>1, <5>2
        <5> QED
          BY <2>1, <4>2, <5>2, <5>3
      <4> QED
        BY <4>1, <4>2
    <3>3. cr.phase # "absent" => Patched'
      BY <2>1, <3>1
    <3>4. CASE pc' = "fail" /\ obj' = [obj EXCEPT !.ready = "False"] /\ UNCHANGED pass
      <4>1. obj'.last = obj.last /\ obj'.work = obj.work /\ obj'.uid = obj.uid
            /\ obj'.phase = obj.phase
        BY <3>4 DEF TypeOK, Objects
      <4> QED
        BY <2>1, <3>1, <3>2, <3>3, <3>4, <4>1
    <3>5. CASE StartRollout
      <4>1. CASE obj.work # {} /\ RolloutDue(obj.last, pass.prev, pass.got)
        BY <2>1, <3>1, <3>2, <3>3, <3>5, <4>1 DEF StartRollout, RolloutDue, TypeOK, Passes
      <4>2. CASE ~(obj.work # {} /\ RolloutDue(obj.last, pass.prev, pass.got))
        <5>1. /\ pc' = "status" /\ pass' = pass
              /\ obj' = [obj EXCEPT !.last = IF obj.work = {} THEN None ELSE pass.got]
          BY <3>5, <4>2 DEF StartRollout
        <5>2. /\ obj'.last = IF obj.work = {} THEN None ELSE pass.got
              /\ obj'.work = obj.work /\ obj'.uid = obj.uid /\ obj'.phase = obj.phase
          BY <5>1 DEF TypeOK, Objects
        <5>3. cr.phase # "absent" =>
                Order' /\ Progress' /\ Remembered' /\ Constancy' /\ Agreement'
          BY <2>1, <3>1, <5>1, <5>2
        <5>4. obj.work # {} => obj.last \in {None, pass.got}
          BY <4>2 DEF RolloutDue
        <5>5. ASSUME cr.phase # "absent", pass.fresh, obj.work # {}, NEW w \in obj.work
              PROVE  ~Stale(w)'
          <6>1. obj.work = cr.work /\ obj.last = cr.last
            BY <2>1, <5>5
          <6>2. Stale(w)' => cr.last \notin {None, pass.got}
            BY <2>1, <3>1, <3>2, <5>5, <6>1
          <6> QED
            BY <5>4, <5>5, <6>1, <6>2
        <5>6. cr.phase # "absent" => RolloutProgress'
          BY <2>1, <3>1, <5>1, <5>2, <5>5
        <5>7. Constancy' /\ Agreement'
          BY <2>1, <3>1, <5>1, <5>2
        <5> QED
          BY <2>1, <3>2, <3>3, <5>3, <5>6, <5>7
      <4> QED
        BY <4>1, <4>2
    <3> QED
      BY <1>14, <2>2, <3>4, <3>5 DEF EnsureTargetSecret
  <2> QED
    BY <1>14, <2>2, <2>3 DEF EnsureTargetSecret
<1>15. CASE \E w \in Workloads : TriggerRollout(w)
  <2>1. PICK w \in Workloads : TriggerRollout(w)
    BY <1>15
  <2>2. /\ pc = "rollout" /\ pc' = "rollout" /\ w \in pass.todo
        /\ UNCHANGED <<cr, cached, cacheFresh, target, vault, conn, obj>>
    BY <2>1 DEF TriggerRollout
  <2>3. /\ UNCHANGED <<pass.got, pass.fresh, pass.via>>
        /\ pass'.todo = pass.todo \ {w}
        /\ pass.failed => pass'.failed
        /\ pass'.failed \/ PatchPodTemplate(w)
        /\ PatchPodTemplate(w) \/ UNCHANGED pods
    BY <2>1 DEF TriggerRollout, TypeOK, Passes
  <2>4. CASE pods[w].mark[1] = pass.got /\ UNCHANGED pods
    <3>1. cr.phase # "absent" => ~Stale(w)
      BY <2>2, <2>4
    <3> QED
      BY <2>2, <2>3, <2>4, <3>1
  <2>5. CASE pods[w].mark[1] # pass.got /\ PatchPodTemplate(w)
    <3>1. /\ pods'[w].mark[1] \in {pass.got, pods[w].mark[1]}
          /\ pods'[w].runs = IF target.exists THEN target.data ELSE None
          /\ \A x \in Workloads \ {w} : pods'[x] = pods[x]
      <4>1. pods' = [pods EXCEPT ![w] = Marked(w, 1, pass.got)]
        BY <2>2, <2>5 DEF PatchPodTemplate
      <4> QED
        BY <4>1, RestartedPods
    <3> QED
      BY <2>2, <2>3, <3>1
  <2>6. CASE UNCHANGED pods /\ pass'.failed
    BY <2>2, <2>3, <2>6
  <2> QED
    BY <2>2, <2>3, <2>4, <2>5, <2>6 DEF PatchPodTemplate
<1>16. CASE EndRollout
  BY <1>16 DEF EndRollout, AfterRollout, cluster, FailReady, TypeOK, Objects, Passes
<1>17. CASE UpdateStatus
  <2>1. CASE UpdateFails(FinalStatus) /\ ~Accepted(FinalStatus)
    BY <1>17, <2>1 DEF UpdateStatus, UpdateFails, ReturnError, Idle, NoPass, cluster
  <2>2. CASE Accepted(FinalStatus)
    <3>1. /\ pc = "status" /\ pass.fresh /\ cr' = FinalStatus /\ cacheFresh' = FALSE
          /\ UNCHANGED <<cached, cluster>>
          /\ pc' = "idle" /\ pass' = NoPass
      BY <1>17, <2>2 DEF UpdateStatus, UpdateFails, Accepted, ReturnError,
         ReturnAfterRefresh, Idle
    <3>2. /\ FinalStatus.last = obj.last /\ FinalStatus.work = obj.work
          /\ FinalStatus.uid = obj.uid /\ FinalStatus.phase = obj.phase
      BY DEF FinalStatus, TypeOK, Objects
    <3> QED
      BY <3>1, <3>2 DEF NoPass, cluster
  <2> QED
    BY <1>17, <2>1, <2>2 DEF UpdateStatus
<1>18. CASE UpdateFailStatus
  BY <1>18 DEF UpdateFailStatus, cluster, UpdateFails, Accepted, ReturnError,
     ReturnAfter, ReturnAfterRefresh, Idle, NoPass, TypeOK, Objects
<1>19. CASE Crash
  BY <1>19 DEF Crash, Idle, NoPass, cluster
<1>20. CASE CacheSync
  BY <1>20 DEF CacheSync, cluster
<1>21. CASE ConnectionTouched
  BY <1>21 DEF ConnectionTouched, cluster
<1>22. CASE SpecEdit
  BY <1>22 DEF SpecEdit, Overwritten, Calm, cluster, TypeOK, Objects, Passes
<1>23. CASE Delete
  BY <1>23 DEF Delete, Overwritten, Gone, cluster, TypeOK, Objects, Passes
<1>24. CASE Recreate
  BY <1>24 DEF Recreate, Disrupts, Calm
<1>25. CASE VaultChange
  <2>1. vault' \in Nat /\ vault' > vault
    BY <1>25, ConstantsAssumption DEF VaultChange, Disrupts, Calm, Contents
  <2> QED
    BY <1>25, <2>1 DEF VaultChange, operator
<1>26. CASE ConnEdit
  BY <1>26 DEF ConnEdit, Calm
<1>27. CASE TargetDelete
  BY <1>27 DEF TargetDelete, Disrupts, Calm
<1>28. CASE TargetDrift
  BY <1>28 DEF TargetDrift, Disrupts, Calm
<1>29. CASE ForeignTarget
  BY <1>29 DEF ForeignTarget, Disrupts, Calm
<1>30. CASE GarbageCollect
  BY <1>30 DEF GarbageCollect, TargetBecomes, NoSecret
<1>31. CASE \E w \in Workloads : PodStart(w) \/ PodRestart(w) \/ Reapply(w) \/ WorkloadGone(w)
  <2>1. PICK w \in Workloads : PodStart(w) \/ PodRestart(w) \/ Reapply(w) \/ WorkloadGone(w)
    BY <1>31
  <2>2. UNCHANGED <<cr, cached, cacheFresh, target, vault, conn, operator>>
    BY <2>1 DEF PodStart, PodRestart, Reapply, WorkloadGone
  <2>3. /\ pods'[w].mark[1] \in {None, pods[w].mark[1]}
        /\ pods'[w].runs \in {None, target.data}
        /\ \A x \in Workloads \ {w} : pods'[x] = pods[x]
    <3>1. CASE PodStart(w) \/ PodRestart(w)
      <4>1. pods' = [pods EXCEPT ![w] = Restarted(w, target)]
        BY <3>1 DEF PodStart, PodRestart
      <4> QED
        BY <4>1, RestartedPods
    <3>2. CASE Reapply(w)
      BY <3>2, RestartedPods DEF Reapply
    <3>3. CASE WorkloadGone(w)
      BY <3>3 DEF WorkloadGone, TypeOK, Unmarked
    <3> QED
      BY <2>1, <3>1, <3>2, <3>3
  <2> QED
    BY <2>2, <2>3 DEF operator
<1>32. CASE UNCHANGED vars
  BY <1>32 DEF vars, cluster, operator
<1> QED
  BY <1>1, <1>2, <1>3, <1>4, <1>5, <1>6, <1>7, <1>8, <1>9, <1>10, <1>11, <1>12,
     <1>13, <1>14, <1>15, <1>16, <1>17, <1>18, <1>19, <1>20, <1>21, <1>22, <1>23,
     <1>24, <1>25, <1>26, <1>27, <1>28, <1>29, <1>30, <1>31, <1>32 DEF Next,
     Reconcile, Environment

(***************************************************************************)
(* recordPendingRollout at work: in a calm environment, no crash, lost     *)
(* reply, conflict or outdated cache leaves a listed workload on older     *)
(* content while the stored lastRolloutHash says that nothing is owed.     *)
(***************************************************************************)
THEOREM RolloutKept == Calm /\ Spec => []RolloutNotForgotten
<1>1. RolloutInv => RolloutNotForgotten
  BY DEF RolloutInv, OnRecord, RolloutNotForgotten
<1>2. ASSUME Calm PROVE Spec => []RolloutNotForgotten
  <2>1. Init => RolloutInv
    BY <1>2, InitRolloutInv
  <2>2. TypeOK /\ RolloutInv /\ [Next]_vars => RolloutInv'
    BY <1>2, NextRolloutInv
  <2> QED
    BY <1>1, <2>1, <2>2, TypeCorrect, PTL DEF Spec
<1> QED
  BY <1>2
=============================================================================
