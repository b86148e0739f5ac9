---------------------- MODULE ConnectionReconcilerProofs ----------------------
(***************************************************************************)
(* Proofs about ConnectionReconciler: the type invariant, that the         *)
(* finalizer outlasts the FerrVaultSecrets the operator knew of, and that  *)
(* a 429 is never reported as a failure.                                   *)
(***************************************************************************)
EXTENDS ConnectionReconciler, TLAPS

-----------------------------------------------------------------------------
(* Types *)

(* Removal, creation and the updates of fields keep an object an object. *)
LEMMA ObjectTypes ==
    ASSUME NEW o \in Objects
    PROVE  /\ o.gen \in Nat /\ o.gen + 1 \in Nat
           /\ Gone(o) \in Objects
           /\ \A g \in Nat : Created(g) \in Objects
           /\ [o EXCEPT !.fin = TRUE] \in Objects
           /\ [o EXCEPT !.gen = @ + 1] \in Objects
           /\ [o EXCEPT !.phase = "deleting", !.gen = @ + 1] \in Objects
           /\ \A t \in Tri, b \in BOOLEAN :
                [o EXCEPT !.ready = t, !.blocked = b] \in Objects
<1>1. o.gen \in Nat /\ o.gen + 1 \in Nat
  BY DEF Objects
<1>2. Gone(o) \in Objects
  BY DEF Gone, Objects, Tri
<1>3. \A g \in Nat : Created(g) \in Objects
  BY DEF Created, Objects, Tri
<1>4. [o EXCEPT !.fin = TRUE] \in Objects
  BY DEF Objects
<1>5. [o EXCEPT !.gen = @ + 1] \in Objects
  BY <1>1 DEF Objects
<1>6. [o EXCEPT !.phase = "deleting", !.gen = @ + 1] \in Objects
  BY <1>1 DEF Objects
<1>7. \A t \in Tri, b \in BOOLEAN : [o EXCEPT !.ready = t, !.blocked = b] \in Objects
  BY DEF Objects
<1> QED
  BY <1>1, <1>2, <1>3, <1>4, <1>5, <1>6, <1>7

(* The count of outside events stays a number. *)
LEMMA DisruptsType == ASSUME NEW e, spent \in Nat, Disrupts(e) PROVE spent' \in Nat
  BY DEF Disrupts

(* What an update that fails leaves behind is well-typed. *)
LEMMA UpdateFailsTypes ==
    ASSUME TypeOK, NEW o \in Objects, UpdateFails(o)
    PROVE  TypeOK'
<1>1. conn' \in Objects /\ cacheFresh' \in BOOLEAN
  BY DEF UpdateFails, TypeOK, Accepted
<1>s. spent' \in Nat
  BY DisruptsType DEF UpdateFails, TypeOK
<1>2. /\ pc' = "idle" /\ obj' \in Objects /\ fresh' = FALSE /\ met' = "nothing"
      /\ queued' = TRUE
  BY ObjectTypes DEF UpdateFails, ReturnError, Idle, TypeOK
<1> QED
  BY <1>1, <1>s, <1>2 DEF UpdateFails, TypeOK, dependants

(* Init establishes TypeOK. *)
LEMMA InitTypeOK == Init => TypeOK
<1> SUFFICES ASSUME Init PROVE TypeOK
  OBVIOUS
<1>1. Created(1) \in Objects
  BY DEF Created, Objects, Tri
<1>2. Gone(Created(1)) \in Objects
  BY <1>1, ObjectTypes
<1>3. refs \in References
  BY DEF Init, References
<1> QED
  BY <1>1, <1>2, <1>3, ConnectionAssumption DEF Init, TypeOK

(* Every step keeps the types. *)
LEMMA NextTypeOK == TypeOK /\ [Next]_vars => TypeOK'
<1> SUFFICES ASSUME TypeOK, [Next]_vars PROVE TypeOK'
  OBVIOUS
<1> USE DEF TypeOK, dependants, object
<1>0. Gone(obj) \in Objects /\ Gone(conn) \in Objects
  BY ObjectTypes
<1>1. CASE BeginGone
  BY <1>1 DEF BeginGone
<1>2. CASE Begin
  BY <1>2 DEF Begin
<1>3. CASE AddFinalizer
  <2>1. [obj EXCEPT !.fin = TRUE] \in Objects
    BY ObjectTypes
  <2> QED
    BY <1>3, <2>1, UpdateFailsTypes DEF AddFinalizer, Accepted
<1>4. CASE ProbeRateLimited
  <2>1. spent' \in Nat
    BY <1>4, DisruptsType DEF ProbeRateLimited
  <2> QED
    BY <1>4, <1>0, <2>1 DEF ProbeRateLimited, ReturnAfter, Idle
<1>5. CASE Probe
  <2>1. met' \in WorldKinds /\ spent' \in Nat
    BY <1>5 DEF Probe, Disrupts, WorldKinds
  <2>2. obj' \in Objects
    BY <1>5, ObjectTypes DEF Probe, Tri
  <2> QED
    BY <1>5, <2>1, <2>2 DEF Probe
<1>6. CASE UpdateStatus
  BY <1>6, UpdateFailsTypes DEF UpdateStatus, Accepted
<1>7. CASE SetConnectionReady
  BY <1>7, <1>0 DEF SetConnectionReady, ReturnAfter, Idle
<1>8. CASE ListDependants
  <2>1. [obj EXCEPT !.ready = "False", !.blocked = TRUE] \in Objects
    BY ObjectTypes DEF Tri
  <2> QED
    BY <1>8, <1>0, <2>1 DEF ListDependants, Idle
<1>9. CASE RemoveFinalizer
  BY <1>9, <1>0, UpdateFailsTypes DEF RemoveFinalizer, Accepted, Idle
<1>10. CASE UpdateBlocked
  BY <1>10, <1>0, UpdateFailsTypes DEF UpdateBlocked, Accepted, ReturnAfter, Idle
<1>11. CASE Crash
  <2>1. spent' \in Nat
    BY <1>11, DisruptsType DEF Crash
  <2> QED
    BY <1>11, <1>0, <2>1 DEF Crash, Idle
<1>12. CASE CacheSync
  BY <1>12 DEF CacheSync
<1>13. CASE Edit
  <2>1. spent' \in Nat
    BY <1>13, DisruptsType DEF Edit
  <2>2. conn' \in Objects /\ world' \in WorldKinds
    BY <1>13, ObjectTypes, ConnectionAssumption DEF Edit, Overwritten
  <2> QED
    BY <1>13, <2>1, <2>2 DEF Edit, Overwritten
<1>14. CASE Delete
  <2>1. spent' \in Nat
    BY <1>14, DisruptsType DEF Delete
  <2>2. conn' \in Objects
    BY <1>14, <1>0, ObjectTypes DEF Delete, Overwritten
  <2>3. known' \subseteq Secrets
    BY <1>14 DEF Delete
  <2> QED
    BY <1>14, <2>1, <2>2, <2>3 DEF Delete, Overwritten
<1>15. CASE Strip
  <2>1. spent' \in Nat
    BY <1>15, DisruptsType DEF Strip
  <2> QED
    BY <1>15, <1>0, <2>1 DEF Strip, Overwritten
<1>16. CASE Create
  <2>1. spent' \in Nat
    BY <1>16, DisruptsType DEF Create
  <2>2. conn' \in Objects
    BY <1>16, ObjectTypes DEF Create, Overwritten
  <2> QED
    BY <1>16, <2>1, <2>2 DEF Create, Overwritten
<1>17. CASE WorldChange
  BY <1>17, ConnectionAssumption DEF WorldChange, Disrupts
<1>18. CASE \E s \in Secrets : CacheSecret(s) \/ Refer(s) \/ Leave(s) \/ SecretGone(s)
  BY <1>18 DEF CacheSecret, Refer, Leave, SecretGone, SecretBecomes, Disrupts, operator,
               References
<1>19. CASE UNCHANGED vars
  BY <1>19 DEF vars, operator
<1> QED
  BY <1>1, <1>2, <1>3, <1>4, <1>5, <1>6, <1>7, <1>8, <1>9, <1>10, <1>11, <1>12, <1>13,
     <1>14, <1>15, <1>16, <1>17, <1>18, <1>19 DEF Next, Reconcile, Environment

(* Every variable of the connection's reconciler keeps its type. *)
THEOREM TypeCorrect == Spec => []TypeOK
  BY InitTypeOK, NextTypeOK, PTL DEF Spec

-----------------------------------------------------------------------------
(* The dependants the operator knew of *)

(* Only the deletion of a connection makes anything known, and only what *)
(* refers to it and is cached.                                           *)
KnownRefer ==
    /\ known # {} => conn.phase = "deleting"
    /\ \A s \in known : refs[s] # "none" /\ cachedRefs[s] # "none"

(* A copy that is fresh, in the informer or in the pass, has conn's phase. *)
CopiesAgree ==
    /\ cacheFresh => cached.phase = conn.phase
    /\ fresh => pc # "idle" /\ obj.phase = conn.phase

(* A pass that will change the deleted connection as it stands found nothing *)
(* left, one that has read it alive removes nothing.                         *)
Released ==
    /\ pc = "release" /\ fresh => known = {}
    /\ pc \in {"finalizer", "probe", "status", "gauge"} => obj.phase = "live"
    /\ pc \in {"list", "release", "blocked"} => obj.phase = "deleting"

ReleaseInv == TypeOK /\ KnownRefer /\ CopiesAgree /\ Released

(* Updates that fail leave what is known alone, or write the object read. *)
LEMMA UpdateFailsReleases ==
    ASSUME ReleaseInv, NEW o \in Objects, UpdateFails(o),
           fresh => o.phase = conn.phase \/ known = {}
    PROVE  ReleaseInv'
<1>1. TypeOK'
  BY UpdateFailsTypes DEF ReleaseInv
<1>2. pc' = "idle" /\ fresh' = FALSE
  BY DEF UpdateFails, ReturnError, Idle
<1>3. known' = known /\ refs' = refs /\ cachedRefs' = cachedRefs /\ cached' = cached
  BY DEF UpdateFails, dependants
<1>4. \/ conn' = conn /\ cacheFresh' = cacheFresh
      \/ conn' = o /\ cacheFresh' = FALSE /\ fresh
  BY DEF UpdateFails, Accepted
<1>5. KnownRefer'
  BY <1>3, <1>4 DEF ReleaseInv, KnownRefer
<1>6. CopiesAgree' /\ Released'
  BY <1>2, <1>3, <1>4 DEF ReleaseInv, CopiesAgree, Released
<1> QED
  BY <1>1, <1>5, <1>6 DEF ReleaseInv

(* Init establishes the invariant. *)
LEMMA InitReleaseInv == Init => ReleaseInv
<1> SUFFICES ASSUME Init PROVE ReleaseInv
  OBVIOUS
<1>1. KnownRefer /\ CopiesAgree /\ Released
  BY DEF Init, KnownRefer, CopiesAgree, Released
<1> QED
  BY <1>1, InitTypeOK DEF ReleaseInv

(* Every step keeps it. *)
LEMMA NextReleaseInv == ReleaseInv /\ [Next]_vars => ReleaseInv'
<1> SUFFICES ASSUME ReleaseInv, [Next]_vars PROVE ReleaseInv'
  OBVIOUS
<1> USE DEF dependants, object
<1>t. TypeOK /\ TypeOK'
  BY NextTypeOK DEF ReleaseInv
<1>k. KnownRefer /\ CopiesAgree /\ Released
  BY DEF ReleaseInv
<1>p. ASSUME KnownRefer', CopiesAgree', Released' PROVE ReleaseInv'
  BY <1>t, <1>p DEF ReleaseInv
<1>f. \A o \in Objects : /\ [o EXCEPT !.fin = TRUE].phase = o.phase
                         /\ Gone(o).phase = "absent"
                         /\ [o EXCEPT !.gen = @ + 1].phase = o.phase
  BY DEF Objects, Gone
<1>1. CASE BeginGone
  BY <1>1, <1>k, <1>p DEF BeginGone, KnownRefer, CopiesAgree, Released
<1>2. CASE Begin
  <2>1. KnownRefer'
    BY <1>2, <1>k DEF Begin, KnownRefer
  <2>2. cached.phase \in {"live", "deleting"}
    BY <1>2, <1>t DEF Begin, TypeOK, Objects
  <2>3. CopiesAgree' /\ Released'
    BY <1>2, <1>k, <2>2 DEF Begin, CopiesAgree, Released
  <2> QED
    BY <2>1, <2>3, <1>p
<1>3. CASE AddFinalizer
  <2> DEFINE o == [obj EXCEPT !.fin = TRUE]
  <2>1. o \in Objects /\ o.phase = obj.phase
    BY <1>t, <1>f, ObjectTypes DEF TypeOK
  <2>2. CASE UpdateFails(o)
    BY <2>1, <2>2, <1>k, UpdateFailsReleases DEF CopiesAgree
  <2>3. CASE ~UpdateFails(o)
    <3>1. /\ fresh /\ conn' = o /\ cacheFresh' = FALSE /\ obj' = o /\ pc' = "probe"
          /\ pc = "finalizer" /\ fresh' = fresh
          /\ UNCHANGED <<cached, refs, cachedRefs, known>>
      BY <1>3, <2>3 DEF AddFinalizer, Accepted
    <3>2. KnownRefer' /\ CopiesAgree' /\ Released'
      BY <3>1, <2>1, <1>k DEF KnownRefer, CopiesAgree, Released
    <3> QED
      BY <3>2, <1>p
  <2> QED
    BY <2>2, <2>3
<1>4. CASE ProbeRateLimited
  BY <1>4, <1>k, <1>p
  DEF ProbeRateLimited, ReturnAfter, Idle, KnownRefer, CopiesAgree, Released
<1>5. CASE Probe
  <2>1. obj'.phase = obj.phase
    BY <1>5, <1>t DEF Probe, TypeOK, Objects
  <2> QED
    BY <1>5, <2>1, <1>k, <1>p DEF Probe, KnownRefer, CopiesAgree, Released
<1>6. CASE UpdateStatus
  <2>1. CASE UpdateFails(obj)
    BY <2>1, <1>t, <1>k, UpdateFailsReleases DEF CopiesAgree, TypeOK
  <2>2. CASE ~UpdateFails(obj)
    BY <1>6, <2>2, <1>k, <1>p
    DEF UpdateStatus, Accepted, KnownRefer, CopiesAgree, Released
  <2> QED
    BY <2>1, <2>2
<1>7. CASE SetConnectionReady
  BY <1>7, <1>k, <1>p
  DEF SetConnectionReady, ReturnAfter, Idle, KnownRefer, CopiesAgree, Released
<1>8. CASE ListDependants
  <2>1. KnownRefer'
    BY <1>8, <1>k DEF ListDependants, KnownRefer
  <2>2. CASE Dependants # {}
    <3>1. obj'.phase = obj.phase
      BY <1>8, <2>2, <1>t DEF ListDependants, TypeOK, Objects
    <3>2. CopiesAgree' /\ Released'
      BY <1>8, <2>2, <3>1, <1>k DEF ListDependants, CopiesAgree, Released
    <3> QED
      BY <2>1, <3>2, <1>p
  <2>3. CASE Dependants = {}
    <3>1. known = {}
      BY <2>3, <1>t, <1>k DEF Dependants, KnownRefer, TypeOK
    <3>2. CopiesAgree' /\ Released'
      BY <1>8, <2>3, <3>1, <1>k DEF ListDependants, Idle, CopiesAgree, Released
    <3> QED
      BY <2>1, <3>2, <1>p
  <2> QED
    BY <2>2, <2>3
<1>9. CASE RemoveFinalizer
  <2>1. Gone(obj) \in Objects
    BY <1>t, ObjectTypes DEF TypeOK
  <2>2. fresh => known = {}
    BY <1>9, <1>k DEF RemoveFinalizer, Released
  <2>3. CASE UpdateFails(Gone(obj))
    BY <2>1, <2>2, <2>3, UpdateFailsReleases
  <2>4. CASE ~UpdateFails(Gone(obj))
    BY <1>9, <2>2, <2>4, <1>k, <1>p
    DEF RemoveFinalizer, Accepted, Idle, KnownRefer, CopiesAgree, Released
  <2> QED
    BY <2>3, <2>4
<1>10. CASE UpdateBlocked
  <2>1. CASE UpdateFails(obj)
    BY <2>1, <1>t, <1>k, UpdateFailsReleases DEF CopiesAgree, TypeOK
  <2>2. CASE ~UpdateFails(obj)
    BY <1>10, <2>2, <1>k, <1>p
    DEF UpdateBlocked, Accepted, ReturnAfter, Idle, KnownRefer, CopiesAgree, Released
  <2> QED
    BY <2>1, <2>2
<1>11. CASE Crash
  BY <1>11, <1>k, <1>p DEF Crash, Idle, KnownRefer, CopiesAgree, Released
<1>12. CASE CacheSync
  BY <1>12, <1>k, <1>p DEF CacheSync, KnownRefer, CopiesAgree, Released
<1>13. CASE Edit
  <2>1. conn'.phase = conn.phase
    BY <1>13, <1>t, <1>f DEF Edit, Overwritten, TypeOK
  <2> QED
    BY <1>13, <2>1, <1>k, <1>p DEF Edit, Overwritten, KnownRefer, CopiesAgree, Released
<1>14. CASE Delete
  <2>1. conn.fin => conn'.phase = "deleting"
    BY <1>14, <1>t DEF Delete, Overwritten, TypeOK, Objects
  <2>2. KnownRefer'
    BY <1>14, <2>1 DEF Delete, Overwritten, KnownRefer
  <2>3. CopiesAgree' /\ Released'
    BY <1>14, <1>k DEF Delete, Overwritten, CopiesAgree, Released
  <2> QED
    BY <2>2, <2>3, <1>p
<1>15. CASE Strip
  BY <1>15, <1>k, <1>p DEF Strip, Overwritten, KnownRefer, CopiesAgree, Released
<1>16. CASE Create
  <2>1. known = {}
    BY <1>16, <1>k DEF Create, KnownRefer
  <2> QED
    BY <1>16, <2>1, <1>k, <1>p DEF Create, Overwritten, KnownRefer, CopiesAgree, Released
<1>17. CASE WorldChange
  BY <1>17, <1>k, <1>p DEF WorldChange, KnownRefer, CopiesAgree, Released
<1>18. CASE \E s \in Secrets : CacheSecret(s) \/ Refer(s) \/ Leave(s) \/ SecretGone(s)
  <2> PICK s \in Secrets : CacheSecret(s) \/ Refer(s) \/ Leave(s) \/ SecretGone(s)
    BY <1>18
  <2>1. UNCHANGED <<conn, cached, cacheFresh, pc, obj, fresh>>
    BY DEF CacheSecret, Refer, Leave, SecretGone, SecretBecomes, operator
  <2>2. known' \subseteq known /\ refs \in References /\ cachedRefs \in References
        /\ known \subseteq Secrets
    BY <1>t DEF CacheSecret, Refer, Leave, SecretGone, SecretBecomes, TypeOK
  <2>3. ASSUME NEW x \in known' PROVE refs'[x] # "none" /\ cachedRefs'[x] # "none"
    <3>1. x \in known /\ x \in Secrets /\ refs[x] # "none" /\ cachedRefs[x] # "none"
      BY <2>2, <2>3, <1>k DEF KnownRefer
    <3>2. CASE CacheSecret(s)
      BY <3>1, <3>2, <2>2 DEF CacheSecret, References
    <3>3. CASE Refer(s) \/ Leave(s) \/ SecretGone(s)
      BY <3>1, <3>3, <2>2, <2>3 DEF Refer, Leave, SecretGone, SecretBecomes, References
    <3> QED
      BY <3>2, <3>3
  <2>4. KnownRefer' /\ CopiesAgree' /\ Released'
    BY <2>1, <2>2, <2>3, <1>k DEF KnownRefer, CopiesAgree, Released
  <2> QED
    BY <2>4, <1>p
<1>19. CASE UNCHANGED vars
  BY <1>19, <1>k, <1>p DEF vars, operator, KnownRefer, CopiesAgree, Released
<1> QED
  BY <1>1, <1>2, <1>3, <1>4, <1>5, <1>6, <1>7, <1>8, <1>9, <1>10, <1>11, <1>12, <1>13,
     <1>14, <1>15, <1>16, <1>17, <1>18, <1>19 DEF Next, Reconcile, Environment

(* The invariant holds in every reachable state. *)
THEOREM ReleaseInvariant == Spec => []ReleaseInv
  BY InitReleaseInv, NextReleaseInv, PTL DEF Spec

(***************************************************************************)
(* None of the FerrVaultSecrets the operator knew of when the connection   *)
(* was deleted is still there when the finalizer lets it go, whatever      *)
(* conflicts, lost replies, crashes and late caches come between.          *)
(***************************************************************************)
THEOREM KnownOutlasted == Spec => []KnownDependantsFirst
<1>1. ReleaseInv => KnownDependantsFirst
  BY DEF ReleaseInv, KnownRefer, KnownDependantsFirst
<1> QED
  BY <1>1, ReleaseInvariant, PTL

-----------------------------------------------------------------------------
(* What Ready=False is made of *)

(* What a probe meets when it fails *)
Failures == {"unread", "unreachable", "invalid"}

(***************************************************************************)
(* A pass that is about to write Ready=False has seen a probe fail or a    *)
(* deletion blocked, and one that is about to add the finalizer writes     *)
(* back the condition it read.                                             *)
(***************************************************************************)
ProbeInv ==
    /\ cacheFresh => cached = conn
    /\ pc = "finalizer" /\ fresh => obj.ready = conn.ready
    /\ pc = "status" /\ obj.ready = "False" => met \in Failures
    /\ pc = "blocked" => obj.blocked

(* No pass is under way at first. *)
LEMMA InitProbeInv == Init => ProbeInv
  BY DEF Init, ProbeInv

(* What the updates of the fields make of the condition and its reason. *)
LEMMA Reported ==
    ASSUME TypeOK, NEW t \in Tri, NEW b \in BOOLEAN
    PROVE  /\ [obj EXCEPT !.ready = t, !.blocked = b].ready = t
           /\ [obj EXCEPT !.ready = t, !.blocked = b].blocked = b
           /\ [obj EXCEPT !.fin = TRUE].ready = obj.ready
           /\ [conn EXCEPT !.gen = @ + 1].ready = conn.ready
           /\ [conn EXCEPT !.phase = "deleting", !.gen = @ + 1].ready = conn.ready
  BY DEF TypeOK, Objects

(* No step breaks it. *)
LEMMA NextProbeInv == TypeOK /\ ProbeInv /\ [Next]_vars => ProbeInv'
<1> SUFFICES ASSUME TypeOK, ProbeInv, [Next]_vars PROVE ProbeInv'
  OBVIOUS
<1> USE DEF ProbeInv, object
<1>1. CASE BeginGone
  BY <1>1 DEF BeginGone
<1>2. CASE Begin
  BY <1>2 DEF Begin
<1>3. CASE AddFinalizer \/ UpdateStatus \/ RemoveFinalizer \/ UpdateBlocked
  <2>1. \/ pc' = "idle"
        \/ pc' = "probe" /\ pc = "finalizer"
        \/ pc' = "gauge" /\ pc = "status"
    BY <1>3 DEF AddFinalizer, UpdateStatus, RemoveFinalizer, UpdateBlocked,
       UpdateFails, ReturnError, ReturnAfter, Idle
  <2>2. cached' = cached /\ (cacheFresh' => cacheFresh /\ conn' = conn)
    BY <1>3 DEF AddFinalizer, UpdateStatus, RemoveFinalizer, UpdateBlocked,
       UpdateFails, Accepted
  <2> QED
    BY <2>1, <2>2
<1>4. CASE ProbeRateLimited \/ SetConnectionReady
  BY <1>4 DEF ProbeRateLimited, SetConnectionReady, ReturnAfter, Idle
<1>5. CASE Probe
  <2>1. pc' = "status" /\ UNCHANGED object
    BY <1>5 DEF Probe
  <2>2. obj'.ready = IF met' \in {"healthy", "refused"} THEN "True" ELSE "False"
    BY <1>5, Reported DEF Probe, Tri
  <2>3. met' \in WorldKinds
    BY <1>5 DEF Probe, TypeOK, WorldKinds
  <2> QED
    BY <2>1, <2>2, <2>3 DEF Failures, WorldKinds
<1>6. CASE ListDependants
  <2>1. UNCHANGED object
    BY <1>6 DEF ListDependants
  <2>2. CASE Dependants # {}
    <3>1. pc' = "blocked" /\ obj'.blocked = TRUE
      BY <1>6, <2>2, Reported DEF ListDependants, Tri
    <3> QED
      BY <2>1, <3>1
  <2>3. CASE Dependants = {}
    BY <1>6, <2>1, <2>3 DEF ListDependants, Idle
  <2> QED
    BY <2>2, <2>3
<1>7. CASE Crash
  BY <1>7 DEF Crash, Idle
<1>8. CASE CacheSync
  BY <1>8 DEF CacheSync
<1>9. CASE Edit \/ Delete \/ Strip \/ Create
  BY <1>9 DEF Edit, Delete, Strip, Create, Overwritten
<1>10. CASE WorldChange
  BY <1>10 DEF WorldChange
<1>11. CASE \E s \in Secrets : CacheSecret(s) \/ Refer(s) \/ Leave(s) \/ SecretGone(s)
  BY <1>11 DEF CacheSecret, Refer, Leave, SecretGone, SecretBecomes, operator
<1>12. CASE UNCHANGED vars
  BY <1>12 DEF vars, operator
<1> QED
  BY <1>1, <1>2, <1>3, <1>4, <1>5, <1>6, <1>7, <1>8, <1>9, <1>10, <1>11, <1>12
  DEF Next, Reconcile, Environment

(* Whoever makes Ready False has a failed probe in hand, or a blocked deletion. *)
LEMMA FailureInHand ==
    ASSUME TypeOK, ProbeInv, [Next]_vars,
           conn'.ready = "False", conn.ready # "False", ~conn'.blocked
    PROVE  met \in Failures
<1>1. conn' # conn
  OBVIOUS
<1>2. Gone(obj).ready = "Unknown" /\ Gone(conn).ready = "Unknown"
      /\ \A g : Created(g).ready = "Unknown"
  BY DEF TypeOK, Objects, Gone, Created
<1>3. CASE AddFinalizer
  <2>1. pc = "finalizer" /\ fresh /\ conn' = [obj EXCEPT !.fin = TRUE]
    BY <1>1, <1>3 DEF AddFinalizer, UpdateFails, Accepted
  <2>2. conn'.ready = conn.ready
    BY <2>1, Reported DEF ProbeInv, Tri
  <2> QED
    BY <2>2
<1>4. CASE UpdateStatus \/ UpdateBlocked
  BY <1>1, <1>4 DEF UpdateStatus, UpdateBlocked, UpdateFails, Accepted, ProbeInv
<1>5. CASE RemoveFinalizer
  BY <1>1, <1>2, <1>5 DEF RemoveFinalizer, UpdateFails, Accepted
<1>6. CASE Edit \/ Delete \/ Strip \/ Create
  BY <1>2, <1>6, Reported DEF Edit, Delete, Strip, Create, Overwritten, Tri
<1>7. CASE ~(\/ AddFinalizer \/ UpdateStatus \/ UpdateBlocked \/ RemoveFinalizer
             \/ Edit \/ Delete \/ Strip \/ Create)
  BY <1>1, <1>7
  DEF Next, Reconcile, Environment, vars, object, operator, BeginGone, Begin,
      ProbeRateLimited, Probe, SetConnectionReady, ListDependants, Crash, CacheSync,
      WorldChange, CacheSecret, Refer, Leave, SecretGone, SecretBecomes
<1> QED
  BY <1>3, <1>4, <1>5, <1>6, <1>7

(***************************************************************************)
(* The comment on the 429 branch (lines 81-94): Ready becomes False only   *)
(* on a deletion that is blocked or in a pass whose own probe failed,      *)
(* never because of a 429, of an update that came late or of a copy of the *)
(* condition that is out of date.                                          *)
(***************************************************************************)
THEOREM BackoffIsNoFailure == Spec => RateLimitIsNoFailure
<1>1. TypeOK /\ ProbeInv /\ [Next]_vars =>
        [conn'.ready = "False" /\ conn.ready # "False" /\ ~conn'.blocked
           => met \in {"unread", "unreachable", "invalid"}]_vars
  BY FailureInHand DEF Failures
<1> QED
  BY <1>1, InitProbeInv, NextProbeInv, TypeCorrect, PTL DEF Spec, RateLimitIsNoFailure
=============================================================================
