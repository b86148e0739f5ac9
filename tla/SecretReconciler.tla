--------------------------- MODULE SecretReconciler ---------------------------
(***************************************************************************)
(* FerrVaultSecretReconciler.Reconcile for one FerrVaultSecret, one step   *)
(* per API call, run by one worker of the operator against a cluster and a *)
(* vault that change meanwhile.                                            *)
(*                                                                         *)
(* Data is abstracted to a content number: what ApplyTransforms returns    *)
(* for what the vault reveals.  hashSecretData is injective on it, so the  *)
(* hash of a content is its number.  Objects carry no resourceVersion:     *)
(* "fresh" says that an object has not been written since it was read, and *)
(* an update of an object that is not fresh is refused with a conflict.    *)
(***************************************************************************)
EXTENDS Integers, FiniteSets

CONSTANTS
    Workloads,      \* the workloads spec.rolloutRestart may list
    WorkLists,      \* the values spec.rolloutRestart is edited to
    MaxContent,     \* contents are 1..MaxContent, in the order the vault takes them
    Broken,         \* contents on which ApplyTransforms fails
    Partial,        \* contents revealed with a selected key missing
    Blank,          \* partial contents that are empty after transforms
    Keyless,        \* contents without the connection's token key
    ConnKinds,      \* what the connection may be edited to
    Refreshes,      \* whether spec.refreshInterval may be positive, or "0s"
    Events,         \* the outside events and faults that happen
    MaxGen,         \* bound on spec edits, deletions and re-creations
    MaxUid,         \* bound on re-creations
    MaxSpent        \* bound on the number of outside events and faults

VARIABLES
    cr,             \* the FerrVaultSecret in the API server
    cached,         \* the operator's informer copy of it
    cacheFresh,     \* cached is the latest version
    target,         \* the target Secret
    pods,           \* per workload: existence, annotation, content it runs
    vault,          \* the content the vault would reveal now
    conn,           \* the FerrVaultConnection, as the operator's informer has it
    spent,          \* outside events and faults so far
    pc,             \* next call of the pass in flight, "idle" between passes
    obj,            \* Reconcile's in-memory cr
    pass,           \* its other locals
    queued,         \* a request for the object is in the workqueue or delayed
    gauge,          \* the LastSyncTimestamp series of the object exists
    throttled,      \* rateLimitBackoff holds attempts for the object
    restarts        \* history: operator restarts of each workload since the
                    \* target's hash last changed, 2 standing for more than one

cluster  == <<target, pods, vault, conn>>
operator == <<pc, obj, pass, queued, gauge, throttled, restarts>>
vars     == <<cr, cached, cacheFresh, cluster, spent, operator, restarts>>

-----------------------------------------------------------------------------
(* Values *)

Contents == 1..MaxContent
None     == 0                   \* no hash, no content, no owner, no generation
Edited   == MaxContent + 1      \* data somebody else put in a Secret
Hashes   == {None} \cup Contents
Other    == MaxUid + 1          \* the UID of another FerrVaultSecret

EventKinds ==
    {"VaultChange", "VaultRevert", "SpecEdit", "Delete", "Recreate", "ConnEdit",
     "TargetDelete", "TargetDrift", "ForeignTarget", "PodRestart", "Reapply",
     "WorkloadGone", "ApiFault", "LostReply", "RateLimit", "Crash"}

ConnStates == {"absent", "invalid", "static", "oidc", "self"}
Tri        == {"Unknown", "True", "False"}

(***************************************************************************)
(* A FerrVaultSecret: the fields of metadata, spec and status that         *)
(* Reconcile reads or writes.  gen is never reused by a re-created object; *)
(* the code only compares generations of one object.                       *)
(***************************************************************************)
Objects == [phase : {"absent", "live", "deleting"}, uid : Nat, gen : Nat,
            fin : BOOLEAN, work : SUBSET Workloads, refresh : BOOLEAN,
            ready : Tri, obs : Nat, last : Hashes, rolled : Tri]

(***************************************************************************)
(* A Secret: managed is the managed-by annotation, owner its controller,   *)
(* hash the content-hash annotation, and from (a history field) the        *)
(* generation of the spec its data was rendered from, None when somebody   *)
(* else created it.                                                        *)
(***************************************************************************)
Secrets == [exists : BOOLEAN, managed : BOOLEAN, owner : Nat, hash : Hashes,
            data : Hashes \cup {Edited}, from : Nat]

NoSecret == [exists |-> FALSE, managed |-> FALSE, owner |-> None,
             hash |-> None, data |-> None, from |-> None]

(***************************************************************************)
(* A workload: mark is the annotation content-hash.<UID> of its pod        *)
(* template, one for each FerrVaultSecret, a re-created one included, and  *)
(* runs the content that its pods have read from the target.               *)
(***************************************************************************)
Pod == [there : BOOLEAN, mark : [1..MaxUid -> Hashes], runs : Hashes \cup {Edited}]

Unmarked == [uid \in 1..MaxUid |-> None]

Passes == [fresh : BOOLEAN, via : ConnStates, got : Hashes, prev : Hashes,
           todo : SUBSET Workloads, failed : BOOLEAN]

NoPass == [fresh |-> FALSE, via |-> "absent", got |-> None, prev |-> None,
           todo |-> {}, failed |-> FALSE]

Gone(o) == [phase |-> "absent", uid |-> o.uid, gen |-> o.gen, fin |-> FALSE,
            work |-> {}, refresh |-> TRUE, ready |-> "Unknown", obs |-> None,
            last |-> None, rolled |-> "Unknown"]

Created(uid, gen, work, refresh) ==
    [phase |-> "live", uid |-> uid, gen |-> gen, fin |-> FALSE, work |-> work,
     refresh |-> refresh, ready |-> "Unknown", obs |-> None, last |-> None, rolled |-> "Unknown"]

NoObject == Gone([uid |-> None, gen |-> None])

PCs == {"idle", "finalizer", "unfinalize", "conn", "token", "reveal", "exists",
        "hash", "record", "write", "rollout", "status", "fail", "fail5m"}

ASSUME ConstantsAssumption ==
    /\ MaxContent \in Nat \ {0}
    /\ WorkLists \subseteq SUBSET Workloads
    /\ Broken \subseteq Contents
    /\ Partial \subseteq Contents
    /\ Blank \subseteq Partial
    /\ Keyless \subseteq Contents
    /\ ConnKinds \subseteq ConnStates
    /\ Refreshes \subseteq BOOLEAN
    /\ Events \subseteq EventKinds
    /\ MaxGen \in Nat
    /\ MaxUid \in Nat \ {0}
    /\ MaxSpent \in Nat

TypeOK ==
    /\ cr \in Objects
    /\ cached \in Objects
    /\ cacheFresh \in BOOLEAN
    /\ target \in Secrets
    /\ pods \in [Workloads -> Pod]
    /\ vault \in Contents
    /\ conn \in ConnStates
    /\ spent \in Nat
    /\ pc \in PCs
    /\ obj \in Objects
    /\ pass \in Passes
    /\ queued \in BOOLEAN
    /\ gauge \in BOOLEAN
    /\ throttled \in BOOLEAN
    /\ restarts \in [Workloads -> 0..2]

(***************************************************************************)
(* A FerrVaultSecret has just been created; the target does not exist, or  *)
(* is the connection's own token Secret.                                   *)
(***************************************************************************)
Init ==
    /\ \E w \in WorkLists, f \in Refreshes : cr = Created(1, 1, w, f)
    /\ cached = cr
    /\ cacheFresh = TRUE
    /\ conn \in ConnKinds
    /\ target = IF conn = "self" THEN [NoSecret EXCEPT !.exists = TRUE, !.data = Edited]
                                 ELSE NoSecret
    /\ pods = [w \in Workloads |-> [there |-> TRUE, mark |-> Unmarked, runs |-> None]]
    /\ vault = 1
    /\ spent = 0
    /\ pc = "idle"
    /\ obj = NoObject
    /\ pass = NoPass
    /\ queued = TRUE
    /\ gauge = FALSE
    /\ throttled = FALSE
    /\ restarts = [w \in Workloads |-> 0]

-----------------------------------------------------------------------------
(* Helpers of the code *)

(* An event or fault of kind e happens: it must be enabled and affordable. *)
Disrupts(e) == e \in Events /\ spent < MaxSpent /\ spent' = spent + 1

(* rolloutDue *)
RolloutDue(lastRolledOut, previous, current) ==
    LET baseline == IF lastRolledOut = None THEN previous ELSE lastRolledOut
    IN  baseline # None /\ baseline # current

(* Mutant: any Secret of that name is taken over. *)
AdoptAnything(s, uid, allowUnmanaged) == TRUE

(* adoptable, on a Secret that exists or not *)
Adoptable(s, uid, allowUnmanaged) ==
    ~s.exists \/ allowUnmanaged \/ s.managed \/ s.owner = uid

(***************************************************************************)
(* controllerutil.SetControllerReference: refused when another object is   *)
(* the controller; an earlier FerrVaultSecret of the same name is the same *)
(* object to it.                                                           *)
(***************************************************************************)
Ownable(s) == s.owner # Other

(* Somebody else's Secret that the operator takes for its own: it has the  *)
(* marker, and no controller that would refuse another.                    *)
Unclaimed(s) == s.exists /\ s.from = None /\ s.managed /\ s.owner = None

(* And one that its owner or the missing marker protects *)
Theirs(s) == s.exists /\ s.from = None /\ ~Unclaimed(s)

(* The data has the key that holds the connection's token. *)
HoldsToken(c) == c # None /\ c \notin Keyless

(* withoutOwner: only this FerrVaultSecret's reference is dropped *)
WithoutOwner(owner, uid) == IF owner = uid THEN None ELSE owner

(* Mutant: the token Secret gets a controller like any other target. *)
SyncedAlwaysOwned(s, o, tok, content) ==
    [exists |-> TRUE, managed |-> TRUE, owner |-> o.uid,
     hash |-> content, data |-> content, from |-> o.gen]

(* The Secret the mutate function of ensureTargetSecret produces. *)
Synced(s, o, tok, content) ==
    [exists |-> TRUE, managed |-> TRUE,
     owner |-> IF tok THEN WithoutOwner(s.owner, o.uid) ELSE o.uid,
     hash |-> content, data |-> content, from |-> o.gen]

(* Owns(Secret) and secretsReferencingTokenSecret: a change of the target   *)
(* enqueues the object it is owned by, or whose connection it authenticates *)
Notified(s) == s.owner \notin {None, Other} \/ conn = "self"

(* The pods of w restart and mount the Secret, or wait for it to exist. *)
Restarted(w, s) == [pods[w] EXCEPT !.runs = IF s.exists THEN s.data ELSE None]

(* And carry what the FerrVaultSecret of that UID restarted them for. *)
Marked(w, uid, content) == [Restarted(w, target) EXCEPT !.mark[uid] = content]

-----------------------------------------------------------------------------
(* The ends of a pass *)

Idle == pc' = "idle" /\ obj' = NoObject /\ pass' = NoPass

(* Mutant: the error is logged and swallowed. *)
SwallowError == Idle /\ UNCHANGED queued

(* return ctrl.Result{}, err: the key is requeued with the rate limiter *)
ReturnError == Idle /\ queued' = TRUE

(* return ctrl.Result{RequeueAfter: refresh}: no requeue when it is zero *)
ReturnAfterRefresh == Idle /\ queued' = (queued \/ obj.refresh)

(* return ctrl.Result{RequeueAfter: after} with a positive constant *)
ReturnAfter == Idle /\ queued' = TRUE

(* failReadyWithRequeue up to its status update, which is a step of its own *)
FailReady(o, at) ==
    /\ pc' = at
    /\ obj' = [o EXCEPT !.ready = "False"]
    /\ UNCHANGED queued

(* Mutant: on a conflict the object is read again and the status written to it. *)
AcceptedByRetry(o) ==
    /\ cr.phase = "live"
    /\ cr' = [o EXCEPT !.gen = cr.gen, !.work = cr.work, !.refresh = cr.refresh,
                    !.obs = cr.gen]
    /\ cacheFresh' = FALSE

(* An update of the in-memory object o is accepted by the API server. *)
Accepted(o) == pass.fresh /\ cr' = o /\ cacheFresh' = FALSE

(***************************************************************************)
(* An update returns an error: a conflict, a failed call, or a call whose  *)
(* reply is lost after the server applied it.                              *)
(***************************************************************************)
UpdateFails(o) ==
    /\ \/ ~pass.fresh /\ UNCHANGED <<cr, cacheFresh, spent>>
       \/ Disrupts("ApiFault") /\ UNCHANGED <<cr, cacheFresh>>
       \/ Disrupts("LostReply") /\ Accepted(o)
    /\ ReturnError
    /\ UNCHANGED <<cached, cluster, gauge, throttled, restarts>>

-----------------------------------------------------------------------------
(* Reconcile *)

(* Mutant: the series is left behind. *)
KeepLastSyncTimestamp == UNCHANGED gauge

DeleteLastSyncTimestamp == gauge' = FALSE

(* The object is not found: its metric series and its backoff are dropped. *)
BeginGone ==
    /\ pc = "idle" /\ queued /\ cached.phase = "absent"
    /\ queued' = FALSE /\ DeleteLastSyncTimestamp /\ throttled' = FALSE
    /\ UNCHANGED <<cr, cached, cacheFresh, cluster, spent, pc, obj, pass, restarts>>

(* Mutant: the finalizer is left for later. *)
BeginUnprotected ==
    /\ pc = "idle" /\ queued /\ cached.phase = "live"
    /\ queued' = FALSE
    /\ obj' = cached
    /\ pass' = [NoPass EXCEPT !.fresh = cacheFresh]
    /\ pc' = "conn"
    /\ UNCHANGED <<cr, cached, cacheFresh, cluster, spent, gauge, throttled, restarts>>

BeginLive ==
    /\ pc = "idle" /\ queued /\ cached.phase = "live"
    /\ queued' = FALSE
    /\ obj' = cached
    /\ pass' = [NoPass EXCEPT !.fresh = cacheFresh]
    /\ pc' = IF cached.fin THEN "conn" ELSE "finalizer"
    /\ UNCHANGED <<cr, cached, cacheFresh, cluster, spent, gauge, throttled, restarts>>

BeginDeleting ==
    /\ pc = "idle" /\ queued /\ cached.phase = "deleting"
    /\ queued' = FALSE /\ DeleteLastSyncTimestamp
    /\ IF cached.fin
       THEN /\ obj' = cached
            /\ pass' = [NoPass EXCEPT !.fresh = cacheFresh]
            /\ pc' = "unfinalize"
       ELSE UNCHANGED <<obj, pass, pc>>
    /\ UNCHANGED <<cr, cached, cacheFresh, cluster, spent, throttled, restarts>>

AddFinalizer ==
    /\ pc = "finalizer"
    /\ LET o == [obj EXCEPT !.fin = TRUE] IN
       \/ /\ Accepted(o)
          /\ obj' = o /\ pc' = "conn"
          /\ UNCHANGED <<cached, cluster, spent, pass, queued, gauge, throttled, restarts>>
       \/ UpdateFails(o)

(* The last finalizer goes, and the API server removes the object. *)
RemoveFinalizer ==
    /\ pc = "unfinalize"
    /\ \/ /\ Accepted(Gone(obj))
          /\ Idle
          /\ UNCHANGED <<cached, cluster, spent, queued, gauge, throttled, restarts>>
       \/ UpdateFails(Gone(obj))

(* Mutant: a connection that does not exist is waited for in silence. *)
AwaitConnection ==
    /\ pc = "conn"
    /\ IF conn = "absent"
       THEN ReturnAfter
       ELSE /\ pc' = "token"
            /\ pass' = [pass EXCEPT !.via = conn]
            /\ UNCHANGED <<obj, queued>>
    /\ UNCHANGED <<cr, cached, cacheFresh, cluster, spent, gauge, throttled, restarts>>

GetConnection ==
    /\ pc = "conn"
    /\ IF conn = "absent"
       THEN FailReady(obj, "fail") /\ UNCHANGED pass
       ELSE /\ pc' = "token"
            /\ pass' = [pass EXCEPT !.via = conn]
            /\ UNCHANGED <<obj, queued>>
    /\ UNCHANGED <<cr, cached, cacheFresh, cluster, spent, gauge, throttled, restarts>>

(* Mutant: the connection is read again wherever it matters. *)
TokenTargetNow == conn = "self"

(* The connection's token is the target Secret's own: connectionTokenKey. *)
TokenTarget == pass.via = "self"

TokenReadable == TokenTarget => target.exists /\ HoldsToken(target.data)

(***************************************************************************)
(* loadToken, then the client factory and the cloud-scope check, which     *)
(* only look at the connection ("invalid").  The exchange of an oidc       *)
(* connection is a FerrVault call; its 429 is an error like any other.     *)
(***************************************************************************)
LoadToken ==
    /\ pc = "token"
    /\ \/ /\ pass.via # "invalid" /\ TokenReadable
          /\ pc' = "reveal"
          /\ UNCHANGED <<obj, pass, queued, spent>>
       \/ /\ \/ ~(pass.via # "invalid" /\ TokenReadable) /\ UNCHANGED spent
             \/ Disrupts("ApiFault")
             \/ pass.via = "oidc" /\ Disrupts("RateLimit")
          /\ FailReady(obj, "fail")
          /\ UNCHANGED pass
    /\ UNCHANGED <<cr, cached, cacheFresh, cluster, gauge, throttled, restarts>>

(* A 429: back off, and leave the status alone. *)
RevealRateLimited ==
    /\ pc = "reveal" /\ Disrupts("RateLimit")
    /\ throttled' = TRUE
    /\ ReturnAfter
    /\ UNCHANGED <<cr, cached, cacheFresh, cluster, gauge, restarts>>

(* Unreachable and VaultNotFound wait for the refresh, AuthFailed 5 minutes. *)
RevealFails ==
    /\ pc = "reveal" /\ Disrupts("ApiFault")
    /\ throttled' = FALSE
    /\ \E at \in {"fail", "fail5m"} : FailReady(obj, at)
    /\ UNCHANGED <<cr, cached, cacheFresh, cluster, pass, gauge, restarts>>

(***************************************************************************)
(* The reveal succeeds; what follows up to the next call is local: the     *)
(* transforms, then the token-key guard of a target that is the token      *)
(* Secret.                                                                 *)
(***************************************************************************)
Reveal ==
    /\ pc = "reveal"
    /\ throttled' = FALSE
    /\ pass' = [pass EXCEPT !.got = vault]
    /\ IF vault \in Broken \/ (TokenTarget /\ ~HoldsToken(vault))
       THEN FailReady(obj, "fail")
       ELSE /\ pc' = IF vault \in Partial THEN "exists" ELSE "hash"
            /\ UNCHANGED <<obj, queued>>
    /\ UNCHANGED <<cr, cached, cacheFresh, cluster, spent, gauge, restarts>>

(* Mutant: only an empty result is held back. *)
LeaveIfBlank == pass.got \in Blank

(* With keys missing, a target that exists, or would be empty, is left alone. *)
LeaveTarget == target.exists \/ pass.got \in Blank

CheckTargetExists ==
    /\ pc = "exists"
    /\ \/ Disrupts("ApiFault") /\ FailReady(obj, "fail")
       \/ /\ LeaveTarget
          /\ FailReady([obj EXCEPT !.obs = obj.gen], "fail")
          /\ UNCHANGED spent
       \/ /\ ~LeaveTarget
          /\ pc' = "hash"
          /\ UNCHANGED <<obj, queued, spent>>
    /\ UNCHANGED <<cr, cached, cacheFresh, cluster, pass, gauge, throttled, restarts>>

(* Mutant: what is owed is only recorded once it has been done. *)
NeverRecorded(previous) == FALSE

(* The early returns of recordPendingRollout *)
MustRecord(previous) ==
    obj.work # {} /\ obj.last = None /\ RolloutDue(None, previous, pass.got)

(* targetContentHash, and whether recordPendingRollout has anything to write *)
ReadContentHash ==
    /\ pc = "hash"
    /\ \/ /\ Disrupts("ApiFault") /\ FailReady(obj, "fail")
          /\ UNCHANGED pass
       \/ /\ pass' = [pass EXCEPT !.prev = target.hash]
          /\ pc' = IF MustRecord(target.hash) THEN "record" ELSE "write"
          /\ UNCHANGED <<obj, queued, spent>>
    /\ UNCHANGED <<cr, cached, cacheFresh, cluster, gauge, throttled, restarts>>

(* recordPendingRollout's status update, before the Secret is touched *)
RecordPendingRollout ==
    /\ pc = "record"
    /\ LET o == [obj EXCEPT !.last = pass.prev] IN
       \/ /\ Accepted(o)
          /\ obj' = o /\ pc' = "write"
          /\ UNCHANGED <<cached, cluster, spent, pass, queued, gauge, throttled, restarts>>
       \/ UpdateFails(o)

(* rolloutIfDue up to its first workload *)
StartRollout ==
    IF obj.work # {} /\ RolloutDue(obj.last, pass.prev, pass.got)
    THEN /\ pass' = [pass EXCEPT !.todo = obj.work]
         /\ pc' = "rollout"
         /\ UNCHANGED obj
    ELSE /\ pc' = "status"
         /\ obj' = [obj EXCEPT !.last = IF obj.work = {} THEN None ELSE pass.got]
         /\ UNCHANGED pass

(* CreateOrUpdate only writes what differs (from is no part of the Secret), *)
(* and a write is seen by the watches on Secrets.                           *)
Differs(s) == [s EXCEPT !.from = target.from] # target

WriteTarget ==
    /\ target' = Synced(target, obj, TokenTarget, pass.got)
    /\ queued' = (queued \/ (Differs(target') /\ (Notified(target) \/ Notified(target'))))
    /\ restarts' = IF target.hash = pass.got THEN restarts
                   ELSE [w \in Workloads |-> 0]

Writable ==
    Adoptable(target, obj.uid, TokenTarget) /\ (TokenTarget \/ Ownable(target))

(***************************************************************************)
(* ensureTargetSecret.  CreateOrUpdate is a Get and a Create or Update     *)
(* guarded by the version it read, hence one step.                         *)
(***************************************************************************)
EnsureTargetSecret ==
    /\ pc = "write"
    /\ \/ /\ Writable
          /\ WriteTarget
          /\ StartRollout
          /\ UNCHANGED spent
       \/ /\ Writable
          /\ Disrupts("LostReply")
          /\ WriteTarget
          /\ pc' = "fail" /\ obj' = [obj EXCEPT !.ready = "False"]
          /\ UNCHANGED pass
       \/ /\ \/ ~Writable /\ UNCHANGED spent
             \/ Disrupts("ApiFault")
          /\ FailReady(obj, "fail")
          /\ UNCHANGED <<target, pass, restarts>>
    /\ UNCHANGED <<cr, cached, cacheFresh, pods, vault, conn, gauge, throttled>>

(* Mutant: workloads are patched again on every retry. *)
PatchAgain(w) ==
    /\ pods' = [pods EXCEPT ![w] = Marked(w, obj.uid, pass.got)]
    /\ restarts' = [restarts EXCEPT ![w] = IF @ = 0 THEN 1 ELSE 2]

(* patchPodTemplate on w, or nothing when this object has already marked w *)
(* with this content; the marks of other objects do not matter.            *)
PatchPodTemplate(w) ==
    IF pods[w].mark[obj.uid] = pass.got
    THEN UNCHANGED <<pods, restarts>>
    ELSE /\ pods' = [pods EXCEPT ![w] = Marked(w, obj.uid, pass.got)]
         /\ restarts' = [restarts EXCEPT ![w] = IF @ = 0 THEN 1 ELSE 2]

(* The loop of triggerRollouts: every workload is tried, errors are remembered. *)
TriggerRollout(w) ==
    /\ pc = "rollout" /\ w \in pass.todo
    /\ \/ /\ pods[w].there
          /\ PatchPodTemplate(w)
          /\ pass' = [pass EXCEPT !.todo = @ \ {w}]
          /\ UNCHANGED spent
       \/ /\ pods[w].there /\ Disrupts("LostReply")
          /\ PatchPodTemplate(w)
          /\ pass' = [pass EXCEPT !.todo = @ \ {w}, !.failed = TRUE]
       \/ /\ \/ ~pods[w].there /\ UNCHANGED spent
             \/ Disrupts("ApiFault")
          /\ UNCHANGED <<pods, restarts>>
          /\ pass' = [pass EXCEPT !.todo = @ \ {w}, !.failed = TRUE]
    /\ UNCHANGED <<cr, cached, cacheFresh, target, vault, conn,
                   pc, obj, queued, gauge, throttled>>

(* rolloutIfDue's last lines: a failed rollout leaves lastRolloutHash alone. *)
AfterRollout == IF pass.failed THEN obj ELSE [obj EXCEPT !.last = pass.got]

EndRollout ==
    /\ pc = "rollout" /\ pass.todo = {}
    /\ pc' = "status"
    /\ obj' = AfterRollout
    /\ UNCHANGED <<cr, cached, cacheFresh, cluster, spent, pass, queued, gauge, throttled, restarts>>

(* Mutant: the reason is written where the condition's status belongs. *)
ReasonAsStatus ==
    [obj EXCEPT !.obs = obj.gen, !.ready = "Synced", !.rolled = "True"]

(* The status fields and conditions of a pass that wrote the target. *)
FinalStatus ==
    [obj EXCEPT
        !.obs    = obj.gen,
        !.ready  = IF pass.got \in Partial THEN "False" ELSE "True",
        !.rolled = IF obj.work = {} THEN "Unknown"
                   ELSE IF pass.failed THEN "False" ELSE "True"]

UpdateStatus ==
    /\ pc = "status"
    /\ \/ /\ Accepted(FinalStatus)
          /\ gauge' = (gauge \/ pass.got \notin Partial)
          /\ IF pass.failed THEN ReturnError ELSE ReturnAfterRefresh
          /\ UNCHANGED <<cached, cluster, spent, throttled, restarts>>
       \/ UpdateFails(FinalStatus)

UpdateFailStatus ==
    /\ pc \in {"fail", "fail5m"}
    /\ \/ /\ Accepted(obj)
          /\ IF pc = "fail" THEN ReturnAfterRefresh ELSE ReturnAfter
          /\ UNCHANGED <<cached, cluster, spent, gauge, throttled, restarts>>
       \/ UpdateFails(obj)

(* The process dies: memory is lost, the new one lists the objects it watches. *)
Crash ==
    /\ Disrupts("Crash")
    /\ Idle
    /\ gauge' = FALSE /\ throttled' = FALSE
    /\ cached' = cr /\ cacheFresh' = TRUE
    /\ queued' = (cr.phase # "absent")
    /\ UNCHANGED <<cr, cluster, restarts>>

(***************************************************************************)
(* The informer catches up.  GenerationChangedPredicate drops updates that *)
(* leave the generation alone; creations and deletions always pass.        *)
(***************************************************************************)
CacheSync ==
    /\ ~cacheFresh
    /\ cached' = cr /\ cacheFresh' = TRUE
    /\ queued' = (queued \/ cached.gen # cr.gen \/ cached.phase # cr.phase)
    /\ UNCHANGED <<cr, cluster, spent, pc, obj, pass, gauge, throttled, restarts>>

(* Mutant: no watch on connections. *)
NoConnectionWatch == FALSE /\ UNCHANGED vars

(* secretsReferencingConnection: the connection's own status updates enqueue us. *)
ConnectionTouched ==
    /\ conn # "absent" /\ cached.phase # "absent" /\ ~queued
    /\ queued' = TRUE
    /\ UNCHANGED <<cr, cached, cacheFresh, cluster, spent, pc, obj, pass, gauge, throttled, restarts>>

Reconcile ==
    \/ BeginGone \/ BeginLive \/ BeginDeleting
    \/ AddFinalizer \/ RemoveFinalizer
    \/ GetConnection \/ LoadToken
    \/ RevealRateLimited \/ RevealFails \/ Reveal
    \/ CheckTargetExists \/ ReadContentHash \/ RecordPendingRollout
    \/ EnsureTargetSecret
    \/ \E w \in Workloads : TriggerRollout(w)
    \/ EndRollout
    \/ UpdateStatus \/ UpdateFailStatus

-----------------------------------------------------------------------------
(* The rest of the cluster, and the vault *)

(* Somebody else writes the FerrVaultSecret: copies read before are outdated. *)
Overwritten(o) ==
    /\ cr' = o
    /\ cacheFresh' = FALSE
    /\ pass' = [pass EXCEPT !.fresh = FALSE]
    /\ UNCHANGED <<cached, cluster, pc, obj, queued, gauge, throttled, restarts>>

SpecEdit ==
    /\ Disrupts("SpecEdit") /\ cr.phase = "live" /\ cr.gen < MaxGen
    /\ \E w \in WorkLists, f \in Refreshes :
         Overwritten([cr EXCEPT !.gen = @ + 1, !.work = w, !.refresh = f])

(* A delete waits for the finalizer, if there is one. *)
Delete ==
    /\ Disrupts("Delete") /\ cr.phase = "live" /\ cr.gen < MaxGen
    /\ Overwritten(IF cr.fin THEN [cr EXCEPT !.phase = "deleting", !.gen = @ + 1]
                             ELSE Gone(cr))

Recreate ==
    /\ Disrupts("Recreate") /\ cr.phase = "absent" /\ cr.uid < MaxUid /\ cr.gen < MaxGen
    /\ \E w \in WorkLists, f \in Refreshes :
         Overwritten(Created(cr.uid + 1, cr.gen + 1, w, f))

VaultChange ==
    /\ \/ Disrupts("VaultChange") /\ vault' \in Contents /\ vault' > vault
       \/ Disrupts("VaultRevert") /\ vault' \in Contents /\ vault' < vault
    /\ UNCHANGED <<cr, cached, cacheFresh, target, pods, conn, operator, restarts>>

(* Any event on the connection enqueues the objects that reference it. *)
ConnEdit ==
    /\ Disrupts("ConnEdit")
    /\ conn' \in ConnKinds \ {conn}
    /\ queued' = (queued \/ cached.phase # "absent")
    /\ UNCHANGED <<cr, cached, cacheFresh, target, pods, vault,
                   pc, obj, pass, gauge, throttled, restarts>>

(* The target changes under somebody else's hands, and watchers are told. *)
TargetBecomes(s) ==
    /\ target' = s
    /\ queued' = (queued \/ Notified(target) \/ Notified(s))
    /\ UNCHANGED <<cr, cached, cacheFresh, pods, vault, conn,
                   pc, obj, pass, gauge, throttled, restarts>>

TargetDelete ==
    Disrupts("TargetDelete") /\ target.exists /\ TargetBecomes(NoSecret)

(* A user edits the data, but leaves the key of the connection's token. *)
TargetDrift ==
    /\ Disrupts("TargetDrift") /\ target.exists /\ target.data # Edited
    /\ TargetBecomes([target EXCEPT !.data = Edited])

(***************************************************************************)
(* A Secret of the target's name: by hand or by another controller, or one *)
(* with the marker of the operator, which is the target of another         *)
(* FerrVaultSecret, or has no owner: restored from a backup, orphaned, or  *)
(* a token Secret that another FerrVaultSecret writes.                     *)
(***************************************************************************)
ForeignTarget ==
    /\ Disrupts("ForeignTarget") /\ ~target.exists
    /\ \E managed \in BOOLEAN, owner \in {None, Other}, hash \in Hashes :
         /\ hash # None => managed
         /\ TargetBecomes([NoSecret EXCEPT !.exists = TRUE, !.data = Edited,
                             !.managed = managed, !.owner = owner, !.hash = hash])

(* The garbage collector: a Secret whose controller is gone is deleted. *)
GarbageCollect ==
    /\ target.exists /\ target.owner \notin {None, Other}
    /\ cr.phase = "absent" \/ cr.uid # target.owner
    /\ TargetBecomes(NoSecret)
    /\ UNCHANGED spent

(* Pods of w that wait for the Secret start once it exists. *)
PodStart(w) ==
    /\ pods[w].there /\ target.exists /\ pods[w].runs = None
    /\ pods' = [pods EXCEPT ![w] = Restarted(w, target)]
    /\ UNCHANGED <<cr, cached, cacheFresh, target, vault, conn, spent, operator, restarts>>

(* Pods of w that run something older restart for their own reasons. *)
PodRestart(w) ==
    /\ "PodRestart" \in Events
    /\ pods[w].there /\ target.exists /\ pods[w].runs \notin {None, target.data}
    /\ pods' = [pods EXCEPT ![w] = Restarted(w, target)]
    /\ UNCHANGED <<cr, cached, cacheFresh, target, vault, conn, spent, operator, restarts>>

(* w is created, or its manifest re-applied, without the operator's annotations. *)
Reapply(w) ==
    /\ "Reapply" \in Events
    /\ ~pods[w].there \/ pods[w].mark # Unmarked
    /\ pods' = [pods EXCEPT ![w] = [Restarted(w, target) EXCEPT
                                        !.there = TRUE, !.mark = Unmarked]]
    /\ UNCHANGED <<cr, cached, cacheFresh, target, vault, conn, spent, operator, restarts>>

WorkloadGone(w) ==
    /\ Disrupts("WorkloadGone") /\ pods[w].there
    /\ pods' = [pods EXCEPT ![w] = [there |-> FALSE, mark |-> Unmarked, runs |-> None]]
    /\ UNCHANGED <<cr, cached, cacheFresh, target, vault, conn, operator, restarts>>

Environment ==
    \/ CacheSync \/ ConnectionTouched
    \/ SpecEdit \/ Delete \/ Recreate
    \/ VaultChange \/ ConnEdit
    \/ TargetDelete \/ TargetDrift \/ ForeignTarget \/ GarbageCollect
    \/ \E w \in Workloads : PodStart(w) \/ PodRestart(w) \/ Reapply(w) \/ WorkloadGone(w)

Next == Reconcile \/ Crash \/ Environment

Spec == Init /\ [][Next]_vars

(***************************************************************************)
(* The worker keeps taking requests and finishing passes, informers and    *)
(* the garbage collector keep up, and pods whose Secret exists start.      *)
(* With "0s" as refresh interval no pass requeues itself: what brings one  *)
(* back is the probe of the connection, which rewrites its status every    *)
(* ten minutes, although "0s" is documented to disable such refreshes      *)
(* (secretspec_types.go:132-135).                                          *)
(* Faults and outside events are not promised; MaxSpent makes them finite. *)
(***************************************************************************)
FairSpec ==
    /\ Spec
    /\ WF_vars(Reconcile)
    /\ WF_vars(CacheSync)
    /\ WF_vars(GarbageCollect)
    /\ WF_vars(~cr.refresh /\ ConnectionTouched)
    /\ \A w \in Workloads : WF_vars(PodStart(w))

-----------------------------------------------------------------------------
(* Properties *)

(* The pass has a content in hand. *)
Holds == pc \in {"exists", "hash", "record", "write", "rollout", "status"}

(* What SecretSync sees of the pass, of the target and of the status. *)
Lent == TokenTarget /\ (pc \in {"token", "reveal"} \/ Holds)

Holding ==
    IF Holds THEN [content |-> pass.got, gen |-> obj.gen, written |-> pc \in {"rollout", "status"}]
             ELSE [content |-> None, gen |-> None, written |-> FALSE]

Seen ==
    IF ~target.exists
    THEN [by |-> "nobody", content |-> None, gen |-> None]
    ELSE [by |-> IF Theirs(target) THEN "others"
                 ELSE IF Unclaimed(target) THEN "anyone" ELSE "operator",
          content |-> target.data, gen |-> target.from]

Promised == IF cr.ready = "True" THEN cr.obs ELSE None

Sync == INSTANCE SecretSync WITH
    asked <- cr.gen, wanted <- cr.phase # "absent", token <- conn = "self",
    lent <- Lent, holding <- Holding, secret <- Seen, promised <- Promised

(***************************************************************************)
(* Every call of Reconcile, every fault and every outside event is a step  *)
(* of SecretSync or invisible to it.  In particular the target takes on    *)
(* generations and contents in the order in which they were asked for and  *)
(* revealed, Ready=True is only said of a generation that was written, and *)
(* nothing is written for an object that is gone, thanks to its finalizer. *)
(***************************************************************************)
ImplementsSync == Sync!Spec

(* A step in which ensureTargetSecret replaced or created the target. *)
OperatorWrote == pc = "write" /\ pc' # "write" /\ target' # target

(* The pods of w run something else than the target holds. *)
Stale(w) == pods[w].there /\ pods[w].runs \notin {None, target.data}

(***************************************************************************)
(* Ready=True with observedGeneration g is a promise about the target:     *)
(* what it holds was rendered from generation g or a later one, whatever   *)
(* passes on outdated copies did in between.                               *)
(***************************************************************************)
ReadyReflectsSpec ==
    cr.ready = "True" /\ target.exists /\ target.from # None
        => target.from >= cr.obs

(***************************************************************************)
(* A rollout that is owed is on record where a crash cannot lose it: while *)
(* a listed workload runs older content than the target holds, the stored  *)
(* lastRolloutHash differs from the target's hash, so the next pass, of    *)
(* this process or the next, triggers the rollout.                         *)
(***************************************************************************)
RolloutNotForgotten ==
    cr.phase = "live" /\ target.exists /\ (\E w \in cr.work : Stale(w))
        => cr.last \notin {None, target.hash}

(***************************************************************************)
(* The message of RolloutRestarted=True (ferrvaultsecret_sync.go:215):     *)
(* "workloads run the current content of the target Secret", taken only    *)
(* when the rollout on record is of the content the target holds.          *)
(***************************************************************************)
RolloutConditionTruthful ==
    pc = "idle" /\ cr.rolled = "True" /\ target.exists /\ cr.last = target.hash
        => \A w \in cr.work : ~Stale(w)

(***************************************************************************)
(* A workload is restarted at most once for a content the target takes on, *)
(* however often the rollout is retried because another workload failed,   *)
(* a reply or the status update was lost, or the operator died.  A         *)
(* FerrVaultSecret that was deleted and created again has a mark of its    *)
(* own on the workload, none at first, and yet does not repeat what the    *)
(* earlier one did: it starts from the hash that it finds on the target.   *)
(***************************************************************************)
RestartedOnce == \A w \in Workloads : restarts[w] <= 1

(***************************************************************************)
(* The Secret a connection authenticates with survives being the target of *)
(* a FerrVaultSecret of that connection: no write of the operator drops    *)
(* the token key, and deleting the FerrVaultSecret does not make the       *)
(* garbage collector delete it.  Whoever edits the Secret leaves the key.  *)
(***************************************************************************)
TokenSecretSurvives ==
    conn = "self" => target.exists /\ HoldsToken(target.data)

(***************************************************************************)
(* A Secret of the target's name that somebody else created keeps its      *)
(* content and its life if it has a controller or lacks the marker of the  *)
(* operator, unless the pass saw it to be the token Secret.                *)
(***************************************************************************)
ForeignSecretUntouched ==
    [][Theirs(target) /\ target' # target
          /\ (OperatorWrote \/ spent' = spent) => TokenTarget]_vars

(***************************************************************************)
(* Data with missing keys never replaces a target that the operator wrote, *)
(* nor one that appeared after targetExists said there was none, unless it *)
(* is the token Secret, or has the marker and no owner: those are adopted. *)
(***************************************************************************)
PartialNeverReplaces ==
    [][OperatorWrote /\ pass.got \in Partial /\ ~TokenTarget
          => ~target.exists \/ Unclaimed(target)]_vars

(***************************************************************************)
(* The LastSyncTimestamp series never outlives its object: it exists only  *)
(* while the object does, held by the finalizer whose removal drops it.    *)
(***************************************************************************)
GaugeNeedsObject == gauge => cr.phase # "absent" /\ cr.fin

(* The vault, the connection and the target allow a sync. *)
Syncable ==
    /\ cr.phase = "live" /\ conn \in {"static", "oidc", "self"}
    /\ vault \notin Broken \cup Partial
    /\ conn = "self" => HoldsToken(vault) /\ target.exists /\ HoldsToken(target.data)
    /\ Theirs(target) \/ target.owner = Other => conn = "self"

(***************************************************************************)
(* Once the outside is quiet, the target gets the vault's content and the  *)
(* status says so, whatever was lost, failed or interrupted before.        *)
(***************************************************************************)
EventuallySynced ==
    <>[](Syncable => /\ target.exists /\ target.data = vault
                     /\ cr.ready = "True" /\ cr.obs = cr.gen)

(***************************************************************************)
(* And when they do not, the status does not go on saying Ready=True: it   *)
(* is told of connections that go, vaults that lose keys and targets that  *)
(* others took, by whatever brings the next pass.                          *)
(***************************************************************************)
FailureShows ==
    <>[](cr.phase = "live" /\ ~Syncable => cr.ready = "False")

(***************************************************************************)
(* An owned target that is made its connection's token Secret loses its    *)
(* owner by the next sync, so that it survives the FerrVaultSecret.        *)
(***************************************************************************)
TokenSecretDisowned ==
    <>[](Syncable /\ conn = "self" => target.owner \in {None, Other})

(* And no listed workload keeps running older content. *)
EventuallyRolledOut ==
    <>[](Syncable => \A w \in cr.work : ~Stale(w))

(* A deleted object goes away, and with it what it owned in the cluster, and *)
(* its attempts in the backoff of the operator.                              *)
DeletionCompletes ==
    <>[]/\ cr.phase # "deleting"
        /\ cr.phase = "absent" => target.owner \in {None, Other} /\ ~throttled
=============================================================================
