------------------------------- MODULE Operator -------------------------------
(***************************************************************************)
(* Both reconcilers in the process that main starts: one FerrVaultSecret   *)
(* and the FerrVaultConnection it refers to.  They share the informers, so *)
(* that one reads in its passes what the other writes, late, and the life  *)
(* of the process.  What each module assumes of the other is here what the *)
(* other does: the connection that SecretReconciler finds is the informer's *)
(* copy of ConnectionReconciler's, and what wakes a FerrVaultSecret without *)
(* a refresh interval is the connection's own status update.               *)
(***************************************************************************)
EXTENDS Integers, FiniteSets

CONSTANTS
    MaxContent,         \* contents are 1..MaxContent
    Keyless,            \* contents without the connection's token key
    Kinds,              \* "static": the connection has a token of its own,
                        \* "self": it is in the target of the FerrVaultSecret
    Refreshes,          \* whether spec.refreshInterval may be positive, or "0s"
    SecretEvents,       \* what happens to the FerrVaultSecret and its target
    ConnectionEvents,   \* what happens to the FerrVaultConnection
    MaxGen,             \* bound on edits, deletions and re-creations of each
    MaxUid,             \* bound on re-creations of the FerrVaultSecret
    MaxSpent            \* bound on the number of outside events and faults

(* The events are those that have a step here. *)
ASSUME OperatorAssumption ==
    /\ MaxContent \in Nat \ {0} /\ Keyless \subseteq 1..MaxContent
    /\ Kinds \subseteq {"static", "self"} /\ Refreshes \subseteq BOOLEAN
    /\ SecretEvents \subseteq {"VaultChange", "VaultRevert", "Delete", "Recreate",
                               "ApiFault", "LostReply", "RateLimit"}
    /\ ConnectionEvents \subseteq {"Delete", "Create", "ApiFault", "LostReply",
                                   "RateLimit", "Crash"}
    /\ MaxGen \in Nat /\ MaxUid \in Nat \ {0} /\ MaxSpent \in Nat

VARIABLES
    spent, kind,                                            \* of both
    cr, crCached, crFresh, target, vault,                   \* SecretReconciler's
    pc, obj, pass, queued, syncGauge, throttled,
    conn, connCached, connFresh, known,                     \* ConnectionReconciler's
    connPc, connObj, connPassFresh, met, connQueued, readyGauge, connThrottled

secretObject   == <<cr, crCached, crFresh>>
secretSide     == <<secretObject, target, vault, pc, obj, pass, queued, syncGauge, throttled>>
connectionRest == <<conn, connCached, connFresh, connPc, connObj, connPassFresh, met,
                    readyGauge, connThrottled>>
vars           == <<spent, kind, secretSide, connectionRest, connQueued, known>>

TheSecret == "the FerrVaultSecret"

(* A FerrVaultSecret as handleDelete's List of the dependants finds it *)
Referring(o) == [s \in {TheSecret} |-> IF o.phase = "absent" THEN "none" ELSE o.phase]

(* The FerrVaultConnection as r.Get of a FerrVaultSecret's pass finds it; one *)
(* that is being deleted is as good as any.                                   *)
Found(o) == IF o.phase = "absent" THEN "absent" ELSE kind

(* What a probe meets: TokenFor reads the token Secret, if that is the kind. *)
World == IF kind = "self" /\ ~(target.exists /\ target.data \notin Keyless)
         THEN "unread" ELSE "healthy"

S == INSTANCE SecretReconciler WITH
    Workloads <- {}, WorkLists <- {{}}, Broken <- {}, Partial <- {}, Blank <- {},
    ConnKinds <- {"absent"} \cup Kinds, Events <- SecretEvents,
    cached <- crCached, cacheFresh <- crFresh, conn <- Found(connCached),
    pods <- <<>>, gauge <- syncGauge, restarts <- <<>>

C == INSTANCE ConnectionReconciler WITH
    Secrets <- {TheSecret}, Worlds <- {"healthy", "unread"}, Events <- ConnectionEvents,
    cached <- connCached, cacheFresh <- connFresh,
    refs <- Referring(cr), cachedRefs <- Referring(crCached), world <- World,
    pc <- connPc, obj <- connObj, fresh <- connPassFresh,
    queued <- connQueued, gauge <- readyGauge, throttled <- connThrottled

Init ==
    /\ kind \in Kinds
    /\ conn = C!Created(1) /\ connCached = conn
    /\ S!Init
    /\ C!Init

-----------------------------------------------------------------------------
(* Steps *)

(***************************************************************************)
(* What a step of the FerrVaultSecret means to its connection: once gone,  *)
(* it does not hold it up any more, and a change of the token Secret       *)
(* enqueues it.                                                            *)
(***************************************************************************)
Beside ==
    /\ known' = {s \in known : cr'.phase # "absent"}
    /\ connQueued' = (connQueued \/ /\ kind = "self" /\ connCached.phase # "absent"
                                    /\ S!Differs(target'))

SecretReconcile == UNCHANGED <<kind, connectionRest>> /\ S!Reconcile /\ Beside
SecretSync      == UNCHANGED <<kind, connectionRest>> /\ S!CacheSync /\ Beside
CollectGarbage  == UNCHANGED <<kind, connectionRest>> /\ S!GarbageCollect /\ Beside

SecretEvent ==
    /\ UNCHANGED <<kind, connectionRest>>
    /\ S!Delete \/ S!Recreate \/ S!VaultChange
    /\ Beside

ConnectionReconcile == UNCHANGED <<kind, secretSide>> /\ C!Reconcile

ConnectionEvent ==
    /\ UNCHANGED <<kind, secretSide>>
    /\ C!Delete \/ C!Create

(* Mutant: nobody is told of connections that are gone. *)
TellOfLive == queued' = (queued \/ (conn.phase # "absent" /\ crCached.phase # "absent"))

(* Mutant: FerrVaultSecrets do not watch connections. *)
TellNobody == UNCHANGED queued

(* secretsReferencingConnection: each event on the connection, those of its  *)
(* status included, enqueues what the cache has of those that refer to it.   *)
TellReferring == queued' = (queued \/ crCached.phase # "absent")

(* The informer of the connections, which both controllers watch *)
ConnectionSync ==
    /\ UNCHANGED <<kind, secretObject, target, vault, pc, obj, pass, syncGauge, throttled>>
    /\ TellReferring
    /\ C!CacheSync

(* The process dies with both loops, and the next one lists everything. *)
Crash ==
    /\ crCached' = cr /\ crFresh' = TRUE
    /\ S!Idle
    /\ queued' = (cr.phase # "absent")
    /\ syncGauge' = FALSE /\ throttled' = FALSE
    /\ UNCHANGED <<kind, cr, target, vault>>
    /\ C!Crash

Next ==
    \/ SecretReconcile \/ SecretSync \/ CollectGarbage \/ SecretEvent
    \/ ConnectionReconcile \/ ConnectionSync \/ ConnectionEvent
    \/ Crash

Spec == Init /\ [][Next]_vars

(***************************************************************************)
(* Both workers take requests and finish passes, the informers and the     *)
(* garbage collector keep up.  Nothing else is assumed: what SecretReconciler *)
(* and ConnectionReconciler ask of their surroundings, that connections are *)
(* probed again and deleted FerrVaultSecrets go, follows here.             *)
(***************************************************************************)
FairSpec ==
    /\ Spec
    /\ WF_vars(SecretReconcile) /\ WF_vars(SecretSync) /\ WF_vars(CollectGarbage)
    /\ WF_vars(ConnectionReconcile) /\ WF_vars(ConnectionSync)

-----------------------------------------------------------------------------
(* Properties *)

(***************************************************************************)
(* A FerrVaultSecret follows the vault and its specification as long as it *)
(* has a connection, even with a refresh interval of zero: the probes of   *)
(* its connection bring the passes it does not ask for itself.  Of "0s"    *)
(* secretspec_types.go:132-135 and the project's README.md:79 say that it  *)
(* disables scheduled refreshes, which this shows it does not.             *)
(***************************************************************************)
SecretSettles == S!EventuallySynced

(***************************************************************************)
(* One whose connection is gone, deleted before it had a finalizer, or     *)
(* before the operator had heard of the FerrVaultSecret, does not go on    *)
(* saying Ready=True.                                                      *)
(***************************************************************************)
StrandedShows == <>[](cr.phase = "live" /\ conn.phase = "absent" => cr.ready = "False")

(***************************************************************************)
(* Deleted together, in whichever order, both go: the FerrVaultSecret does *)
(* not wait for a connection it cannot use any more, and the connection    *)
(* looks again, though nothing tells it of the last FerrVaultSecret's end. *)
(* While a live one holds it up, its status says so.                       *)
(***************************************************************************)
TeardownTogether ==
    <>[](cr.phase # "deleting" /\ (conn.phase = "deleting" => cr.phase = "live" /\ conn.blocked))

(***************************************************************************)
(* The token Secret that both reconcilers use, one writing it and the      *)
(* other reading it, keeps its key and its life while there is a           *)
(* connection to use it, whatever is deleted and created again meanwhile.  *)
(***************************************************************************)
TokenOutlasts == S!TokenSecretSurvives
=============================================================================
