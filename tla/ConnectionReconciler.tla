------------------------- MODULE ConnectionReconciler -------------------------
(***************************************************************************)
(* FerrVaultConnectionReconciler.Reconcile for one FerrVaultConnection,    *)
(* one step per API call, with the FerrVaultSecrets that refer to it and   *)
(* hold up its deletion.  As in SecretReconciler, "fresh" stands for an    *)
(* unchanged resourceVersion: a copy that is not is refused on update.     *)
(***************************************************************************)
EXTENDS Integers, FiniteSets

CONSTANTS
    Secrets,        \* the FerrVaultSecrets that may refer to the connection
    Worlds,         \* what the probe may meet
    Events,         \* the outside events and faults that happen
    MaxGen,         \* bound on edits, deletions and re-creations
    MaxSpent        \* bound on the number of outside events and faults

EventKinds == {"Edit", "WorldChange", "Delete", "Create", "Strip", "Refer", "Leave",
               "ApiFault", "LostReply", "RateLimit", "Crash"}

(***************************************************************************)
(* "refused" is a FerrVault that answers, but not to this token; "unread"  *)
(* a token Secret or file that cannot be read, or a refused exchange; in   *)
(* "invalid" the specification of the connection itself is at fault.       *)
(***************************************************************************)
WorldKinds == {"healthy", "refused", "unread", "unreachable", "invalid"}

ASSUME ConnectionAssumption ==
    /\ Worlds \subseteq WorldKinds
    /\ Events \subseteq EventKinds
    /\ MaxGen \in Nat /\ MaxSpent \in Nat

VARIABLES
    conn,           \* the FerrVaultConnection in the API server
    cached,         \* the operator's informer copy of it
    cacheFresh,     \* cached is the latest version
    refs,           \* the FerrVaultSecrets that refer to it
    cachedRefs,     \* the informer's copy of them
    known,          \* history: those the informer knew when conn was deleted
    world,          \* what a probe would meet now
    spent,          \* outside events and faults so far
    pc,             \* next call of the pass in flight, "idle" between passes
    obj,            \* Reconcile's in-memory conn
    fresh,          \* conn has not been written since obj was read
    met,            \* what the probe of the pass in flight met
    queued,         \* a request for conn is in the workqueue or delayed
    gauge,          \* the ConnectionReady series: "none", "0" or "1"
    throttled       \* rateLimitBackoff holds attempts for conn

object     == <<conn, cached, cacheFresh>>
dependants == <<refs, cachedRefs, known>>
operator   == <<pc, obj, fresh, met, queued, gauge, throttled>>
vars       == <<object, dependants, world, spent, operator>>

Tri == {"Unknown", "True", "False"}

Objects == [phase : {"absent", "live", "deleting"}, gen : Nat, fin : BOOLEAN, ready : Tri,
            blocked : BOOLEAN]  \* Ready's reason is DeletionBlocked

References == [Secrets -> {"none", "live", "deleting"}]

Gone(o)      == [o EXCEPT !.phase = "absent", !.fin = FALSE, !.ready = "Unknown",
                          !.blocked = FALSE]
Created(gen) == [phase |-> "live", gen |-> gen, fin |-> FALSE, ready |-> "Unknown",
                 blocked |-> FALSE]

TypeOK ==
    /\ conn \in Objects /\ cached \in Objects /\ obj \in Objects
    /\ {cacheFresh, fresh, queued, throttled} \subseteq BOOLEAN
    /\ refs \in References /\ cachedRefs \in References /\ known \subseteq Secrets
    /\ world \in WorldKinds /\ met \in WorldKinds \cup {"nothing"}
    /\ spent \in Nat
    /\ pc \in {"idle", "finalizer", "probe", "status", "gauge", "list", "release", "blocked"}
    /\ gauge \in {"none", "0", "1"}

Init ==
    /\ conn = Created(1) /\ cached = conn /\ cacheFresh = TRUE
    /\ refs \in [Secrets -> {"none", "live"}] /\ cachedRefs = refs /\ known = {}
    /\ world \in Worlds
    /\ spent = 0
    /\ pc = "idle" /\ obj = Gone(conn) /\ fresh = FALSE /\ met = "nothing"
    /\ queued = TRUE
    /\ gauge = "none"
    /\ throttled = FALSE

(* An event or fault of kind e happens: it must be enabled and affordable. *)
Disrupts(e) == e \in Events /\ spent < MaxSpent /\ spent' = spent + 1

-----------------------------------------------------------------------------
(* The ends of a pass *)

Idle == pc' = "idle" /\ fresh' = FALSE /\ obj' = Gone(obj) /\ met' = "nothing"

ReturnError == Idle /\ queued' = TRUE

(* Mutant: the requeue is left to the watches. *)
ReturnAndWait == Idle /\ UNCHANGED queued

(* RequeueAfter: the probe interval, the in-use interval or the backoff *)
ReturnAfter == Idle /\ queued' = TRUE

(* An update of the in-memory object o is accepted by the API server. *)
Accepted(o) == fresh /\ conn' = o /\ cacheFresh' = FALSE

(* A conflict, a failed call, or one whose reply is lost. *)
UpdateFails(o) ==
    /\ \/ ~fresh /\ UNCHANGED <<conn, cacheFresh, spent>>
       \/ Disrupts("ApiFault") /\ UNCHANGED <<conn, cacheFresh>>
       \/ Disrupts("LostReply") /\ Accepted(o)
    /\ ReturnError
    /\ UNCHANGED <<cached, dependants, world, gauge, throttled>>

-----------------------------------------------------------------------------
(* Reconcile *)

(* Mutant: the series of a connection that is gone stays. *)
BeginGoneQuietly ==
    /\ pc = "idle" /\ queued /\ cached.phase = "absent"
    /\ queued' = FALSE /\ throttled' = FALSE
    /\ UNCHANGED <<object, dependants, world, spent, pc, obj, fresh, met, gauge>>

(* The connection is not found. *)
BeginGone ==
    /\ pc = "idle" /\ queued /\ cached.phase = "absent"
    /\ queued' = FALSE /\ gauge' = "none" /\ throttled' = FALSE
    /\ UNCHANGED <<object, dependants, world, spent, pc, obj, fresh, met>>

Begin ==
    /\ pc = "idle" /\ queued /\ cached.phase # "absent"
    /\ queued' = FALSE
    /\ obj' = cached /\ fresh' = cacheFresh
    /\ pc' = IF cached.phase = "deleting" THEN "list"
             ELSE IF cached.fin THEN "probe" ELSE "finalizer"
    /\ UNCHANGED <<object, dependants, world, spent, met, gauge, throttled>>

(* The finalizer is added, and the pass goes on to its probe. *)
AddFinalizer ==
    /\ pc = "finalizer"
    /\ LET o == [obj EXCEPT !.fin = TRUE] IN
       \/ /\ Accepted(o) /\ obj' = o /\ pc' = "probe"
          /\ UNCHANGED <<cached, dependants, world, spent, fresh, met, queued,
                         gauge, throttled>>
       \/ UpdateFails(o)

(* Mutant: too many requests is a way to be unreachable. *)
RateLimitUnreachable ==
    /\ pc = "probe" /\ Disrupts("RateLimit")
    /\ throttled' = TRUE
    /\ obj' = [obj EXCEPT !.ready = "False", !.blocked = FALSE]
    /\ pc' = "status"
    /\ UNCHANGED <<object, dependants, world, fresh, met, queued, gauge>>

(* The exchange of an oidc token, or /healthz, answers 429: nothing is written. *)
ProbeRateLimited ==
    /\ pc = "probe" /\ Disrupts("RateLimit")
    /\ throttled' = TRUE
    /\ ReturnAfter
    /\ UNCHANGED <<object, dependants, world, gauge>>

(***************************************************************************)
(* The token is resolved and /healthz probed, which asks for no token: a   *)
(* connection that is refused passes.  Calls may fail by themselves, too.  *)
(***************************************************************************)
Probe ==
    /\ pc = "probe"
    /\ \/ met' = world /\ UNCHANGED spent
       \/ met' = "unreachable" /\ Disrupts("ApiFault")
    /\ obj' = [obj EXCEPT !.ready = IF met' \in {"healthy", "refused"} THEN "True" ELSE "False",
                          !.blocked = FALSE]
    /\ throttled' = FALSE
    /\ pc' = "status"
    /\ UNCHANGED <<object, dependants, world, fresh, queued, gauge>>

UpdateStatus ==
    /\ pc = "status"
    /\ \/ /\ Accepted(obj) /\ pc' = "gauge"
          /\ UNCHANGED <<cached, dependants, world, spent, obj, fresh, met, queued,
                         gauge, throttled>>
       \/ UpdateFails(obj)

(* Mutant: the condition's status is taken for the value of the series. *)
SetConnectionStatus ==
    /\ pc = "gauge"
    /\ gauge' = obj.ready
    /\ ReturnAfter
    /\ UNCHANGED <<object, dependants, world, spent, throttled>>

SetConnectionReady ==
    /\ pc = "gauge"
    /\ gauge' = IF obj.ready = "True" THEN "1" ELSE "0"
    /\ ReturnAfter
    /\ UNCHANGED <<object, dependants, world, spent, throttled>>

-----------------------------------------------------------------------------
(* handleDelete *)

(* Mutant: what is being deleted itself holds nothing up. *)
LiveDependants == {s \in Secrets : cachedRefs[s] = "live"}

(* The dependants in the informer's index, terminating ones included. *)
Dependants == {s \in Secrets : cachedRefs[s] # "none"}

(* Without dependants the series is dropped before the finalizer. *)
ListDependants ==
    /\ pc = "list"
    /\ IF Dependants # {}
       THEN /\ obj' = [obj EXCEPT !.ready = "False", !.blocked = TRUE]
            /\ pc' = "blocked"
            /\ UNCHANGED <<fresh, met, queued, gauge>>
       ELSE /\ gauge' = "none"
            /\ IF obj.fin THEN pc' = "release" /\ UNCHANGED <<obj, fresh, met, queued>>
                          ELSE Idle /\ UNCHANGED queued
    /\ UNCHANGED <<object, dependants, world, spent, throttled>>

(* The last finalizer goes, and the API server removes the object. *)
RemoveFinalizer ==
    /\ pc = "release"
    /\ \/ /\ Accepted(Gone(obj))
          /\ Idle
          /\ UNCHANGED <<cached, dependants, world, spent, queued, gauge, throttled>>
       \/ UpdateFails(Gone(obj))

(* The status says that the deletion is blocked; it is looked at again later. *)
UpdateBlocked ==
    /\ pc = "blocked"
    /\ \/ /\ Accepted(obj)
          /\ ReturnAfter
          /\ UNCHANGED <<cached, dependants, world, spent, gauge, throttled>>
       \/ UpdateFails(obj)

Reconcile ==
    \/ BeginGone \/ Begin
    \/ AddFinalizer \/ ProbeRateLimited \/ Probe \/ UpdateStatus \/ SetConnectionReady
    \/ ListDependants \/ RemoveFinalizer \/ UpdateBlocked

(* The process is replaced: its memory is gone, its informers list everything. *)
Crash ==
    /\ Disrupts("Crash")
    /\ Idle
    /\ gauge' = "none" /\ throttled' = FALSE
    /\ cached' = conn /\ cacheFresh' = TRUE /\ cachedRefs' = refs
    /\ queued' = (conn.phase # "absent")
    /\ UNCHANGED <<conn, refs, known, world>>

-----------------------------------------------------------------------------
(* The rest of the cluster *)

(* The informer catches up, past GenerationChangedPredicate. *)
CacheSync ==
    /\ ~cacheFresh
    /\ cached' = conn /\ cacheFresh' = TRUE
    /\ queued' = (queued \/ cached.gen # conn.gen \/ cached.phase # conn.phase)
    /\ UNCHANGED <<conn, dependants, world, spent, pc, obj, fresh, met, gauge, throttled>>

(* The informer of the FerrVaultSecrets, which enqueues no connection. *)
CacheSecret(s) ==
    /\ cachedRefs[s] # refs[s]
    /\ cachedRefs' = [cachedRefs EXCEPT ![s] = refs[s]]
    /\ UNCHANGED <<object, refs, known, world, spent, operator>>

Overwritten(o) ==
    /\ conn' = o
    /\ cacheFresh' = FALSE /\ fresh' = FALSE
    /\ UNCHANGED <<cached, refs, cachedRefs, pc, obj, met, queued, gauge, throttled>>

Edit ==
    /\ Disrupts("Edit") /\ conn.phase = "live" /\ conn.gen < MaxGen
    /\ Overwritten([conn EXCEPT !.gen = @ + 1])
    /\ world' \in Worlds
    /\ UNCHANGED known

(* A delete waits for the finalizer, if there is one. *)
Delete ==
    /\ Disrupts("Delete") /\ conn.phase = "live" /\ conn.gen < MaxGen
    /\ Overwritten(IF conn.fin THEN [conn EXCEPT !.phase = "deleting", !.gen = @ + 1]
                               ELSE Gone(conn))
    /\ known' = {s \in Secrets : conn.fin /\ refs[s] # "none" /\ cachedRefs[s] # "none"}
    /\ UNCHANGED world

(* Somebody takes the finalizer off a connection that is being deleted. *)
Strip ==
    /\ Disrupts("Strip") /\ conn.phase = "deleting"
    /\ Overwritten(Gone(conn))
    /\ known' = {}
    /\ UNCHANGED world

Create ==
    /\ Disrupts("Create") /\ conn.phase = "absent" /\ conn.gen < MaxGen
    /\ Overwritten(Created(conn.gen + 1))
    /\ UNCHANGED <<world, known>>

(* The server, or the token Secret, whose events do enqueue the connection. *)
WorldChange ==
    /\ Disrupts("WorldChange") /\ world # "invalid"
    /\ world' \in Worlds \ {world, "invalid"}
    /\ queued' = (queued \/ (cached.phase # "absent" /\ "unread" \in {world, world'}))
    /\ UNCHANGED <<object, dependants, pc, obj, fresh, met, gauge, throttled>>

(* A FerrVaultSecret that refers to the connection is created, is deleted, is *)
(* gone or refers to another one.                                             *)
SecretBecomes(s, phase) ==
    /\ refs' = [refs EXCEPT ![s] = phase]
    /\ known' = IF phase = "none" THEN known \ {s} ELSE known
    /\ UNCHANGED <<object, cachedRefs, world, operator>>

Refer(s)       == Disrupts("Refer") /\ refs[s] = "none" /\ SecretBecomes(s, "live")
Leave(s)       == /\ Disrupts("Leave") /\ refs[s] = "live"
                  /\ \E phase \in {"none", "deleting"} : SecretBecomes(s, phase)
SecretGone(s)  == refs[s] = "deleting" /\ SecretBecomes(s, "none") /\ UNCHANGED spent

Environment ==
    \/ CacheSync \/ Edit \/ Delete \/ Strip \/ Create \/ WorldChange
    \/ \E s \in Secrets : CacheSecret(s) \/ Refer(s) \/ Leave(s) \/ SecretGone(s)

Next == Reconcile \/ Crash \/ Environment

Spec == Init /\ [][Next]_vars

(***************************************************************************)
(* The worker keeps taking requests, the informers catch up, and a         *)
(* FerrVaultSecret that is deleted loses its own finalizer in the end,     *)
(* which is SecretReconciler's DeletionCompletes.                          *)
(***************************************************************************)
FairSpec ==
    /\ Spec
    /\ WF_vars(Reconcile) /\ WF_vars(CacheSync)
    /\ \A s \in Secrets : WF_vars(CacheSecret(s)) /\ WF_vars(SecretGone(s))

-----------------------------------------------------------------------------
(* Properties *)

(***************************************************************************)
(* The comment on the 429 branch (lines 81-94): being told to slow down is *)
(* no failure.  Ready becomes False only on a deletion that is blocked or  *)
(* in a pass whose probe, or the token for it, failed.                     *)
(***************************************************************************)
RateLimitIsNoFailure ==
    [][conn'.ready = "False" /\ conn.ready # "False" /\ ~conn'.blocked
          => met \in {"unread", "unreachable", "invalid"}]_vars

(***************************************************************************)
(* The finalizer is what keeps a connection while FerrVaultSecrets refer   *)
(* to it: none of those the operator knew of when the connection was       *)
(* deleted is still there when it goes, terminating ones included.         *)
(***************************************************************************)
KnownDependantsFirst == conn.phase = "absent" => known = {}

(***************************************************************************)
(* Nothing that is kept per connection outlives it for good: neither its   *)
(* series, not even when the finalizer is stripped under a pass that is    *)
(* about to set it, nor the attempts of the backoff.                       *)
(***************************************************************************)
ForgottenWhenGone == <>[](conn.phase = "absent" => gauge = "none" /\ ~throttled)

(* A deletion gets through once nothing refers to the connection any more. *)
TeardownCompletes ==
    <>[](conn.phase = "deleting" => \E s \in Secrets : refs[s] # "none")

(***************************************************************************)
(* Once the outside is quiet, Ready and the series say what a probe finds, *)
(* after conflicts, lost replies, 429s and crashes.                        *)
(***************************************************************************)
EventuallyProbed ==
    <>[](conn.phase = "live" =>
            IF world \in {"healthy", "refused"} THEN conn.ready = "True" /\ gauge = "1"
                                                ELSE conn.ready = "False" /\ gauge = "0")
=============================================================================
