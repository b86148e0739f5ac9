# FerrVault operator: TLA+ models, model checks and proofs

FerrVault is a secrets store. This repository holds what is built around its HTTP API: a
Kubernetes operator (Go), a command-line client (Rust), a Model Context Protocol server
(TypeScript), a Helm chart and a GitHub action. The operator is the part with state,
concurrency and failure, and it is what this directory models: TLA+ modules that follow its
source, TLC configurations that check them on small instances, and TLAPS proofs of what
matters most for every value of the constants.

All paths below are relative to the repository. `PROJECT.json` maps every definition that
models code to the lines it models.

## 1. The system

### 1.1 Components

| component | state it keeps | operations | what makes it correct |
|---|---|---|---|
| **FerrVaultSecret reconciler** `internal/controller/ferrvaultsecret_*.go`, `workload_rollout.go`, `shared.go` | the object's finalizer and status (`Ready`, `RolloutRestarted`, `observedGeneration`, `lastRolloutHash`) in the API server; the target Secret's data, owner and annotations; the pod-template annotation of the workloads; the `LastSyncTimestamp` series | `Reconcile`: finalizer, connection, token, reveal, transforms, missing-key check, pending-rollout record, target write, rollouts, status update; deletion | the target converges to the vault and the status tells the truth about it; a rollout that is owed survives crashes and is done once; Secrets of others are left alone; deletion completes |
| **FerrVaultConnection reconciler** `internal/controller/ferrvaultconnection_controller.go` | the connection's finalizer and `Ready` condition; the `ConnectionReady` series | `Reconcile`: finalizer, token and probe, status update, series; `handleDelete`: dependants, release or blocked status | the finalizer outlasts the FerrVaultSecrets that use the connection; `Ready` follows the probe and not a 429; deletion completes; the series goes with the object |
| **Token broker** `internal/controller/token_broker.go` | bearers of oidc connections, cached by namespace and name under a mutex | `TokenFor` (cache, exchange outside the lock, put), `Invalidate` | no bearer expires under the call it is used for, or is used for another connection, or long outlives its configuration |
| **API client** `internal/ferrvault/client.go` | none between calls; a retry loop within one | `RevealFromVault`, `BulkReveal`, `OIDCExchange`, `Probe`, each through `doWithRetry` | a call ends within `LongestCall`; a verdict of the server ends it and is what is reported |
| **Transforms** `internal/controller/transforms.go` | none | `ApplyTransforms`: prefix, suffix, rename, base64Decode, jsonExpand | no entry is lost to another; the result does not depend on the order of a map |
| **Heartbeat** `internal/controller/heartbeat.go`, `cmd/main.go` | the time of the last finished pass, per process | `Beat` at the end of every pass of both loops, `StallChecker` as liveness probe | a stall ends in a restart, and nothing but a stall does |
| **Rate-limit backoff** `internal/controller/rate_limit_backoff.go` | attempts per key | `next`, `forget` | delays grow, but not beyond a probe interval, are forgotten on success and with the object |
| **Metrics** `internal/controller/metrics.go` | Prometheus series | set, delete, count | per-object series do not outlive their object |
| **Operator process** `cmd/main.go` | the lease, the informers | start, leader election, health endpoints, flag validation | deadlines accepted are long enough for the calls made under them |
| **API types** `api/ferrvault/v1alpha1` | - | - | - |
| **CLI** `cli/`, **MCP server** `mcp/`, **chart** `charts/`, **action** `action/` | a credential file; nothing; nothing; nothing | see section 7 | see section 7 |

### 1.2 How they interact

Both reconcilers run in the elected leader, one worker each. They share the token broker, the
heartbeat and the metrics registry; they meet in the API server, where the connection
reconciler lists the FerrVaultSecrets that name a connection, and a FerrVaultSecret reads its
connection. Objects and connections are read from informer caches, which may lag behind the
API server; Secrets and workloads from the API server itself (`cmd/main.go:92-128, 191-198`). Passes are started by a work queue, into which
watches put an object: its own generation changes, Secrets it owns, its connection, the token
Secret of its connection. A pass may also requeue itself, after an interval, an error or a 429.

### 1.3 What is hard

* **Interleaving.** The calls of one pass are separated in time. Between any two of them the
  object, the connection, the target, the workloads and the vault may change, and the operator
  may die.
* **Staleness.** The object a pass works on may be older than the operator's own last write.
  A conflict ends the pass after its effects on other objects are done.
* **Order of effects and records.** The target is written before the workloads are restarted
  and the status last of all. `lastRolloutHash` must be on record *before* the target changes.
* **Lost replies and partial failure.** A write may be applied and its answer lost; one of
  several workloads may be impossible to patch.
* **Retries.** `GenerationChangedPredicate` drops the events of the status writes, an interval
  of `0s` turns the periodic pass off, a 429 keeps the status as it is: what still brings the
  next pass has to be shown.
* **Time.** Leeway and lifetime of bearers, retries under deadlines, the stall threshold
  against the probe interval.

`PROJECT.json` lists these one by one under `hazards`, at the line where each bites.

## 2. Modules

| module | models | used by |
|---|---|---|
| `SecretReconciler` | `FerrVaultSecretReconciler.Reconcile` of one object, with its cluster and vault | `MCSecretReconciler` (runs `rollout`, `restarts`, `converge`, `revert`), `SecretReconcilerProofs`, `SecretSyncProofs`, `Operator` |
| `SecretSync` | what a FerrVaultSecret promises, without passes: the abstract specification that `SecretReconciler` implements | `SecretReconciler` (`ImplementsSync` in `converge`), `SecretSyncProofs` |
| `ConnectionReconciler` | `FerrVaultConnectionReconciler.Reconcile` of one object, with the FerrVaultSecrets that refer to it | `MCConnectionReconciler` (`connection`), `ConnectionReconcilerProofs`, `Operator` |
| `Operator` | both reconcilers composed: one FerrVaultSecret and its connection, informers and process shared | `MCOperator` (`operator`), `OperatorProofs` |
| `TokenBroker` | `TokenBroker.TokenFor` of oidc connections, called by several workers | `MCTokenBroker` (`broker`, `stale_bearer`), `TokenBrokerProofs` |
| `ApiClient` | `doWithRetry` and the calls of one pass under its deadline | `MCApiClient` (`api_calls`), `ApiClientProofs` |
| `Transforms` | `ApplyTransforms` | `MCTransforms` (`transforms`), `TransformsProofs` |
| `Heartbeat` | `Heartbeat`, `StallChecker`, `rateLimitBackoff`, replicas, lease and kubelet | `MCHeartbeat` (`heartbeat`, `standby`), `HeartbeatProofs` |

An operator whose comment begins with "Mutant:" is not part of the model. It is what a
definition of the model would be if the code had a plausible mistake; `PROJECT.json` pairs
each property with the mutant that violates it, which shows that the property depends on the
code being as it is.

### 2.1 SecretReconciler

One step per API call, in the order of `Reconcile`; what the code does between two calls is
part of the step before. `pc` names the next call:

    idle -> (finalizer) -> conn -> token -> reveal -> (exists) -> hash -> (record)
         -> write -> (rollout)* -> status -> idle            idle -> unfinalize -> idle
    any failure that is reported in the status: -> fail / fail5m -> idle

`cr` is the object in the API server, `cached` the informer's copy, `obj` the pass's. There
are no version numbers: `pass.fresh` says that `cr` has not been written since `obj` was read,
and an update with a copy that is not fresh is a conflict. Every update may also fail
(`ApiFault`) or be applied with its reply lost (`LostReply`). Data is a number, the version of
what the vault reveals and the transforms make of it. `Broken`, `Partial`, `Blank` and
`Keyless` say for which of them the transforms fail, keys are missing, nothing is left, or the
connection's token key is not there. The hash of a content is that number, too: two contents
of one hash are outside the model.

`conn` is the connection as the operator's informer has it, which is all that `Reconcile` and
the watches see of it: the step that changes it is the one in which the operator learns of it.

`pods` has, per workload, the content its pods have read and `mark`, the annotation
`content-hash.<UID>` of its pod template, one for each UID: a FerrVaultSecret that is deleted and
created again bears a new UID and finds no mark of its own, whatever its predecessor restarted
(`ferrvaultsecret_sync.go:113-128`). `restarts` counts the restarts by either.

The rest of the cluster takes steps of its own: spec edits, deletion and re-creation, edits of
the connection, Secrets of the target's name that others create, drift, the garbage collector,
pods that start and restart, workloads that go away or are re-applied without annotations.
`spent` counts outside events and faults, `MaxSpent` bounds them. Drift changes the data of the
target, but leaves the key of the connection's token: a user who deletes that key is not
modelled, one who deletes the Secret is.

A Secret that others create (`ForeignTarget`) has the marker of the operator or not, a
controller or not, and a content hash only with the marker. What becomes of it is decided by
`adoptable` and `SetControllerReference` (`ferrvaultsecret_sync.go:26-39, 76-79`). One with a
controller, or without the marker, is protected (`Theirs`). One with the marker and no controller
is not (`Unclaimed`): a restored manifest, an orphan, a token Secret that another FerrVaultSecret
writes. The operator takes it for its own, as `TestManagedExistingTargetIsStillUpdated` wants.
`ForeignSecretUntouched` is about the protected ones, `Syncable` counts the others as targets
that can be written, and `PartialNeverReplaces` lets data with missing keys replace one that
appears after `targetExists` has found none, as the code would.

`SecretSync` has no passes, calls or copies. The operator is a place for one content: it
fetches what the vault reveals for a generation that was asked for, writes it, and promises
that generation. It never goes back behind a generation that is in the target or was promised,
does not replace what others wrote and claim (`Foreign`) unless the Secret is lent to it as its
connection's token Secret, though it does replace what nobody claims (`Unclaimed`), and nothing is
released while it holds a content. The refinement mapping is the
`INSTANCE` `Sync` in `SecretReconciler`: what a pass between `exists` and `status` has in `got`
is what is held, `Ready=True` with `observedGeneration` is the promise, and a failed, finished or
dead pass forgets. Retries, conflicts, lost replies, records of rollouts, caches and
requeues are steps that leave the abstract variables as they are.

### 2.2 ConnectionReconciler

The same conventions. The probe meets a `world`: a server that is healthy, that refuses the
token, that cannot be reached, or a token that cannot be read. `known` is a history variable:
the FerrVaultSecrets whose reference was in the informer's index when the deletion was asked
for, as far as they still refer to the connection.

### 2.3 Operator

Two `INSTANCE`s, `S` of `SecretReconciler` and `C` of `ConnectionReconciler`, over one set of
variables. What either module takes from its surroundings is substituted by what the other
does: `conn` of `S` is the informer's copy of the connection of `C`; `refs` and `cachedRefs` of
`C` are the FerrVaultSecret of `S` and the informer's copy of it; the `world` of the probe is
healthy unless the token Secret, which may be the target of `S`, has no readable token. A step
of one is a step of the composition that leaves the other's state alone, except for what it
sends there: `Beside` (a change of the token Secret enqueues the connection) and `TellReferring`
(every event on the connection, those of its status included, enqueues the FerrVaultSecret).
`Crash` takes both loops at once. `kind` says whether the connection's token Secret is one of
its own or the target.

Composing them showed two things. The fairness `SecretReconciler` assumes of
`ConnectionTouched`, and `ConnectionReconciler` of `SecretGone`, is not assumed here and not
needed: each follows from the other loop's passes. And `EnsureTargetSecret` may only be taken
to wake anybody up when the Secret it writes differs from what is stored, as `CreateOrUpdate`
does no write otherwise: a version without `Differs` kept itself going in a loop the code does
not have.

### 2.4 TokenBroker

A job goes from cache hit to call, or from cache miss through `exchange` and `reply` to call.
The exchange is outside the mutex, so that two workers may exchange for one connection and put
their bearers in either order. A deletion counts as a change of the configuration: a bearer
does not belong to a connection created later. As above, a configuration is the one the
informer has. Time is a clock; a job cannot outstay
`until`, which is the bound of `LongestCall` on the exchange or the call.

### 2.5 ApiClient

The retry loop, with the context checked before each attempt, an attempt that is answered,
refused or cut off, and the wait. Time only grows where the code waits. The jitter is the ends
and the middle of its range. The pass has a deadline, any that `validateReconcileTimeout` accepts.
A policy may ask for any number of attempts; `doWithRetry` makes one at least (`MaxAttempts`), which
`LongestCall` does not count, so that the two properties about it are about policies that ask for
one. The operator uses the default policy only.

### 2.6 Transforms

Keys are sequences of letters, since prefixes, upper case and the flat names of JSON members
make keys collide. Of a text is kept how often it can be decoded from base64, and what it is
then: a JSON value or something else (`Plain`). The empty text, which can be decoded forever,
is left out. JSON values are a constant, `Values`, closed under taking members; `Nesting` bounds
how deep each is. `Flat` is a recursive function of them, as `flattenJSON` is: that of two
members with one flat name the later is stored is said by `LastName`, in place of a map that is
written to. Sequential: `Apply` is one transform, `Fail` its error. `alone` is a history
variable, what the transforms so far make of each entry on its own, against which
`EntriesIndependent` holds what they make of all together.

### 2.7 Heartbeat and the rate-limit backoff

Requests have a time until they are due, a pass has a time left, each replica a time since its
last beat. A pass may fail (`Failing`) or never return (`Sticky`). The kubelet kills a replica
whose check fails; the leader's successor lists everything anew. A check that cannot list the
resources passes (`heartbeat.go:50-53`): it kills nobody, and so is no step. The lists are served
by informers, and that they can be read in the end is part of the fairness of `Kill`. A
FerrVaultSecret may have a refresh interval of zero, after which its key is not requeued. In a loop in which FerrVault
may answer 429 (`Limited`), a pass ends with `rateLimitBackoff.next`: `attempts` counts, up to the
largest shift, `BackoffFor` doubles and is held to its maximum, `Jitter` picks from its upper
half, and the key is due again after that. Any other end forgets the attempts, but for an error
that comes before the call. The two reconcilers model the same attempts as one bit,
`throttled`, for what becomes of it when the object goes.

## 3. Runs

Each run asks one question. Bounds are named in the configuration; outside events and faults
may happen in any order, `MaxSpent` in all, and never have to happen. Runs that check
`<>[]` properties use `FairSpec`, the others `Spec`. `CHECK_DEADLOCK FALSE` is set wherever
the bounds make behaviours end, or the system may rest: an operator without queued requests,
a client whose pass is over, transforms that are done. `Heartbeat` never ends, and its two
runs check deadlock.

| run | checks | bounds, and why they are enough |
|---|---|---|
| `rollout` | `TypeOK`, `RolloutNotForgotten`, `EventuallyRolledOut`: a rollout that is owed is on record in `lastRolloutHash`, and is done in the end | two workloads, so that one can fail and the other restart; three contents, so that a rollout can be overtaken by the next; three disruptions: a change, and two faults in the pass that handles it |
| `restarts` | `RestartedOnce`, `TokenSecretSurvives`: retries do not restart a workload twice for one content, and a target that is its connection's own token Secret keeps its key and its life | two workloads, three contents of which one lacks the key; four disruptions allow a change, a revert and two faults; deletion and re-creation give the garbage collector its chance and leave marks of another UID on the workloads. Workloads are symmetric |
| `converge` | `ReadyReflectsSpec`, `GaugeNeedsObject`, `ForeignSecretUntouched`, `PartialNeverReplaces`: what the target may be replaced by, and what the status may say of it. `ImplementsSync`: the whole refines `SecretSync`. `EventuallySynced`, `FailureShows`, `TokenSecretDisowned`, `DeletionCompletes`: after the disturbances, the target, its owner and the status are right, in success and in failure, and deletion ends with nothing left behind | no workloads, which the target's life does not depend on; three contents: good, untransformable, partial; every kind of connection; refresh intervals positive and `0s`; two lives of the object; Secrets of others with every combination of marker and controller; three disruptions of twelve kinds, so that a pass on an outdated copy can meet somebody else's Secret after a fault |
| `operator` | `TokenOutlasts`, `SecretSettles`, `StrandedShows`, `TeardownTogether`: a token Secret that both reconcilers use keeps its key; a FerrVaultSecret without an interval of its own follows the vault thanks to its connection's probes; one whose connection is gone says so; and the two can be deleted together | one FerrVaultSecret, with `0s`, the case in which it depends on its connection; connections with a token Secret of their own and with the target; two contents, one without the token key; three disruptions of the deletions, re-creations, vault changes and crashes. Failing calls are left to the runs of each reconciler |
| `revert` | violates `RolloutConditionTruthful`; see section 6 | a change, a fault, a revert |
| `connection` | `TypeOK`, `KnownDependantsFirst`, `RateLimitIsNoFailure`, `ForgottenWhenGone`, `TeardownCompletes`, `EventuallyProbed` | two FerrVaultSecrets, so that one can leave while another stays; four disruptions; three generations, which is a deletion and a re-creation. `invalid` URLs are left out, they behave as `unreachable` does |
| `broker` | `TypeOK`, `BearerOutlivesCall`, `OwnBearer`, `StaleBearerExpires` | the two workers there are; one name in two namespaces, the case the key is for; the smallest times at which the assumptions hold strictly; the clock runs over a lifetime and the exchange and leeway after it. Workers are symmetric |
| `stale_bearer` | violates `BearerMatchesConfig`; see section 6 | one connection, one edit |
| `api_calls` | `TypeOK`, `WithinLongestCall`, `VerdictIsFinal`, `AttemptsReported`, `DeadlineSparesCalls`, `CallsReturn` | the default policy and four at its edges: one attempt, fewer than one, no delays, a schedule shorter than the attempts; one status per class of answer; answers at once, slow, or never; the shortest `--reconcile-timeout` that is accepted, one that is too short for two calls, and the default |
| `transforms` | `TypeOK`, `EntriesIndependent`, `ExpansionTakesLast` | lists of up to two of eleven transforms, the shortest in which one undoes, feeds or collides with another; up to three entries; JSON with two members of one flat name by case, and by nesting |
| `heartbeat` | `TypeOK`, `TurningIsLive`, `StandstillEnds` | two connections, since a requeue of one may be hidden by the other; the smallest threshold that `Attainable` allows; a backoff that grows once and meets its maximum; FerrVaultSecrets with an interval longer than the threshold or none, and failing |
| `standby` | violates `StandbyIsLive`; see section 6 | a leader and a standby |

### Fairness

* `WF_vars(Reconcile)`: a controller-runtime worker takes the next request and each call of a
  pass ends, well or not; calls have timeouts, and the pass a deadline. It is *weak* fairness
  of the whole, which picks no outcome: a fault is never promised, nor its absence, other than
  by `MaxSpent`.
* `WF_vars(CacheSync)`, `WF_vars(CacheSecret(s))`: informers catch up.
* `WF_vars(GarbageCollect)`, `WF_vars(PodStart(w))`, `WF_vars(SecretGone(s))`: the garbage
  collector runs, pods whose Secret exists start, and a FerrVaultSecret that is deleted goes
  away, the last being what `DeletionCompletes` shows of `SecretReconciler`, and what `Operator`
  does without.
* `WF_vars(~cr.refresh /\ ConnectionTouched)`: only where the refresh interval is `0s`, and so
  no pass requeues itself. The connection's reconciler rewrites its status every ten minutes
  and the watch of the FerrVaultSecrets on connections has no generation predicate. Without
  it `EventuallySynced` fails, as it would if this watch were given the predicate. `Operator` does
  not assume it: there the status updates are those of `ConnectionReconciler`.
* `Operator`: both workers, both informers and the garbage collector, nothing else.
* `Heartbeat`: time passes, free workers start what is due, passes that are not stuck end,
  and the kubelet kills what fails its probe, whose lists of resources do not fail for ever.
* `ApiClient`: requests are answered, refused or cut off, and timers fire.

## 4. Proofs

All theorems hold for every value of the constants that the modules' assumptions allow.

| theorem | says |
|---|---|
| `SecretReconcilerProofs!TypeCorrect` | `Spec => []TypeOK` |
| `SecretReconcilerProofs!RolloutKept` | `Calm /\ Spec => []RolloutNotForgotten` |
| `SecretSyncProofs!Implementation` | `Spec => ImplementsSync`, the refinement of `SecretSync` |
| `SecretSyncProofs!ReadyIsTrue` | `Spec => []ReadyReflectsSpec` |
| `SecretSyncProofs!GaugeGoesFirst` | `Spec => []GaugeNeedsObject` |
| `SecretSyncProofs!ForeignSecretsKept` | `Spec => ForeignSecretUntouched`, an action property |
| `SecretSyncProofs!PartialDataCreatesOnly` | `Spec => PartialNeverReplaces`, an action property |
| `SecretSyncProofs!TokenKept` | `Entrusted /\ Spec => []TokenSecretSurvives` |
| `SecretSyncProofs!RestartedAtMostOnce` | `Unforged /\ Spec => []RestartedOnce` |
| `ConnectionReconcilerProofs!TypeCorrect` | `Spec => []TypeOK` |
| `ConnectionReconcilerProofs!KnownOutlasted` | `Spec => []KnownDependantsFirst` |
| `ConnectionReconcilerProofs!BackoffIsNoFailure` | `Spec => RateLimitIsNoFailure`, an action property |
| `OperatorProofs!PartsKeepPromises` | `Spec => [](S!ReadyReflectsSpec /\ S!GaugeNeedsObject /\ C!KnownDependantsFirst)` |
| `OperatorProofs!TokenOutlastsAll` | `Spec => []TokenOutlasts` |
| `TokenBrokerProofs!BrokerTypeCorrect` | `Spec => []TypeOK` |
| `TokenBrokerProofs!BearersOutliveCalls` | `Spec => []BearerOutlivesCall` |
| `TokenBrokerProofs!BearersAreOwn` | `Spec => []OwnBearer` |
| `TokenBrokerProofs!StaleBearersExpire` | `Spec => []StaleBearerExpires` |
| `ApiClientProofs!TypeCorrect` | `Spec => []TypeOK` |
| `ApiClientProofs!CallsWithinLongest` | `Spec => []WithinLongestCall` |
| `ApiClientProofs!DeadlineSpares` | `Spec => []DeadlineSparesCalls` |
| `ApiClientProofs!VerdictsFinal` | `Spec => []VerdictIsFinal` |
| `ApiClientProofs!AttemptsCounted` | `Spec => []AttemptsReported` |
| `TransformsProofs!TypeCorrect` | `Spec => []TypeOK` |
| `TransformsProofs!NoneIsLost` | `Spec => []EntriesIndependent` |
| `TransformsProofs!LastIsStored` | `Spec => ExpansionTakesLast`, an action property |
| `TransformsProofs!NamesHaveLast` | of the leaves of a JSON value with one flat name there is a last one |
| `HeartbeatProofs!TypeCorrect` | `Spec => []TypeOK` |
| `HeartbeatProofs!TurningLeaderLives` | `Attainable /\ Spec => []TurningIsLive` |

**RolloutKept.** The property relates the workloads, the target and one status field, and
every step of a pass touches one of the three. `RolloutInv` says what holds them together
between the steps. `Agreement`: a copy that would be accepted agrees with what is stored.
`Order`: hashes on record are never newer than the target's, nor this than the vault.
`Patched`: a workload that carries the target's hash runs its content. `Progress`: what the
locals of the pass say of the target; in particular, a target about to be written over either
has the new content already, or its hash is on record. `Remembered`: a recorded hash is not
lost by a pass on an older copy. `RolloutProgress`: what the rollout loop has done so far.
`OnRecord` is the property. `Calm` names the environment it needs, and each exclusion is
needed: contents that come back (see section 6), a target that others delete or rewrite, an
object that is re-created and has lost its status, and a list of workloads that is edited,
since the code keeps a baseline for listed workloads only, while the target exists.

**SecretSyncProofs.** One invariant carries six theorems. `SyncInv` has four parts.
`CopiesAgree`: a copy that no write has overtaken is what is stored, up to the status the pass
has prepared, and may therefore be written back. `FinalizerProtects`: the object a live copy
with the finalizer was read from is still there, because only a pass over a deleting copy
removes the finalizer, and it removes the series first. `GenerationsOrdered`: the target's
generation and every observed one are at most the informer's and the pass's, which are at most
the object's: without it a pass on an older copy could overwrite a later promise.
`TargetKnown`: what the metadata of the target say of who wrote it, and what the pass still
knows of it when it writes. None of the properties is inductive without the others: that
`Ready=True` does not outrun the target (`ReadyIsTrue`) rests on the order of generations, and
this on the agreement of copies, and this on the finalizer.

`Implementation` takes the refinement mapping of `SecretReconciler` one step at a time. Under
`SyncInv`, `GetConnection` is `Look`, `Reveal` is `Fetch` or `Forget`, `EnsureTargetSecret` is `Write`
or `Forget`, an accepted status update is `Promise` or `Refuse`, a crash is `Forget`, the release of the
finalizer is `Release`; spec edits, deletions and re-creations are `Ask`, whoever else writes the
target is `Others`; and all other steps are stutters. `ForeignSecretsKept` and `PartialDataCreatesOnly` look at
single steps; they are about the write, which checks the target again within `CreateOrUpdate`,
and so hold although the pass looked at the target some calls before. What that check cannot tell
from a target of the operator, a Secret with the marker and no controller, is excepted in both, by
`Theirs` and `Unclaimed`; `TargetKnown` says that it is nothing else.

**TokenKept.** `TokenInv`: the target of a connection that authenticates with it exists, holds a
token, and has no owner; a pass that has read the connection knows it is the token Secret; and
what the pass has in hand holds a token, because a content without one was refused before.
`Entrusted` excludes edits of the connection, which may make a Secret with an owner the token
Secret, and a user who deletes the Secret.

**RestartedAtMostOnce.** A restart is counted until the target takes on another hash, whichever
object caused it. `Counted`: while a rollout is under way, a workload that was restarted since
bears the mark of the pass, under the UID of its object, so that `patchPodTemplate` has nothing
left to do for it; and so it does while `Owing`, that is, while a copy of the object that is
stored has another hash on record than the target's, from which a pass would conclude that a
rollout is due. An object that is created again bears no mark on the workloads that its
predecessor restarted, and must not owe what that one did: it starts with nothing on record, and
compares what it is about to write with the hash it read from the target just before
(`Baseline`), which is the hash that the restarts are counted from. `SyncInv` is needed for the
copies: one of the predecessor's cannot be written back. `Unforged` excludes two events, because
after them the workload is restarted again, and should be: a manifest that is applied again
without the operator's annotations, and a Secret of somebody else that comes with a content hash
of its own, a restored one for instance. Reverts, deletions, re-creations, lost replies and
crashes are included.

**KnownOutlasted.** The object read in the pass may be outdated, and so may the list of
dependants. `ReleaseInv`: what is known refers to the connection and is in the cache
(`KnownRefer`), a copy that is fresh has the phase of the object (`CopiesAgree`), and a pass
whose release would be accepted has nothing left that is known (`Released`).

**BackoffIsNoFailure.** `ProbeInv`: a pass about to write `Ready=False` has met a failing probe
or a blocked deletion, and a pass that adds the finalizer writes back the condition it read.

**OperatorProofs.** The theorems of the two reconcilers are taken over through instances of
their proof modules. `PartsInv` is the conjunction of their invariants. A step of one part is
a step of its module, and so keeps its invariant by the lemma proved there; that it also
keeps the invariant of the other is because what it writes for the other is an event the
other has: this is `Beside`, `TellReferring` and the type of what each finds of the other
(`FoundType`, `ReferringType`). `Crash` takes both. `TokenOutlastsAll` needs neither `Entrusted` nor any other
hypothesis: in the composition it does not matter whether the connection can be found at the
moment (`TokenHeld` is about its kind, not its presence), so deletions and re-creations of either object
are covered. Edits of the kind of connection are no step of `Operator`.

**TokenBroker.** `BrokerInv` bounds what each worker is waiting for and when its bearer
expires (`Timely`), and how much a bearer of an old configuration has left, whether a worker
holds it or the cache does (`JobBearers`, `CacheBearers`). `BrokerAssumption` is what the code
relies on: `CallTime < Leeway` (the leeway of 60 s covers `LongestCall`, 30.6 s) and
`ExchangeTime + CallTime < Lifetime`, which is up to the server.

**ApiClient.** `LongestCall` adds the delays of all retries in a fold. `Schedule(p, u)` says
that `u` lists what a call under the policy `p` may have taken after each attempt, and `Budgeted`
that there is one that ends at `LongestCall(p)`. Its proof is an induction over the fold, for
which the library's theorems cannot be used, since they take the induction hypothesis as an
operator: the set of the numbers it fails for would have a least one (`WFMin`,
`NatLessThanWellFounded`), and this contradicts what the fold does with one element more.
It is proved of `Longest`, which is `LongestCall` for a policy that asks for an attempt, and the
client's timeout for one that does not and gets one all the same.
`OnSchedule` then bounds the time at each point of the loop by the budget of the attempt, and
`NoVerdictYet` relates the attempts to the answers: none but `api5xx` while the call goes on.

**TransformsProofs.** `Covers(out, Parts)` says that the entries are those of the parts, that is,
of what became of each entry alone, and that no two parts share a key. Every transform keeps it.
An affix is injective (`AffixCovers`); a decoding leaves the keys as they are; a rename and an
expansion replace one key of one part by keys that collide with nothing (`ReplacedCovers`), or
else the collision is one between two parts or within one, which is what makes a transform fail
(`ReplacedCollides`, `CanTogether`). Types need that flattening yields keys and texts: that `Flat`
is what its definition says (`FlatExists`, `FlatIs`) and yields entries (`FlatEntries`) for every
JSON value is an argument by the least nesting for which it would not (`LeastNumber`), and that
there is a last of several names with one flat name (`LastOne`) rests on the byte order being
total and transitive and on the names of an object being finitely many. `ExpansionTakesLast`
compares `Flat`, which chooses between the members of one object at a time, with `Leaves`, which
lists all leaves with their paths. `Stored` says that they agree on a value, and passes from its
members to an object (`StoredObject`): the leaf that is last in the order of whole paths lies in
the last member that has its flat name (`LaterByMember`, `LaterOnly`), and is the last of this
member (`LaterInMember`). `NamesHaveLast` shows that the property leaves no entry open.

**HeartbeatProofs.** `BeatInv`: connections that were probed are requeued within an
interval (`Requeued`), so a free worker beats again in time (`Waiting`), and so does a busy
one, whose pass has a deadline (`Working`). `Attainable` is the configuration: the threshold
covers an interval and a pass and the longest backoff (5 minutes) is no longer than an interval,
as the defaults do, and passes over connections end without an error. The last is needed: the
rate limiter's longest delay (about 1000 s) is longer than the default threshold of 900 s.
`BackoffBounded` is the lemma that no delay after a 429 is longer than `BackoffMax`, whatever was
counted and drawn.

## 5. What is only model-checked

* Liveness, which rests on fairness: `EventuallySynced`, `EventuallyRolledOut`,
  `FailureShows`, `TokenSecretDisowned`, `DeletionCompletes`, `ForgottenWhenGone`,
  `TeardownCompletes`, `EventuallyProbed`, `StandstillEnds`, `CallsReturn`, and of `Operator`
  `SecretSettles`, `StrandedShows` and `TeardownTogether`.
* The counterexamples of section 6.

Every other property of a run is a theorem.

## 6. Where the code and what is said of it differ

Found by a run, which shows the steps:

* **`revert`** (code). Content A, then B while B's rollout fails for one of two workloads, then
  A again. `lastRolloutHash` is still A, `rolloutDue` (`ferrvaultsecret_sync.go:182-185`) finds
  nothing owed, and the status says `RolloutRestarted=True`, "workloads run the current content
  of the target Secret", while the workload that was restarted runs B.
* **`stale_bearer`** (comment). `Invalidate` is "called when the connection is deleted or its
  OIDC config changes" (`token_broker.go:225-227`). Nothing outside the tests calls it. What does
  hold is `StaleBearerExpires`.
* **`standby`** (values.yaml:15-16). "Running more than one replica is safe": the stall check
  runs on every replica, only the leader beats, and so a standby is killed after each stall
  threshold.

Met while modelling, and visible in the models, without a run of their own:

* `0s` as refresh interval is documented to disable scheduled refreshes: "the operator still
  reacts to spec changes" (`secretspec_types.go:132-135`; `README.md:79`). While the connection is
  there it does not disable them: every ten minutes the probe rewrites the connection's status,
  the watch on connections has no generation predicate (`ferrvaultsecret_controller.go:286-289`),
  and each of these events is a pass that reveals, writes the target and restarts workloads.
  `EventuallySynced` and `SecretSettles` hold for `0s` because of it, and that such a
  FerrVaultSecret notices failures and recovers from them rests on it, too. The models follow the
  code.
* A Secret that has the marker of the operator and no controller is taken over, whoever wrote it
  (`ferrvaultsecret_sync.go:30-32`; `ferrvaultsecret_guard_test.go:267-287`), and also by data with
  missing keys when it is created between `targetExists` and the write, although a target that is
  there is otherwise left unchanged when keys are missing.
* `LongestCall` is zero for a policy of no attempts (`client.go:54-64`), of which `doWithRetry`
  makes one (`client.go:410-413`). No such client is built.
* `observedGeneration` is set on the missing-keys path, which leaves the target as it was
  (`ferrvaultsecret_controller.go:182`). `ReadyReflectsSpec` is therefore about `Ready` and
  `observedGeneration` together.
* A 429 of the OIDC exchange sets `Ready=False` in the FerrVaultSecret
  (`ferrvaultsecret_controller.go:104-106`); a 429 of a reveal does not.
* A deletion that is blocked writes `Ready=False` and leaves the `ConnectionReady` series at 1
  (`ferrvaultconnection_controller.go:162-173`; `metrics.go:55-56`).
* `Ready` of a connection does not say that its token is accepted: `/healthz` asks for none,
  and of the answer only the status is looked at (`client.go:114-135`).
* The rate limiter's longest delay, about 1000 s, is longer than the default stall threshold:
  a leader whose only connection keeps failing to be updated is killed while it waits. So is
  one that has hourly FerrVaultSecrets and no connection, which `values.yaml:33-34` warns of
  only for the probe interval.
* Both loops beat one heartbeat, so that a stuck loop of FerrVaultSecrets is hidden by the
  probes of the connections (`README.md:161`; `README.md` has an alert for it).
* Members of one flat name in a JSON object overwrite each other in `flattenJSON`
  (`transforms.go:237-279`), although a collision with another entry is an error
  (`README.md:118`).
* The shortest `--reconcile-timeout` accepted covers one call (`cmd/main.go:200-208`), but a pass
  over an oidc connection makes two, and the second may be cut off. `DeadlineSparesCalls` is
  about calls that begin in time; the default of two minutes covers both.
* Two FerrVaultSecrets of one connection whose targets both are its token Secret adopt it from
  each other (`ferrvaultsecret_sync.go:27`), and each write enqueues both. A target that one of
  them owns is refused to the other. The token Secret is owned by neither, but has the marker, and
  so would also be taken over by a FerrVaultSecret of another connection, which then owns it.
* A target that is created between `targetContentHash` and `ensureTargetSecret` by a process that
  has just lost the lease is overwritten without a rollout: the pass has noted that there was no
  content before, and pods that have started meanwhile keep what they mounted.

## 7. What is not modelled, and why

* Two leaders at once: `Crash` hands over between two calls of a pass. A process that lost its
  lease exits, and what it may still do is finish a call. Updates are fenced by versions and
  patches by the hash a workload carries; what is not fenced is in section 6.
* Counters and histograms, which nothing reads back; log lines and messages.
* tokenSecretRef and tokenFrom in `TokenBroker`: they read a token each time, and keep nothing.
* The formatting of JSON numbers, and hash collisions.
* Flag parsing, RBAC, CRD schemas, generated code, the chart: declarative.
* CLI, MCP server, action: sequential clients that keep nothing but the CLI's credential file.
  Some tools of the MCP server make two or three calls (upsert, copy, rotation of a service
  token), but what those amount to, alone or against other clients, is decided by the FerrVault
  server, whose code is not in this repository.

## 8. Plan

In the order of importance; what is done is marked.

1. `SecretReconciler`, its runs, type correctness and `RolloutKept` - done.
2. `TokenBroker`, `ApiClient`, `ConnectionReconciler`, `Heartbeat`, `Transforms` with a run each;
   `TokenBroker`, `Heartbeat` and `ConnectionReconciler` with their first theorems - done.
3. `SecretSync` and `ImplementsSync`, checked by TLC - done.
4. `Operator`, both reconcilers composed - done.
5. The rate-limit backoff, in `Heartbeat`, with its bound proved - done.
6. Theorems: `ImplementsSync` as a step simulation, and under the same invariant
   `ReadyReflectsSpec`, `GaugeNeedsObject`, `ForeignSecretUntouched` and `PartialNeverReplaces`;
   `RestartedOnce`, over re-creations, and `TokenSecretSurvives` in an environment they name; `RateLimitIsNoFailure`;
   all invariants of `ApiClient`, all properties of `Transforms`; type correctness of
   `Heartbeat`; and, of the composition, the promises of its parts and `TokenOutlasts` - done.
