------------------------------ MODULE Heartbeat ------------------------------
(***************************************************************************)
(* The heartbeat both reconcilers share, and StallChecker, by which the    *)
(* kubelet restarts a replica of the operator in which no pass has ended   *)
(* for too long while there are resources to reconcile.  Only the elected  *)
(* leader runs the two reconcile loops, one worker each.                   *)
(*                                                                         *)
(* Time is a count of minutes, or of any other unit all the constants are  *)
(* given in.  What a pass does is left out: here it ends, well or not.     *)
(***************************************************************************)
EXTENDS Integers, FiniteSets, Sequences

CONSTANTS
    Replicas,           \* the processes of the deployment
    Connections,        \* FerrVaultConnections that may exist
    Secrets,            \* FerrVaultSecrets that may exist
    NoKey,              \* stands for no key
    ProbeInterval,      \* connectionProbeInterval
    RefreshIntervals,   \* those of the FerrVaultSecrets, zero included
    ErrorBackoff,       \* longest delay of controller-runtime's rate limiter
    PassTime,           \* longest pass, --reconcile-timeout
    Threshold,          \* --stall-threshold
    BackoffBase,        \* rateLimitBackoffBase
    BackoffMax,         \* rateLimitBackoffMax
    BackoffShift,       \* rateLimitBackoffShift
    Failing,            \* the loops whose passes may return errors
    Limited,            \* the loops in which FerrVault may answer 429
    Sticky,             \* the loops in which a call may ignore its context
    Edited              \* the resources that come, go and change

Loops == {"connections", "secrets"}
Keys  == Connections \cup Secrets

ASSUME HeartbeatAssumption ==
    /\ Connections \cap Secrets = {} /\ NoKey \notin Keys
    /\ {ProbeInterval, ErrorBackoff, PassTime, Threshold} \subseteq Nat
    /\ ProbeInterval > 0
    /\ RefreshIntervals \subseteq Nat /\ RefreshIntervals # {}
    /\ BackoffBase \in Nat \ {0} /\ BackoffMax \in Nat /\ BackoffShift \in 0..8
    /\ Failing \subseteq Loops /\ Limited \subseteq Loops /\ Sticky \subseteq Loops
    /\ Edited \subseteq Keys

VARIABLES
    leader,     \* the replica that holds the lease
    idle,       \* per replica: time since the last beat, up to Threshold + 1
    exists,     \* the resources that exist
    due,        \* per key: time until its request is due, Never without one
    worker,     \* per loop: the key whose pass is running, or NoKey
    left,       \* per loop: time that pass has left
    stuck,      \* per loop: that pass is in a call that never returns
    settled,    \* history: the connections the leader has probed and requeued
    attempts    \* per key: 429s in a row, as far as they make a difference

vars == <<leader, idle, exists, due, worker, left, stuck, settled, attempts>>

Never == -1

KeysOf(l) == IF l = "connections" THEN Connections ELSE Secrets

(* Mutant: a refresh interval below zero is taken as it is. *)
IntervalsOfAnySign(l) ==
    IF l = "connections" THEN {ProbeInterval} ELSE {-i : i \in RefreshIntervals}

(* A pass that asks to be repeated after no time at all is not repeated. *)
Intervals(l) ==
    IF l = "connections" THEN {ProbeInterval}
                         ELSE {IF i = 0 THEN Never ELSE i : i \in RefreshIntervals}

TypeOK ==
    /\ leader \in Replicas
    /\ idle \in [Replicas -> 0..(Threshold + 1)]
    /\ exists \subseteq Keys
    /\ due \in [Keys -> Nat \cup {Never}]
    /\ worker \in [Loops -> Keys \cup {NoKey}]
    /\ left \in [Loops -> 0..PassTime]
    /\ stuck \in [Loops -> BOOLEAN]
    /\ settled \subseteq Connections
    /\ attempts \in [Keys -> 0..BackoffShift]

(* All that exists is listed, and so enqueued, when the leader starts. *)
Started(e) == [k \in Keys |-> IF k \in e THEN 0 ELSE Never]

NoPasses == [l \in Loops |-> NoKey]

Init ==
    /\ leader \in Replicas
    /\ idle = [r \in Replicas |-> 0]
    /\ exists \in SUBSET Keys
    /\ due = Started(exists)
    /\ worker = NoPasses
    /\ left = [l \in Loops |-> 0]
    /\ stuck = [l \in Loops |-> FALSE]
    /\ settled = {}
    /\ attempts = [k \in Keys |-> 0]

-----------------------------------------------------------------------------
(* The backoff of a rate-limited key *)

(* 1 << shift *)
Shifted == <<1, 2, 4, 8, 16, 32, 64, 128, 256>>

(* Mutant: the delay is not held to its maximum. *)
BackoffUnbounded(attempt) == BackoffBase * Shifted[attempt + 1]

(* backoffFor, of an attempt within the largest shift *)
BackoffFor(attempt) ==
    LET d == BackoffBase * Shifted[attempt + 1]
    IN  IF d > BackoffMax THEN BackoffMax ELSE d

(* Half the delay and a random part of the other half, unless it is too short. *)
Jitter(d) == IF d \div 2 = 0 THEN {d} ELSE (d \div 2)..(2 * (d \div 2) - 1)

(* next counts the attempt, which backoffFor cuts off at the largest shift. *)
CountAttempt(k) ==
    attempts' = [attempts EXCEPT ![k] = IF @ < BackoffShift THEN @ + 1 ELSE @]

Forget(k) == attempts' = [attempts EXCEPT ![k] = 0]

-----------------------------------------------------------------------------
(* The loops *)

(* Any of the requests that are due. *)
Begin(l) ==
    /\ worker[l] = NoKey
    /\ \E k \in KeysOf(l) :
         /\ due[k] = 0
         /\ worker' = [worker EXCEPT ![l] = k]
         /\ due' = [due EXCEPT ![k] = Never]
    /\ left' = [left EXCEPT ![l] = PassTime]
    /\ UNCHANGED <<leader, idle, exists, stuck, settled, attempts>>

(* Mutant: the connections' reconciler was set up without the heartbeat. *)
BeatOfSecrets(l) == idle' = IF l = "secrets" THEN [idle EXCEPT ![leader] = 0] ELSE idle

(* Beat, deferred in both Reconcile functions, whatever they return *)
Beat(l) == idle' = [idle EXCEPT ![leader] = 0]

(* The pass of k ends, and k is due again after one of the delays, unless an *)
(* event that came in meanwhile has it run again at once, or it is gone.     *)
Requeue(k, delays) ==
    \E d \in delays :
        due' = [due EXCEPT ![k] = IF @ = 0 \/ k \notin exists THEN @ ELSE d]

(***************************************************************************)
(* The pass ends.  It requeues its key after the interval, after what the  *)
(* backoff says of one more 429, or on an error after what the rate        *)
(* limiter of controller-runtime says.  A pass that got past its call of   *)
(* FerrVault, or found its object gone, forgets the 429s before.           *)
(***************************************************************************)
End(l) ==
    LET k == worker[l] IN
    /\ k # NoKey /\ ~stuck[l]
    /\ Beat(l)
    /\ \/ Requeue(k, Intervals(l)) /\ Forget(k)
       \/ /\ l \in Limited /\ k \in exists
          /\ Requeue(k, Jitter(BackoffFor(attempts[k]))) /\ CountAttempt(k)
       \/ /\ l \in Failing /\ k \in exists
          /\ Requeue(k, 1..ErrorBackoff)
          /\ Forget(k) \/ UNCHANGED attempts
    /\ settled' = IF k \in exists /\ l = "connections" THEN settled \cup {k} ELSE settled
    /\ worker' = [worker EXCEPT ![l] = NoKey]
    /\ UNCHANGED <<leader, exists, left, stuck>>

Stick(l) ==
    /\ l \in Sticky /\ worker[l] # NoKey /\ ~stuck[l]
    /\ stuck' = [stuck EXCEPT ![l] = TRUE]
    /\ UNCHANGED <<leader, idle, exists, due, worker, left, settled, attempts>>

-----------------------------------------------------------------------------
(* The check, and the rest *)

(* Mutant: without a connection there is nothing to reconcile. *)
HasWatchedConnections == exists \cap Connections # {}

HasWatchedResources == exists # {}

(* StallChecker fails on r.  When the list of the resources cannot be read  *)
(* it passes, which is a probe that kills nobody and so no step; that the   *)
(* informers, from which it is read, answer in the end is up to FairSpec.   *)
Stalled(r) == idle[r] > Threshold /\ HasWatchedResources

(* r is restarted; if it was the leader, any replica takes over. *)
Restart(r) ==
    /\ idle' = [idle EXCEPT ![r] = 0]
    /\ IF r = leader
       THEN /\ leader' \in Replicas
            /\ due' = Started(exists)
            /\ worker' = NoPasses
            /\ left' = [l \in Loops |-> 0]
            /\ stuck' = [l \in Loops |-> FALSE]
            /\ settled' = {}
            /\ attempts' = [k \in Keys |-> 0]
       ELSE UNCHANGED <<leader, due, worker, left, stuck, settled, attempts>>
    /\ UNCHANGED exists

(* The kubelet kills a replica whose liveness probe fails. *)
Kill(r) == Stalled(r) /\ Restart(r)

(* k is created, edited or deleted: its key is enqueued at once. *)
Enqueue(k) ==
    /\ exists' \in {exists \cup {k}, exists \ {k}}
    /\ due' = [due EXCEPT ![k] = IF k \in exists \cup exists' THEN 0 ELSE @]
    /\ settled' = settled \cap exists'
    /\ UNCHANGED <<leader, idle, worker, left, stuck, attempts>>

(* Time passes, but no pass is longer than its deadline unless it is stuck, *)
(* and no free worker leaves a request waiting.                             *)
Tick ==
    /\ \A l \in Loops :
         IF worker[l] = NoKey THEN \A k \in KeysOf(l) : due[k] # 0
                              ELSE stuck[l] \/ left[l] > 0
    /\ idle' = [r \in Replicas |-> IF idle[r] > Threshold THEN idle[r] ELSE idle[r] + 1]
    /\ due' = [k \in Keys |-> IF due[k] > 0 THEN due[k] - 1 ELSE due[k]]
    /\ left' = [l \in Loops |-> IF left[l] > 0 THEN left[l] - 1 ELSE 0]
    /\ UNCHANGED <<leader, exists, worker, stuck, settled, attempts>>

Next ==
    \/ \E l \in Loops : Begin(l) \/ End(l) \/ Stick(l)
    \/ \E r \in Replicas : Kill(r) \/ Restart(r)
    \/ \E k \in Edited : Enqueue(k)
    \/ Tick

Spec == Init /\ [][Next]_vars

(* Time passes, workers work, and the kubelet probes every twenty seconds,  *)
(* not finding the informers unreadable each time.                          *)
FairSpec ==
    /\ Spec
    /\ WF_vars(Tick)
    /\ \A l \in Loops : WF_vars(Begin(l)) /\ WF_vars(End(l))
    /\ \A r \in Replicas : WF_vars(Kill(r))

-----------------------------------------------------------------------------
(* Properties *)

(***************************************************************************)
(* A leader that probes a connection is never killed while the loop that   *)
(* probes it turns, however often FerrVault tells it to slow down, whatever *)
(* the interval and the failures of the FerrVaultSecrets, and whether or   *)
(* not their loop is stuck.                                                *)
(***************************************************************************)
TurningIsLive == settled # {} /\ ~stuck["connections"] => ~Stalled(leader)

(* The bounds of the property above: the threshold covers an interval and a   *)
(* pass, and connections are requeued after their interval or, while they are *)
(* told to slow down, earlier.                                                *)
Attainable ==
    /\ ProbeInterval + PassTime <= Threshold /\ BackoffMax <= ProbeInterval
    /\ "connections" \notin Failing

(* One loop is stuck and the other has nothing to do. *)
AtAStandstill ==
    \E l, m \in Loops :
        /\ stuck[l] /\ l # m
        /\ worker[m] = NoKey /\ \A k \in KeysOf(m) : due[k] = Never

(***************************************************************************)
(* An operator in which nothing ends any more is restarted, a lone         *)
(* FerrVaultSecret without any connection being enough to notice, as long  *)
(* as the check can list it.                                               *)
(***************************************************************************)
StandstillEnds == []<>~(AtAStandstill /\ exists # {})

(* values.yaml:15-16: "running more than one replica is safe". *)
StandbyIsLive == \A r \in Replicas \ {leader} : ~Stalled(r)
=============================================================================
