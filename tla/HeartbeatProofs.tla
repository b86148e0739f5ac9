--------------------------- MODULE HeartbeatProofs ---------------------------
(***************************************************************************)
(* Proofs about Heartbeat: the type invariant, for any replicas, resources *)
(* and times, and that a leader whose connections' loop turns is not       *)
(* killed, where there is room for an interval and a pass below the        *)
(* threshold.                                                              *)
(***************************************************************************)
EXTENDS Heartbeat, TLAPS

C == "connections"

-----------------------------------------------------------------------------
(* Types *)

(* A worker is stuck in a pass, of a key of its loop. *)
Passing ==
    \A l \in Loops : (worker[l] \in KeysOf(l) \cup {NoKey}) /\ (worker[l] = NoKey => ~stuck[l])

(* The two loops, their keys and their intervals *)
LEMMA Loop == C \in Loops /\ "secrets" \in Loops /\ C # "secrets" /\ KeysOf(C) = Connections
              /\ KeysOf("secrets") = Secrets /\ Intervals(C) = {ProbeInterval}
              /\ \A l \in Loops : l = C \/ l = "secrets"
  BY DEF C, Loops, KeysOf, Intervals

(* A backoff is no longer than its maximum. *)
LEMMA BackoffBounded ==
    ASSUME NEW attempt \in 0..BackoffShift, NEW d \in Jitter(BackoffFor(attempt))
    PROVE  d \in 0..BackoffMax
<1>1. attempt + 1 \in 1..9
  BY HeartbeatAssumption
<1>2. Shifted[attempt + 1] \in Nat
  BY <1>1 DEF Shifted
<1>3. BackoffBase * Shifted[attempt + 1] \in Nat
  <2> DEFINE m == Shifted[attempt + 1]
  <2> HIDE DEF m
  <2>1. m \in Nat
    BY <1>2 DEF m
  <2>2. BackoffBase * m \in Nat
    BY <2>1, HeartbeatAssumption
  <2> QED
    BY <2>2 DEF m
<1>4. BackoffFor(attempt) \in 0..BackoffMax
  BY <1>3, HeartbeatAssumption DEF BackoffFor
<1>5. ASSUME NEW e \in 0..BackoffMax, d \in Jitter(e) PROVE d \in 0..BackoffMax
  BY <1>5, HeartbeatAssumption DEF Jitter
<1> QED
  BY <1>4, <1>5

(* Init establishes the types. *)
LEMMA InitTypes == Init => TypeOK /\ Passing
  BY HeartbeatAssumption DEF Init, TypeOK, Passing, Started, NoPasses, Never

(* A pass that ends leaves its key due in some time from now, or not at all. *)
LEMMA EndTypes ==
    ASSUME TypeOK, Passing, NEW l \in Loops, End(l)
    PROVE  TypeOK' /\ Passing'
<1> DEFINE k == worker[l]
<1>1. /\ k # NoKey /\ ~stuck[l] /\ idle' = [idle EXCEPT ![leader] = 0]
      /\ settled' = IF k \in exists /\ l = "connections" THEN settled \cup {k} ELSE settled
      /\ worker' = [worker EXCEPT ![l] = NoKey]
      /\ UNCHANGED <<leader, exists, left, stuck>>
  BY DEF End, Beat
<1>2. k \in KeysOf(l) /\ k \in Keys
  BY <1>1 DEF Passing, TypeOK, Keys, KeysOf
<1>3. attempts[k] \in 0..BackoffShift
  BY <1>2 DEF TypeOK
<1>4. ASSUME NEW delays, delays \subseteq Nat \cup {Never}, Requeue(k, delays)
      PROVE  due' \in [Keys -> Nat \cup {Never}]
  BY <1>4 DEF Requeue, TypeOK
<1>5. due' \in [Keys -> Nat \cup {Never}]
  <2>1. Intervals(l) \subseteq Nat \cup {Never} /\ 1..ErrorBackoff \subseteq Nat
    BY HeartbeatAssumption DEF Intervals
  <2>2. Jitter(BackoffFor(attempts[k])) \subseteq Nat
    BY <1>3, BackoffBounded, HeartbeatAssumption
  <2>3. \/ Requeue(k, Intervals(l)) \/ Requeue(k, 1..ErrorBackoff)
        \/ Requeue(k, Jitter(BackoffFor(attempts[k])))
    BY DEF End
  <2> QED
    BY <1>4, <2>1, <2>2, <2>3
<1>6. attempts' \in [Keys -> 0..BackoffShift]
  <2>1. Forget(k) \/ CountAttempt(k) \/ UNCHANGED attempts
    BY DEF End
  <2> QED
    BY <1>2, <2>1, HeartbeatAssumption DEF Forget, CountAttempt, TypeOK
<1>7. settled' \subseteq Connections
  BY <1>1, <1>2, Loop DEF TypeOK, C
<1>8. TypeOK'
  BY <1>1, <1>5, <1>6, <1>7, HeartbeatAssumption DEF TypeOK
<1>9. Passing'
  BY <1>1 DEF Passing, TypeOK
<1> QED
  BY <1>8, <1>9

(* Every step keeps them. *)
LEMMA NextTypes ==
    ASSUME TypeOK, Passing, [Next]_vars
    PROVE  TypeOK' /\ Passing'
<1> USE HeartbeatAssumption
<1>1. ASSUME NEW l \in Loops, Begin(l) PROVE TypeOK' /\ Passing'
  <2> PICK k \in KeysOf(l) : /\ due[k] = 0 /\ worker' = [worker EXCEPT ![l] = k]
                             /\ due' = [due EXCEPT ![k] = Never]
    BY <1>1 DEF Begin
  <2>1. /\ worker[l] = NoKey /\ left' = [left EXCEPT ![l] = PassTime]
        /\ UNCHANGED <<leader, idle, exists, stuck, settled, attempts>>
        /\ k \in Keys /\ k # NoKey
    BY <1>1 DEF Begin, Keys, KeysOf
  <2>2. TypeOK'
    BY <2>1 DEF TypeOK, Never
  <2>3. Passing'
    BY <2>1 DEF Passing, TypeOK
  <2> QED
    BY <2>2, <2>3
<1>2. ASSUME NEW l \in Loops, Stick(l) PROVE TypeOK' /\ Passing'
  BY <1>2 DEF Stick, TypeOK, Passing
<1>3. ASSUME NEW r \in Replicas, Kill(r) \/ Restart(r) PROVE TypeOK' /\ Passing'
  <2>1. idle' = [idle EXCEPT ![r] = 0] /\ UNCHANGED exists
    BY <1>3 DEF Kill, Restart
  <2>2. idle' \in [Replicas -> 0..(Threshold + 1)]
    BY <2>1 DEF TypeOK
  <2>3. CASE r = leader
    <3>1. /\ leader' \in Replicas /\ due' = Started(exists) /\ worker' = NoPasses
          /\ left' = [m \in Loops |-> 0] /\ stuck' = [m \in Loops |-> FALSE]
          /\ settled' = {} /\ attempts' = [k \in Keys |-> 0]
      BY <1>3, <2>3 DEF Kill, Restart
    <3>2. TypeOK'
      BY <2>1, <2>2, <3>1 DEF TypeOK, Started, NoPasses, Never
    <3>3. Passing'
      BY <3>1 DEF Passing, NoPasses
    <3> QED
      BY <3>2, <3>3
  <2>4. CASE r # leader
    BY <1>3, <2>1, <2>2, <2>4 DEF Kill, Restart, TypeOK, Passing
  <2> QED
    BY <2>3, <2>4
<1>4. ASSUME NEW k \in Edited, Enqueue(k) PROVE TypeOK' /\ Passing'
  BY <1>4 DEF Enqueue, TypeOK, Passing
<1>5. CASE Tick
  <2>1. /\ idle' = [r \in Replicas |-> IF idle[r] > Threshold THEN idle[r] ELSE idle[r] + 1]
        /\ due' = [k \in Keys |-> IF due[k] > 0 THEN due[k] - 1 ELSE due[k]]
        /\ left' = [l \in Loops |-> IF left[l] > 0 THEN left[l] - 1 ELSE 0]
        /\ UNCHANGED <<leader, exists, worker, stuck, settled, attempts>>
    BY <1>5 DEF Tick
  <2>2. idle' \in [Replicas -> 0..(Threshold + 1)]
    BY <2>1 DEF TypeOK
  <2>3. due' \in [Keys -> Nat \cup {Never}]
    BY <2>1 DEF TypeOK, Never
  <2>4. left' \in [Loops -> 0..PassTime]
    BY <2>1 DEF TypeOK
  <2> QED
    BY <2>1, <2>2, <2>3, <2>4 DEF TypeOK, Passing
<1>6. CASE UNCHANGED vars
  BY <1>6 DEF vars, TypeOK, Passing
<1> QED
  BY <1>1, <1>2, <1>3, <1>4, <1>5, <1>6, EndTypes DEF Next

(***************************************************************************)
(* Every variable keeps its type, whatever the intervals: no time runs     *)
(* below zero or beyond its bound, no delay is negative, and the backoff   *)
(* counts no further than its schedule goes.                               *)
(***************************************************************************)
THEOREM TypeCorrect == Spec => []TypeOK
  BY InitTypes, NextTypes, PTL DEF Spec

-----------------------------------------------------------------------------
(* The inductive invariant *)

(* A connection that has been probed is requeued unless it is being probed. *)
Requeued ==
    \A k \in settled :
        k \in exists /\ (k # worker[C] => due[k] \in 0..ProbeInterval)

(* A free worker beats again when the next request is due at the latest. *)
Waiting ==
    settled # {} /\ worker[C] = NoKey =>
        \A k \in settled : idle[leader] + due[k] <= ProbeInterval

(* A busy one when its pass ends; it was not late when it began. *)
Working ==
    settled # {} /\ worker[C] # NoKey /\ ~stuck[C] =>
        idle[leader] + left[C] <= ProbeInterval + PassTime

BeatInv == TypeOK /\ Requeued /\ Waiting /\ Working /\ Passing

(* The parts of the invariant that only the connections' loop disturbs. *)
LEMMA Frame ==
    ASSUME BeatInv, TypeOK', Passing',
           UNCHANGED <<leader, exists, settled>>,
           worker'[C] = worker[C], left'[C] = left[C], stuck'[C] = stuck[C],
           \A k \in Connections : due'[k] = due[k],
           idle'[leader] = idle[leader] \/ idle'[leader] = 0
    PROVE  BeatInv'
<1>1. settled \subseteq Connections /\ leader \in Replicas /\ idle[leader] \in Nat
  BY HeartbeatAssumption DEF BeatInv, TypeOK
<1>2. Requeued'
  BY <1>1 DEF BeatInv, Requeued
<1>3. Waiting'
  <2> SUFFICES ASSUME settled # {}, worker[C] = NoKey, NEW k \in settled
               PROVE  idle'[leader] + due[k] <= ProbeInterval
    BY <1>1 DEF Waiting
  <2>1. due[k] \in 0..ProbeInterval /\ idle[leader] + due[k] <= ProbeInterval
    BY <1>1, HeartbeatAssumption DEF BeatInv, Requeued, Waiting, TypeOK, Keys
  <2> QED
    BY <1>1, <2>1, HeartbeatAssumption
<1>4. Working'
  <2>1. left[C] \in 0..PassTime
    BY DEF BeatInv, TypeOK, Loops, C
  <2> QED
    BY <1>1, <2>1, HeartbeatAssumption DEF BeatInv, Working
<1> QED
  BY <1>2, <1>3, <1>4 DEF BeatInv

(* Init establishes the invariant. *)
LEMMA InitBeatInv == Init => BeatInv
<1> SUFFICES ASSUME Init PROVE BeatInv
  OBVIOUS
<1>1. Requeued /\ Waiting /\ Working
  BY DEF Init, Requeued, Waiting, Working
<1> QED
  BY <1>1, InitTypes DEF BeatInv

(* A pass that begins is not late. *)
LEMMA BeginInv ==
    ASSUME BeatInv, NEW l \in Loops, Begin(l)
    PROVE  BeatInv'
<1> PICK k \in KeysOf(l) : /\ due[k] = 0 /\ worker' = [worker EXCEPT ![l] = k]
                           /\ due' = [due EXCEPT ![k] = Never]
  BY DEF Begin
<1>1. /\ worker[l] = NoKey /\ left' = [left EXCEPT ![l] = PassTime]
      /\ UNCHANGED <<leader, idle, exists, stuck, settled, attempts>>
      /\ k \in Keys /\ k # NoKey
  BY HeartbeatAssumption DEF Begin, Keys, KeysOf
<1>2. TypeOK' /\ Passing'
  BY NextTypes DEF BeatInv, Next
<1>4. CASE l = "secrets"
  <2>1. k \in Secrets /\ k \notin Connections
    BY <1>4, Loop, HeartbeatAssumption
  <2>2. \A c \in Connections : due'[c] = due[c]
    BY <2>1 DEF BeatInv, TypeOK, Keys
  <2>3. worker'[C] = worker[C] /\ left'[C] = left[C]
    BY <1>1, <1>4, Loop DEF BeatInv, TypeOK
  <2> QED
    BY <1>1, <1>2, <2>2, <2>3, Frame
<1>5. CASE l = C
  <2>1. worker[C] = NoKey /\ worker'[C] = k /\ left'[C] = PassTime
    BY <1>1, <1>5, Loop DEF BeatInv, TypeOK
  <2>2. Requeued'
    <3> SUFFICES ASSUME NEW c \in settled
                 PROVE  c \in exists /\ (c # k => due'[c] \in 0..ProbeInterval)
      BY <1>1, <2>1 DEF Requeued
    <3>1. c \in Keys /\ c # worker[C]
      BY <2>1, HeartbeatAssumption DEF BeatInv, TypeOK, Keys
    <3> QED
      BY <3>1 DEF BeatInv, Requeued, TypeOK
  <2>3. Waiting'
    BY <1>1, <2>1 DEF Waiting
  <2>4. Working'
    <3> SUFFICES ASSUME settled # {}
                 PROVE  idle[leader] <= ProbeInterval
      <4>1. idle[leader] \in Nat
        BY DEF BeatInv, TypeOK
      <4> QED
        BY <1>1, <2>1, <4>1, HeartbeatAssumption DEF Working
    <3>1. PICK c \in settled : due[c] \in 0..ProbeInterval
                               /\ idle[leader] + due[c] <= ProbeInterval
      BY <1>1, <2>1, HeartbeatAssumption DEF BeatInv, Requeued, Waiting, TypeOK, Keys
    <3> QED
      BY <3>1, HeartbeatAssumption DEF BeatInv, TypeOK
  <2> QED
    BY <1>2, <2>2, <2>3, <2>4 DEF BeatInv
<1> QED
  BY <1>4, <1>5, Loop

(* A pass that ends beats, and its key is due after its interval or earlier. *)
LEMMA EndInv ==
    ASSUME BeatInv, Attainable, NEW l \in Loops, End(l)
    PROVE  BeatInv'
<1> DEFINE k == worker[l]
<1>1. /\ k # NoKey /\ ~stuck[l] /\ idle' = [idle EXCEPT ![leader] = 0]
      /\ settled' = IF k \in exists /\ l = "connections" THEN settled \cup {k} ELSE settled
      /\ worker' = [worker EXCEPT ![l] = NoKey]
      /\ UNCHANGED <<leader, exists, left, stuck>>
  BY DEF End, Beat
<1>2. k \in KeysOf(l) /\ k \in Keys /\ leader \in Replicas
  BY <1>1 DEF BeatInv, Passing, TypeOK, Keys, KeysOf
<1> DEFINE Due(d) == due' = [due EXCEPT ![k] = IF @ = 0 \/ k \notin exists THEN @ ELSE d]
<1>a. ASSUME NEW D, \E d \in D : Due(d), \A d \in D : d \in Nat \cup {Never} /\ (l = C => d \in 0..ProbeInterval)
      PROVE  \E d \in Nat \cup {Never} : Due(d) /\ (l = C => d \in 0..ProbeInterval)
  <2> HIDE DEF Due
  <2> QED
    BY <1>a
<1>3. PICK d \in Nat \cup {Never} : Due(d) /\ (l = C => d \in 0..ProbeInterval)
  <2>1. CASE Requeue(k, Intervals(l))
    <3>1. \A d \in Intervals(l) : d \in Nat \cup {Never} /\ (l = C => d \in 0..ProbeInterval)
      BY HeartbeatAssumption DEF Intervals, C
    <3>2. \E d \in Intervals(l) : Due(d)
      BY <2>1 DEF Requeue
    <3> QED
      BY <1>a, <3>1, <3>2
  <2>2. CASE Requeue(k, Jitter(BackoffFor(attempts[k])))
    <3>1. attempts[k] \in 0..BackoffShift
      BY <1>2 DEF BeatInv, TypeOK
    <3>2. \A d \in Jitter(BackoffFor(attempts[k])) : d \in 0..BackoffMax
      BY <3>1, BackoffBounded
    <3>3. \A d \in Jitter(BackoffFor(attempts[k])) : d \in Nat /\ (l = C => d \in 0..ProbeInterval)
      BY <3>2, HeartbeatAssumption DEF Attainable
    <3>4. \E d \in Jitter(BackoffFor(attempts[k])) : Due(d)
      BY <2>2 DEF Requeue
    <3> QED
      BY <1>a, <3>3, <3>4
  <2>3. CASE l \in Failing /\ Requeue(k, 1..ErrorBackoff)
    <3>1. \A d \in 1..ErrorBackoff : d \in Nat /\ l # C
      BY <2>3, HeartbeatAssumption DEF Attainable, C
    <3>2. \E d \in 1..ErrorBackoff : Due(d)
      BY <2>3 DEF Requeue
    <3> QED
      BY <1>a, <3>1, <3>2
  <2> QED
    BY <2>1, <2>2, <2>3 DEF End
<1>4. TypeOK' /\ Passing'
  BY NextTypes DEF BeatInv, Next
<1>6. CASE l = "secrets"
  <2>1. \A c \in Connections : due'[c] = due[c]
    BY <1>2, <1>3, <1>6, Loop, HeartbeatAssumption DEF BeatInv, TypeOK, Keys
  <2>2. worker'[C] = worker[C] /\ idle'[leader] = 0 /\ settled' = settled
    BY <1>1, <1>2, <1>6, Loop DEF BeatInv, TypeOK
  <2> QED
    BY <1>1, <1>4, <2>1, <2>2, Frame
<1>7. CASE l = C
  <2>1. worker'[C] = NoKey /\ idle'[leader] = 0 /\ d \in 0..ProbeInterval
    BY <1>1, <1>2, <1>3, <1>7, Loop DEF BeatInv, TypeOK
  <2>2. Requeued'
    <3> SUFFICES ASSUME NEW c \in settled'
                 PROVE  c \in exists /\ due'[c] \in 0..ProbeInterval
      BY <1>1 DEF Requeued
    <3>1. CASE c = k
      <4>1. c \in exists
        BY <1>1, <3>1 DEF BeatInv, Requeued
      <4>2. due'[c] = IF due[c] = 0 THEN 0 ELSE d
        BY <1>2, <1>3, <2>1, <3>1, <4>1 DEF BeatInv, TypeOK
      <4> QED
        BY <2>1, <4>1, <4>2, HeartbeatAssumption
    <3>2. CASE c # k
      <4>1. c \in settled /\ c \in Keys
        BY <1>1, <3>2 DEF BeatInv, TypeOK, Keys
      <4>2. due'[c] = due[c] /\ c # worker[C]
        BY <1>3, <1>7, <3>2, <4>1 DEF BeatInv, TypeOK
      <4> QED
        BY <4>1, <4>2 DEF BeatInv, Requeued
    <3> QED
      BY <3>1, <3>2
  <2>3. Waiting'
    <3> SUFFICES ASSUME NEW c \in settled'
                 PROVE  0 + due'[c] <= ProbeInterval
      BY <1>1, <2>1 DEF Waiting
    <3>1. c # worker'[C]
      BY <1>4, <2>1, HeartbeatAssumption DEF TypeOK, Keys
    <3>2. due'[c] \in 0..ProbeInterval
      BY <2>2, <3>1 DEF Requeued
    <3> QED
      BY <3>2, HeartbeatAssumption
  <2>4. Working'
    BY <2>1 DEF Working
  <2> QED
    BY <1>4, <2>2, <2>3, <2>4 DEF BeatInv
<1> QED
  BY <1>6, <1>7, Loop

(* A stuck loop promises nothing. *)
LEMMA StickInv ==
    ASSUME BeatInv, NEW l \in Loops, Stick(l)
    PROVE  BeatInv'
<1>1. /\ worker[l] # NoKey /\ stuck' = [stuck EXCEPT ![l] = TRUE]
      /\ UNCHANGED <<leader, idle, exists, due, worker, left, settled, attempts>>
  BY DEF Stick
<1>2. TypeOK' /\ Passing'
  BY NextTypes DEF BeatInv, Next
<1>3. Requeued' /\ Waiting'
  BY <1>1 DEF BeatInv, Requeued, Waiting
<1>4. Working'
  BY <1>1 DEF BeatInv, Working, TypeOK
<1> QED
  BY <1>2, <1>3, <1>4 DEF BeatInv

(* A restarted leader has everything to do, and nothing to keep. *)
LEMMA RestartInv ==
    ASSUME BeatInv, NEW r \in Replicas, Restart(r)
    PROVE  BeatInv'
<1>1. idle' = [idle EXCEPT ![r] = 0] /\ UNCHANGED exists
  BY DEF Restart
<1>t. TypeOK' /\ Passing'
  BY NextTypes DEF BeatInv, Next
<1>2. CASE r # leader
  <2>1. UNCHANGED <<leader, due, worker, left, stuck, settled, attempts>>
    BY <1>2 DEF Restart
  <2>3. idle'[leader] = idle[leader]
    BY <1>1, <1>2 DEF BeatInv, TypeOK
  <2> QED
    BY <1>1, <1>t, <2>1, <2>3, Frame
<1>3. CASE r = leader
  <2>1. /\ leader' \in Replicas /\ due' = Started(exists) /\ worker' = NoPasses
        /\ left' = [l \in Loops |-> 0] /\ stuck' = [l \in Loops |-> FALSE] /\ settled' = {}
        /\ attempts' = [k \in Keys |-> 0]
    BY <1>3 DEF Restart
  <2>2. Requeued' /\ Waiting' /\ Working'
    BY <2>1 DEF Requeued, Waiting, Working
  <2> QED
    BY <1>t, <2>2 DEF BeatInv
<1> QED
  BY <1>2, <1>3

(* A change of a connection only brings its request forward. *)
LEMMA EnqueueInv ==
    ASSUME BeatInv, NEW k \in Edited, Enqueue(k)
    PROVE  BeatInv'
<1>1. /\ exists' \in {exists \cup {k}, exists \ {k}}
      /\ due' = [due EXCEPT ![k] = IF k \in exists \cup exists' THEN 0 ELSE @]
      /\ settled' = settled \cap exists'
      /\ UNCHANGED <<leader, idle, worker, left, stuck, attempts>>
  BY DEF Enqueue
<1>2. TypeOK' /\ Passing' /\ k \in Keys
  BY NextTypes, HeartbeatAssumption DEF BeatInv, Next
<1>3. \A c \in settled' : c \in settled /\ c \in exists' /\ c \in Keys
  BY <1>1 DEF BeatInv, TypeOK, Keys
<1>4. \A c \in settled' : due'[c] = due[c] \/ due'[c] = 0
  BY <1>1, <1>3 DEF BeatInv, TypeOK
<1>5. Requeued'
  BY <1>1, <1>3, <1>4, HeartbeatAssumption DEF BeatInv, Requeued
<1>6. Waiting'
  <2> SUFFICES ASSUME worker[C] = NoKey, NEW c \in settled'
               PROVE  idle[leader] + due'[c] <= ProbeInterval
    BY <1>1 DEF Waiting
  <2>1. due[c] \in 0..ProbeInterval /\ idle[leader] + due[c] <= ProbeInterval
    BY <1>3, HeartbeatAssumption DEF BeatInv, Requeued, Waiting, TypeOK, Keys
  <2>2. idle[leader] \in Nat
    BY DEF BeatInv, TypeOK
  <2> QED
    BY <1>3, <1>4, <2>1, <2>2, HeartbeatAssumption
<1>7. Working'
  BY <1>1, <1>3 DEF BeatInv, Working
<1> QED
  BY <1>2, <1>5, <1>6, <1>7 DEF BeatInv

(* A minute less until the next request, or until the end of the pass. *)
LEMMA TickInv ==
    ASSUME BeatInv, Tick
    PROVE  BeatInv'
<1>1. /\ idle' = [r \in Replicas |-> IF idle[r] > Threshold THEN idle[r] ELSE idle[r] + 1]
      /\ due' = [k \in Keys |-> IF due[k] > 0 THEN due[k] - 1 ELSE due[k]]
      /\ left' = [l \in Loops |-> IF left[l] > 0 THEN left[l] - 1 ELSE 0]
      /\ UNCHANGED <<leader, exists, worker, stuck, settled, attempts>>
  BY DEF Tick
<1>2. TypeOK' /\ Passing'
  BY NextTypes DEF BeatInv, Next
<1>3. idle[leader] \in Nat /\ idle'[leader] \in Nat /\ idle'[leader] <= idle[leader] + 1
  BY <1>1, HeartbeatAssumption DEF BeatInv, TypeOK
<1>4. Requeued'
  <2> SUFFICES ASSUME NEW k \in settled, k # worker[C]
               PROVE  due'[k] \in 0..ProbeInterval
    BY <1>1 DEF BeatInv, Requeued
  <2>1. due[k] \in 0..ProbeInterval /\ k \in Keys
    BY DEF BeatInv, Requeued, TypeOK, Keys
  <2> QED
    BY <1>1, <2>1, HeartbeatAssumption
<1>5. Waiting'
  <2> SUFFICES ASSUME worker[C] = NoKey, NEW k \in settled
               PROVE  idle'[leader] + due'[k] <= ProbeInterval
    BY <1>1 DEF Waiting
  <2>1. due[k] \in 0..ProbeInterval /\ idle[leader] + due[k] <= ProbeInterval /\ k \in Keys
    BY HeartbeatAssumption DEF BeatInv, Requeued, Waiting, TypeOK, Keys
  <2>2. due[k] # 0
    BY Loop DEF Tick, BeatInv, TypeOK
  <2>3. due'[k] = due[k] - 1
    BY <1>1, <2>1, <2>2, HeartbeatAssumption
  <2> QED
    BY <1>3, <2>1, <2>3, HeartbeatAssumption
<1>6. Working'
  <2> SUFFICES ASSUME settled # {}, worker[C] # NoKey, ~stuck[C]
               PROVE  idle'[leader] + left'[C] <= ProbeInterval + PassTime
    BY <1>1 DEF Working
  <2>1. left[C] \in 0..PassTime /\ left[C] > 0
    BY Loop DEF Tick, BeatInv, TypeOK
  <2>2. left'[C] = left[C] - 1
    BY <1>1, <2>1, Loop
  <2> QED
    BY <1>3, <2>1, <2>2, HeartbeatAssumption DEF BeatInv, Working
<1> QED
  BY <1>2, <1>4, <1>5, <1>6 DEF BeatInv

-----------------------------------------------------------------------------
(* The theorem *)

(* No step breaks the invariant. *)
LEMMA NextBeatInv == Attainable /\ BeatInv /\ [Next]_vars => BeatInv'
<1> SUFFICES ASSUME Attainable, BeatInv, [Next]_vars PROVE BeatInv'
  OBVIOUS
<1>1. ASSUME NEW r \in Replicas, Kill(r) \/ Restart(r) PROVE BeatInv'
  BY <1>1, RestartInv DEF Kill
<1>2. ASSUME NEW k \in Edited, Enqueue(k) PROVE BeatInv'
  BY <1>2, EnqueueInv
<1>3. ASSUME UNCHANGED vars PROVE BeatInv'
  BY <1>3 DEF vars, BeatInv, TypeOK, Requeued, Waiting, Working, Passing
<1> QED
  BY <1>1, <1>2, <1>3, BeginInv, EndInv, StickInv, TickInv DEF Next

(***************************************************************************)
(* A leader that has probed one of the connections that exist and whose    *)
(* connections' loop is not stuck never fails its liveness probe, provided *)
(* the threshold covers the probe interval and one pass.                   *)
(***************************************************************************)
THEOREM TurningLeaderLives == Attainable /\ Spec => []TurningIsLive
<1>1. Attainable /\ BeatInv => TurningIsLive
  <2> SUFFICES ASSUME Attainable, BeatInv, settled # {}, ~stuck[C]
               PROVE  idle[leader] <= Threshold
    BY HeartbeatAssumption DEF TurningIsLive, Stalled, BeatInv, TypeOK, C
  <2>1. idle[leader] \in Nat /\ left[C] \in 0..PassTime
    BY Loop DEF BeatInv, TypeOK
  <2>2. CASE worker[C] = NoKey
    <3>1. PICK k \in settled : due[k] \in 0..ProbeInterval
                               /\ idle[leader] + due[k] <= ProbeInterval
      BY <2>2, HeartbeatAssumption DEF BeatInv, Requeued, Waiting, TypeOK, Keys
    <3> QED
      BY <2>1, <3>1, HeartbeatAssumption DEF Attainable
  <2>3. CASE worker[C] # NoKey
    BY <2>1, <2>3, HeartbeatAssumption DEF BeatInv, Working, Attainable
  <2> QED
    BY <2>2, <2>3
<1>2. ASSUME Attainable PROVE Spec => []TurningIsLive
  <2>1. Init => BeatInv
    BY InitBeatInv
  <2>2. BeatInv /\ [Next]_vars => BeatInv'
    BY <1>2, NextBeatInv
  <2>3. BeatInv => TurningIsLive
    BY <1>1, <1>2
  <2> QED
    BY <2>1, <2>2, <2>3, PTL DEF Spec
<1> QED
  BY <1>2
=============================================================================
