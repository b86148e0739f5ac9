-------------------------- MODULE TokenBrokerProofs --------------------------
(***************************************************************************)
(* Proofs about TokenBroker: its types, that a bearer outlives the call it *)
(* is used for, that it was minted for the connection it is used for, and  *)
(* how long one of an old configuration can live, for any number of        *)
(* workers and connections and any leeway, call time and lifetime.         *)
(***************************************************************************)
EXTENDS TokenBroker, TLAPS

-----------------------------------------------------------------------------
(* The inductive invariant *)

(* At time t: when what the worker waits for ends, and when its bearer expires. *)
(* A reply is due so early that its bearer outlives the call that follows.      *)
Timely(j, t) ==
    /\ j # Idle => t <= j.until
    /\ j.at = "exchange" => j.until <= t + ExchangeTime
    /\ j.at = "reply" => j.bearer \in Bearers /\ j.until + CallTime < j.bearer.exp
    /\ j.at = "call" => j.bearer \in Bearers /\ j.until < j.bearer.exp

(* What a bearer has left at time t if the connections have the configurations *)
(* cf, changed at the times ed.                                                *)
Waning(b, t, cf, ed) ==
    /\ b.exp <= t + Lifetime
    /\ b.conf # cf[b.conn] => b.exp <= ed[b.conn] + ExchangeTime + Lifetime

(* The bearer of a worker. *)
JobBearers(j, t, cf, ed) ==
    /\ j.at = "exchange" /\ j.conf # cf[j.conn] => j.until <= ed[j.conn] + ExchangeTime
    /\ j.at = "reply" => j.bearer.conf = j.conf
    /\ j.at \in {"reply", "call"} => j.bearer.conn = j.conn /\ Waning(j.bearer, t, cf, ed)

(* The bearers of the cache. *)
CacheBearers ==
    \A c \in Connections :
        cache[Key(c)] # NoBearer =>
            /\ cache[Key(c)].conn = c
            /\ Waning(cache[Key(c)], now, conf, edited)

BrokerInv ==
    /\ TypeOK
    /\ \A w \in Workers : Timely(job[w], now) /\ JobBearers(job[w], now, conf, edited)
    /\ CacheBearers

-----------------------------------------------------------------------------
(* Two connections have the same key only if they are the same. *)
LEMMA KeyInjective ==
    ASSUME NEW c \in Connections, NEW d \in Connections, Key(c) = Key(d)
    PROVE  c = d
<1>1. c.ns = d.ns /\ c.name = d.name
  BY DEF Key
<1> QED
  BY <1>1 DEF Connections

LEMMA KeyInKeys == \A c \in Connections : Key(c) \in Keys
  BY DEF Keys

(* A worker that is not idle has a job. *)
LEMMA JobTypes ==
    ASSUME TypeOK, NEW w \in Workers
    PROVE  /\ job[w] # Idle => job[w] \in Jobs
           /\ job[w] = Idle <=> job[w].at = "idle"
           /\ job[w] \in Jobs => /\ job[w].conn \in Connections /\ job[w].conf \in Nat
                                 /\ job[w].until \in Nat
                                 /\ job[w].bearer \in Bearers \cup {NoBearer}
  BY DEF TypeOK, Jobs, Idle

(* Init establishes the invariant. *)
LEMMA InitBrokerInv == Init => BrokerInv
<1> SUFFICES ASSUME Init PROVE BrokerInv
  OBVIOUS
<1>1. TypeOK
  BY DEF Init, TypeOK
<1>2. \A w \in Workers : Timely(job[w], now) /\ JobBearers(job[w], now, conf, edited)
  BY DEF Init, Timely, JobBearers, Idle
<1>3. CacheBearers
  BY KeyInKeys DEF Init, CacheBearers
<1> QED
  BY <1>1, <1>2, <1>3 DEF BrokerInv

-----------------------------------------------------------------------------
(* A step of one worker: the clock and the connections stay, and what is left *)
(* to show is that its new job and the new cache are as the invariant says.   *)
LEMMA WorkerStep ==
    ASSUME BrokerInv, NEW w \in Workers, NEW j \in {Idle} \cup Jobs,
           job' = [job EXCEPT ![w] = j],
           cache' \in [Keys -> Bearers \cup {NoBearer}],
           CacheBearers', Timely(j, now), JobBearers(j, now, conf, edited),
           UNCHANGED <<now, present, conf, edited>>
    PROVE  BrokerInv'
<1>1. TypeOK'
  BY DEF BrokerInv, TypeOK
<1>2. ASSUME NEW v \in Workers
      PROVE  Timely(job'[v], now') /\ JobBearers(job'[v], now', conf', edited')
  <2>1. CASE v = w
    BY <2>1 DEF BrokerInv, TypeOK, Timely, JobBearers, Waning
  <2>2. CASE v # w
    BY <2>2 DEF BrokerInv, TypeOK, Timely, JobBearers, Waning
  <2> QED
    BY <2>1, <2>2
<1> QED
  BY <1>1, <1>2 DEF BrokerInv

(* A cached bearer that is used has time for a call left. *)
LEMMA CacheHitInv ==
    ASSUME BrokerInv, NEW w \in Workers, NEW c \in Connections, CacheHit(w, c)
    PROVE  BrokerInv'
<1> DEFINE b == cache[Key(c)]
           j == [at |-> "call", conn |-> c, conf |-> conf[c],
                 bearer |-> b, until |-> now + CallTime]
<1>1. b \in Bearers /\ b.exp \in Nat /\ now \in Nat /\ conf[c] \in Nat
  BY KeyInKeys DEF BrokerInv, TypeOK, CacheHit, Usable, Bearers
<1>2. b.exp - now > Leeway /\ b.conn = c /\ Waning(b, now, conf, edited)
  BY <1>1 DEF CacheHit, Usable, BrokerInv, CacheBearers
<1>3. j \in Jobs
  BY <1>1, BrokerAssumption DEF Jobs
<1>4. Timely(j, now)
  BY <1>1, <1>2, BrokerAssumption DEF Timely, Idle
<1>5. JobBearers(j, now, conf, edited)
  BY <1>2 DEF JobBearers
<1>6. CacheBearers' /\ cache' \in [Keys -> Bearers \cup {NoBearer}]
  BY DEF CacheHit, BrokerInv, TypeOK, CacheBearers, Waning
<1> HIDE DEF j
<1>7. job' = [job EXCEPT ![w] = j] /\ UNCHANGED <<now, present, conf, edited>>
  BY DEF CacheHit, j
<1> QED
  BY <1>3, <1>4, <1>5, <1>6, <1>7, WorkerStep

(* An exchange that starts ends in time. *)
LEMMA CacheMissInv ==
    ASSUME BrokerInv, NEW w \in Workers, NEW c \in Connections, CacheMiss(w, c)
    PROVE  BrokerInv'
<1> DEFINE j == [at |-> "exchange", conn |-> c, conf |-> conf[c],
                 bearer |-> NoBearer, until |-> now + ExchangeTime]
<1>1. now \in Nat /\ conf[c] \in Nat
  BY DEF BrokerInv, TypeOK
<1>2. j \in Jobs
  BY <1>1, BrokerAssumption DEF Jobs
<1>3. Timely(j, now) /\ JobBearers(j, now, conf, edited)
  BY <1>1, BrokerAssumption DEF Timely, JobBearers, Idle
<1>4. cache' \in [Keys -> Bearers \cup {NoBearer}]
  BY DEF CacheMiss, BrokerInv, TypeOK
<1>5. CacheBearers'
  <2> SUFFICES ASSUME NEW d \in Connections, cache'[Key(d)] # NoBearer
               PROVE  cache[Key(d)] # NoBearer /\ cache'[Key(d)] = cache[Key(d)]
    BY DEF CacheBearers, BrokerInv, CacheMiss, Waning
  <2> QED
    BY KeyInKeys DEF CacheMiss, BrokerInv, TypeOK
<1> HIDE DEF j
<1>6. job' = [job EXCEPT ![w] = j] /\ UNCHANGED <<now, present, conf, edited>>
  BY DEF CacheMiss, j
<1> QED
  BY <1>2, <1>3, <1>4, <1>5, <1>6, WorkerStep

(* A bearer is minted with more of its life before it than the exchange and *)
(* the call can take.                                                       *)
LEMMA MintInv ==
    ASSUME BrokerInv, NEW w \in Workers, Mint(w)
    PROVE  BrokerInv'
<1> DEFINE b == [conn |-> job[w].conn, conf |-> job[w].conf, exp |-> now + Lifetime]
           j == [job[w] EXCEPT !.at = "reply", !.bearer = b]
<1>1. now \in Nat /\ job[w] \in Jobs /\ job[w].at = "exchange" /\ job[w] # Idle
  BY JobTypes DEF BrokerInv, TypeOK, Mint, Idle
<1>2. job[w].conn \in Connections /\ job[w].conf \in Nat /\ job[w].until \in Nat
  BY <1>1 DEF Jobs
<1>3. b \in Bearers
  BY <1>1, <1>2, BrokerAssumption DEF Bearers
<1>4. j \in Jobs
  BY <1>1, <1>3 DEF Jobs
<1>5. now <= job[w].until /\ job[w].until <= now + ExchangeTime
  BY <1>1 DEF BrokerInv, Timely
<1>6. j.at = "reply" /\ j.bearer = b /\ j.until = job[w].until /\ j # Idle
  BY <1>1 DEF Jobs, Idle
<1>7. Timely(j, now)
  BY <1>1, <1>2, <1>3, <1>5, <1>6, BrokerAssumption DEF Timely
<1>8. Waning(b, now, conf, edited)
  <2>1. job[w].conf # conf[job[w].conn] =>
            job[w].until <= edited[job[w].conn] + ExchangeTime
    BY <1>1 DEF BrokerInv, JobBearers
  <2>2. edited[job[w].conn] \in Nat
    BY <1>2 DEF BrokerInv, TypeOK
  <2> QED
    BY <1>1, <1>2, <1>5, <2>1, <2>2, BrokerAssumption DEF Waning
<1>9. JobBearers(j, now, conf, edited)
  BY <1>1, <1>6, <1>8 DEF JobBearers, Jobs
<1>10. CacheBearers' /\ cache' \in [Keys -> Bearers \cup {NoBearer}]
  BY DEF Mint, BrokerInv, TypeOK, CacheBearers, Waning
<1>11. job' = [job EXCEPT ![w] = j] /\ UNCHANGED <<now, present, conf, edited>>
  BY <1>1 DEF Mint, BrokerInv, TypeOK
<1> HIDE DEF j
<1> QED
  BY <1>4, <1>7, <1>9, <1>10, <1>11, WorkerStep

(* What the exchange returned goes to the cache and is used. *)
LEMMA CachePutInv ==
    ASSUME BrokerInv, NEW w \in Workers, CachePut(w)
    PROVE  BrokerInv'
<1> DEFINE b == job[w].bearer
           j == [job[w] EXCEPT !.at = "call", !.until = now + CallTime]
<1>1. now \in Nat /\ job[w] \in Jobs /\ job[w].at = "reply" /\ job[w] # Idle
  BY JobTypes DEF BrokerInv, TypeOK, CachePut, Idle
<1>2. job[w].conn \in Connections /\ job[w].until \in Nat
  BY <1>1 DEF Jobs
<1>3. b \in Bearers /\ now <= job[w].until /\ job[w].until + CallTime < b.exp
  BY <1>1 DEF BrokerInv, Timely
<1>4. b.conn = job[w].conn /\ Waning(b, now, conf, edited)
  BY <1>1 DEF BrokerInv, JobBearers
<1>5. j \in Jobs
  <2>1. now + CallTime \in Nat
    BY <1>1, BrokerAssumption
  <2> QED
    BY <1>1, <2>1 DEF Jobs
<1>6. j.at = "call" /\ j.bearer = b /\ j.until = now + CallTime /\ j.conn = job[w].conn
  BY <1>1 DEF Jobs
<1>7. Timely(j, now)
  <2>1. b.exp \in Nat
    BY <1>3 DEF Bearers
  <2> QED
    BY <1>1, <1>2, <1>3, <1>6, <2>1, BrokerAssumption DEF Timely
<1>8. JobBearers(j, now, conf, edited)
  BY <1>4, <1>6 DEF JobBearers
<1>9. cache' \in [Keys -> Bearers \cup {NoBearer}]
  BY <1>3 DEF CachePut, BrokerInv, TypeOK
<1>10. CacheBearers'
  <2> SUFFICES ASSUME NEW d \in Connections, cache'[Key(d)] # NoBearer
               PROVE  cache'[Key(d)].conn = d /\ Waning(cache'[Key(d)], now, conf, edited)
    BY DEF CacheBearers, CachePut, Waning
  <2>1. CASE d = job[w].conn
    BY <1>2, <1>4, <2>1, KeyInKeys DEF CachePut, BrokerInv, TypeOK
  <2>2. CASE d # job[w].conn
    <3>1. Key(d) # Key(job[w].conn)
      BY <1>2, <2>2, KeyInjective
    <3> QED
      BY <3>1, KeyInKeys DEF CachePut, BrokerInv, TypeOK, CacheBearers
  <2> QED
    BY <2>1, <2>2
<1>11. job' = [job EXCEPT ![w] = j] /\ UNCHANGED <<now, present, conf, edited>>
  BY <1>1 DEF CachePut, BrokerInv, TypeOK
<1> HIDE DEF j
<1> QED
  BY <1>5, <1>7, <1>8, <1>9, <1>10, <1>11, WorkerStep

(* A worker that goes idle keeps nothing. *)
LEMMA GoesIdleInv ==
    ASSUME BrokerInv, NEW w \in Workers, ExchangeFails(w) \/ CallEnds(w)
    PROVE  BrokerInv'
<1>1. Timely(Idle, now) /\ JobBearers(Idle, now, conf, edited)
  BY DEF Timely, JobBearers, Idle
<1>2. CacheBearers' /\ cache' \in [Keys -> Bearers \cup {NoBearer}]
  BY DEF ExchangeFails, CallEnds, BrokerInv, TypeOK, CacheBearers, Waning
<1> QED
  BY <1>1, <1>2, WorkerStep DEF ExchangeFails, CallEnds

-----------------------------------------------------------------------------
(* The steps around the broker *)

(* A bearer that was alive when its connection changed has at most a lifetime *)
(* left then.                                                                 *)
LEMMA ReconfiguredInv ==
    ASSUME BrokerInv, NEW c \in Connections, Reconfigured(c),
           present' \subseteq Connections
    PROVE  BrokerInv'
<1>1. /\ UNCHANGED <<now, cache, job>>
      /\ conf' = [conf EXCEPT ![c] = @ + 1]
      /\ edited' = [edited EXCEPT ![c] = now]
      /\ conf \in [Connections -> Nat] /\ edited \in [Connections -> Nat] /\ now \in Nat
  BY DEF Reconfigured, BrokerInv, TypeOK
<1>2. TypeOK'
  BY <1>1 DEF BrokerInv, TypeOK
<1>3. ASSUME NEW b \in Bearers, Waning(b, now, conf, edited)
      PROVE  Waning(b, now', conf', edited')
  <2>1. b.conn \in Connections /\ b.exp \in Nat
    BY DEF Bearers
  <2> QED
    BY <1>1, <1>3, <2>1, BrokerAssumption DEF Waning
<1>4. CacheBearers'
  <2> SUFFICES ASSUME NEW d \in Connections, cache[Key(d)] # NoBearer
               PROVE  cache[Key(d)].conn = d /\ Waning(cache[Key(d)], now', conf', edited')
    BY <1>1 DEF CacheBearers, Waning
  <2>1. cache[Key(d)] \in Bearers
    BY KeyInKeys DEF BrokerInv, TypeOK
  <2> QED
    BY <1>3, <2>1 DEF BrokerInv, CacheBearers
<1>5. ASSUME NEW w \in Workers
      PROVE  Timely(job'[w], now') /\ JobBearers(job'[w], now', conf', edited')
  <2>1. Timely(job'[w], now')
    BY <1>1 DEF BrokerInv, Timely
  <2>2. CASE job[w] = Idle
    <3>1. job'[w].at = "idle"
      BY <1>1, <2>2 DEF Idle
    <3> QED
      BY <2>1, <3>1 DEF JobBearers
  <2>3. CASE job[w].at = "exchange"
    <3>1. job[w].conn \in Connections /\ job[w].until \in Nat
      BY <2>3, JobTypes DEF BrokerInv, Idle
    <3>2. job[w].until <= now + ExchangeTime
      BY <2>3 DEF BrokerInv, Timely
    <3> QED
      BY <1>1, <2>3, <3>1, <3>2, BrokerAssumption DEF BrokerInv, JobBearers
  <2>4. CASE job[w].at \in {"reply", "call"}
    <3>1. job[w].bearer \in Bearers
      BY <2>4 DEF BrokerInv, Timely
    <3>2. Waning(job[w].bearer, now', conf', edited')
      BY <1>3, <2>4, <3>1 DEF BrokerInv, JobBearers
    <3> QED
      BY <1>1, <2>4, <3>2 DEF BrokerInv, JobBearers
  <2> QED
    BY <2>1, <2>2, <2>3, <2>4, JobTypes DEF BrokerInv, Jobs, Idle
<1> QED
  BY <1>2, <1>4, <1>5 DEF BrokerInv

(* Time does not pass the moment a worker has been waiting for. *)
LEMMA TickInv ==
    ASSUME BrokerInv, Tick
    PROVE  BrokerInv'
<1>1. now \in Nat /\ now' = now + 1 /\ UNCHANGED <<present, conf, edited, cache, job>>
  BY DEF Tick, BrokerInv, TypeOK
<1>2. TypeOK'
  BY <1>1 DEF BrokerInv, TypeOK
<1>3. ASSUME NEW b \in Bearers, Waning(b, now, conf, edited)
      PROVE  Waning(b, now', conf', edited')
  <2>1. b.exp \in Nat
    BY DEF Bearers
  <2> QED
    BY <1>1, <1>3, <2>1, BrokerAssumption DEF Waning
<1>4. CacheBearers'
  <2> SUFFICES ASSUME NEW d \in Connections, cache[Key(d)] # NoBearer
               PROVE  cache[Key(d)].conn = d /\ Waning(cache[Key(d)], now', conf', edited')
    BY <1>1 DEF CacheBearers, Waning
  <2>1. cache[Key(d)] \in Bearers
    BY KeyInKeys DEF BrokerInv, TypeOK
  <2> QED
    BY <1>3, <2>1 DEF BrokerInv, CacheBearers
<1>5. ASSUME NEW w \in Workers
      PROVE  Timely(job'[w], now') /\ JobBearers(job'[w], now', conf', edited')
  <2>1. Timely(job'[w], now')
    <3>1. job[w] # Idle => now < job[w].until /\ job[w].until \in Nat
      BY JobTypes DEF Tick, BrokerInv
    <3>2. job[w].at = "exchange" => job[w] # Idle
      BY DEF Idle
    <3> QED
      BY <1>1, <3>1, <3>2, BrokerAssumption DEF BrokerInv, Timely
  <2>2. job[w].at \in {"reply", "call"} => Waning(job[w].bearer, now', conf', edited')
    <3>1. job[w].at \in {"reply", "call"} => job[w].bearer \in Bearers
      BY DEF BrokerInv, Timely
    <3> QED
      BY <1>3, <3>1 DEF BrokerInv, JobBearers
  <2>3. JobBearers(job'[w], now', conf', edited')
    BY <1>1, <2>2 DEF BrokerInv, JobBearers
  <2> QED
    BY <2>1, <2>3
<1> QED
  BY <1>2, <1>4, <1>5 DEF BrokerInv

(* Creation and restart, and steps that change nothing. *)
LEMMA CreateInv ==
    ASSUME BrokerInv, NEW c \in Connections, Create(c)
    PROVE  BrokerInv'
<1>1. TypeOK' /\ UNCHANGED <<now, conf, edited, cache, job>>
  BY DEF Create, BrokerInv, TypeOK
<1> QED
  BY <1>1 DEF BrokerInv, CacheBearers, Timely, JobBearers, Waning

LEMMA RestartInv ==
    ASSUME BrokerInv, Restart
    PROVE  BrokerInv'
<1>1. TypeOK'
  BY DEF Restart, BrokerInv, TypeOK
<1>2. CacheBearers'
  BY KeyInKeys DEF Restart, CacheBearers
<1>3. ASSUME NEW w \in Workers
      PROVE  Timely(job'[w], now') /\ JobBearers(job'[w], now', conf', edited')
  BY DEF Restart, Timely, JobBearers, Idle
<1> QED
  BY <1>1, <1>2, <1>3 DEF BrokerInv

LEMMA StutterInv ==
    ASSUME BrokerInv, UNCHANGED vars
    PROVE  BrokerInv'
<1>1. TypeOK' /\ UNCHANGED <<now, present, conf, edited, cache, job>>
  BY DEF vars, BrokerInv, TypeOK
<1> QED
  BY <1>1 DEF BrokerInv, CacheBearers, Timely, JobBearers, Waning

-----------------------------------------------------------------------------
(* The theorems *)

LEMMA NextBrokerInv == BrokerInv /\ [Next]_vars => BrokerInv'
<1> SUFFICES ASSUME BrokerInv, [Next]_vars PROVE BrokerInv'
  OBVIOUS
<1>1. ASSUME NEW w \in Workers, NEW c \in Connections, CacheHit(w, c) PROVE BrokerInv'
  BY <1>1, CacheHitInv
<1>2. ASSUME NEW w \in Workers, NEW c \in Connections, CacheMiss(w, c) PROVE BrokerInv'
  BY <1>2, CacheMissInv
<1>3. ASSUME NEW w \in Workers, Mint(w) PROVE BrokerInv'
  BY <1>3, MintInv
<1>4. ASSUME NEW w \in Workers, ExchangeFails(w) \/ CallEnds(w) PROVE BrokerInv'
  BY <1>4, GoesIdleInv
<1>5. ASSUME NEW w \in Workers, CachePut(w) PROVE BrokerInv'
  BY <1>5, CachePutInv
<1>6. ASSUME NEW c \in Connections, Edit(c) \/ DeleteConnection(c) PROVE BrokerInv'
  <2>1. Reconfigured(c) /\ present' \subseteq Connections
    BY <1>6 DEF Edit, DeleteConnection, BrokerInv, TypeOK
  <2> QED
    BY <2>1, ReconfiguredInv
<1>7. ASSUME NEW c \in Connections, Create(c) PROVE BrokerInv'
  BY <1>7, CreateInv
<1> QED
  BY <1>1, <1>2, <1>3, <1>4, <1>5, <1>6, <1>7, RestartInv, TickInv, StutterInv
  DEF Next, TokenFor

(* The invariant holds in every state that is reached. *)
THEOREM BrokerInvariant == Spec => []BrokerInv
  BY InitBrokerInv, NextBrokerInv, PTL DEF Spec

(* The broker's variables keep their types: in particular what the workers  *)
(* put into the cache under its mutex are bearers.                          *)
THEOREM BrokerTypeCorrect == Spec => []TypeOK
<1>1. BrokerInv => TypeOK
  BY DEF BrokerInv
<1> QED
  BY <1>1, BrokerInvariant, PTL

(***************************************************************************)
(* No bearer expires during the call it was handed out for, whatever the   *)
(* leeway, as long as a call is shorter than it and a lifetime is longer   *)
(* than an exchange and a call (token_broker.go:13-14 and 200-205).        *)
(***************************************************************************)
THEOREM BearersOutliveCalls == Spec => []BearerOutlivesCall
<1>1. BrokerInv => BearerOutlivesCall
  <2> SUFFICES ASSUME BrokerInv, NEW w \in Workers, job[w].at = "call"
               PROVE  now < job[w].bearer.exp
    BY DEF BearerOutlivesCall
  <2>1. job[w] # Idle /\ job[w] \in Jobs
    BY JobTypes DEF BrokerInv, Idle
  <2>2. now <= job[w].until /\ job[w].until < job[w].bearer.exp /\ job[w].bearer \in Bearers
    BY <2>1 DEF BrokerInv, Timely
  <2>3. now \in Nat /\ job[w].until \in Nat /\ job[w].bearer.exp \in Nat
    BY <2>1, <2>2 DEF BrokerInv, TypeOK, Jobs, Bearers
  <2> QED
    BY <2>2, <2>3
<1> QED
  BY <1>1, BrokerInvariant, PTL

(***************************************************************************)
(* Every call presents a bearer that was minted for its own connection,    *)
(* for the cache key has the namespace and the name (token_broker.go:66-69 *)
(* and 88-91).                                                             *)
(***************************************************************************)
THEOREM BearersAreOwn == Spec => []OwnBearer
<1>1. BrokerInv => OwnBearer
  BY DEF BrokerInv, JobBearers, OwnBearer
<1> QED
  BY <1>1, BrokerInvariant, PTL

(***************************************************************************)
(* Although nothing drops a cached bearer when its connection changes,     *)
(* none is used a lifetime and an exchange after the change.               *)
(***************************************************************************)
THEOREM StaleBearersExpire == Spec => []StaleBearerExpires
<1>1. BrokerInv => StaleBearerExpires
  <2> SUFFICES ASSUME BrokerInv, NEW w \in Workers, job[w].at = "call",
                      job[w].bearer.conf # conf[job[w].conn]
               PROVE  now < edited[job[w].conn] + ExchangeTime + Lifetime
    BY DEF StaleBearerExpires
  <2>1. job[w] # Idle /\ job[w] \in Jobs
    BY JobTypes DEF BrokerInv, Idle
  <2>2. now <= job[w].until /\ job[w].until < job[w].bearer.exp /\ job[w].bearer \in Bearers
    BY <2>1 DEF BrokerInv, Timely
  <2>3. /\ job[w].bearer.conn = job[w].conn
        /\ job[w].bearer.exp <= edited[job[w].conn] + ExchangeTime + Lifetime
    BY DEF BrokerInv, JobBearers, Waning
  <2>4. /\ now \in Nat /\ job[w].until \in Nat /\ job[w].bearer.exp \in Nat
        /\ edited[job[w].conn] \in Nat
    BY <2>1, <2>2 DEF BrokerInv, TypeOK, Jobs, Bearers
  <2> QED
    BY <2>2, <2>3, <2>4, BrokerAssumption
<1> QED
  BY <1>1, BrokerInvariant, PTL
=============================================================================
