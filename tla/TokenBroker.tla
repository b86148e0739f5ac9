----------------------------- MODULE TokenBroker -----------------------------
(***************************************************************************)
(* TokenBroker.TokenFor for connections that authenticate with oidc, called *)
(* by the workers of the two reconcilers at the same time: the cache under *)
(* its mutex, the exchange outside of it, and the API call the bearer is   *)
(* then used for.  Meanwhile connections are edited, deleted and created   *)
(* again, the operator restarts, and time passes.                          *)
(*                                                                         *)
(* A bearer is what it was minted for and when it expires.  Time is a      *)
(* count of seconds, or of any other unit all the constants are given in.  *)
(***************************************************************************)
EXTENDS Integers, FiniteSets

CONSTANTS
    Workers,        \* the workers that call TokenFor
    Namespaces,     \* of the cluster
    Names,          \* names that connections have
    NoBearer,       \* stands for no bearer
    Leeway,         \* oidcRefreshLeeway
    ExchangeTime,   \* bound on the time an exchange takes
    CallTime,       \* bound on the time the call it is used for takes
    Lifetime,       \* of a minted bearer, the server's choice
    MaxConf,        \* bound on edits, deletions and re-creations
    MaxTime         \* bound on the clock

ASSUME BrokerAssumption ==
    /\ Leeway \in Nat /\ ExchangeTime \in Nat /\ CallTime \in Nat
    /\ Lifetime \in Nat /\ MaxConf \in Nat /\ MaxTime \in Nat
    /\ CallTime < Leeway
    /\ ExchangeTime + CallTime < Lifetime

Connections == [ns : Namespaces, name : Names]

(* Mutant: one entry for all connections of a name. *)
KeyWithoutNamespace(c) == <<c.name>>

(* cacheKey *)
Key(c) == <<c.ns, c.name>>

Keys == {Key(c) : c \in Connections}

(* A bearer: the connection and the configuration it was minted for. *)
Bearers == [conn : Connections, conf : Nat, exp : Nat]

ASSUME NoBearerAssumption == NoBearer \notin Bearers

VARIABLES
    now,        \* the clock
    present,    \* the connections that exist
    conf,       \* per connection: the number of its configuration, as the informer has it
    edited,     \* history: when that last changed
    cache,      \* per key: the cached bearer or NoBearer
    job         \* per worker: what it is doing

vars == <<now, present, conf, edited, cache, job>>

Idle == [at |-> "idle"]

(* A worker resolves a token for conn, which had the configuration conf when *)
(* the worker read it, or calls the API with the bearer it was given.  What  *)
(* it waits for ends at until at the latest.                                 *)
Jobs == [at : {"exchange", "reply", "call"}, conn : Connections, conf : Nat,
         bearer : Bearers \cup {NoBearer}, until : Nat]

TypeOK ==
    /\ now \in Nat
    /\ present \subseteq Connections
    /\ conf \in [Connections -> Nat]
    /\ edited \in [Connections -> Nat]
    /\ cache \in [Keys -> Bearers \cup {NoBearer}]
    /\ job \in [Workers -> {Idle} \cup Jobs]

Init ==
    /\ now = 0
    /\ present = Connections
    /\ conf = [c \in Connections |-> 1]
    /\ edited = [c \in Connections |-> 0]
    /\ cache = [k \in Keys |-> NoBearer]
    /\ job = [w \in Workers |-> Idle]

-----------------------------------------------------------------------------
(* The cache *)

(* Mutant: a bearer is good until the second it expires. *)
UsableToTheEnd(b) == b # NoBearer /\ b.exp > now

(* cacheGet: an entry inside the leeway is as good as none. *)
Usable(b) == b # NoBearer /\ b.exp - now > Leeway

-----------------------------------------------------------------------------
(* TokenFor.  The worker has just read the connection; the bearer it gets is *)
(* used for one API call, which starts at once.                              *)

CacheHit(w, c) ==
    /\ job[w] = Idle /\ c \in present
    /\ Usable(cache[Key(c)])
    /\ job' = [job EXCEPT ![w] = [at |-> "call", conn |-> c, conf |-> conf[c],
                                 bearer |-> cache[Key(c)], until |-> now + CallTime]]
    /\ UNCHANGED <<now, present, conf, edited, cache>>

(* No bearer, or one about to expire, which is dropped. *)
CacheMiss(w, c) ==
    /\ job[w] = Idle /\ c \in present
    /\ ~Usable(cache[Key(c)])
    /\ cache' = [cache EXCEPT ![Key(c)] = NoBearer]
    /\ job' = [job EXCEPT ![w] = [at |-> "exchange", conn |-> c, conf |-> conf[c],
                                 bearer |-> NoBearer, until |-> now + ExchangeTime]]
    /\ UNCHANGED <<now, present, conf, edited>>

(* Mutant: the lifetime is counted backwards. *)
MintExpired(w) ==
    /\ job[w].at = "exchange"
    /\ job' = [job EXCEPT ![w].at = "reply",
                         ![w].bearer = [conn |-> job[w].conn, conf |-> job[w].conf,
                                        exp |-> now - Lifetime]]
    /\ UNCHANGED <<now, present, conf, edited, cache>>

(* FerrVault mints a bearer; its answer is under way. *)
Mint(w) ==
    /\ job[w].at = "exchange"
    /\ job' = [job EXCEPT ![w].at = "reply",
                         ![w].bearer = [conn |-> job[w].conn, conf |-> job[w].conf,
                                        exp |-> now + Lifetime]]
    /\ UNCHANGED <<now, present, conf, edited, cache>>

(* No ServiceAccount token to read, or the exchange is refused or unanswered: *)
(* what was minted, if anything was, is lost.                                 *)
ExchangeFails(w) ==
    /\ job[w].at \in {"exchange", "reply"}
    /\ job' = [job EXCEPT ![w] = Idle]
    /\ UNCHANGED <<now, present, conf, edited, cache>>

(* cachePut, and the bearer is returned *)
CachePut(w) ==
    /\ job[w].at = "reply"
    /\ cache' = [cache EXCEPT ![Key(job[w].conn)] = job[w].bearer]
    /\ job' = [job EXCEPT ![w].at = "call", ![w].until = now + CallTime]
    /\ UNCHANGED <<now, present, conf, edited>>

(* The API call ends, well or not; nothing is told to the broker. *)
CallEnds(w) ==
    /\ job[w].at = "call"
    /\ job' = [job EXCEPT ![w] = Idle]
    /\ UNCHANGED <<now, present, conf, edited, cache>>

-----------------------------------------------------------------------------
(* Around the broker.  A deletion changes the configuration, too: what was *)
(* minted before it does not belong to a connection created after it.      *)

Reconfigured(c) ==
    /\ conf[c] < MaxConf
    /\ conf' = [conf EXCEPT ![c] = @ + 1]
    /\ edited' = [edited EXCEPT ![c] = now]
    /\ UNCHANGED <<now, cache, job>>

(* The oidc configuration of c changes. *)
Edit(c) == c \in present /\ Reconfigured(c) /\ UNCHANGED present

(* c is gone, its finalizer released. *)
DeleteConnection(c) == c \in present /\ Reconfigured(c) /\ present' = present \ {c}

(* A connection is created with the name of one that is gone. *)
Create(c) ==
    /\ c \notin present
    /\ present' = present \cup {c}
    /\ UNCHANGED <<now, conf, edited, cache, job>>

(* The process restarts: the cache and the passes in flight are gone. *)
Restart ==
    /\ cache' = [k \in Keys |-> NoBearer]
    /\ job' = [w \in Workers |-> Idle]
    /\ UNCHANGED <<now, present, conf, edited>>

(* Time passes, but no answer or call is later than its bound. *)
Tick ==
    /\ now < MaxTime
    /\ \A w \in Workers : job[w] # Idle => now < job[w].until
    /\ now' = now + 1
    /\ UNCHANGED <<present, conf, edited, cache, job>>

TokenFor(w) ==
    \/ \E c \in Connections : CacheHit(w, c) \/ CacheMiss(w, c)
    \/ Mint(w) \/ ExchangeFails(w) \/ CachePut(w)

Next ==
    \/ \E w \in Workers : TokenFor(w) \/ CallEnds(w)
    \/ \E c \in Connections : Edit(c) \/ DeleteConnection(c) \/ Create(c)
    \/ Restart
    \/ Tick

Spec == Init /\ [][Next]_vars

-----------------------------------------------------------------------------
(* Properties *)

(***************************************************************************)
(* What the leeway is for (token_broker.go:10-12): a bearer does not       *)
(* expire during the call it was handed out for, retries included, whether *)
(* it came from the cache or from a slow exchange.                         *)
(***************************************************************************)
BearerOutlivesCall ==
    \A w \in Workers : job[w].at = "call" => now < job[w].bearer.exp

(***************************************************************************)
(* The comment on TokenBroker's cache key: connections of different        *)
(* namespaces never get each other's bearers, same name or not.            *)
(***************************************************************************)
OwnBearer ==
    \A w \in Workers : job[w].at = "call" => job[w].bearer.conn = job[w].conn

(***************************************************************************)
(* Nothing drops a bearer when its connection changes, but none survives   *)
(* the change by more than its lifetime and the exchange that was under    *)
(* way, in spite of workers that put what they were minted late.           *)
(***************************************************************************)
StaleBearerExpires ==
    \A w \in Workers :
        job[w].at = "call" /\ job[w].bearer.conf # conf[job[w].conn] =>
            now < edited[job[w].conn] + ExchangeTime + Lifetime

(***************************************************************************)
(* The comment on Invalidate (token_broker.go:225-227): it is "called when *)
(* the connection is deleted or its OIDC config changes", so a bearer is   *)
(* never handed out for a configuration other than the one the worker read. *)
(***************************************************************************)
BearerMatchesConfig ==
    \A w \in Workers : job[w].at = "call" => job[w].bearer.conf = job[w].conf
=============================================================================
