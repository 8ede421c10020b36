--------------------------- MODULE CachingProvider ---------------------------
(***************************************************************************)
(* internal/clients/caching_provider.go: the cache of configured ClickHouse*)
(* clients in front of the Terraform provider.  Reconciles of every kind   *)
(* call Configure concurrently; the mutex covers the lookup and the store, *)
(* not the construction and the probe of a client between them.            *)
(*                                                                         *)
(* A client is the record of what matters of it: the configuration it was  *)
(* built for, when, and what its once-only version query remembers.        *)
(***************************************************************************)
EXTENDS Integers, FiniteSets

CONSTANTS Procs,    \* concurrent Configure callers (reconciles)
          Configs,  \* configuration hashes
          TTL,      \* --client-cache-ttl, in clock ticks
          MaxTime,  \* the clock stops here
          MaxFaults \* failed calls to ClickHouse in a behaviour

ASSUME CacheAssumption == TTL \in Nat /\ MaxTime \in Nat /\ MaxFaults \in Nat

Nothing == "nothing"

ASSUME NothingAssumption == Nothing \notin Configs

VARIABLES
  cache,  \* p.cache: hash -> entry, or NoEntry
  pc,     \* where each Configure call is
  req,    \* its hash and the clock it read before taking the lock
  resp,   \* the client it returns, or NoClient
  clock,
  faults  \* faults left
vars == <<cache, pc, req, resp, clock, faults>>

\* memo: what GetVersion's sync.Once remembers, "ok" for no error.
Clients  == [cfg: Configs, born: 0..MaxTime, memo: {"unasked", "ok", "error"}]
Entries  == [client: Clients, createdAt: 0..MaxTime]
NoClient == [cfg |-> Nothing, born |-> 0, memo |-> "unasked"]
NoEntry  == [client |-> NoClient, createdAt |-> 0]
PCs      == {"idle", "lookup", "miss", "probe", "store", "done"}

TypeOK ==
  /\ cache \in [Configs -> Entries \cup {NoEntry}]
  /\ pc \in [Procs -> PCs]
  /\ req \in [Procs -> [cfg: Configs \cup {Nothing}, now: 0..MaxTime]]
  /\ resp \in [Procs -> Clients \cup {NoClient}]
  /\ clock \in 0..MaxTime
  /\ faults \in 0..MaxFaults

NoRequest == [cfg |-> Nothing, now |-> 0]

Init ==
  /\ cache = [c \in Configs |-> NoEntry]
  /\ pc = [p \in Procs |-> "idle"]
  /\ req = [p \in Procs |-> NoRequest]
  /\ resp = [p \in Procs |-> NoClient]
  /\ clock = 0 /\ faults = MaxFaults

Fault    == faults > 0 /\ faults' = faults - 1
Go(p, l) == pc' = [pc EXCEPT ![p] = l]

\* h := configHash(req); now := p.now()
Configure(p, c) ==
  /\ pc[p] = "idle" /\ Go(p, "lookup")
  /\ req' = [req EXCEPT ![p] = [cfg |-> c, now |-> clock]]
  /\ UNCHANGED <<cache, resp, clock, faults>>

\* Mutant: an entry lives a tick less.
ExpiredEarly(entry, now) == now - entry.createdAt >= TTL

Expired(entry, now) == now - entry.createdAt > TTL

\* The cache without its expired entries.
evictExpired(now) ==
  [c \in Configs |-> IF cache[c] # NoEntry /\ Expired(cache[c], now) THEN NoEntry ELSE cache[c]]

\* Under the lock: evict, then hit or miss.
Lookup(p) ==
  LET left == evictExpired(req[p].now)
      hit  == left[req[p].cfg]
  IN
  /\ pc[p] = "lookup"
  /\ cache' = left
  /\ IF hit = NoEntry
       THEN Go(p, "miss") /\ UNCHANGED resp
       ELSE Go(p, "done") /\ resp' = [resp EXCEPT ![p] = hit.client]
  /\ UNCHANGED <<req, clock, faults>>

\* Mutant: a construction that gave no client goes on to the store.
InnerConfigureUnchecked(p) ==
  /\ pc[p] = "miss"
  /\ \/ /\ resp' = [resp EXCEPT ![p] = [cfg |-> req[p].cfg, born |-> clock, memo |-> "unasked"]]
        /\ Go(p, "probe") /\ UNCHANGED faults
     \/ Fault /\ Go(p, "store") /\ UNCHANGED resp
  /\ UNCHANGED <<cache, req, clock>>

\* inner.Configure opens a new connection pool, or reports an error.
InnerConfigure(p) ==
  /\ pc[p] = "miss"
  /\ \/ /\ resp' = [resp EXCEPT ![p] = [cfg |-> req[p].cfg, born |-> clock, memo |-> "unasked"]]
        /\ Go(p, "probe") /\ UNCHANGED faults
     \/ Fault /\ Go(p, "done") /\ UNCHANGED resp
  /\ UNCHANGED <<cache, req, clock>>

\* Mutant: the error of the probe is ignored.
ProbeIgnored(p) ==
  /\ pc[p] = "probe" /\ Go(p, "store")
  /\ \/ resp' = [resp EXCEPT ![p].memo = "ok"] /\ UNCHANGED faults
     \/ resp' = [resp EXCEPT ![p].memo = "error"] /\ Fault
  /\ UNCHANGED <<cache, req, clock>>

\* probeCapabilities asks for the version; a client that failed is returned but
\* not cached.  One that cannot be asked ("ok" too) is cached.
Probe(p) ==
  /\ pc[p] = "probe"
  /\ \/ /\ resp' = [resp EXCEPT ![p].memo = "ok"]
        /\ Go(p, "store") /\ UNCHANGED faults
     \/ /\ resp' = [resp EXCEPT ![p].memo = "error"]
        /\ Go(p, "done") /\ Fault
  /\ UNCHANGED <<cache, req, clock>>

\* Mutant: the entry is dated when it is stored.
StoreDatedNow(p) ==
  /\ pc[p] = "store" /\ Go(p, "done")
  /\ cache' = [cache EXCEPT ![req[p].cfg] = [client |-> resp[p], createdAt |-> clock]]
  /\ UNCHANGED <<req, resp, clock, faults>>

\* Under the lock again, with the clock read at the start.
Store(p) ==
  /\ pc[p] = "store" /\ Go(p, "done")
  /\ cache' = [cache EXCEPT ![req[p].cfg] = [client |-> resp[p], createdAt |-> req[p].now]]
  /\ UNCHANGED <<req, resp, clock, faults>>

\* The reconcile is over; its next Connect configures again.
Release(p) ==
  /\ pc[p] = "done" /\ Go(p, "idle")
  /\ req' = [req EXCEPT ![p] = NoRequest]
  /\ resp' = [resp EXCEPT ![p] = NoClient]
  /\ UNCHANGED <<cache, clock, faults>>

Tick == clock < MaxTime /\ clock' = clock + 1 /\ UNCHANGED <<cache, pc, req, resp, faults>>

Step(p) == \/ \E c \in Configs : Configure(p, c)
           \/ Lookup(p) \/ InnerConfigure(p) \/ Probe(p) \/ Store(p) \/ Release(p)
Next    == Tick \/ \E p \in Procs : Step(p)

\* Every call runs to its end and every reconcile comes back (poll interval).
Spec == Init /\ [][Next]_vars /\ \A p \in Procs : WF_vars(Step(p))

-----------------------------------------------------------------------------
(* Properties.                                                             *)

\* What is cached under a hash is a client of that configuration whose version
\* query has succeeded: the remembered error of a failed one would fail every
\* grant read until the TTL expires (caching_provider.go:93-101).
CachedClientHealthy ==
  \A c \in Configs : cache[c] # NoEntry =>
    cache[c].client.cfg = c /\ cache[c].client.memo = "ok"

\* A Configure returns a client of its own configuration, built at most TTL
\* before that Configure read the clock, however long building, probing and
\* storing it took (caching_provider.go:76, 107, 117).
ServedFresh ==
  \A p \in Procs : pc[p] = "done" /\ resp[p] # NoClient =>
    resp[p].cfg = req[p].cfg /\ req[p].now - resp[p].born <= TTL

\* The calls that are building a client of configuration c.
Building(c) == {p \in Procs : pc[p] \in {"miss", "probe", "store"} /\ req[p].cfg = c}

YoungEntry(c) == cache[c] # NoEntry /\ clock - cache[c].createdAt <= TTL

\* While a client younger than its TTL is cached nobody begins to build another, and
\* it is neither evicted nor replaced, but by a call that had missed before it was
\* stored and loses its claim with that: however stale the clock reading of a call is,
\* and however many miss at once, each call can cost one client, and its connection
\* pool, at most (caching_provider.go:78-86, 104-122).
OnlyMissesReplace ==
  [][\A c \in Configs : YoungEntry(c) =>
       /\ Building(c)' \subseteq Building(c)
       /\ cache'[c] = cache[c]
            \/ \E p \in Building(c) \ Building(c)' : cache'[c].client = resp[p]]_vars

\* Seen from outside every step is one of Serving or none: whoever comes in between,
\* whatever fails and however long it takes, a call is served nothing or a client as
\* good as one built for it, and a remembered failure reaches only the call that saw
\* it (caching_provider.go:74-112).
Promise == INSTANCE Serving WITH
  calls  <- [p \in Procs |-> CASE pc[p] = "idle" -> "idle" [] pc[p] = "done" -> "served"
                                [] OTHER -> "asked"],
  asked  <- req, Nobody <- NoRequest,
  served <- [p \in Procs |-> IF pc[p] = "done" THEN resp[p] ELSE NoClient]
KeepsServing == Promise!Spec

\* Once ClickHouse answers again, every Configure returns a working client: no
\* failure is remembered (caching_provider.go:93-101).
Recovers ==
  <>[](\A p \in Procs : pc[p] = "done" => resp[p] # NoClient /\ resp[p].memo = "ok")
==============================================================================
