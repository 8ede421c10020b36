------------------------ MODULE CachingProviderProofs ------------------------
(***************************************************************************)
(* The safety properties of CachingProvider for any number of callers and  *)
(* configurations, any TTL and any clock range, and that it implements     *)
(* Serving.                                                                *)
(***************************************************************************)
EXTENDS CachingProvider, TLAPS

\* Every request carries a hash of a configuration and a past clock reading.
RequestInv ==
  \A p \in Procs : /\ req[p].now <= clock
                   /\ pc[p] # "idle" => req[p].cfg \in Configs

\* An entry is dated no later than its client was built.
EntryInv ==
  \A c \in Configs : cache[c] # NoEntry =>
    /\ cache[c] \in Entries
    /\ cache[c].client.cfg = c /\ cache[c].client.memo = "ok"
    /\ cache[c].createdAt <= cache[c].client.born

\* A client on its way to the cache was built after its caller read the clock.
ClientInv ==
  \A p \in Procs :
    /\ pc[p] \in {"idle", "lookup", "miss"} => resp[p] = NoClient
    /\ pc[p] \in {"probe", "store"} =>
         /\ resp[p] \in Clients
         /\ resp[p].cfg = req[p].cfg
         /\ req[p].now <= resp[p].born
    /\ pc[p] = "store" => resp[p].memo = "ok"

IInv == TypeOK /\ RequestInv /\ EntryInv /\ ClientInv /\ ServedFresh

LEMMA InitIInv == Init => IInv
  BY CacheAssumption, NothingAssumption
     DEF Init, IInv, TypeOK, RequestInv, EntryInv, ClientInv, ServedFresh, PCs,
         NoRequest, NoClient, NoEntry, Entries, Clients

\* What eviction leaves of each entry.
LEMMA Evicted ==
  ASSUME NEW now, NEW c \in Configs
  PROVE  /\ evictExpired(now)[c] \in {cache[c], NoEntry}
         /\ evictExpired(now)[c] # NoEntry => ~Expired(cache[c], now)
  BY DEF evictExpired

LEMMA LookupIInv ==
  ASSUME IInv, NEW p \in Procs, Lookup(p)
  PROVE  IInv'
<1> DEFINE left == evictExpired(req[p].now)
<1>1. req[p].cfg \in Configs /\ cache' = left
  BY DEF IInv, RequestInv, Lookup
<1>2. cache' \in [Configs -> Entries \cup {NoEntry}]
  BY <1>1 DEF IInv, TypeOK, evictExpired
<1>3. \A c \in Configs : cache'[c] # NoEntry => cache'[c] = cache[c] /\ ~Expired(cache[c], req[p].now)
  BY <1>1, Evicted
<1>4. EntryInv'
  BY <1>3 DEF IInv, EntryInv
<1>5. CASE left[req[p].cfg] = NoEntry
  <2>1. pc' = [pc EXCEPT ![p] = "miss"] /\ UNCHANGED <<req, resp, clock, faults>>
    BY <1>5 DEF Lookup, Go
  <2> QED
    BY <1>2, <1>4, <2>1 DEF IInv, TypeOK, RequestInv, ClientInv, ServedFresh, Lookup, PCs
<1>6. CASE left[req[p].cfg] # NoEntry
  <2> DEFINE hit == cache[req[p].cfg]
  <2>1. /\ pc' = [pc EXCEPT ![p] = "done"]
        /\ resp' = [resp EXCEPT ![p] = hit.client]
        /\ UNCHANGED <<req, clock, faults>>
    BY <1>1, <1>3, <1>6 DEF Lookup, Go
  <2>2. hit \in Entries /\ hit.client.cfg = req[p].cfg /\ hit.createdAt <= hit.client.born
    BY <1>1, <1>3, <1>6 DEF IInv, EntryInv
  <2>3. req[p].now - hit.client.born <= TTL
    BY <1>1, <1>3, <1>6, <2>2, CacheAssumption DEF Expired, Entries, Clients, IInv, TypeOK
  <2> QED
    BY <1>2, <1>4, <2>1, <2>2, <2>3
       DEF IInv, TypeOK, RequestInv, ClientInv, ServedFresh, Lookup, PCs, Entries
<1> QED
  BY <1>5, <1>6

LEMMA ProbeIInv ==
  ASSUME IInv, NEW p \in Procs, Probe(p)
  PROVE  IInv'
<1>1. PICK m \in {"ok", "error"}, l \in {"store", "done"} :
        /\ resp' = [resp EXCEPT ![p].memo = m]
        /\ pc' = [pc EXCEPT ![p] = l]
        /\ l = "store" => m = "ok"
        /\ faults' \in 0..MaxFaults
  BY CacheAssumption DEF Probe, Go, Fault, IInv, TypeOK
<1>2. UNCHANGED <<cache, req, clock>> /\ pc[p] = "probe"
  BY DEF Probe
<1>3. /\ resp[p] \in Clients /\ resp[p].cfg = req[p].cfg /\ req[p].now <= resp[p].born
      /\ resp \in [Procs -> Clients \cup {NoClient}]
  BY <1>2 DEF IInv, ClientInv, TypeOK
<1>4. /\ resp'[p] \in Clients /\ resp'[p].cfg = req[p].cfg /\ resp'[p].memo = m
      /\ resp'[p].born = resp[p].born
      /\ \A q \in Procs \ {p} : resp'[q] = resp[q]
  BY <1>1, <1>3 DEF Clients
<1>5. TypeOK'
  <2>1. resp' \in [Procs -> Clients \cup {NoClient}]
    BY <1>1, <1>3, <1>4
  <2> QED
    BY <1>1, <1>2, <2>1 DEF IInv, TypeOK, PCs
<1>6. RequestInv' /\ EntryInv'
  BY <1>1, <1>2 DEF IInv, TypeOK, RequestInv, EntryInv
<1>7. ClientInv'
  BY <1>1, <1>2, <1>3, <1>4 DEF IInv, TypeOK, ClientInv
<1>8. ServedFresh'
  <2>1. req[p].now - resp[p].born <= TTL
    BY <1>3, CacheAssumption DEF IInv, TypeOK, Clients
  <2> QED
    BY <1>1, <1>2, <1>3, <1>4, <2>1 DEF IInv, TypeOK, ServedFresh
<1> QED
  BY <1>5, <1>6, <1>7, <1>8 DEF IInv

LEMMA NextIInv == IInv /\ [Next]_vars => IInv'
<1> SUFFICES ASSUME IInv, [Next]_vars PROVE IInv'
  OBVIOUS
<1> USE CacheAssumption, NothingAssumption
<1>1. CASE Tick
  BY <1>1 DEF IInv, TypeOK, RequestInv, EntryInv, ClientInv, ServedFresh, Tick, Clients, Entries
<1>2. ASSUME NEW p \in Procs, NEW c \in Configs, Configure(p, c) PROVE IInv'
  BY <1>2 DEF IInv, TypeOK, RequestInv, EntryInv, ClientInv, ServedFresh, Configure, Go, PCs
<1>3. ASSUME NEW p \in Procs, Lookup(p) PROVE IInv'
  BY <1>3, LookupIInv
<1>4. ASSUME NEW p \in Procs, InnerConfigure(p) PROVE IInv'
  BY <1>4 DEF IInv, TypeOK, RequestInv, EntryInv, ClientInv, ServedFresh, InnerConfigure,
              Go, Fault, PCs, Clients
<1>5. ASSUME NEW p \in Procs, Probe(p) PROVE IInv'
  BY <1>5, ProbeIInv
<1>6. ASSUME NEW p \in Procs, Store(p) PROVE IInv'
  BY <1>6 DEF IInv, TypeOK, RequestInv, EntryInv, ClientInv, ServedFresh, Store,
              Go, PCs, Clients, Entries
<1>7. ASSUME NEW p \in Procs, Release(p) PROVE IInv'
  BY <1>7 DEF IInv, TypeOK, RequestInv, EntryInv, ClientInv, ServedFresh, Release,
              Go, PCs, NoRequest
<1>8. CASE UNCHANGED vars
  BY <1>8 DEF IInv, TypeOK, RequestInv, EntryInv, ClientInv, ServedFresh, vars
<1> QED
  BY <1>1, <1>2, <1>3, <1>4, <1>5, <1>6, <1>7, <1>8 DEF Next, Step

LEMMA Inductive == Spec => []IInv
  BY InitIInv, NextIInv, PTL DEF Spec

\* Types hold.
THEOREM TypeCorrect == Spec => []TypeOK
<1>1. IInv => TypeOK
  BY DEF IInv
<1> QED
  BY <1>1, Inductive, PTL

\* No cached client remembers a failed version query or belongs to another
\* configuration.
THEOREM CacheHealthy == Spec => []CachedClientHealthy
<1>1. IInv => CachedClientHealthy
  BY DEF IInv, EntryInv, CachedClientHealthy
<1> QED
  BY <1>1, Inductive, PTL

\* No Configure returns a client older than the TTL or of another configuration.
THEOREM Fresh == Spec => []ServedFresh
<1>1. IInv => ServedFresh
  BY DEF IInv
<1> QED
  BY <1>1, Inductive, PTL

\* A young entry is left by whatever evicts, since no call reads a clock that is ahead.
LEMMA YoungSurvives ==
  ASSUME IInv, NEW p \in Procs, NEW c \in Configs, YoungEntry(c)
  PROVE  evictExpired(req[p].now)[c] = cache[c]
<1>1. cache[c] # NoEntry /\ cache[c].createdAt \in Nat /\ clock - cache[c].createdAt <= TTL
  BY CacheAssumption DEF YoungEntry, IInv, EntryInv, Entries
<1>2. req[p].now <= clock /\ req[p].now \in Nat /\ clock \in Nat
  BY DEF IInv, RequestInv, TypeOK
<1>3. ~Expired(cache[c], req[p].now)
  BY <1>1, <1>2, CacheAssumption DEF Expired
<1>4. QED  BY <1>1, <1>3 DEF evictExpired

\* A call that takes a step stays among those that build, leaves them, or was not and
\* is not one of them.
LEMMA BuildingStep ==
  ASSUME IInv, NEW c \in Configs, NEW p \in Procs, NEW l, Go(p, l),
         \A q \in Procs \ {p} : req'[q] = req[q],
         l \in {"probe", "store"} => p \in Building(c) \/ req'[p].cfg # c,
         l = "miss" => req'[p].cfg # c
  PROVE  Building(c)' \subseteq Building(c)
BY DEF Building, Go, IInv, TypeOK

\* While a client younger than its TTL is cached nobody begins to build another, and
\* only a call that had missed before takes its place, once: for any number of calls
\* and any TTL, 0 included (caching_provider.go:78-86, 104-122).
THEOREM YoungStays == Spec => OnlyMissesReplace
<1> DEFINE Kept == \A c \in Configs : YoungEntry(c) =>
                     /\ Building(c)' \subseteq Building(c)
                     /\ cache'[c] = cache[c]
                          \/ \E p \in Building(c) \ Building(c)' : cache'[c].client = resp[p]
<1>1. IInv /\ [Next]_vars => [Kept]_vars
  <2> SUFFICES ASSUME IInv, Next, NEW c \in Configs, YoungEntry(c)
               PROVE  /\ Building(c)' \subseteq Building(c)
                      /\ cache'[c] = cache[c]
                           \/ \E p \in Building(c) \ Building(c)' : cache'[c].client = resp[p]
    BY DEF vars
  <2>1. CASE Tick
    BY <2>1 DEF Tick, Building
  <2>2. ASSUME NEW p \in Procs, NEW d \in Configs, Configure(p, d)
        PROVE  Building(c)' \subseteq Building(c) /\ cache' = cache
    BY <2>2, BuildingStep DEF Configure
  <2>3. ASSUME NEW p \in Procs, Lookup(p)
        PROVE  Building(c)' \subseteq Building(c) /\ cache'[c] = cache[c]
    <3>1. cache'[c] = cache[c] /\ cache[c] # NoEntry
      BY <2>3, YoungSurvives DEF Lookup, YoungEntry
    <3>2. req' = req /\ ((Go(p, "miss") /\ req[p].cfg # c) \/ Go(p, "done"))
      BY <2>3, <3>1 DEF Lookup
    <3>3. QED  BY <3>1, <3>2, BuildingStep
  <2>4. ASSUME NEW p \in Procs, InnerConfigure(p) \/ Probe(p) \/ Release(p)
        PROVE  Building(c)' \subseteq Building(c) /\ cache' = cache
    <3>1. cache' = cache /\ \A q \in Procs \ {p} : req'[q] = req[q]
      BY <2>4 DEF InnerConfigure, Probe, Release, IInv, TypeOK
    <3>2. \/ pc[p] \in {"miss", "probe"} /\ req' = req /\ \E l \in {"probe", "store", "done"} : Go(p, l)
          \/ Go(p, "idle")
      BY <2>4 DEF InnerConfigure, Probe, Release
    <3>3. CASE Go(p, "idle")
      BY <3>1, <3>3, BuildingStep
    <3>4. ASSUME pc[p] \in {"miss", "probe"}, req' = req,
                 NEW l \in {"probe", "store", "done"}, Go(p, l)
          PROVE  Building(c)' \subseteq Building(c)
      <4>1. p \in Building(c) \/ req'[p].cfg # c
        BY <3>4 DEF Building
      <4>2. QED  BY <3>4, <4>1, BuildingStep
    <3>5. QED  BY <3>1, <3>2, <3>3, <3>4
  <2>5. ASSUME NEW p \in Procs, Store(p)
        PROVE  /\ Building(c)' \subseteq Building(c)
               /\ cache'[c] = cache[c]
                    \/ \E q \in Building(c) \ Building(c)' : cache'[c].client = resp[q]
    <3>1. Building(c)' \subseteq Building(c)
      BY <2>5, BuildingStep DEF Store
    <3>2. CASE req[p].cfg # c
      BY <2>5, <3>1, <3>2 DEF Store, IInv, TypeOK
    <3>3. CASE req[p].cfg = c
      <4>1. p \in Building(c) /\ p \notin Building(c)'
        BY <2>5, <3>3 DEF Store, Building, Go, IInv, TypeOK
      <4>2. cache'[c].client = resp[p]
        BY <2>5, <3>3 DEF Store, IInv, TypeOK
      <4>3. QED  BY <3>1, <4>1, <4>2
    <3>4. QED  BY <3>2, <3>3
  <2>6. QED
    BY <2>1, <2>2, <2>3, <2>4, <2>5 DEF Next, Step, Tick
<1> QED
  BY <1>1, Inductive, PTL DEF Spec, OnlyMissesReplace

-----------------------------------------------------------------------------
(* The refinement of Serving: what each step is, seen from outside.        *)

\* No client was built in the future.
BornInv ==
  /\ \A c \in Configs : cache[c].client.born <= clock
  /\ \A p \in Procs : resp[p].born <= clock

LEMMA BornInit == Init => BornInv
BY DEF Init, BornInv, NoEntry, NoClient

LEMMA BornNext == IInv /\ BornInv /\ [Next]_vars => BornInv'
<1> SUFFICES ASSUME IInv, BornInv, [Next]_vars  PROVE BornInv'
  OBVIOUS
<1> USE DEF BornInv
<1>1. /\ clock \in Nat /\ NoClient.born = 0 /\ NoEntry.client.born = 0
      /\ cache \in [Configs -> Entries \cup {NoEntry}]
      /\ resp \in [Procs -> Clients \cup {NoClient}]
      /\ \A c \in Configs : cache[c].client.born \in Nat
      /\ \A p \in Procs : resp[p].born \in Nat
  <2>1. \A x \in Clients \cup {NoClient} : x.born \in Nat
    BY CacheAssumption DEF Clients, NoClient
  <2>2. \A x \in Entries \cup {NoEntry} : x.client \in Clients \cup {NoClient}
    BY DEF Entries, NoEntry
  <2>3. QED  BY <2>1, <2>2, CacheAssumption DEF IInv, TypeOK, NoClient, NoEntry
<1>2. CASE Tick
  BY <1>1, <1>2 DEF Tick
<1>3. ASSUME NEW p \in Procs, Lookup(p)  PROVE BornInv'
  <2>1. UNCHANGED clock /\ cache' = evictExpired(req[p].now) /\ req[p].cfg \in Configs
    BY <1>3 DEF Lookup, IInv, RequestInv
  <2>2. \A c \in Configs : cache'[c].client.born <= clock
    BY <1>1, <2>1, Evicted
  <2>3. resp' = resp \/ resp' = [resp EXCEPT ![p] = cache'[req[p].cfg].client]
    BY <1>3, <2>1 DEF Lookup
  <2>4. QED  BY <1>1, <2>1, <2>2, <2>3
<1>4. ASSUME NEW p \in Procs, InnerConfigure(p)  PROVE BornInv'
  BY <1>1, <1>4 DEF InnerConfigure
<1>5. ASSUME NEW p \in Procs, Probe(p)  PROVE BornInv'
  <2>1. PICK m : resp' = [resp EXCEPT ![p].memo = m]
    BY <1>5 DEF Probe
  <2>2. resp[p] \in Clients /\ UNCHANGED <<cache, clock>>
    BY <1>5 DEF Probe, IInv, ClientInv
  <2>3. resp'[p].born = resp[p].born
    BY <1>1, <2>1, <2>2 DEF Clients
  <2>4. QED  BY <1>1, <2>1, <2>2, <2>3
<1>6. ASSUME NEW p \in Procs, Store(p)  PROVE BornInv'
  BY <1>1, <1>6 DEF Store
<1>7. ASSUME NEW p \in Procs, Release(p)  PROVE BornInv'
  BY <1>1, <1>7 DEF Release
<1>8. CASE UNCHANGED <<cache, resp, clock>>
  BY <1>8
<1>9. QED
  BY <1>2, <1>3, <1>4, <1>5, <1>6, <1>7, <1>8 DEF Next, Step, Configure, vars

Underway == {"lookup", "miss", "probe", "store"}

\* What a call does before it returns is not seen.
LEMMA Hidden ==
  ASSUME IInv, NEW p \in Procs, NEW l \in Underway, pc[p] \in Underway, Go(p, l),
         \A q \in Procs \ {p} : resp'[q] = resp[q], UNCHANGED <<req, clock>>
  PROVE  UNCHANGED Promise!vars
<1>1. \A q \in Procs : pc'[q] = IF q = p THEN l ELSE pc[q]
  BY DEF IInv, TypeOK, Go
<1>2. QED  BY <1>1 DEF Promise!vars, Underway

\* What it returns is seen, and acceptable.
LEMMA Returned ==
  ASSUME IInv, NEW p \in Procs, pc[p] \in Underway, Go(p, "done"),
         resp'[p] \in {NoClient} \cup Promise!Working(req[p]) \cup Promise!Failing(req[p]),
         \A q \in Procs \ {p} : resp'[q] = resp[q], UNCHANGED <<req, clock>>
  PROVE  Promise!Serve(p)
<1>1. \A q \in Procs : pc'[q] = IF q = p THEN "done" ELSE pc[q]
  BY DEF IInv, TypeOK, Go
<1>2. QED  BY <1>1 DEF Promise!Serve, Underway

\* A client with a working memory, no older than TTL; one that failed, built meanwhile.
LEMMA GoodClient ==
  ASSUME IInv, NEW p \in Procs, NEW x \in Clients, x.cfg = req[p].cfg, x.born <= clock,
         \/ x.memo = "ok" /\ req[p].now - x.born <= TTL
         \/ x.memo = "error" /\ req[p].now <= x.born
  PROVE  x \in Promise!Working(req[p]) \cup Promise!Failing(req[p])
<1>1. req[p].now \in Nat /\ clock \in Nat /\ x.born \in Nat
  BY CacheAssumption DEF IInv, TypeOK, Clients
<1>2. x = [cfg |-> x.cfg, born |-> x.born, memo |-> x.memo]
  BY DEF Clients
<1>3. \/ x.memo = "ok" /\ x.born \in (req[p].now - TTL)..clock
      \/ x.memo = "error" /\ x.born \in req[p].now..clock
  BY <1>1, CacheAssumption
<1>4. QED  BY <1>2, <1>3 DEF Promise!Working, Promise!Failing

LEMMA PromiseLookup ==
  ASSUME IInv, BornInv, NEW p \in Procs, Lookup(p)
  PROVE  [Promise!Next]_(Promise!vars)
<1>1. /\ UNCHANGED <<req, clock>> /\ pc[p] = "lookup" /\ req[p].cfg \in Configs
      /\ cache' = evictExpired(req[p].now)
  BY DEF Lookup, IInv, RequestInv
<1>2. CASE Go(p, "miss") /\ UNCHANGED resp
  BY <1>1, <1>2, Hidden DEF Underway
<1>3. CASE /\ evictExpired(req[p].now)[req[p].cfg] # NoEntry /\ Go(p, "done")
           /\ resp' = [resp EXCEPT ![p] = evictExpired(req[p].now)[req[p].cfg].client]
  <2> DEFINE hit == cache[req[p].cfg]
  <2>1. /\ hit # NoEntry /\ ~Expired(hit, req[p].now)
        /\ resp' = [resp EXCEPT ![p] = hit.client]
    BY <1>1, <1>3, Evicted
  <2>2. /\ hit.client \in Clients /\ hit.client.cfg = req[p].cfg /\ hit.client.memo = "ok"
        /\ hit.createdAt <= hit.client.born /\ hit.createdAt \in Nat /\ hit.client.born \in Nat
        /\ hit.client.born <= clock
    BY <1>1, <2>1, CacheAssumption DEF IInv, EntryInv, Entries, Clients, BornInv
  <2>3. req[p].now - hit.client.born <= TTL
    BY <2>1, <2>2, CacheAssumption DEF Expired, IInv, TypeOK
  <2>4. hit.client \in Promise!Working(req[p]) \cup Promise!Failing(req[p])
    BY <2>2, <2>3, GoodClient
  <2>5. resp'[p] = hit.client /\ \A q \in Procs \ {p} : resp'[q] = resp[q]
    BY <2>1 DEF IInv, TypeOK
  <2>6. Promise!Serve(p)
    BY <1>1, <1>3, <2>4, <2>5, Returned DEF Underway
  <2>7. QED  BY <2>6 DEF Promise!Next
<1>4. QED  BY <1>2, <1>3 DEF Lookup

LEMMA PromiseProbe ==
  ASSUME IInv, BornInv, NEW p \in Procs, Probe(p)
  PROVE  [Promise!Next]_(Promise!vars)
<1>1. /\ UNCHANGED <<req, clock>> /\ pc[p] = "probe" /\ resp[p] \in Clients
      /\ resp[p].cfg = req[p].cfg /\ req[p].now <= resp[p].born /\ resp[p].born <= clock
  BY DEF Probe, IInv, ClientInv, BornInv
<1>2. PICK m \in {"ok", "error"} :
        /\ resp' = [resp EXCEPT ![p].memo = m]
        /\ \/ m = "ok" /\ Go(p, "store")
           \/ m = "error" /\ Go(p, "done")
  BY DEF Probe
<1>3. resp \in [Procs -> Clients \cup {NoClient}]
  BY DEF IInv, TypeOK
<1>4. /\ \A q \in Procs \ {p} : resp'[q] = resp[q]
      /\ resp'[p] \in Clients /\ resp'[p].memo = m
      /\ resp'[p].cfg = resp[p].cfg /\ resp'[p].born = resp[p].born
  BY <1>1, <1>2, <1>3 DEF Clients
<1>5. CASE Go(p, "store")
  BY <1>1, <1>4, <1>5, Hidden DEF Underway
<1>6. CASE m = "error" /\ Go(p, "done")
  <2>1. resp'[p] \in Promise!Working(req[p]) \cup Promise!Failing(req[p])
    BY <1>1, <1>4, <1>6, GoodClient
  <2>2. Promise!Serve(p)
    BY <1>1, <1>4, <1>6, <2>1, Returned DEF Underway
  <2>3. QED  BY <2>2 DEF Promise!Next
<1>7. QED  BY <1>2, <1>5, <1>6

LEMMA PromiseStore ==
  ASSUME IInv, BornInv, NEW p \in Procs, Store(p)  PROVE Promise!Serve(p)
<1>1. /\ UNCHANGED <<req, resp, clock>> /\ pc[p] = "store" /\ Go(p, "done")
      /\ resp[p] \in Clients /\ resp[p].cfg = req[p].cfg /\ resp[p].memo = "ok"
      /\ req[p].now <= resp[p].born /\ resp[p].born <= clock
  BY DEF Store, IInv, ClientInv, BornInv
<1>2. req[p].now - resp[p].born <= TTL
  BY <1>1, CacheAssumption DEF IInv, TypeOK, Clients
<1>3. resp'[p] \in Promise!Working(req[p]) \cup Promise!Failing(req[p])
  BY <1>1, <1>2, GoodClient
<1>4. QED  BY <1>1, <1>3, Returned DEF Underway

LEMMA PromiseNext ==
  ASSUME IInv, BornInv, [Next]_vars  PROVE [Promise!Next]_(Promise!vars)
<1>1. /\ pc \in [Procs -> PCs] /\ req \in [Procs -> [cfg: Configs \cup {Nothing}, now: 0..MaxTime]]
      /\ resp \in [Procs -> Clients \cup {NoClient}]
  BY DEF IInv, TypeOK
<1>2. CASE Tick
  BY <1>2 DEF Tick, Promise!Tick, Promise!Next
<1>3. ASSUME NEW p \in Procs, NEW c \in Configs, Configure(p, c)  PROVE Promise!Ask(p)
  <2>1. \A q \in Procs : pc'[q] = IF q = p THEN "lookup" ELSE pc[q]
    BY <1>1, <1>3 DEF Configure, Go
  <2>2. QED  BY <1>3, <2>1 DEF Configure, Promise!Ask
<1>4. ASSUME NEW p \in Procs, InnerConfigure(p)  PROVE [Promise!Next]_(Promise!vars)
  <2>1. /\ pc[p] = "miss" /\ resp[p] = NoClient /\ UNCHANGED <<req, clock>>
        /\ \A q \in Procs \ {p} : resp'[q] = resp[q]
    BY <1>1, <1>4 DEF InnerConfigure, IInv, ClientInv
  <2>2. CASE Go(p, "probe")
    BY <2>1, <2>2, Hidden DEF Underway
  <2>3. CASE Go(p, "done") /\ UNCHANGED resp
    BY <2>1, <2>3, Returned DEF Underway, Promise!Next
  <2>4. QED  BY <1>4, <2>2, <2>3 DEF InnerConfigure
<1>5. ASSUME NEW p \in Procs, Release(p)  PROVE Promise!Release(p)
  <2>1. \A q \in Procs : pc'[q] = IF q = p THEN "idle" ELSE pc[q]
    BY <1>1, <1>5 DEF Release, Go
  <2>2. \A q \in Procs \ {p} : resp'[q] = resp[q]
    BY <1>1, <1>5 DEF Release
  <2>3. QED  BY <1>5, <2>1, <2>2 DEF Release, Promise!Release
<1>6. CASE UNCHANGED vars
  BY <1>6 DEF vars, Promise!vars
<1>7. QED
  BY <1>2, <1>3, <1>4, <1>5, <1>6, PromiseLookup, PromiseProbe, PromiseStore
  DEF Next, Step, Promise!Next

\* Whoever comes in between, whatever fails and however long building, probing and
\* storing take, a Configure is served nothing or a client as good as one built for
\* it, and a remembered failure reaches only the call that saw it
\* (caching_provider.go:74-112).
THEOREM ImplementsServing == Spec => KeepsServing
<1>1. Init => Promise!Init
  BY DEF Init, Promise!Init
<1>2. IInv /\ BornInv /\ [Next]_vars => [Promise!Next]_(Promise!vars)
  BY PromiseNext
<1>3. QED
  BY <1>1, <1>2, BornInit, BornNext, Inductive, PTL DEF Spec, KeepsServing, Promise!Spec
==============================================================================
