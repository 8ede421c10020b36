------------------------------ MODULE Serving ------------------------------
(***************************************************************************)
(* What a Configure call promises (caching_provider.go): each caller asks  *)
(* for a configuration and is served a client as good as one built for it. *)
(* The cache, its lock, eviction and the probe are not visible here:       *)
(* CachingProvider implements this.                                        *)
(***************************************************************************)
EXTENDS Integers

CONSTANTS Procs, Configs, TTL,
          Nobody, \* the request of a caller that asks for nothing
          NoClient

VARIABLES
  calls,  \* of each caller: "idle", "asked" or "served"
  asked,  \* the configuration it asks for, and when it began
  served, \* the client it was served, or NoClient
  clock
vars == <<calls, asked, served, clock>>

Init ==
  /\ calls = [p \in Procs |-> "idle"] /\ asked = [p \in Procs |-> Nobody]
  /\ served = [p \in Procs |-> NoClient] /\ clock = 0

Tick == clock' = clock + 1 /\ UNCHANGED <<calls, asked, served>>

Ask(p) ==
  /\ calls[p] = "idle" /\ calls' = [calls EXCEPT ![p] = "asked"]
  /\ \E c \in Configs : asked' = [asked EXCEPT ![p] = [cfg |-> c, now |-> clock]]
  /\ UNCHANGED <<served, clock>>

\* A client of the configuration, at most TTL older than the call.  One that
\* remembers a failure was built during the call, which is the one that saw it fail.
Working(req) == [cfg: {req.cfg}, born: (req.now - TTL)..clock, memo: {"ok"}]
Failing(req) == [cfg: {req.cfg}, born: req.now..clock, memo: {"error"}]

Serve(p) ==
  /\ calls[p] = "asked" /\ calls' = [calls EXCEPT ![p] = "served"]
  /\ \E client \in {NoClient} \cup Working(asked[p]) \cup Failing(asked[p]) :
       served' = [served EXCEPT ![p] = client]
  /\ UNCHANGED <<asked, clock>>

Release(p) ==
  /\ calls[p] = "served" /\ calls' = [calls EXCEPT ![p] = "idle"]
  /\ asked' = [asked EXCEPT ![p] = Nobody] /\ served' = [served EXCEPT ![p] = NoClient]
  /\ UNCHANGED clock

Next == Tick \/ \E p \in Procs : Ask(p) \/ Serve(p) \/ Release(p)

Spec == Init /\ [][Next]_vars
=============================================================================
