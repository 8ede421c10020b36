------------------------ MODULE ProviderConfigsProofs ------------------------
(***************************************************************************)
(* The safety properties of ProviderConfigs for any namespaces, MRs and    *)
(* credentials, and any number of edits, deletions and failed calls.       *)
(***************************************************************************)
EXTENDS ProviderConfigs, TLAPS

\* A reconcile resolves the config of its MR's own scope or the cluster-wide
\* one, and reads a secret only once it has the config.
ResolvedInv ==
  \A m \in MRs : /\ at[m].pc # "idle" => at[m].config \in {m, ClusterWide}
                 /\ at[m].pc \in {"track", "dial"} => at[m].secret \in Namespaces

\* A reconcile that dials has a usage of its config.
DialInv ==
  \A m \in MRs : mr[m].phase # "gone" /\ at[m].pc = "dial" => usage[m] = at[m].config

\* So has an MR of the config it has connected through, if it resolved no other since.
UsedInv ==
  \A m \in MRs : mr[m].phase # "gone" /\ mr[m].used \in Configs => usage[m] = mr[m].used

IInv == TypeOK /\ ResolvedInv /\ DialInv /\ UsedInv

-----------------------------------------------------------------------------
LEMMA NoConfig == /\ None \notin Configs /\ Other \notin Configs
                  /\ \A m \in MRs : m \in Configs
                  /\ ClusterWide \in Configs
  BY ProviderConfigsAssumption DEF Configs, None, Other, Legacy, ClusterWide

\* A config is the cluster-wide one or that of the MR.
LEMMA ConfigOfScope ==
  ASSUME NEW m \in MRs
  PROVE  ConfigOf(m) \in {m, ClusterWide}
  BY DEF ConfigOf

\* Whichever config was resolved, its secret is in a namespace.
LEMMA SecretInNamespace ==
  ASSUME IInv, NEW m \in MRs, at[m].pc = "get"
  PROVE  SecretNamespace(m) \in Namespaces
<1>1. at[m].config \in {m, ClusterWide} /\ at[m].config \in Configs
  BY NoConfig DEF IInv, ResolvedInv
<1>2. CASE at[m].config \in Namespaces
  BY <1>1, <1>2, ProviderConfigsAssumption DEF SecretNamespace
<1>3. CASE at[m].config \notin Namespaces
  BY <1>1, <1>3 DEF SecretNamespace, IInv, TypeOK
<1> QED
  BY <1>2, <1>3

LEMMA IdleTyped == Idle \in Reconciles
  BY DEF Idle, Reconciles

\* An event is one of those left.
LEMMA EventTyped ==
  ASSUME IInv, Event
  PROVE  events' \in 0..MaxEvents
  BY ProviderConfigsAssumption DEF Event, IInv, TypeOK

\* A step of an MR's reconcile that changes neither MR nor usage.
LEMMA ReconcileStep ==
  ASSUME IInv, NEW m \in MRs, NEW r \in Reconciles,
         at' = [at EXCEPT ![m] = r], UNCHANGED <<mr, config, secrets, usage>>,
         events' \in 0..MaxEvents, r.pc # "dial",
         r.pc # "idle" => r.config \in {m, ClusterWide},
         r.pc = "track" => r.secret \in Namespaces
  PROVE  IInv'
<1>1. TypeOK'
  BY DEF IInv, TypeOK
<1>2. /\ at'[m] = r /\ \A k \in MRs : k # m => at'[k] = at[k]
  BY DEF IInv, TypeOK
<1>3. r.pc \in {"idle", "get", "track"}
  BY DEF Reconciles
<1> QED
  BY <1>1, <1>2, <1>3 DEF IInv, ResolvedInv, DialInv, UsedInv

\* It is such a step that gets a config, and that found one and a secret to read.
LEMMA GoesIInv ==
  ASSUME IInv, NEW m \in MRs, NEW pc \in {"get", "track"}, NEW stage \in {"lookup", "connect"},
         NEW c \in {m, ClusterWide}, NEW secret \in Namespaces \cup {None},
         Goes(m, pc, stage, c, secret), pc = "track" => secret \in Namespaces,
         UNCHANGED <<mr, config, secrets, usage, events>>
  PROVE  IInv'
<1> DEFINE r == [pc |-> pc, stage |-> stage, config |-> c, secret |-> secret]
<1>1. r \in Reconciles
  BY NoConfig DEF Reconciles
<1>2. r.pc = pc /\ r.config = c /\ r.secret = secret /\ r.pc # "dial"
  OBVIOUS
<1>3. at' = [at EXCEPT ![m] = r] /\ events' \in 0..MaxEvents
  BY DEF Goes, IInv, TypeOK
<1> HIDE DEF r
<1> QED
  BY <1>1, <1>2, <1>3, ReconcileStep

\* A failed reconcile starts over.
LEMMA FailIInv ==
  ASSUME IInv, NEW m \in MRs, Fail(m), UNCHANGED <<mr, config, secrets, usage>>,
         events' \in 0..MaxEvents
  PROVE  IInv'
<1>1. Idle.pc = "idle"
  BY DEF Idle
<1> QED
  BY <1>1, IdleTyped, ReconcileStep DEF Fail

LEMMA InitIInv == Init => IInv
<1> SUFFICES ASSUME Init PROVE IInv
  OBVIOUS
<1>1. TypeOK
  BY NoConfig, IdleTyped, ProviderConfigsAssumption DEF Init, TypeOK, MRStates, Phases
<1>2. ResolvedInv /\ DialInv /\ UsedInv
  BY NoConfig DEF Init, ResolvedInv, DialInv, UsedInv, Idle
<1> QED
  BY <1>1, <1>2 DEF IInv

-----------------------------------------------------------------------------
(* The steps of an MR's reconcile.                                         *)

LEMMA StartIInv ==
  ASSUME IInv, NEW m \in MRs, Start(m)
  PROVE  IInv'
<1> DEFINE s == IF mr[m].used = None THEN "lookup" ELSE "connect"
<1>1. s \in {"lookup", "connect"} /\ ConfigOf(m) \in {m, ClusterWide}
  BY ConfigOfScope
<1>2. Goes(m, "get", s, ConfigOf(m), None) /\ UNCHANGED <<mr, config, secrets, usage, events>>
  BY DEF Start
<1> HIDE DEF s
<1> QED
  BY <1>1, <1>2, GoesIInv

LEMMA GetConfigIInv ==
  ASSUME IInv, NEW m \in MRs, GetConfig(m)
  PROVE  IInv'
<1>1. SecretNamespace(m) \in Namespaces
  BY SecretInNamespace DEF GetConfig
<1>2. UNCHANGED <<mr, config, secrets, usage, events>> /\ events' \in 0..MaxEvents
  BY DEF GetConfig, IInv, TypeOK
<1>3. CASE Goes(m, "track", at[m].stage, at[m].config, SecretNamespace(m))
  <2>1. at[m].stage \in {"lookup", "connect"} /\ at[m].config \in {m, ClusterWide}
    BY DEF IInv, TypeOK, Reconciles, ResolvedInv, GetConfig
  <2> QED
    BY <1>1, <1>2, <1>3, <2>1, GoesIInv
<1>4. CASE Fail(m)
  BY <1>2, <1>4, FailIInv
<1> QED
  BY <1>3, <1>4 DEF GetConfig

LEMMA TrackIInv ==
  ASSUME IInv, NEW m \in MRs, Track(m)
  PROVE  IInv'
<1>1. at[m].pc = "track" /\ UNCHANGED <<config, secrets>>
  BY DEF Track
<1>2. CASE /\ Tracks(m) /\ at' = [at EXCEPT ![m].pc = "dial"]
           /\ mr' = [mr EXCEPT ![m].used = IF @ \in {None, at[m].config} THEN @ ELSE Other]
           /\ UNCHANGED events
  <2>1. at[m].config \in {m, ClusterWide} /\ at[m].config \in Configs
        /\ at[m].secret \in Namespaces
    BY <1>1, NoConfig DEF IInv, ResolvedInv
  <2>2. /\ at'[m].pc = "dial" /\ at'[m].config = at[m].config /\ at'[m].secret = at[m].secret
        /\ at' \in [MRs -> Reconciles]
        /\ \A k \in MRs : k # m => at'[k] = at[k]
    BY <1>2 DEF IInv, TypeOK, Reconciles
  <2>3. /\ mr'[m].phase = mr[m].phase
        /\ mr'[m].used \in {None, at[m].config, Other}
        /\ mr' \in [MRs -> MRStates]
        /\ \A k \in MRs : k # m => mr'[k] = mr[k]
    BY <1>2 DEF IInv, TypeOK, MRStates
  <2>4. /\ usage' \in [MRs -> Configs \cup {None}] /\ usage'[m] = at[m].config
        /\ \A k \in MRs : k # m => usage'[k] = usage[k]
    BY <1>2, <2>1 DEF IInv, TypeOK, Tracks
  <2>5. TypeOK'
    BY <1>1, <1>2, <2>2, <2>3, <2>4 DEF IInv, TypeOK
  <2>6. ResolvedInv' /\ DialInv'
    BY <2>1, <2>2, <2>3, <2>4 DEF IInv, ResolvedInv, DialInv
  <2>7. UsedInv'
    BY <2>3, <2>4, NoConfig DEF IInv, UsedInv
  <2> QED
    BY <2>5, <2>6, <2>7 DEF IInv
<1>3. CASE Event /\ Fail(m) /\ UNCHANGED <<mr, usage>>
  BY <1>1, <1>3, EventTyped, FailIInv
<1> QED
  BY <1>2, <1>3 DEF Track

LEMMA LookupIInv ==
  ASSUME IInv, NEW m \in MRs, Lookup(m)
  PROVE  IInv'
<1>1. UNCHANGED <<mr, config, secrets, usage, events>> /\ events' \in 0..MaxEvents
  BY DEF Lookup, IInv, TypeOK
<1>2. at[m].config \in {m, ClusterWide}
  BY DEF IInv, ResolvedInv, Lookup
<1>3. CASE Goes(m, "get", "connect", at[m].config, None)
  BY <1>1, <1>2, <1>3, GoesIInv
<1>4. CASE Fail(m)
  BY <1>1, <1>4, FailIInv
<1> QED
  BY <1>3, <1>4 DEF Lookup

LEMMA ConnectIInv ==
  ASSUME IInv, NEW m \in MRs, Connect(m)
  PROVE  IInv'
<1>1. at[m].pc = "dial" /\ Fail(m) /\ UNCHANGED <<config, secrets, usage, events>>
  BY DEF Connect
<1>2. at' \in [MRs -> Reconciles] /\ events' \in 0..MaxEvents
  BY <1>1, IdleTyped DEF IInv, TypeOK, Fail
<1>3. at'[m].pc = "idle" /\ \A k \in MRs : k # m => at'[k] = at[k]
  BY <1>1 DEF IInv, TypeOK, Fail, Idle
<1>4. CASE mr' = mr
  BY <1>1, <1>2, <1>4, FailIInv
<1>5. CASE mr[m].phase = "live" /\ mr' = [mr EXCEPT ![m].used = at[m].config]
  <2>1. usage[m] = at[m].config /\ at[m].config \in Configs
    BY <1>1, <1>5, NoConfig DEF IInv, DialInv, ResolvedInv
  <2>2. /\ mr' \in [MRs -> MRStates] /\ mr'[m].used = at[m].config
        /\ \A k \in MRs : k # m => mr'[k] = mr[k]
    BY <1>5, <2>1 DEF IInv, TypeOK, MRStates
  <2>3. TypeOK'
    BY <1>1, <1>2, <2>2 DEF IInv, TypeOK
  <2> QED
    BY <1>1, <1>3, <2>1, <2>2, <2>3 DEF IInv, ResolvedInv, DialInv, UsedInv
<1>6. CASE mr' = [mr EXCEPT ![m].phase = "gone"]
  <2>1. /\ mr' \in [MRs -> MRStates] /\ mr'[m].phase = "gone"
        /\ \A k \in MRs : k # m => mr'[k] = mr[k]
    BY <1>6 DEF IInv, TypeOK, MRStates, Phases
  <2>2. TypeOK'
    BY <1>1, <1>2, <2>1 DEF IInv, TypeOK
  <2> QED
    BY <1>1, <1>3, <2>1, <2>2 DEF IInv, ResolvedInv, DialInv, UsedInv
<1> QED
  BY <1>4, <1>5, <1>6 DEF Connect

-----------------------------------------------------------------------------
(* The steps of the others.                                                *)

LEMMA CollectUsageIInv ==
  ASSUME IInv, NEW m \in MRs, CollectUsage(m)
  PROVE  IInv'
<1>1. TypeOK'
  BY DEF IInv, TypeOK, CollectUsage
<1> QED
  BY <1>1 DEF IInv, TypeOK, ResolvedInv, DialInv, UsedInv, CollectUsage

LEMMA DeleteMRIInv ==
  ASSUME IInv, NEW m \in MRs, DeleteMR(m)
  PROVE  IInv'
<1>1. /\ mr[m].phase = "live" /\ mr' \in [MRs -> MRStates] /\ mr'[m].used = mr[m].used
      /\ \A k \in MRs : k # m => mr'[k] = mr[k]
  BY DEF IInv, TypeOK, DeleteMR, MRStates, Phases
<1>2. UNCHANGED <<config, secrets, usage, at, events>>
  BY DEF DeleteMR
<1>3. TypeOK'
  BY <1>1, <1>2 DEF IInv, TypeOK
<1> QED
  BY <1>1, <1>2, <1>3 DEF IInv, ResolvedInv, DialInv, UsedInv

LEMMA SwitchConfigIInv ==
  ASSUME IInv, NEW m \in MRs, SwitchConfig(m)
  PROVE  IInv'
<1>1. /\ mr' \in [MRs -> MRStates] /\ mr'[m].used = mr[m].used /\ mr'[m].phase = mr[m].phase
      /\ \A k \in MRs : k # m => mr'[k] = mr[k]
  BY DEF IInv, TypeOK, SwitchConfig, MRStates
<1>2. UNCHANGED <<config, secrets, usage, at>> /\ events' \in 0..MaxEvents
  BY EventTyped DEF SwitchConfig
<1>3. TypeOK'
  BY <1>1, <1>2 DEF IInv, TypeOK
<1> QED
  BY <1>1, <1>2, <1>3 DEF IInv, ResolvedInv, DialInv, UsedInv

\* What changes neither an MR, its usage nor its reconcile.
LEMMA OthersIInv ==
  ASSUME IInv, TypeOK', UNCHANGED <<mr, usage, at>>
  PROVE  IInv'
  BY DEF IInv, ResolvedInv, DialInv, UsedInv

LEMMA NextIInv == IInv /\ [Next]_vars => IInv'
<1> SUFFICES ASSUME IInv, [Next]_vars PROVE IInv'
  OBVIOUS
<1>1. ASSUME NEW m \in MRs, Reconcile(m) PROVE IInv'
  BY <1>1, StartIInv, GetConfigIInv, TrackIInv, LookupIInv, ConnectIInv DEF Reconcile
<1>2. ASSUME NEW c \in Configs, ReconcileConfig(c) PROVE IInv'
  <2>1. TypeOK'
    BY <1>2 DEF IInv, TypeOK, ReconcileConfig, Phases
  <2> QED
    BY <1>2, <2>1, OthersIInv DEF ReconcileConfig
<1>3. ASSUME NEW c \in Configs, DeleteConfig(c) PROVE IInv'
  <2>1. TypeOK'
    BY <1>3, EventTyped DEF IInv, TypeOK, DeleteConfig, Phases
  <2> QED
    BY <1>3, <2>1, OthersIInv DEF DeleteConfig
<1>4. ASSUME NEW n \in Namespaces, EditSecret(n) PROVE IInv'
  <2>1. TypeOK'
    BY <1>4, EventTyped DEF IInv, TypeOK, EditSecret
  <2> QED
    BY <1>4, <2>1, OthersIInv DEF EditSecret
<1>5. CASE UNCHANGED vars
  <2>1. TypeOK'
    BY <1>5 DEF IInv, TypeOK, vars
  <2> QED
    BY <1>5, <2>1, OthersIInv DEF vars
<1> QED
  BY <1>1, <1>2, <1>3, <1>4, <1>5, CollectUsageIInv, DeleteMRIInv, SwitchConfigIInv
     DEF Next, AllGone

LEMMA Invariant == Spec => []IInv
  BY InitIInv, NextIInv, PTL DEF Spec

-----------------------------------------------------------------------------
\* Every variable has its type, in particular no config is resolved to a secret
\* outside the namespaces: clients.go:194-206.
THEOREM TypeCorrect == Spec => []TypeOK
<1>1. IInv => TypeOK
  BY DEF IInv
<1> QED
  BY <1>1, Invariant, PTL

\* A port that parses is the given one up to a fraction; none wraps around in
\* its sixteen bits: clients.go:72-94.
LEMMA PortGiven ==
  ASSUME NEW v, v.tenths \in Int, parsePort(v) # 0
  PROVE  v.tenths - 10 * parsePort(v) \in 0..9
  BY DEF parsePort

\* The lookup dials the port that the credentials give, whatever they hold.
THEOREM PortsGiven == Spec => []DialsGivenPort
<1>1. IInv => DialsGivenPort
  <2> SUFFICES ASSUME IInv, NEW m \in MRs, at[m].pc = "dial",
                      parsePort(secrets[at[m].secret].port) # 0
               PROVE  secrets[at[m].secret].port.tenths
                        - 10 * parsePort(secrets[at[m].secret].port) \in 0..9
    BY DEF DialsGivenPort
  <2>1. secrets[at[m].secret] \in Credentials \cup {NoCredentials}
    BY DEF IInv, TypeOK, ResolvedInv
  <2>2. \A creds \in Credentials : creds.port.tenths \in Int
    BY ProviderConfigsAssumption DEF Credentials, PortValues
  <2>3. NoCredentials.port.tenths \in Int
    BY DEF NoCredentials
  <2>4. secrets[at[m].secret].port.tenths \in Int
    BY <2>1, <2>2, <2>3
  <2> QED
    BY <2>4, PortGiven
<1> QED
  BY <1>1, Invariant, PTL

\* The usage that clients.go:165-168 and 207-210 record keeps the config that an
\* MR has connected through, until it resolves another.
THEOREM Protected == Spec => UsedStays
<1> DEFINE Vanishes(c) == config[c].phase # "gone" /\ config'[c].phase = "gone"
           Kept == \A c \in Configs : Vanishes(c) =>
                     \A m \in MRs : mr[m].used = c => mr[m].phase = "gone"
<1>1. IInv /\ [Next]_vars => [Kept]_vars
  <2> SUFFICES ASSUME IInv, Next, NEW c \in Configs, Vanishes(c),
                      NEW m \in MRs, mr[m].used = c
               PROVE  mr[m].phase = "gone"
    OBVIOUS
  <2>1. config' # config
    OBVIOUS
  <2>2. PICK d \in Configs : ReconcileConfig(d) \/ DeleteConfig(d)
    BY <2>1 DEF Next, Reconcile, Start, GetConfig, Track, Lookup, Connect, CollectUsage,
                DeleteMR, SwitchConfig, EditSecret, AllGone, vars
  <2>3. c = d /\ ReconcileConfig(d)
    BY <2>2 DEF ReconcileConfig, DeleteConfig, IInv, TypeOK
  <2>4. usage[m] # c
    BY <2>3 DEF ReconcileConfig, InUse
  <2> QED
    BY <2>4 DEF IInv, UsedInv
<1> QED
  BY <1>1, Invariant, PTL DEF Spec, UsedStays
=============================================================================
