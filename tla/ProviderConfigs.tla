--------------------------- MODULE ProviderConfigs ---------------------------
(***************************************************************************)
(* How an MR of a kind adopted by name comes to its ClickHouse connection  *)
(* (internal/clients/clients.go): a reconcile resolves the ProviderConfig  *)
(* twice, in the initializer's lookup by name (ResolveConnParams) and in   *)
(* Connect (TerraformSetupBuilder), and tracks its usage each time, while  *)
(* configs are deleted, secrets edited and references changed.  The        *)
(* ProviderConfig reconciler of crossplane-runtime, wired in               *)
(* internal/controller/*/providerconfig/config.go, is external.            *)
(***************************************************************************)
EXTENDS Integers

CONSTANTS Namespaces, \* of MRs, ProviderConfigs and secrets
          MRs,        \* a modern MR is named by its namespace, the other is Legacy
          Protocols,  \* that the credentials may name
          Forms,      \* of a port: a JSON number, a JSON string, neither ("other")
          Tenths,     \* tenfold numbers that the credentials may give for a port
          MaxEvents   \* edits of secrets and references, deletions of configs and
                      \* failed calls in a behaviour

Legacy      == "cluster scope"
ClusterWide == "ClusterProviderConfig"
None        == "none"
Other       == "another config was resolved since"

ASSUME ProviderConfigsAssumption ==
  /\ Namespaces \cap {Legacy, ClusterWide, None, Other} = {}
  /\ MRs \subseteq Namespaces \cup {Legacy}
  /\ Protocols \subseteq {"native", "nativesecure", "http", "https"}
  /\ Tenths \subseteq Int /\ Forms \subseteq {"number", "string", "other"} /\ MaxEvents \in Nat

VARIABLES
  mr,      \* the MRs; used: the config an MR has last connected through, which
           \* recorded its UUID and set its finalizer, or Other
  config,  \* the ProviderConfigs, all of one name
  secrets, \* the credentials secret of each namespace
  usage,   \* the config each MR's ProviderConfigUsage names
  at,      \* the reconcile of each MR
  events   \* events left
vars == <<mr, config, secrets, usage, at, events>>

\* The ProviderConfigs the MRs may refer to: the one of a namespace is named by it.
Configs == MRs \cup {ClusterWide}

\* What the credentials JSON may hold.
PortValues  == [form: Forms, tenths: Tenths]
Credentials == [port: PortValues, protocol: Protocols]
Phases      == {"live", "deleting", "gone"}

NoCredentials == [port |-> [form |-> "other", tenths |-> 0], protocol |-> "none"]
Idle == [pc |-> "idle", stage |-> "lookup", config |-> None, secret |-> None]

MRStates   == [kind: {"ProviderConfig", "ClusterProviderConfig"}, phase: Phases,
               used: Configs \cup {None, Other}]
Reconciles == [pc: {"idle", "get", "track", "dial"}, stage: {"lookup", "connect"},
               config: Configs \cup {None}, secret: Namespaces \cup {None}]

TypeOK ==
  /\ mr \in [MRs -> MRStates]
  /\ config \in [Configs -> [phase: Phases, secret: Namespaces]]
  /\ secrets \in [Namespaces -> Credentials \cup {NoCredentials}]
  /\ usage \in [MRs -> Configs \cup {None}]
  /\ at \in [MRs -> Reconciles]
  /\ events \in 0..MaxEvents

Init ==
  /\ \E k \in {"ProviderConfig", "ClusterProviderConfig"} :
       mr = [m \in MRs |-> [kind |-> k, phase |-> "live", used |-> None]]
  /\ \E n \in Namespaces : config = [c \in Configs |-> [phase |-> "live", secret |-> n]]
  /\ \E n \in Namespaces, creds \in Credentials :
       secrets = [[k \in Namespaces |-> NoCredentials] EXCEPT ![n] = creds]
  /\ usage = [m \in MRs |-> None]
  /\ at = [m \in MRs |-> Idle]
  /\ events = MaxEvents

-----------------------------------------------------------------------------
(* Credentials.                                                            *)

\* Mutant: no upper bound, so that uint16 wraps around.
parsePortUnbounded(v) ==
  IF v.form = "number" /\ v.tenths >= 10 THEN (v.tenths \div 10) % 65536 ELSE 0

\* A float is truncated (towards zero), a string must be a whole number, and
\* what does not fit a port is 0.
parsePort(v) ==
  LET n == v.tenths \div 10
      read == v.form = "number" \/ (v.form = "string" /\ v.tenths % 10 = 0)
  IN IF read /\ n > 0 /\ n <= 65535 THEN n ELSE 0

\* The ports of a ClickHouse server.
Listens == [native |-> 9000, nativesecure |-> 9440, http |-> 8123, https |-> 8443]

\* ResolveConnParams refuses port 0 (as it does no host, no user); findUUIDByName
\* speaks the native protocol, with TLS for "nativesecure" only.
LookupReaches(creds) ==
  parsePort(creds.port) =
    IF creds.protocol = "nativesecure" THEN Listens.nativesecure ELSE Listens.native

\* The Terraform provider gets the credentials as they are; a string converts
\* to its number.
ProviderReaches(creds) ==
  /\ creds # NoCredentials /\ creds.port.form # "other"
  /\ creds.port.tenths = 10 * Listens[creds.protocol]

-----------------------------------------------------------------------------
(* The reconcile of an MR.                                                 *)

Event == events > 0 /\ events' = events - 1

\* resolveProviderConfig: by the type of the MR, then by the kind it refers to.
ConfigOf(m) ==
  IF m = Legacy THEN Legacy
  ELSE IF mr[m].kind = "ClusterProviderConfig" THEN ClusterWide ELSE m

\* The reconcile of m goes on, or ends.
Goes(m, pc, stage, c, secret) ==
  at' = [at EXCEPT ![m] = [pc |-> pc, stage |-> stage, config |-> c, secret |-> secret]]

Fail(m) == at' = [at EXCEPT ![m] = Idle]

\* An MR that is being deleted is reconciled as well.
Start(m) ==
  /\ at[m].pc = "idle" /\ mr[m].phase # "gone"
  /\ Goes(m, "get", IF mr[m].used = None THEN "lookup" ELSE "connect", ConfigOf(m), None)
  /\ UNCHANGED <<mr, config, secrets, usage, events>>

\* Mutants: the secret of a ProviderConfig may be in any namespace; that of any
\* config is in the MR's.
SecretAsWritten(m) == config[at[m].config].secret
SecretOfMR(m)      == m

\* The secret of a namespaced ProviderConfig is in the namespace of the MR.
SecretNamespace(m) ==
  IF at[m].config \in Namespaces THEN m ELSE config[at[m].config].secret

\* Mutant: a config that is being deleted is not found.
FindsLive(c) == config[c].phase = "live"

\* A config that is being deleted is still good.
Finds(c) == config[c].phase \in {"live", "deleting"}

GetConfig(m) ==
  /\ at[m].pc = "get"
  /\ IF Finds(at[m].config)
       THEN Goes(m, "track", at[m].stage, at[m].config, SecretNamespace(m))
       ELSE Fail(m)
  /\ UNCHANGED <<mr, config, secrets, usage, events>>

\* Mutant: an MR that has a usage keeps it.
TracksOnce(m) == usage' = IF usage[m] = None THEN [usage EXCEPT ![m] = at[m].config] ELSE usage

\* An MR has one usage; it moves to the config last resolved.
Tracks(m) == usage' = [usage EXCEPT ![m] = at[m].config]

Track(m) ==
  /\ at[m].pc = "track"
  /\ \/ /\ Tracks(m) /\ at' = [at EXCEPT ![m].pc = "dial"]
        /\ mr' = [mr EXCEPT ![m].used = IF @ \in {None, at[m].config} THEN @ ELSE Other]
        /\ UNCHANGED events
     \/ Event /\ Fail(m) /\ UNCHANGED <<mr, usage>>
  /\ UNCHANGED <<config, secrets>>

\* The secret is read, the lookup has its answer (Adoption), and Connect resolves
\* the config again.  A secret that is not there, or not JSON, is an error.
Lookup(m) ==
  /\ at[m].pc = "dial" /\ at[m].stage = "lookup"
  /\ IF LookupReaches(secrets[at[m].secret])
       THEN Goes(m, "get", "connect", at[m].config, None)
       ELSE Fail(m)
  /\ UNCHANGED <<mr, config, secrets, usage, events>>

\* The row is found or created and recorded, or dropped, and then the MR goes.
Connect(m) ==
  /\ at[m].pc = "dial" /\ at[m].stage = "connect" /\ Fail(m)
  /\ IF ProviderReaches(secrets[at[m].secret])
       THEN mr' = IF mr[m].phase = "live" THEN [mr EXCEPT ![m].used = at[m].config]
                  ELSE [mr EXCEPT ![m].phase = "gone"]
       ELSE UNCHANGED mr
  /\ UNCHANGED <<config, secrets, usage, events>>

Reconcile(m) ==
  Start(m) \/ GetConfig(m) \/ Track(m) \/ Lookup(m) \/ Connect(m)

-----------------------------------------------------------------------------
(* The reconciler of the configs, and the users.                           *)

InUse(c) == \E m \in MRs : usage[m] = c

\* Every config has the reconciler's finalizer, which goes when no usage is left.
ReconcileConfig(c) ==
  /\ config[c].phase = "deleting" /\ ~InUse(c)
  /\ config' = [config EXCEPT ![c].phase = "gone"]
  /\ UNCHANGED <<mr, secrets, usage, at, events>>

\* A usage is owned by its MR and collected with it.
CollectUsage(m) ==
  /\ mr[m].phase = "gone" /\ usage[m] # None
  /\ usage' = [usage EXCEPT ![m] = None]
  /\ UNCHANGED <<mr, config, secrets, at, events>>

DeleteMR(m) ==
  /\ mr[m].phase = "live"
  /\ mr' = [mr EXCEPT ![m].phase = IF mr[m].used = None THEN "gone" ELSE "deleting"]
  /\ UNCHANGED <<config, secrets, usage, at, events>>

DeleteConfig(c) ==
  /\ Event /\ config[c].phase = "live"
  /\ config' = [config EXCEPT ![c].phase = "deleting"]
  /\ UNCHANGED <<mr, secrets, usage, at>>

EditSecret(n) ==
  /\ Event /\ secrets' \in {[secrets EXCEPT ![n] = creds] : creds \in Credentials}
  /\ UNCHANGED <<mr, config, usage, at>>

SwitchConfig(m) ==
  /\ Event /\ m # Legacy /\ mr[m].phase = "live"
  /\ mr' = [mr EXCEPT ![m].kind = IF @ = "ProviderConfig" THEN "ClusterProviderConfig"
                                  ELSE "ProviderConfig"]
  /\ UNCHANGED <<config, secrets, usage, at>>

\* Nothing is left to reconcile.
AllGone == (\A m \in MRs : mr[m].phase = "gone") /\ UNCHANGED vars

Next ==
  \/ \E m \in MRs : Reconcile(m) \/ CollectUsage(m) \/ DeleteMR(m) \/ SwitchConfig(m)
  \/ \E c \in Configs : ReconcileConfig(c) \/ DeleteConfig(c)
  \/ \E n \in Namespaces : EditSecret(n)
  \/ AllGone

\* MRs are polled, a usage enqueues its config, the garbage collector runs.
Spec == /\ Init /\ [][Next]_vars
        /\ \A m \in MRs : WF_vars(Reconcile(m)) /\ WF_vars(CollectUsage(m))
        /\ \A c \in Configs : WF_vars(ReconcileConfig(c))

-----------------------------------------------------------------------------
(* Properties.                                                             *)

\* A lookup dials the port that was given, up to a fraction, or none
\* (clients.go:72-94).
DialsGivenPort ==
  \A m \in MRs : at[m].pc = "dial" /\ at[m].stage = "lookup" =>
    LET v == secrets[at[m].secret].port IN
      parsePort(v) # 0 => v.tenths - 10 * parsePort(v) \in 0..9

\* No config goes while an MR has connected through it and resolved no other
\* since, whichever config it refers to by now (clients.go:165-168, 207-210).
UsedStays ==
  [][\A c \in Configs : config[c].phase # "gone" /\ config'[c].phase = "gone"
       => \A m \in MRs : mr[m].used = c => mr[m].phase = "gone"]_vars

\* The secret that the README tells the user to write, and a config to find it by.
CredentialsOf(m) ==
  secrets[IF ConfigOf(m) \in Namespaces THEN m ELSE config[ConfigOf(m)].secret]
Connectable(m) ==
  config[ConfigOf(m)].phase \in {"live", "deleting"} /\ ProviderReaches(CredentialsOf(m))

\* An MR whose credentials the provider can connect with is not kept from it by
\* its own lookup by name (README.md:27-61, roleresolver.go:40-64).
Connects == \A m \in MRs : ~<>[](mr[m].phase = "live" /\ mr[m].used = None /\ Connectable(m))

\* An MR that is being deleted goes, also when its config is deleted with it: each
\* waits for the other's finalizer (clients.go:160-168, 190-210).
DeletionFinishes == \A m \in MRs : ~<>[](mr[m].phase = "deleting" /\ Connectable(m))

\* A config that is being deleted is kept by an MR that refers to it, or that has
\* no other to go to yet (clients.go:165-168, 207-210).
ConfigGoes ==
  \A c \in Configs :
    <>[](config[c].phase = "deleting") =>
      []<>(\E m \in MRs : mr[m].phase # "gone" /\ (ConfigOf(m) = c \/ ~Finds(ConfigOf(m))))
=============================================================================
