------------------------------ MODULE Startup ------------------------------
(***************************************************************************)
(* The provider's process and its controllers: main, the CRD gate, and     *)
(* SetupGated and Setup of every kind.  With the permission to watch CRDs  *)
(* each controller waits for its own; without it all start at once, and    *)
(* controller-runtime ends the process when a CRD stays away.              *)
(***************************************************************************)
EXTENDS Kinds, Naturals

CONSTANTS Sites,    \* the deployments to look at (see References)
          MaxEvents \* crashes, failures and changes by users in a behaviour

ASSUME EventsAssumption == MaxEvents \in Nat

VARIABLES
  site,    \* the deployment
  up,      \* the process runs
  est,     \* the CRDs that are established
  running, \* controllers that were set up, in part or whole
  failed,  \* controllers whose Setup failed in this process, in part or whole
  events   \* events left
processVars == <<site, up, est, running, failed, events>>

Event == events > 0 /\ events' = events - 1

ControllerOf(c) == Controllers[site.flavour][c]

Configs == {"ClusterProviderConfig", "ProviderConfig", "ProviderConfigUsage"}

\* The kinds of the deployment; those of the other controllers are taken to be
\* established from the start, but for one that is missing for good if so.
Targets == {Target(site.flavour, site.kind, f) : f \in site.refs}
CRDs    == {site.kind} \cup Targets \cup Configs
Ours    == {site.kind, "ProviderConfig"} \cup Targets

ProcessTypeOK ==
  /\ up \in BOOLEAN /\ est \subseteq CRDs
  /\ running \subseteq Ours /\ failed \subseteq Ours
  /\ running \cap failed \subseteq {"ProviderConfig"}
  /\ events \in 0..MaxEvents

ProcessInit ==
  /\ site \in Sites /\ up = FALSE /\ est = CRDs \ site.late
  /\ running = {} /\ failed = {} /\ events = MaxEvents

-----------------------------------------------------------------------------

\* main up to mgr.Start.  SetupGated registers, Setup starts.
Boot ==
  /\ ~up /\ up' = TRUE
  /\ running' = IF site.gated THEN {} ELSE Ours
  /\ UNCHANGED <<site, est, failed, events>>

\* Mutant: one gate for all.
SetupTogether(c) ==
  /\ up /\ site.gated /\ c \notin running \cup failed
  /\ CRDs \subseteq est
  /\ running' = running \cup {c}
  /\ UNCHANGED <<site, up, est, failed, events>>

\* Mutant: a registration outlives its callback.
SetupAgain(c) ==
  /\ up /\ site.gated /\ ControllerOf(c).gate \subseteq est
  /\ \/ running' = running \cup {c} /\ UNCHANGED <<failed, events>>
     \/ failed' = failed \cup {c} /\ Event /\ UNCHANGED running
  /\ UNCHANGED <<site, up, est>>

\* The gate calls back once all CRDs of a registration are established; an error
\* of Setup is logged, and the registration is gone.  Of the namespaced configs' two
\* controllers the first may be set up when the second fails.
Setup(c) ==
  /\ up /\ site.gated /\ c \notin running \cup failed
  /\ ControllerOf(c).gate \subseteq est
  /\ \/ running' = running \cup {c} /\ UNCHANGED <<failed, events>>
     \/ failed' = failed \cup {c} /\ Event /\ UNCHANGED running
     \/ /\ c = "ProviderConfig" /\ site.flavour = "namespaced" /\ Event
        /\ running' = running \cup {c} /\ failed' = failed \cup {c}
  /\ UNCHANGED <<site, up, est>>

Establish(crd) ==
  /\ crd \in CRDs \ est /\ est' = est \cup {crd}
  /\ UNCHANGED <<site, up, running, failed, events>>

Stop == up' = FALSE /\ running' = {} /\ failed' = {} /\ UNCHANGED <<site, est>>

\* A controller cannot sync its cache.
Exit ==
  /\ up /\ Stop /\ UNCHANGED events
  /\ \/ ~site.gated /\ site.missing
     \/ \E c \in running : ~(ControllerOf(c).watches \subseteq est)

Crash == up /\ Event /\ Stop

\* The reconciles of kind k are under way.
Reconciling(k) == up /\ k \in running /\ ControllerOf(k).watches \subseteq est

-----------------------------------------------------------------------------
(* Properties.                                                             *)

\* Behind the gate no controller watches a CRD that is not there, which would end
\* the process with all other controllers (main.go:250-264, both config.go files).
OnlyEstablished ==
  site.gated => \A c \in running : ControllerOf(c).watches \subseteq est

\* "Controllers start when their CRDs become established" (main.go:263): each by
\* itself, whatever becomes of the others, and again after every restart; but for
\* one whose Setup failed.
Starts ==
  <>[](\A c \in Ours :
         site.gated /\ ControllerOf(c).watches \subseteq est => c \in running \cup failed)
=============================================================================
