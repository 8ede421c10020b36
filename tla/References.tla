----------------------------- MODULE References -----------------------------
(***************************************************************************)
(* One MR of any kind, of either flavour, and the objects it refers to, in *)
(* a provider that starts, stops and waits for CRDs: the initializers, the *)
(* generated resolver, the merge of forProvider and initProvider, creation *)
(* and late initialization.  The objects referred to get their identity    *)
(* from their own controllers, once for each of their lives (Ownership).   *)
(*                                                                         *)
(* A deployment is a site: its kind and flavour; which reference fields    *)
(* are given where, with policy Always or IfNotPresent; where the required *)
(* fields are given; whether a row of the MR's name is there before it;    *)
(* whether the gate is open to the provider, which CRDs come late, and     *)
(* whether one that has nothing to do with the MR never comes.             *)
(***************************************************************************)
EXTENDS Startup

VARIABLES
  ref,    \* the objects referred to, by field
  spec,   \* the MR's reference fields on the API server, by place
  mr,     \* the MR: "live", "deleted", or "gone"
  fin,    \* it has the finalizer
  made,   \* what ClickHouse's object was made with
  pc,     \* where the reconcile is
  mg,     \* the reconcile's copy of spec
  todo    \* the references it has still to resolve, by position in the resolver
mrVars == <<ref, spec, mr, fin, made, pc, mg, todo>>
vars   == <<processVars, mrVars>>

None    == 0
Values  == None..(MaxEvents + 1)
NotMade == [f \in site.refs |-> None]
Copies  == [Places -> [site.refs -> Values]]
NoCopy  == [p \in Places |-> [f \in site.refs |-> None]]

ASSUME SitesAssumption ==
  \A s \in Sites :
    /\ s.kind \in ManagedKinds /\ s.flavour \in Flavours /\ s.always \in BOOLEAN
    /\ s.refs = s.given["forProvider"] \cup s.given["initProvider"]
    /\ s.refs \subseteq RefFields(s.flavour, s.kind)
    /\ \A f \in s.refs : Target(s.flavour, s.kind, f) \in ManagedKinds

Type     == Types[site.flavour][site.kind]
Resolver == ResolverOf(site.flavour, site.kind)

\* The references that are given.
GivenRefs == {i \in DOMAIN Resolver : Resolver[i].field \in site.given[Resolver[i].place]}

\* Where the required fields are.
RequiredIn(s, p) ==
  LET t == Types[s.flavour][s.kind]
  IN {f \in t.required : p = IF f \in t.identifiers THEN "forProvider" ELSE s.named}

TypeOK ==
  /\ ProcessTypeOK
  /\ ref \in [site.refs -> [removed: BOOLEAN, known: BOOLEAN, gen: Values \ {None}]]
  /\ spec \in Copies /\ mr \in {"live", "deleted", "gone"} /\ fin \in BOOLEAN
  /\ made \in [there: BOOLEAN, params: [site.refs -> Values]]
  /\ pc \in {"idle", "resolve", "connect"} /\ mg \in Copies
  /\ todo \subseteq GivenRefs

Init ==
  /\ ProcessInit
  /\ Admitted(Type, [p \in Places |-> site.given[p] \cup RequiredIn(site, p)])
  /\ ref = [f \in site.refs |-> [removed |-> FALSE, known |-> FALSE, gen |-> 1]]
  /\ spec = NoCopy /\ mr = "live" /\ fin = FALSE
  /\ made = [there |-> FALSE, params |-> NotMade]
  /\ pc = "idle" /\ mg = NoCopy /\ todo = {}

-----------------------------------------------------------------------------
(* The objects referred to.                                                *)

Exists(f) == Target(site.flavour, site.kind, f) \in est /\ ~ref[f].removed

\* Its controller adopts or creates it and saves its UUID.
Identify(f) ==
  /\ Exists(f) /\ ~ref[f].known /\ Reconciling(Target(site.flavour, site.kind, f))
  /\ ref' = [ref EXCEPT ![f].known = TRUE]
  /\ UNCHANGED <<processVars, spec, mr, fin, made, pc, mg, todo>>

Remove(f) ==
  /\ Exists(f) /\ Event
  /\ ref' = [ref EXCEPT ![f].removed = TRUE, ![f].known = FALSE]
  /\ UNCHANGED <<site, up, est, running, failed, spec, mr, fin, made, pc, mg, todo>>

Recreate(f) ==
  /\ ref[f].removed
  /\ ref' = [ref EXCEPT ![f].removed = FALSE, ![f].gen = @ + 1]
  /\ UNCHANGED <<processVars, spec, mr, fin, made, pc, mg, todo>>

-----------------------------------------------------------------------------
(* The reconcile of the MR.                                                *)

Requeue == pc' = "idle" /\ mg' = NoCopy /\ todo' = {}

\* The value a copy of the MR has for a reference.
ValueOf(copy, r) == copy[r.place][r.field]

\* Mutant: resolved values are no longer kept.
PendingAll(copy) == GivenRefs

\* Mutant: Always is not honoured.
PendingUnset(copy) == {i \in GivenRefs : ValueOf(copy, Resolver[i]) = None}

\* Mutant: the references in initProvider are not resolved.
PendingForProvider(copy) ==
  {i \in GivenRefs : /\ Resolver[i].place = "forProvider"
                     /\ site.always \/ ValueOf(copy, Resolver[i]) = None}

\* A value that is set is left alone under IfNotPresent.
Pending(copy) == {i \in GivenRefs : site.always \/ ValueOf(copy, Resolver[i]) = None}

\* Adoption looks for the name in forProvider, until the MR has its UUID.
AdoptByName == "adopt" \in InitializersOf(site.flavour, site.kind)
HasLookup   == ControllerOf(site.kind).resource \in resolverFactories
NameMissing == AdoptByName /\ HasLookup /\ ~made.there /\ site.named # "forProvider"

InitializersFail ==
  /\ pc = "idle" /\ Reconciling(site.kind) /\ mr # "gone" /\ NameMissing
  /\ UNCHANGED vars

\* Nothing is resolved for an MR that is being deleted.
Start ==
  /\ pc = "idle" /\ Reconciling(site.kind) /\ mr # "gone" /\ ~NameMissing
  /\ pc' = IF mr = "deleted" THEN "connect" ELSE "resolve"
  /\ mg' = spec /\ todo' = IF mr = "deleted" THEN {} ELSE Pending(spec)
  /\ UNCHANGED <<processVars, ref, spec, mr, fin, made>>

\* The object is there, of the kind the resolver asks for, and has a name.
Found(r) ==
  /\ r.to = Target(site.flavour, site.kind, r.field)
  /\ Exists(r.field) /\ ref[r.field].known

ExternalName(r) == IF ref[r.field].known THEN ref[r.field].gen ELSE None

\* References are resolved in the resolver's order.
IsNext(i) == i \in todo /\ \A j \in todo : i <= j

Resolve ==
  /\ pc = "resolve"
  /\ \E i \in todo :
       LET r == Resolver[i]
       IN /\ IsNext(i) /\ Found(r)
          /\ mg' = [mg EXCEPT ![r.place][r.field] = ExternalName(r)]
          /\ todo' = todo \ {i}
  /\ UNCHANGED <<processVars, ref, spec, mr, fin, made, pc>>

\* The next reference is not found.
Unresolved == pc = "resolve" /\ \E i \in todo : IsNext(i) /\ ~Found(Resolver[i])

\* Mutant: what was resolved before the error is saved.
ResolveFailsSaves ==
  /\ Unresolved /\ Requeue /\ spec' = mg
  /\ UNCHANGED <<processVars, ref, mr, fin, made>>

\* The first reference that is not found ends the reconcile, nothing is saved.
ResolveFails ==
  /\ Unresolved /\ Requeue
  /\ UNCHANGED <<processVars, ref, spec, mr, fin, made>>

Save ==
  /\ pc = "resolve" /\ todo = {} /\ pc' = "connect" /\ spec' = mg
  /\ UNCHANGED <<processVars, ref, mr, fin, made, mg, todo>>

\* Mutant: the use of a config by an MR that is being deleted is refused.
ConnectingLive ==
  pc = "connect" /\ mr = "live" /\ {"ProviderConfig", "ProviderConfigUsage"} \subseteq est

\* The config is found and its use recorded.
Connecting == pc = "connect" /\ {"ProviderConfig", "ProviderConfigUsage"} \subseteq est

ConnectFails ==
  /\ pc = "connect" /\ ~({"ProviderConfig", "ProviderConfigUsage"} \subseteq est) /\ Requeue
  /\ UNCHANGED <<processVars, ref, spec, mr, fin, made>>

\* Mutant: initProvider is not merged.
MergedForProvider(copy) == copy["forProvider"]

\* forProvider has the say, unless the merge overwrites.
GetMergedParameters(copy) ==
  LET first  == IF Terraform[site.flavour][site.kind].overwrite THEN "initProvider"
                                                                ELSE "forProvider"
      second == CHOOSE p \in Places : p # first
  IN [f \in site.refs |-> IF copy[first][f] # None THEN copy[first][f] ELSE copy[second][f]]

\* The finalizer comes before CREATE, which may fail and wait for the next reconcile.
AddFinalizer ==
  /\ Connecting /\ mr = "live" /\ ~fin /\ fin' = TRUE
  /\ UNCHANGED <<processVars, ref, spec, mr, made, pc, mg, todo>>

\* A row of the MR's name is taken over if it was looked up.  If it was not, it is
\* in the way, and CREATE fails each time.
Create ==
  /\ Connecting /\ mr = "live" /\ fin /\ ~made.there
  /\ site.existing => AdoptByName /\ HasLookup
  /\ made' = [there |-> TRUE, params |-> GetMergedParameters(mg)]
  /\ Requeue
  /\ UNCHANGED <<processVars, ref, spec, mr, fin>>

\* What is observed and not set is copied into forProvider, initProvider's values
\* included.
LateInitialize(copy) ==
  LET late == (Observed(Type) \cap Fields(Type, "forProvider"))
                \ Terraform[site.flavour][site.kind].notInitialized
  IN [copy EXCEPT !["forProvider"] =
       [f \in site.refs |-> IF @[f] = None /\ f \in late THEN made.params[f] ELSE @[f]]]

Observe ==
  /\ Connecting /\ mr = "live" /\ made.there
  /\ spec' = LateInitialize(mg) /\ Requeue
  /\ UNCHANGED <<processVars, ref, mr, fin, made>>

Delete ==
  /\ Connecting /\ mr = "deleted"
  /\ made' = [there |-> FALSE, params |-> NotMade] /\ mr' = "gone" /\ Requeue
  /\ UNCHANGED <<processVars, ref, spec, fin>>

\* Any call of a reconcile may fail.
Fail ==
  /\ pc # "idle" /\ Event /\ Requeue
  /\ UNCHANGED <<site, up, est, running, failed, ref, spec, mr, fin, made>>

Reconcile ==
  \/ InitializersFail \/ Start \/ Resolve \/ ResolveFails \/ Save
  \/ ConnectFails \/ AddFinalizer \/ Create \/ Observe \/ Delete

-----------------------------------------------------------------------------

\* The user deletes the MR, which goes at once without a finalizer.  The writes of a reconcile under way conflict.
Discard ==
  /\ mr = "live" /\ site.kind \in est /\ Event
  /\ mr' = IF fin THEN "deleted" ELSE "gone"
  /\ Requeue
  /\ UNCHANGED <<site, up, est, running, failed, ref, spec, fin, made>>

Process ==
  /\ Boot \/ (\E c \in Ours : Setup(c)) \/ (\E crd \in CRDs : Establish(crd))
  /\ UNCHANGED mrVars

Down == (Exit \/ Crash) /\ Requeue /\ UNCHANGED <<ref, spec, mr, fin, made>>

Next ==
  \/ Reconcile \/ Fail \/ Discard \/ Process \/ Down
  \/ \E f \in site.refs : Identify(f) \/ Remove(f) \/ Recreate(f)

\* The work queue retries, the process is restarted, the gate calls back.
Spec ==
  /\ Init /\ [][Next]_vars
  /\ WF_vars(Reconcile) /\ WF_vars(Boot /\ UNCHANGED mrVars)
  /\ WF_vars((\E c \in Ours : Setup(c)) /\ UNCHANGED mrVars)
  /\ WF_vars(\E f \in site.refs : Identify(f))

-----------------------------------------------------------------------------
(* Properties.                                                             *)

\* Nothing is made before everything it refers to has an identity, and nothing is
\* made with an identity the object referred to never had, through restarts and
\* objects that are removed and re-created (zz_generated.resolvers.go).
MadeWithIdentity ==
  made.there => \A f \in site.refs : made.params[f] \in 1..ref[f].gen

\* The MR's references are saved all or none (zz_generated.resolvers.go: an error
\* returns before the object is saved).
AllOrNone ==
  \A p, q \in Places : \A f \in site.given[p], g \in site.given[q] :
    spec[p][f] = None <=> spec[q][g] = None

\* What ClickHouse's object was made with is what the MR says, also after the
\* object referred to got another UUID (references are resolved IfNotPresent, and
\* saved before they are used).
SaysWhatWasMade ==
  made.there /\ ~site.always => GetMergedParameters(spec) = made.params

\* A value once saved stays, if its reference does not ask for Always.
KeepsResolved ==
  [][\A p \in Places, f \in site.refs :
       (~site.always \/ f \notin site.given[p]) /\ spec[p][f] # None
         => spec'[p][f] = spec[p][f]]_vars

\* Seen from outside every step is one of Linkage or none: identities are written
\* down together, the object is made once and of nothing but them, and goes with the
\* MR (zz_generated.resolvers.go, zz_*_terraformed.go).
Promise == INSTANCE Linkage WITH
  fields <- site.refs, always <- site.always, lives <- [f \in site.refs |-> ref[f].gen],
  record <- GetMergedParameters(spec), phase <- mr
KeepsLinkage == Promise!Spec

\* The MR can be reconciled.
Runnable ==
  /\ site.gated \/ (~site.missing /\ CRDs \subseteq est)
  /\ {site.kind, "ProviderConfig", "ProviderConfigUsage"} \subseteq est
  /\ site.kind \notin failed

Ready ==
  /\ Runnable /\ mr = "live"
  /\ \A f \in site.refs : Exists(f) /\ Target(site.flavour, site.kind, f) \notin failed

\* In whatever order the CRDs of an MR and of the objects it refers to come, it is
\* made; a CRD that has nothing to do with it, a crash or a row that is there before
\* it do not prevent that.  Its name is in forProvider; see AdmittedIsMade.
EndsMade == <>[](Ready /\ (AdoptByName => site.named = "forProvider") => made.there)

\* Always follows an object that is re-created with another UUID.
Follows ==
  <>[](Ready /\ site.always /\ made.there
         => \A p \in Places : \A f \in site.given[p] : spec[p][f] = ref[f].gen)

\* Deletion does not wait for the objects referred to.
DeletesUnaided == <>[](Runnable => mr # "deleted")

\* An MR that the API server admits is made, wherever its required fields are given:
\* initProvider's fields "are merged into ForProvider when the resource is created"
\* (zz_role_types.go).
AdmittedIsMade == <>[](Ready => made.there)
=============================================================================
