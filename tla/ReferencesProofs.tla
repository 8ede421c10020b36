-------------------------- MODULE ReferencesProofs --------------------------
(***************************************************************************)
(* Of References it is proved that the gate keeps its promise, that        *)
(* nothing is made of anything but identities, that references are saved   *)
(* all or none and stay, and that the MR goes on to say what was made:     *)
(* whatever is deployed, and however often objects are removed and the     *)
(* process ends.                                                           *)
(***************************************************************************)
EXTENDS References, TLAPS

\* What a controller's gate has to wait for.
Gated(controller) == controller.watches \subseteq controller.gate

\* Every cluster-scoped controller watches only what its gate waits for.
LEMMA ClusterGated ==
  ASSUME NEW c \in DOMAIN C!Controllers  PROVE Gated(C!Controllers[c])
<1>1. /\ Gated(C!DatabaseController) /\ Gated(C!GrantPrivilegeController)
      /\ Gated(C!GrantRoleController) /\ Gated(C!MaskingPolicyController)
      /\ Gated(C!NamedCollectionController) /\ Gated(C!RoleController)
  BY DEF Gated, C!Controller, C!DatabaseController, C!GrantPrivilegeController,
    C!GrantRoleController, C!MaskingPolicyController, C!NamedCollectionController,
    C!RoleController
<1>2. /\ Gated(C!RowPolicyController) /\ Gated(C!SettingController)
      /\ Gated(C!SettingProfileController) /\ Gated(C!SettingProfileAssociationController)
      /\ Gated(C!UserController)
  BY DEF Gated, C!Controller, C!RowPolicyController, C!SettingController,
    C!SettingProfileController, C!SettingProfileAssociationController, C!UserController
<1>3. Gated(C!ProviderConfigController)
  BY DEF Gated, C!Controller, C!ProviderConfigController
<1>4. QED  BY <1>1, <1>2, <1>3 DEF C!Controllers

\* Every namespaced controller watches only what its gate waits for.
LEMMA NamespacedGated ==
  ASSUME NEW c \in DOMAIN N!Controllers  PROVE Gated(N!Controllers[c])
<1>1. /\ Gated(N!DatabaseController) /\ Gated(N!GrantPrivilegeController)
      /\ Gated(N!GrantRoleController) /\ Gated(N!MaskingPolicyController)
      /\ Gated(N!NamedCollectionController) /\ Gated(N!RoleController)
  BY DEF Gated, N!Controller, N!DatabaseController, N!GrantPrivilegeController,
    N!GrantRoleController, N!MaskingPolicyController, N!NamedCollectionController,
    N!RoleController
<1>2. /\ Gated(N!RowPolicyController) /\ Gated(N!SettingController)
      /\ Gated(N!SettingProfileController) /\ Gated(N!SettingProfileAssociationController)
      /\ Gated(N!UserController)
  BY DEF Gated, N!Controller, N!RowPolicyController, N!SettingController,
    N!SettingProfileController, N!SettingProfileAssociationController, N!UserController
<1>3. Gated(N!ProviderConfigController)
  BY DEF Gated, N!Controller, N!ProviderConfigController
<1>4. QED  BY <1>1, <1>2, <1>3 DEF N!Controllers

\* Both scopes have a controller of the same name for every kind.
LEMMA NamesOfControllers ==
  /\ DOMAIN C!Controllers = ControllerNames
  /\ DOMAIN N!Controllers = ControllerNames
BY DEF ControllerNames, ManagedKinds, C!Types, C!Controllers, N!Controllers

LEMMA ControllersGated ==
  ASSUME NEW flavour \in Flavours, NEW c \in ControllerNames
  PROVE  Gated(Controllers[flavour][c])
BY NamesOfControllers, ClusterGated, NamespacedGated DEF Flavours, Controllers

-----------------------------------------------------------------------------

\* A deployment stays what it is, and behind the gate what runs has its CRDs.
GateInv ==
  /\ site \in Sites
  /\ running \subseteq ControllerNames
  /\ site.gated => \A c \in running : ControllerOf(c).gate \subseteq est

LEMMA OursNamed ==
  ASSUME site \in Sites  PROVE site.flavour \in Flavours /\ Ours \subseteq ControllerNames
BY SitesAssumption DEF Ours, Targets, ControllerNames

LEMMA GateInit == Init => GateInv
BY DEF Init, ProcessInit, GateInv

\* Only the process itself starts and stops controllers, and no CRD goes.
LEMMA GateNext == GateInv /\ [Next]_vars => GateInv'
<1> SUFFICES ASSUME GateInv, [Next]_vars  PROVE GateInv'
  OBVIOUS
<1> USE DEF GateInv, ControllerOf
<1>1. CASE Boot
  BY <1>1, OursNamed DEF Boot
<1>2. ASSUME NEW c \in Ours, Setup(c)  PROVE GateInv'
  BY <1>2, OursNamed DEF Setup
<1>3. ASSUME NEW crd \in CRDs, Establish(crd)  PROVE GateInv'
  BY <1>3 DEF Establish
<1>4. CASE Down
  BY <1>4 DEF Down, Exit, Crash, Stop
<1>5. CASE UNCHANGED processVars
  BY <1>5 DEF processVars
<1>6. ASSUME UNCHANGED <<site, est, running>>  PROVE GateInv'
  BY <1>6
<1>7. CASE Reconcile
  BY <1>7, <1>5 DEF Reconcile, InitializersFail, Start, Resolve, ResolveFails, Save,
    ConnectFails, AddFinalizer, Create, Observe, Delete, vars
<1>8. CASE Fail \/ Discard
  BY <1>8, <1>6 DEF Fail, Discard
<1>9. ASSUME NEW f \in site.refs, Identify(f) \/ Remove(f) \/ Recreate(f)  PROVE GateInv'
  BY <1>9, <1>5, <1>6 DEF Identify, Remove, Recreate
<1>10. CASE UNCHANGED vars
  BY <1>10, <1>5 DEF vars
<1>11. QED
  BY <1>1, <1>2, <1>3, <1>4, <1>7, <1>8, <1>9, <1>10 DEF Next, Process

\* Behind the gate no controller watches a CRD that is not established, whatever
\* the deployment: main.go:250-264 and the config.go files of both ProviderConfig
\* controllers.
THEOREM WatchesEstablished == Spec => []OnlyEstablished
<1>1. GateInv => OnlyEstablished
  BY OursNamed, ControllersGated DEF GateInv, OnlyEstablished, ControllerOf, Gated
<1>2. QED
  BY <1>1, GateInit, GateNext, PTL DEF Spec

-----------------------------------------------------------------------------
(* The type invariant.                                                     *)

\* The deployment is one that the API server admits.
SiteInv ==
  /\ site \in Sites
  /\ \A p \in Places : site.given[p] \subseteq Fields(Type, p)

\* Every life of an object after its first took an event, which removed it.
LivesInv ==
  \A f \in site.refs :
    ref[f].gen + (IF ref[f].removed THEN 1 ELSE 0) + events <= MaxEvents + 1

TypeInv ==
  /\ SiteInv /\ TypeOK /\ LivesInv
  /\ ~up => running = {} /\ failed = {}

LEMMA Given ==
  ASSUME SiteInv
  PROVE  /\ site.flavour \in Flavours /\ site.kind \in ManagedKinds
         /\ site.refs \subseteq RefFields(site.flavour, site.kind)
         /\ site.refs = UNION {site.given[p] : p \in Places}
BY SitesAssumption DEF SiteInv, Places

\* A resolver's references are in the places that there are.
LEMMA ResolverPlaces ==
  ASSUME SiteInv, NEW i \in DOMAIN Resolver
  PROVE  Resolver[i].place \in Places
<1> DEFINE refs == Configure[Terraform[site.flavour][site.kind].resource].references
           all  == {<<Resolver[j].place, Resolver[j].field, Resolver[j].to>> :
                      j \in DOMAIN Resolver}
<1>1. all = UNION {{<<p, x[1], gvkOverride[x[2]]>> :
                      x \in {y \in refs : y[1] \in Fields(Type, p)}} : p \in Places}
  BY Given, ReferencesResolved DEF Resolver, Type
<1>2. <<Resolver[i].place, Resolver[i].field, Resolver[i].to>> \in all
  OBVIOUS
<1> HIDE DEF all, refs
<1>3. QED  BY <1>1, <1>2

\* A resolver resolves every reference that is given, wherever it is.
LEMMA ResolvesGiven ==
  ASSUME SiteInv, NEW p \in Places, NEW f \in site.given[p]
  PROVE  \E i \in GivenRefs : Resolver[i].place = p /\ Resolver[i].field = f
<1> DEFINE refs == Configure[Terraform[site.flavour][site.kind].resource].references
           of(q) == {<<q, x[1], gvkOverride[x[2]]>> :
                       x \in {y \in refs : y[1] \in Fields(Type, q)}}
           all  == {<<Resolver[j].place, Resolver[j].field, Resolver[j].to>> :
                      j \in DOMAIN Resolver}
<1>1. all = UNION {of(q) : q \in Places}
  BY Given, ReferencesResolved DEF Resolver, Type
<1>2. PICK j \in DOMAIN Resolver : Resolver[j].field = f
  <2>1. f \in RefFields(site.flavour, site.kind)
    BY Given
  <2>2. QED  BY <2>1 DEF RefFields, Resolver
<1>3. PICK q \in Places : <<Resolver[j].place, f, Resolver[j].to>> \in of(q)
  BY <1>1, <1>2
<1>4. PICK x \in refs : x[1] = f
  BY <1>3
<1>5. <<p, f, gvkOverride[x[2]]>> \in of(p)
  <2>1. f \in Fields(Type, p)
    BY DEF SiteInv
  <2>2. QED  BY <1>4, <2>1
<1>6. PICK i \in DOMAIN Resolver :
        <<Resolver[i].place, Resolver[i].field, Resolver[i].to>> = <<p, f, gvkOverride[x[2]]>>
  <2>1. <<p, f, gvkOverride[x[2]]>> \in all
    <3> HIDE DEF all, of
    <3>1. QED  BY <1>1, <1>5
  <2>2. QED  BY <2>1
<1>7. Resolver[i].place = p /\ Resolver[i].field = f
  BY <1>6
<1>8. i \in GivenRefs
  BY <1>7 DEF GivenRefs
<1>9. QED  BY <1>7, <1>8

LEMMA GivenRefsTyped ==
  ASSUME SiteInv, NEW i \in GivenRefs
  PROVE  /\ Resolver[i].place \in Places /\ Resolver[i].field \in site.refs
         /\ Resolver[i].field \in site.given[Resolver[i].place]
BY ResolverPlaces, Given DEF GivenRefs

\* Removing, re-creating or identifying an object keeps the records what they are.
Objects == [removed: BOOLEAN, known: BOOLEAN, gen: Values \ {None}]

LEMMA ValuesTyped == None \in Values /\ Values \subseteq Nat
BY EventsAssumption DEF None, Values

LEMMA NoCopyTyped == NoCopy \in Copies /\ NotMade \in [site.refs -> Values]
BY ValuesTyped DEF NoCopy, NotMade, Copies

LEMMA RequeueTyped == Requeue => pc' = "idle" /\ mg' = NoCopy /\ todo' = {}
BY DEF Requeue

\* Setting one value of a copy, or the values of one place, makes a copy of it.
LEMMA CopyUpdate ==
  ASSUME NEW copy \in Copies, NEW p \in Places, NEW f \in site.refs, NEW v \in Values
  PROVE  [copy EXCEPT ![p][f] = v] \in Copies
BY DEF Copies

LEMMA MergedTyped ==
  ASSUME NEW copy \in Copies  PROVE GetMergedParameters(copy) \in [site.refs -> Values]
<1> DEFINE overwrite == Terraform[site.flavour][site.kind].overwrite
           first  == IF overwrite THEN "initProvider" ELSE "forProvider"
           second == CHOOSE p \in Places : p # first
<1>1. first \in Places /\ second \in Places
  BY DEF Places
<1> HIDE DEF first, second
<1>2. \A f \in site.refs :
        (IF copy[first][f] # None THEN copy[first][f] ELSE copy[second][f]) \in Values
  BY <1>1 DEF Copies
<1>3. GetMergedParameters(copy)
        = [f \in site.refs |-> IF copy[first][f] # None THEN copy[first][f] ELSE copy[second][f]]
  BY DEF GetMergedParameters, first, second
<1>4. QED  BY <1>2, <1>3

LEMMA LateTyped ==
  ASSUME NEW copy \in Copies, made.params \in [site.refs -> Values]
  PROVE  LateInitialize(copy) \in Copies
BY DEF LateInitialize, Copies, Places

LEMMA TypeInit == Init => TypeInv
<1> SUFFICES ASSUME Init  PROVE TypeInv
  OBVIOUS
<1> USE DEF Init, ProcessInit
<1>1. SiteInv
  BY DEF SiteInv, Admitted
<1>2. ProcessTypeOK
  <2>1. events \in 0..MaxEvents
    BY EventsAssumption
  <2>2. up \in BOOLEAN /\ est \subseteq CRDs /\ running = {} /\ failed = {}
    OBVIOUS
  <2>3. QED  BY <2>1, <2>2 DEF ProcessTypeOK
<1>3. 1 \in Values \ {None}
  BY EventsAssumption DEF Values, None
<1>4. TypeOK
  BY <1>2, <1>3, NoCopyTyped DEF TypeOK
<1>5. LivesInv
  BY EventsAssumption DEF LivesInv
<1>6. QED  BY <1>1, <1>4, <1>5 DEF TypeInv

\* A step that uses an event, or none, and leaves the rest of the process alone.
Calm == UNCHANGED <<site, up, est, running, failed>> /\ (Event \/ UNCHANGED events)

LEMMA ReconcileCalm == Reconcile => Calm
BY DEF Calm, Reconcile, InitializersFail, Start, Resolve, ResolveFails, Save,
  ConnectFails, AddFinalizer, Create, Observe, Delete, vars, processVars

LEMMA OthersCalm ==
  /\ Fail \/ Discard => Calm
  /\ \A f \in site.refs : Identify(f) \/ Remove(f) \/ Recreate(f) => Calm
  /\ UNCHANGED vars => Calm
BY DEF Calm, Fail, Discard, Identify, Remove, Recreate, vars, processVars

\* What the process and its controllers do.
ProcessInv == SiteInv /\ ProcessTypeOK /\ (~up => running = {} /\ failed = {})

LEMMA EventTyped ==
  ASSUME events \in 0..MaxEvents, Event \/ UNCHANGED events
  PROVE  events' \in 0..MaxEvents /\ events' <= events
BY EventsAssumption DEF Event

LEMMA ProcessNext == ProcessInv /\ [Next]_vars => ProcessInv' /\ UNCHANGED site
<1> SUFFICES ASSUME ProcessInv, [Next]_vars  PROVE ProcessInv' /\ UNCHANGED site
  OBVIOUS
<1>1. UNCHANGED site
  <2>1. CASE Process
    BY <2>1 DEF Process, Boot, Setup, Establish
  <2>2. CASE Down
    BY <2>2 DEF Down, Exit, Crash, Stop
  <2>3. QED
    BY <2>1, <2>2, ReconcileCalm, OthersCalm DEF Next, Calm
<1>2. SiteInv' /\ Ours' = Ours /\ CRDs' = CRDs
  BY <1>1 DEF ProcessInv, SiteInv, Type, Ours, CRDs, Targets
<1> USE DEF ProcessInv, ProcessTypeOK
<1>3. CASE Boot
  BY <1>2, <1>3 DEF Boot
<1>4. ASSUME NEW c \in Ours, Setup(c)  PROVE ProcessInv'
  <2>1. events' \in 0..MaxEvents
    BY <1>4, EventTyped DEF Setup
  <2>2. QED  BY <1>2, <1>4, <2>1 DEF Setup
<1>5. ASSUME NEW crd \in CRDs, Establish(crd)  PROVE ProcessInv'
  BY <1>2, <1>5 DEF Establish
<1>6. CASE Down
  <2>1. events' \in 0..MaxEvents
    BY <1>6, EventTyped DEF Down, Exit, Crash
  <2>2. QED  BY <1>2, <1>6, <2>1 DEF Down, Exit, Crash, Stop
<1>7. CASE Calm
  <2>1. events' \in 0..MaxEvents
    BY <1>7, EventTyped DEF Calm
  <2>2. QED  BY <1>2, <1>7, <2>1 DEF Calm
<1>8. QED
  BY <1>1, <1>3, <1>4, <1>5, <1>6, <1>7, ReconcileCalm, OthersCalm DEF Next, Process

\* The types of the MR's variables.
MrTyped ==
  /\ ref \in [site.refs -> Objects]
  /\ spec \in Copies /\ mr \in {"live", "deleted", "gone"} /\ fin \in BOOLEAN
  /\ made \in [there: BOOLEAN, params: [site.refs -> Values]]
  /\ pc \in {"idle", "resolve", "connect"} /\ mg \in Copies
  /\ todo \subseteq GivenRefs

LEMMA TypeParts == TypeInv <=> ProcessInv /\ MrTyped /\ LivesInv
BY DEF TypeInv, TypeOK, ProcessInv, MrTyped, Objects

\* The types depend on the deployment alone.
LEMMA SameSite ==
  ASSUME UNCHANGED site
  PROVE  /\ Resolver' = Resolver /\ Copies' = Copies /\ NoCopy' = NoCopy
         /\ NotMade' = NotMade /\ Type' = Type /\ GivenRefs' = GivenRefs
BY DEF Resolver, Copies, NoCopy, NotMade, Type, GivenRefs

LEMMA RequeueKeepsTypes ==
  ASSUME MrTyped, UNCHANGED site, Requeue
  PROVE  pc' \in {"idle", "resolve", "connect"} /\ mg' \in Copies /\ todo' \subseteq GivenRefs
BY RequeueTyped, NoCopyTyped

LEMMA MrTypes == TypeInv /\ [Next]_vars => MrTyped'
<1> SUFFICES ASSUME TypeInv, [Next]_vars  PROVE MrTyped'
  OBVIOUS
<1>1. MrTyped /\ SiteInv /\ LivesInv /\ UNCHANGED site /\ events \in 0..MaxEvents
  BY TypeParts, ProcessNext DEF ProcessInv, ProcessTypeOK
<1>2. SUFFICES MrTyped'
  OBVIOUS
<1> USE <1>1, SameSite DEF MrTyped
<1>3. CASE UNCHANGED mrVars
  BY <1>3 DEF mrVars
<1>4. ASSUME UNCHANGED <<spec, mr, fin, made, pc, mg, todo>>, ref' \in [site.refs -> Objects]
      PROVE  MrTyped'
  BY <1>4
<1>5. ASSUME UNCHANGED <<ref, spec, mr, fin, made>>, Requeue  PROVE MrTyped'
  BY <1>5, RequeueKeepsTypes
<1>6. CASE InitializersFail \/ UNCHANGED vars \/ Process
  BY <1>3, <1>6 DEF InitializersFail, Process, vars, mrVars
<1>7. CASE ResolveFails \/ ConnectFails \/ Fail \/ Down
  BY <1>5, <1>7 DEF ResolveFails, ConnectFails, Fail, Down
<1>8. CASE Start
  <2>1. todo' \subseteq GivenRefs
    BY <1>8 DEF Start, Pending
  <2>2. QED  BY <1>8, <2>1 DEF Start
<1>9. CASE Resolve
  <2>1. PICK i \in todo :
          /\ mg' = [mg EXCEPT ![Resolver[i].place][Resolver[i].field] = ExternalName(Resolver[i])]
          /\ todo' = todo \ {i}
    BY <1>9 DEF Resolve
  <2>2. Resolver[i].place \in Places /\ Resolver[i].field \in site.refs
    BY GivenRefsTyped
  <2>3. ExternalName(Resolver[i]) \in Values
    BY <2>2, ValuesTyped DEF ExternalName, Objects
  <2>4. mg' \in Copies
    BY <2>1, <2>2, <2>3, CopyUpdate
  <2>5. QED  BY <1>9, <2>1, <2>4 DEF Resolve
<1>10. CASE Save
  BY <1>10 DEF Save
<1>11. CASE Create
  <2>1. made' \in [there: BOOLEAN, params: [site.refs -> Values]]
    BY <1>11, MergedTyped DEF Create
  <2>2. QED  BY <1>11, <2>1, RequeueKeepsTypes DEF Create
<1>12. CASE Observe
  <2>1. spec' \in Copies
    BY <1>12, LateTyped DEF Observe
  <2>2. QED  BY <1>12, <2>1, RequeueKeepsTypes DEF Observe
<1>13. CASE Delete
  BY <1>13, NoCopyTyped, RequeueKeepsTypes DEF Delete
<1>14. CASE Discard
  BY <1>14, RequeueKeepsTypes DEF Discard
<1>15. ASSUME NEW f \in site.refs, Identify(f) \/ Remove(f) \/ Recreate(f)  PROVE MrTyped'
  <2>1. /\ ref[f] \in Objects
        /\ ref[f].gen + (IF ref[f].removed THEN 1 ELSE 0) + events <= MaxEvents + 1
    BY DEF LivesInv
  <2>2. ref[f].removed => ref[f].gen + 1 \in Values \ {None}
    BY <2>1, EventsAssumption DEF Objects, Values, None
  <2>3. CASE Identify(f)
    BY <1>4, <2>1, <2>3 DEF Identify, Objects
  <2>4. CASE Remove(f)
    BY <1>4, <2>1, <2>4 DEF Remove, Objects
  <2>5. CASE Recreate(f)
    BY <1>4, <2>1, <2>2, <2>5 DEF Recreate, Objects
  <2>6. QED  BY <1>15, <2>3, <2>4, <2>5
<1>16. CASE AddFinalizer
  BY <1>16 DEF AddFinalizer
<1>17. QED
  BY <1>6, <1>7, <1>8, <1>9, <1>10, <1>11, <1>12, <1>13, <1>14, <1>15, <1>16 DEF Next, Reconcile

\* An object is removed before it has another life.
LEMMA LivesNext == TypeInv /\ [Next]_vars => LivesInv'
<1> SUFFICES ASSUME TypeInv, [Next]_vars, NEW f \in site.refs
             PROVE  ref'[f].gen + (IF ref'[f].removed THEN 1 ELSE 0) + events' <= MaxEvents + 1
  BY ProcessNext, TypeParts DEF LivesInv
<1>1. /\ ref \in [site.refs -> Objects] /\ events \in 0..MaxEvents
      /\ ref[f] \in Objects /\ ref[f].gen \in Nat
      /\ ref[f].gen + (IF ref[f].removed THEN 1 ELSE 0) + events <= MaxEvents + 1
  BY TypeParts, ValuesTyped DEF ProcessInv, ProcessTypeOK, MrTyped, LivesInv, Objects
<1>2. events' \in 0..MaxEvents /\ events' <= events
  <2>1. CASE Process
    BY <1>1, <2>1, EventTyped DEF Process, Boot, Setup, Establish
  <2>2. CASE Down
    BY <1>1, <2>2, EventTyped DEF Down, Exit, Crash, Stop
  <2>3. CASE Calm
    BY <1>1, <2>3, EventTyped DEF Calm
  <2>4. QED  BY <2>1, <2>2, <2>3, ReconcileCalm, OthersCalm DEF Next
<1>3. CASE ref'[f] = ref[f]
  BY <1>1, <1>2, <1>3, EventsAssumption
<1>4. ASSUME NEW g \in site.refs, Identify(g)
      PROVE  ref'[f].gen = ref[f].gen /\ ref'[f].removed = ref[f].removed
  BY <1>1, <1>4 DEF Identify, Objects
<1>5. ASSUME NEW g \in site.refs, Remove(g), g = f
      PROVE  ~ref[f].removed /\ ref'[f].gen = ref[f].gen /\ ref'[f].removed /\ events' = events - 1
  BY <1>1, <1>5 DEF Remove, Exists, Event, Objects
<1>6. ASSUME NEW g \in site.refs, Recreate(g), g = f
      PROVE  ref[f].removed /\ ref'[f].gen = ref[f].gen + 1 /\ ~ref'[f].removed
  BY <1>1, <1>6 DEF Recreate, Objects
<1>7. ASSUME NEW g \in site.refs, Remove(g) \/ Recreate(g), g # f  PROVE ref'[f] = ref[f]
  BY <1>1, <1>7 DEF Remove, Recreate
<1>8. ASSUME UNCHANGED ref  PROVE ref'[f] = ref[f]
  BY <1>8
<1>9. CASE Reconcile
  BY <1>3, <1>8, <1>9 DEF Reconcile, InitializersFail, Start, Resolve, ResolveFails, Save,
    ConnectFails, AddFinalizer, Create, Observe, Delete, vars, mrVars
<1>10. CASE Fail \/ Discard \/ Process \/ Down \/ UNCHANGED vars
  BY <1>3, <1>8, <1>10 DEF Fail, Discard, Process, Down, vars, mrVars
<1>11. ASSUME NEW g \in site.refs, Identify(g) \/ Remove(g) \/ Recreate(g)
       PROVE  ref'[f].gen + (IF ref'[f].removed THEN 1 ELSE 0) + events' <= MaxEvents + 1
  BY <1>1, <1>2, <1>3, <1>4, <1>5, <1>6, <1>7, <1>11, EventsAssumption
<1>12. QED  BY <1>9, <1>10, <1>11 DEF Next

LEMMA TypeNext == TypeInv /\ [Next]_vars => TypeInv'
<1>1. TypeInv /\ [Next]_vars => ProcessInv' /\ MrTyped' /\ LivesInv'
  BY TypeParts, ProcessNext, MrTypes, LivesNext
<1>2. (TypeInv <=> ProcessInv /\ MrTyped /\ LivesInv)'
  BY DEF TypeInv, TypeOK, ProcessInv, MrTyped, Objects
<1>3. QED  BY <1>1, <1>2

\* Every variable keeps its type, however often objects are removed and re-created,
\* within the events there are: zz_generated.resolvers.go, cmd/provider/main.go.
THEOREM TypeCorrect == Spec => []TypeOK
<1>1. TypeInv => TypeOK
  BY DEF TypeInv
<1>2. QED
  BY <1>1, TypeInit, TypeNext, PTL DEF Spec

-----------------------------------------------------------------------------
(* What is saved and what is made.                                         *)

\* All references that are given have a value, or none has.
Complete(copy) == \A p \in Places : \A f \in site.given[p] : copy[p][f] # None
Empty(copy)    == \A p \in Places : \A f \in site.given[p] : copy[p][f] = None

\* A field that resolving leaves alone.
Settled(p, f) == f \notin site.given[p] \/ (~site.always /\ spec[p][f] # None)

\* No value is an identity that the object never had.
KnownIn(copy) == \A p \in Places, f \in site.refs : copy[p][f] <= ref[f].gen
IdentityInv ==
  /\ KnownIn(spec) /\ KnownIn(mg)
  /\ made.there => \A f \in site.refs : made.params[f] \in 1..ref[f].gen

\* While references are resolved the copy has a value for each that is not to do any
\* more, and differs from what is saved only where a reference was to be resolved.
ResolveInv ==
  /\ todo # {} => pc = "resolve"
  /\ pc = "resolve" =>
       /\ mr = "live" /\ todo \subseteq Pending(spec)
       /\ \A i \in GivenRefs \ todo : ValueOf(mg, Resolver[i]) # None
       /\ \A p \in Places, f \in site.refs : Settled(p, f) => mg[p][f] = spec[p][f]

\* What connects is what was saved, and complete unless the MR is to be deleted.
ConnectInv == pc = "connect" => mg = spec /\ (mr = "live" => Complete(spec))

\* What is made was made of what is saved.
SavedInv ==
  /\ Complete(spec) \/ Empty(spec)
  /\ made.there => Complete(spec)
  /\ made.there /\ ~site.always => GetMergedParameters(spec) = made.params

LinkInv == TypeInv /\ IdentityInv /\ ResolveInv /\ ConnectInv /\ SavedInv

\* A copy merges one place's value of a field, or else the other's.
LEMMA MergedValue ==
  ASSUME NEW copy \in Copies, NEW f \in site.refs
  PROVE  \E p, q \in Places :
           /\ Places = {p, q}
           /\ GetMergedParameters(copy)[f] = IF copy[p][f] # None THEN copy[p][f] ELSE copy[q][f]
<1> DEFINE first  == IF Terraform[site.flavour][site.kind].overwrite
                       THEN "initProvider" ELSE "forProvider"
           second == CHOOSE p \in Places : p # first
<1>1. first \in Places /\ second \in Places /\ second # first
  BY DEF Places
<1>2. Places = {first, second}
  BY <1>1 DEF Places
<1> HIDE DEF first, second
<1>3. GetMergedParameters(copy)[f]
        = IF copy[first][f] # None THEN copy[first][f] ELSE copy[second][f]
  BY DEF GetMergedParameters, first, second
<1>4. QED  BY <1>1, <1>2, <1>3

\* A complete copy is made with a value for everything it refers to, one that it has.
LEMMA MergedComplete ==
  ASSUME SiteInv, NEW copy \in Copies, Complete(copy), NEW f \in site.refs
  PROVE  /\ GetMergedParameters(copy)[f] # None
         /\ \E p \in Places : GetMergedParameters(copy)[f] = copy[p][f]
<1>1. PICK p \in Places : f \in site.given[p]
  BY Given
<1>2. copy[p][f] # None
  BY <1>1 DEF Complete
<1>3. PICK q, r \in Places :
        /\ Places = {q, r}
        /\ GetMergedParameters(copy)[f] = IF copy[q][f] # None THEN copy[q][f] ELSE copy[r][f]
  BY MergedValue
<1>4. CASE copy[q][f] # None
  BY <1>3, <1>4
<1>5. CASE copy[q][f] = None
  BY <1>1, <1>2, <1>3, <1>5
<1>6. QED  BY <1>4, <1>5

\* Late initialization sets nothing that is set, and nothing but what was made.
LEMMA LateValue ==
  ASSUME NEW copy \in Copies, NEW p \in Places, NEW f \in site.refs
  PROVE  LateInitialize(copy)[p][f] \in {copy[p][f]}
           \cup (IF p = "forProvider" /\ copy[p][f] = None THEN {made.params[f]} ELSE {})
BY DEF LateInitialize, Copies, Places

\* So the MR goes on to say what was made.
LEMMA LateMerged ==
  ASSUME NEW copy \in Copies, made.params = GetMergedParameters(copy),
         made.params \in [site.refs -> Values]
  PROVE  GetMergedParameters(LateInitialize(copy)) = made.params
<1> DEFINE first  == IF Terraform[site.flavour][site.kind].overwrite
                       THEN "initProvider" ELSE "forProvider"
           second == CHOOSE p \in Places : p # first
           late == LateInitialize(copy)
<1>1. first \in Places /\ second \in Places /\ second # first /\ Places = {first, second}
  BY DEF Places
<1>2. late \in Copies
  BY LateTyped
<1> HIDE DEF first, second, late
<1>3. \A c \in Copies : GetMergedParameters(c)
        = [f \in site.refs |-> IF c[first][f] # None THEN c[first][f] ELSE c[second][f]]
  BY DEF GetMergedParameters, first, second
<1>4. ASSUME NEW f \in site.refs
      PROVE  (IF late[first][f] # None THEN late[first][f] ELSE late[second][f]) = made.params[f]
  <2>1. made.params[f] = IF copy[first][f] # None THEN copy[first][f] ELSE copy[second][f]
    BY <1>3
  <2>2. \A p \in Places : late[p][f] = copy[p][f]
                            \/ (copy[p][f] = None /\ late[p][f] = made.params[f])
    BY LateValue DEF late
  <2>3. "forProvider" \in Places
    BY DEF Places
  <2>4. \A p \in Places : p # "forProvider" => late[p][f] = copy[p][f]
    BY LateValue DEF late
  <2>5. QED  BY <1>1, <2>1, <2>2, <2>4
<1>5. QED  BY <1>2, <1>3, <1>4 DEF late

LEMMA SameMerge ==
  ASSUME UNCHANGED <<site, spec>>
  PROVE  GetMergedParameters(spec)' = GetMergedParameters(spec)
BY DEF GetMergedParameters

LEMMA LinkInit == Init => LinkInv
<1> SUFFICES ASSUME Init  PROVE LinkInv
  OBVIOUS
<1>1. SiteInv /\ TypeInv
  BY TypeInit DEF TypeInv
<1>2. \A p \in Places, f \in site.refs : spec[p][f] = None /\ mg[p][f] = None /\ ref[f].gen = 1
  BY DEF Init, NoCopy
<1>3. IdentityInv
  BY <1>2 DEF IdentityInv, KnownIn, Init, None
<1>4. ResolveInv /\ ConnectInv
  BY DEF ResolveInv, ConnectInv, Init
<1>5. Empty(spec)
  BY <1>1, <1>2, Given DEF Empty
<1>6. SavedInv
  BY <1>5 DEF SavedInv, Init
<1>7. QED  BY <1>1, <1>3, <1>4, <1>6 DEF LinkInv

\* What is saved and made stays good when neither is touched.
LEMMA SavedKept ==
  ASSUME SavedInv, UNCHANGED <<site, spec, made>>
  PROVE  SavedInv'
BY SameMerge DEF SavedInv, Complete, Empty

LEMMA ValuesOfTypes ==
  ASSUME TypeInv
  PROVE  /\ spec \in Copies /\ mg \in Copies /\ made.params \in [site.refs -> Values]
         /\ \A f \in site.refs : ref[f].gen \in Nat /\ 1 <= ref[f].gen
         /\ \A p \in Places, f \in site.refs : spec[p][f] \in Nat /\ mg[p][f] \in Nat
<1>1. /\ spec \in Copies /\ mg \in Copies /\ made.params \in [site.refs -> Values]
      /\ ref \in [site.refs -> Objects]
  BY DEF TypeInv, TypeOK, Objects
<1>2. \A p \in Places, f \in site.refs : spec[p][f] \in Nat /\ mg[p][f] \in Nat
  BY <1>1, ValuesTyped DEF Copies
<1>3. \A f \in site.refs : ref[f].gen \in Values /\ ref[f].gen # None
  BY <1>1 DEF Objects
<1>4. \A n \in Values : n # None => n \in Nat /\ 1 <= n
  BY ValuesTyped DEF None
<1>5. QED  BY <1>1, <1>2, <1>3, <1>4

\* The lives of an object are counted upwards.
Later == \A f \in site.refs : ref'[f].gen \in Nat /\ ref[f].gen <= ref'[f].gen

LEMMA IdentityKept ==
  ASSUME TypeInv, IdentityInv, UNCHANGED <<site, spec, made>>, mg' = mg \/ mg' = NoCopy, Later
  PROVE  IdentityInv'
<1>1. \A p \in Places, f \in site.refs : NoCopy[p][f] = 0
  BY DEF NoCopy, None
<1>2. KnownIn(spec)'
  BY ValuesOfTypes DEF IdentityInv, KnownIn, Later
<1>3. KnownIn(mg)'
  BY <1>1, ValuesOfTypes DEF IdentityInv, KnownIn, Later
<1>4. QED  BY <1>2, <1>3, ValuesOfTypes DEF IdentityInv, Later

\* The steps that end a reconcile, whatever becomes of the MR.
LEMMA LinkRequeue ==
  ASSUME LinkInv, TypeInv', Requeue, UNCHANGED <<site, ref, spec, made>>
  PROVE  LinkInv'
<1>1. ResolveInv' /\ ConnectInv'
  BY RequeueTyped DEF ResolveInv, ConnectInv
<1>2. IdentityInv'
  <2>1. Later
    BY ValuesOfTypes DEF LinkInv, Later
  <2>2. QED  BY <2>1, IdentityKept, RequeueTyped DEF LinkInv
<1>3. QED  BY <1>1, <1>2, SavedKept DEF LinkInv

\* The steps of others, in which an object may get another identity.
LEMMA LinkOthers ==
  ASSUME LinkInv, TypeInv', UNCHANGED <<site, spec, mr, made, pc, mg, todo>>, Later
  PROVE  LinkInv'
<1>1. IdentityInv'
  BY IdentityKept DEF LinkInv
<1>2. ResolveInv' /\ ConnectInv'
  BY SameSite DEF LinkInv, ResolveInv, ConnectInv, Pending, ValueOf, Settled, Complete
<1>3. QED  BY <1>1, <1>2, SavedKept DEF LinkInv

LEMMA LinkStart ==
  ASSUME LinkInv, TypeInv', Start
  PROVE  LinkInv'
<1>1. /\ UNCHANGED <<site, ref, spec, mr, made>> /\ mg' = spec /\ mr # "gone"
      /\ pc' = IF mr = "deleted" THEN "connect" ELSE "resolve"
      /\ todo' = IF mr = "deleted" THEN {} ELSE Pending(spec)
  BY DEF Start, processVars
<1>2. IdentityInv'
  BY <1>1 DEF LinkInv, IdentityInv, KnownIn
<1>3. mr \in {"live", "deleted"}
  BY <1>1 DEF LinkInv, TypeInv, TypeOK
<1>4. ConnectInv'
  BY <1>1, <1>3 DEF ConnectInv
<1>5. \A i \in GivenRefs \ Pending(spec) : ValueOf(spec, Resolver[i]) # None
  BY DEF Pending
<1>6. ResolveInv'
  BY <1>1, <1>3, <1>5, SameSite DEF ResolveInv, Pending, ValueOf
<1>7. QED  BY <1>1, <1>2, <1>4, <1>6, SavedKept DEF LinkInv

LEMMA LinkResolve ==
  ASSUME LinkInv, TypeInv', Resolve
  PROVE  LinkInv'
<1>1. PICK i \in todo :
        /\ Found(Resolver[i]) /\ todo' = todo \ {i}
        /\ mg' = [mg EXCEPT ![Resolver[i].place][Resolver[i].field] = ExternalName(Resolver[i])]
  BY DEF Resolve
<1> DEFINE r == Resolver[i]
<1>2. pc = "resolve" /\ UNCHANGED <<site, ref, spec, mr, made, pc>>
  BY DEF Resolve, processVars
<1>3. /\ SiteInv /\ todo \subseteq GivenRefs /\ mg \in Copies /\ mg' \in Copies
      /\ mr = "live" /\ todo \subseteq Pending(spec)
      /\ \A j \in GivenRefs \ todo : ValueOf(mg, Resolver[j]) # None
      /\ \A p \in Places, f \in site.refs : Settled(p, f) => mg[p][f] = spec[p][f]
  BY <1>2, SameSite DEF LinkInv, TypeInv, TypeOK, ResolveInv
<1>4. r.place \in Places /\ r.field \in site.refs /\ r.field \in site.given[r.place]
  BY <1>3, GivenRefsTyped
<1>5. ExternalName(r) = ref[r.field].gen /\ ref[r.field].gen \in Nat \ {None}
  BY <1>1, <1>4, ValuesTyped DEF Found, ExternalName, LinkInv, TypeInv, TypeOK
<1> HIDE DEF r
<1>6. \A p \in Places, f \in site.refs :
        mg'[p][f] = IF p = r.place /\ f = r.field THEN ref[f].gen ELSE mg[p][f]
  BY <1>1, <1>3, <1>4, <1>5 DEF Copies, r
<1>7. IdentityInv'
  BY <1>2, <1>5, <1>6 DEF LinkInv, IdentityInv, KnownIn
<1>8. \A j \in GivenRefs \ todo' : mg'[Resolver[j].place][Resolver[j].field] # None
  <2> TAKE j \in GivenRefs \ todo'
  <2>1. Resolver[j].place \in Places /\ Resolver[j].field \in site.refs
    BY <1>3, GivenRefsTyped
  <2>2. CASE j = i
    BY <1>4, <1>5, <1>6, <2>2 DEF r
  <2>3. CASE j # i
    BY <1>1, <1>3, <1>5, <1>6, <2>1, <2>3 DEF ValueOf
  <2>4. QED  BY <2>2, <2>3
<1>9. ~Settled(r.place, r.field)
  BY <1>1, <1>3, <1>4 DEF Settled, Pending, ValueOf, r
<1>10. \A p \in Places, f \in site.refs : Settled(p, f) => mg'[p][f] = spec[p][f]
  BY <1>3, <1>6, <1>9
<1>11. ResolveInv'
  <2>1. todo' \subseteq Pending(spec)
    BY <1>1, <1>3
  <2>2. QED
    BY <1>2, <1>3, <1>8, <1>10, <2>1, SameSite DEF ResolveInv, Pending, ValueOf, Settled
<1>12. ConnectInv'
  BY <1>2 DEF ConnectInv
<1>13. QED  BY <1>2, <1>7, <1>11, <1>12, SavedKept DEF LinkInv

\* A copy in which nothing is left to resolve is complete, and keeps what is settled.
LEMMA ResolvedComplete ==
  ASSUME SiteInv, ResolveInv, pc = "resolve", todo = {}
  PROVE  Complete(mg)
<1> SUFFICES ASSUME NEW p \in Places, NEW f \in site.given[p]  PROVE mg[p][f] # None
  BY DEF Complete
<1>1. PICK i \in GivenRefs : Resolver[i].place = p /\ Resolver[i].field = f
  BY ResolvesGiven
<1>2. QED  BY <1>1 DEF ResolveInv, ValueOf

\* Without Always references that are saved are resolved to what they are.
LEMMA ResolvedAgain ==
  ASSUME LinkInv, pc = "resolve", ~site.always, Complete(spec)
  PROVE  mg = spec
<1>1. SiteInv /\ spec \in Copies /\ mg \in Copies
  BY ValuesOfTypes DEF LinkInv, TypeInv
<1>2. \A p \in Places, f \in site.refs : Settled(p, f)
  BY <1>1, Given DEF Complete, Settled
<1>3. \A p \in Places, f \in site.refs : mg[p][f] = spec[p][f]
  BY <1>2 DEF LinkInv, ResolveInv
<1>4. ASSUME NEW p \in Places  PROVE mg[p] = spec[p]
  <2>1. mg[p] \in [site.refs -> Values] /\ spec[p] \in [site.refs -> Values]
    BY <1>1 DEF Copies
  <2>2. QED  BY <1>3, <2>1
<1>5. QED  BY <1>1, <1>4 DEF Copies

LEMMA LinkSave ==
  ASSUME LinkInv, TypeInv', Save
  PROVE  LinkInv'
<1>1. /\ pc = "resolve" /\ todo = {} /\ pc' = "connect" /\ spec' = mg
      /\ UNCHANGED <<site, ref, mr, made, mg, todo>>
  BY DEF Save, processVars
<1>2. SiteInv /\ Complete(mg) /\ spec \in Copies /\ mg \in Copies
  BY <1>1, ResolvedComplete, ValuesOfTypes DEF LinkInv, TypeInv
<1>3. IdentityInv'
  BY <1>1 DEF LinkInv, IdentityInv, KnownIn
<1>4. ResolveInv' /\ ConnectInv'
  BY <1>1, <1>2 DEF ResolveInv, ConnectInv, Complete
<1>5. ASSUME made.there, ~site.always  PROVE mg = spec
  BY <1>1, <1>5, ResolvedAgain DEF LinkInv, SavedInv
<1>6. SavedInv'
  <2>1. Complete(spec)'
    BY <1>1, <1>2 DEF Complete
  <2>2. ASSUME made.there, ~site.always
        PROVE  GetMergedParameters(spec)' = made.params
    <3>1. UNCHANGED spec
      BY <1>1, <1>5, <2>2
    <3>2. QED  BY <1>1, <2>2, <3>1, SameMerge DEF LinkInv, SavedInv
  <2>3. QED  BY <1>1, <2>1, <2>2 DEF SavedInv
<1>7. QED  BY <1>3, <1>4, <1>6 DEF LinkInv

LEMMA LinkCreate ==
  ASSUME LinkInv, TypeInv', Create
  PROVE  LinkInv'
<1>1. /\ pc = "connect" /\ mr = "live" /\ Requeue
      /\ made' = [there |-> TRUE, params |-> GetMergedParameters(mg)]
      /\ UNCHANGED <<site, ref, spec, mr>>
  BY DEF Create, Connecting, processVars
<1>2. /\ SiteInv /\ mg = spec /\ Complete(spec) /\ spec \in Copies
      /\ \A f \in site.refs : ref[f].gen \in Nat
      /\ \A p \in Places, f \in site.refs : spec[p][f] \in Nat
  BY <1>1, ValuesOfTypes DEF LinkInv, ConnectInv, TypeInv
<1>3. ResolveInv' /\ ConnectInv'
  BY <1>1, RequeueTyped DEF ResolveInv, ConnectInv
<1>4. \A f \in site.refs : made'.params[f] \in 1..ref[f].gen
  <2> TAKE f \in site.refs
  <2>1. GetMergedParameters(spec)[f] # None
    BY <1>2, MergedComplete
  <2>2. PICK p \in Places : GetMergedParameters(spec)[f] = spec[p][f]
    BY <1>2, MergedComplete
  <2>3. spec[p][f] \in Nat /\ spec[p][f] <= ref[f].gen /\ spec[p][f] # 0
    BY <1>2, <2>1, <2>2 DEF LinkInv, IdentityInv, KnownIn, None
  <2>4. QED  BY <1>1, <1>2, <2>2, <2>3
<1>5. KnownIn(spec)' /\ KnownIn(mg)'
  <2>1. \A p \in Places, f \in site.refs : NoCopy[p][f] = 0
    BY DEF NoCopy, None
  <2>2. QED  BY <1>1, <1>2, <2>1, RequeueTyped DEF LinkInv, IdentityInv, KnownIn
<1>6. IdentityInv'
  BY <1>1, <1>4, <1>5 DEF IdentityInv
<1>7. SavedInv'
  BY <1>1, <1>2, SameMerge DEF SavedInv, Complete
<1>8. QED  BY <1>3, <1>6, <1>7 DEF LinkInv

LEMMA LinkObserve ==
  ASSUME LinkInv, TypeInv', Observe
  PROVE  LinkInv'
<1>1. /\ pc = "connect" /\ mr = "live" /\ made.there /\ Requeue
      /\ spec' = LateInitialize(mg) /\ UNCHANGED <<site, ref, mr, made>>
  BY DEF Observe, Connecting, processVars
<1>2. /\ SiteInv /\ mg = spec /\ Complete(spec) /\ spec \in Copies
      /\ made.params \in [site.refs -> Values]
      /\ \A f \in site.refs : ref[f].gen \in Nat
      /\ \A p \in Places, f \in site.refs : spec[p][f] \in Nat
  BY <1>1, ValuesOfTypes DEF LinkInv, ConnectInv, TypeInv
<1>3. \A p \in Places, f \in site.refs :
        spec'[p][f] = spec[p][f] \/ (spec[p][f] = None /\ spec'[p][f] = made.params[f])
  BY <1>1, <1>2, LateValue
<1>4. ResolveInv' /\ ConnectInv'
  BY <1>1, RequeueTyped DEF ResolveInv, ConnectInv
<1>5. IdentityInv'
  <2>1. KnownIn(spec)'
    BY <1>1, <1>2, <1>3 DEF LinkInv, IdentityInv, KnownIn
  <2>2. \A p \in Places, f \in site.refs : NoCopy[p][f] = 0
    BY DEF NoCopy, None
  <2>3. KnownIn(mg)'
    BY <1>1, <1>2, <2>2, RequeueTyped DEF KnownIn
  <2>4. QED  BY <1>1, <2>1, <2>3 DEF LinkInv, IdentityInv
<1>6. SavedInv'
  <2>1. Complete(spec)'
    BY <1>1, <1>2, <1>3, Given DEF Complete
  <2>2. ASSUME ~site.always  PROVE GetMergedParameters(spec)' = made.params
    <3>1. GetMergedParameters(LateInitialize(spec)) = made.params
      BY <1>1, <1>2, <2>2, LateMerged DEF LinkInv, SavedInv
    <3> DEFINE late == LateInitialize(spec)
    <3>2. spec' = late
      BY <1>1, <1>2
    <3> HIDE DEF late
    <3>3. GetMergedParameters(spec)' = GetMergedParameters(late)
      BY <1>1, <3>2 DEF GetMergedParameters
    <3>4. QED  BY <1>1, <3>1, <3>3 DEF late
  <2>3. QED  BY <1>1, <2>1, <2>2 DEF SavedInv
<1>7. QED  BY <1>4, <1>5, <1>6 DEF LinkInv

LEMMA LinkDelete ==
  ASSUME LinkInv, TypeInv', Delete
  PROVE  LinkInv'
<1>1. /\ Requeue /\ made' = [there |-> FALSE, params |-> NotMade]
      /\ UNCHANGED <<site, ref, spec>>
  BY DEF Delete, processVars
<1>2. ResolveInv' /\ ConnectInv'
  BY <1>1, RequeueTyped DEF ResolveInv, ConnectInv
<1>3. \A p \in Places, f \in site.refs : NoCopy[p][f] = 0
  BY DEF NoCopy, None
<1>4. IdentityInv'
  BY <1>1, <1>3, RequeueTyped, ValuesOfTypes DEF LinkInv, IdentityInv, KnownIn
<1>5. SavedInv'
  BY <1>1 DEF LinkInv, SavedInv, Complete, Empty
<1>6. QED  BY <1>2, <1>4, <1>5 DEF LinkInv

LEMMA LaterSteps ==
  ASSUME TypeInv, NEW g \in site.refs, Identify(g) \/ Remove(g) \/ Recreate(g)
  PROVE  Later
<1> SUFFICES ASSUME NEW f \in site.refs
             PROVE  ref'[f].gen \in Nat /\ ref[f].gen <= ref'[f].gen
  BY DEF Later
<1>1. ref \in [site.refs -> Objects] /\ ref[f] \in Objects /\ ref[f].gen \in Nat
  BY ValuesOfTypes DEF TypeInv, TypeOK, Objects
<1>2. ref'[f].gen = ref[f].gen \/ ref'[f].gen = ref[f].gen + 1
  BY <1>1 DEF Identify, Remove, Recreate, Objects
<1>3. QED  BY <1>1, <1>2

LEMMA LinkNext == LinkInv /\ [Next]_vars => LinkInv'
<1> SUFFICES ASSUME LinkInv, [Next]_vars  PROVE LinkInv'
  OBVIOUS
<1>1. TypeInv /\ TypeInv' /\ UNCHANGED site
  BY TypeNext, ProcessNext, TypeParts DEF LinkInv
<1>2. ASSUME UNCHANGED mrVars  PROVE LinkInv'
  <2>1. Later
    BY <1>1, <1>2, ValuesOfTypes DEF Later, mrVars
  <2>2. QED  BY <1>1, <1>2, <2>1, LinkOthers DEF mrVars
<1>3. CASE InitializersFail \/ Process \/ UNCHANGED vars
  BY <1>2, <1>3 DEF InitializersFail, Process, vars
<1>4. CASE ResolveFails \/ ConnectFails \/ Fail \/ Discard \/ Down
  BY <1>1, <1>4, LinkRequeue DEF ResolveFails, ConnectFails, Fail, Discard, Down
<1>5. CASE AddFinalizer
  <2>1. Later
    BY <1>1, <1>5, ValuesOfTypes DEF Later, AddFinalizer
  <2>2. QED  BY <1>1, <1>5, <2>1, LinkOthers DEF AddFinalizer
<1>6. CASE Reconcile
  BY <1>1, <1>3, <1>4, <1>5, <1>6, LinkStart, LinkResolve, LinkSave, LinkCreate, LinkObserve,
    LinkDelete
    DEF Reconcile
<1>7. ASSUME NEW f \in site.refs, Identify(f) \/ Remove(f) \/ Recreate(f)  PROVE LinkInv'
  <2>1. UNCHANGED <<site, spec, mr, made, pc, mg, todo>>
    BY <1>1, <1>7 DEF Identify, Remove, Recreate
  <2>2. QED  BY <1>1, <1>7, <2>1, LaterSteps, LinkOthers
<1>8. QED  BY <1>3, <1>4, <1>6, <1>7 DEF Next

LEMMA LinkAlways == Spec => []LinkInv
BY LinkInit, LinkNext, PTL DEF Spec

\* Nothing is made before, or with anything but, the identities of what it refers to,
\* in every deployment and through any number of restarts and re-created objects:
\* zz_generated.resolvers.go.
THEOREM MadeOfIdentities == Spec => []MadeWithIdentity
<1>1. LinkInv => MadeWithIdentity
  BY DEF LinkInv, IdentityInv, MadeWithIdentity
<1>2. QED  BY <1>1, LinkAlways, PTL

\* All references are saved together, whatever fails in between and however many
\* there are: zz_generated.resolvers.go.
THEOREM SavedTogether == Spec => []AllOrNone
<1>1. LinkInv => AllOrNone
  BY DEF LinkInv, SavedInv, Complete, Empty, AllOrNone
<1>2. QED  BY <1>1, LinkAlways, PTL

\* Without Always the MR says what was made, also after late initialization and
\* for both directions of the merge: zz_*_terraformed.go.
THEOREM SaysMade == Spec => []SaysWhatWasMade
<1>1. LinkInv => SaysWhatWasMade
  BY DEF LinkInv, SavedInv, SaysWhatWasMade
<1>2. QED  BY <1>1, LinkAlways, PTL

\* A step saves what the reconcile has resolved, or what late initialization adds, or
\* leaves the MR's references alone.
LEMMA SavingSteps ==
  ASSUME [Next]_vars
  PROVE  UNCHANGED spec \/ Save \/ Observe
BY DEF Next, Reconcile, InitializersFail, Start, Resolve, ResolveFails, ConnectFails,
  AddFinalizer, Create, Delete, Fail, Discard, Process, Down, Identify, Remove, Recreate, vars, mrVars

\* What is saved stays, if its reference does not ask for Always:
\* zz_generated.resolvers.go.
THEOREM KeepsWhatIsResolved == Spec => KeepsResolved
<1> DEFINE Keeps ==
      \A p \in Places, f \in site.refs :
        (~site.always \/ f \notin site.given[p]) /\ spec[p][f] # None
          => spec'[p][f] = spec[p][f]
<1>1. LinkInv /\ [Next]_vars => Keeps
  <2> SUFFICES ASSUME LinkInv, [Next]_vars  PROVE Keeps
    OBVIOUS
  <2>1. CASE UNCHANGED spec
    BY <2>1
  <2>2. CASE Save
    BY <2>2 DEF Save, LinkInv, ResolveInv, Settled
  <2>3. CASE Observe
    <3>1. mg = spec /\ spec' = LateInitialize(mg) /\ mg \in Copies
      BY <2>3, ValuesOfTypes DEF Observe, Connecting, LinkInv, ConnectInv
    <3>2. QED  BY <3>1, LateValue
  <2>4. QED  BY <2>1, <2>2, <2>3, SavingSteps
<1>2. QED
  BY <1>1, LinkAlways, PTL DEF Spec, KeepsResolved

-----------------------------------------------------------------------------
(* References implements Linkage.                                          *)

\* An MR that made its object has its finalizer, and takes the object along.  As
\* long as references are not saved none has a value, wherever it is.
KeptInv ==
  /\ made.there => fin /\ mr # "gone"
  /\ mr = "deleted" => fin
  /\ Complete(spec) \/ spec = NoCopy

LEMMA KeptInit == Init => KeptInv
BY DEF Init, KeptInv

LEMMA KeptNext == LinkInv /\ KeptInv /\ [Next]_vars => KeptInv'
<1> SUFFICES ASSUME LinkInv, KeptInv, [Next]_vars  PROVE KeptInv'
  OBVIOUS
<1>1. SiteInv /\ UNCHANGED site
  BY ProcessNext, TypeParts DEF LinkInv, TypeInv
<1>2. (Complete(spec) \/ spec = NoCopy)'
  <2>1. CASE UNCHANGED spec
    BY <1>1, <2>1, SameSite DEF KeptInv, Complete
  <2>2. CASE Save
    BY <1>1, <2>2, ResolvedComplete DEF Save, LinkInv, Complete
  <2>3. CASE Observe
    <3>1. mg = spec /\ spec' = LateInitialize(mg) /\ mg \in Copies /\ Complete(spec)
      BY <2>3, ValuesOfTypes DEF Observe, Connecting, LinkInv, ConnectInv
    <3>2. \A p \in Places, f \in site.refs : spec[p][f] # None => spec'[p][f] = spec[p][f]
      BY <3>1, LateValue
    <3>3. QED  BY <1>1, <3>1, <3>2, Given DEF Complete
  <2>4. QED  BY <2>1, <2>2, <2>3, SavingSteps
<1>3. CASE UNCHANGED <<mr, fin, made>>
  BY <1>2, <1>3 DEF KeptInv
<1>4. CASE AddFinalizer \/ Create
  BY <1>2, <1>4 DEF KeptInv, AddFinalizer, Create
<1>5. CASE Delete
  BY <1>2, <1>5 DEF KeptInv, Delete
<1>6. CASE Discard
  BY <1>2, <1>6 DEF KeptInv, Discard
<1>7. QED
  BY <1>3, <1>4, <1>5, <1>6 DEF Next, Reconcile, InitializersFail, Start, Resolve, ResolveFails,
    Save, ConnectFails, Observe, Fail, Process, Down, Identify, Remove, Recreate, vars, mrVars

\* What a complete copy makes of a field is an identity its object has had.
LEMMA MergedKnown ==
  ASSUME TypeInv, NEW copy \in Copies, Complete(copy), KnownIn(copy), NEW f \in site.refs
  PROVE  GetMergedParameters(copy)[f] \in 1..ref[f].gen
<1>1. SiteInv /\ ref[f].gen \in Nat
  BY ValuesOfTypes DEF TypeInv
<1>2. GetMergedParameters(copy)[f] # 0
  BY <1>1, MergedComplete DEF None
<1>3. PICK p \in Places : GetMergedParameters(copy)[f] = copy[p][f]
  BY <1>1, MergedComplete
<1>4. copy[p][f] \in Nat /\ copy[p][f] <= ref[f].gen
  BY ValuesTyped DEF Copies, KnownIn
<1>5. QED  BY <1>1, <1>2, <1>3, <1>4

LEMMA BlankMerged == GetMergedParameters(NoCopy) = NotMade
<1>1. Places # {} /\ \A p \in Places : NoCopy[p] = NotMade
  BY DEF NoCopy, NotMade, Places
<1>2. "initProvider" \in Places /\ "forProvider" \in Places /\ "initProvider" # "forProvider"
  BY DEF Places
<1>3. \A p \in Places : (CHOOSE q \in Places : q # p) \in Places
  BY <1>2
<1>4. QED  BY <1>1, <1>2, <1>3 DEF GetMergedParameters, NotMade

\* The steps that do not show.
LEMMA Unseen ==
  ASSUME UNCHANGED <<site, spec, made, mr>>, \A f \in site.refs : ref'[f].gen = ref[f].gen
  PROVE  UNCHANGED Promise!vars
BY SameMerge DEF Promise!vars

\* A complete copy that is saved is a link, or shows nothing.
LEMMA SavingLinks ==
  ASSUME LinkInv, KeptInv, UNCHANGED <<site, ref, made, mr>>, mr = "live",
         NEW copy \in Copies, spec' = copy, Complete(copy), KnownIn(copy),
         ~site.always => spec = NoCopy \/ GetMergedParameters(copy) = GetMergedParameters(spec)
  PROVE  [Promise!Next]_(Promise!vars)
<1>1. GetMergedParameters(spec)' = GetMergedParameters(copy)
  BY DEF GetMergedParameters
<1>2. CASE GetMergedParameters(copy) = GetMergedParameters(spec)
  BY <1>1, <1>2 DEF Promise!vars
<1>3. CASE site.always \/ spec = NoCopy
  <2>1. GetMergedParameters(copy) \in [site.refs -> Nat]
    BY MergedTyped, ValuesTyped
  <2>2. \A f \in site.refs : GetMergedParameters(copy)[f] \in 1..ref[f].gen
    BY MergedKnown DEF LinkInv
  <2>3. site.always \/ GetMergedParameters(spec) = [f \in site.refs |-> 0]
    BY <1>3, BlankMerged DEF NotMade, None
  <2>4. Promise!Link
    BY <1>1, <2>1, <2>2, <2>3 DEF Promise!Link, Promise!Blank
  <2>5. QED  BY <2>4 DEF Promise!Next
<1>4. QED  BY <1>2, <1>3

LEMMA PromiseInit == Init => Promise!Init
<1> SUFFICES ASSUME Init  PROVE Promise!Init
  OBVIOUS
<1>1. [f \in site.refs |-> ref[f].gen] = [f \in site.refs |-> 1]
  BY DEF Init
<1>2. GetMergedParameters(spec) = [f \in site.refs |-> 0]
  BY BlankMerged DEF Init, NotMade, None
<1>3. site.always \in BOOLEAN
  BY SitesAssumption DEF Init, ProcessInit
<1>4. QED  BY <1>1, <1>2, <1>3 DEF Init, Promise!Init, Promise!Blank, NotMade, None

LEMMA PromiseNext == LinkInv /\ KeptInv /\ [Next]_vars => [Promise!Next]_(Promise!vars)
<1> SUFFICES ASSUME LinkInv, KeptInv, [Next]_vars  PROVE [Promise!Next]_(Promise!vars)
  OBVIOUS
<1>1. TypeInv /\ SiteInv /\ UNCHANGED site /\ spec \in Copies /\ mg \in Copies
  BY ProcessNext, TypeParts, ValuesOfTypes DEF LinkInv, TypeInv
<1>2. CASE UNCHANGED <<ref, spec, made, mr>>
  BY <1>1, <1>2, Unseen
<1>3. CASE Save
  <2>1. /\ pc = "resolve" /\ mr = "live" /\ spec' = mg /\ Complete(mg) /\ KnownIn(mg)
        /\ UNCHANGED <<ref, made, mr>>
    BY <1>1, <1>3, ResolvedComplete DEF Save, LinkInv, ResolveInv, IdentityInv
  <2>2. ~site.always => spec = NoCopy \/ GetMergedParameters(mg) = GetMergedParameters(spec)
    BY <2>1, ResolvedAgain DEF KeptInv
  <2>3. QED  BY <1>1, <2>1, <2>2, SavingLinks
<1>4. CASE Observe
  <2> DEFINE late == LateInitialize(spec)
  <2>1. /\ pc = "connect" /\ mr = "live" /\ mg = spec /\ made.there /\ spec' = late
        /\ UNCHANGED <<ref, made, mr>>
    BY <1>4 DEF Observe, Connecting, LinkInv, ConnectInv
  <2>2. late \in Copies /\ made.params \in [site.refs -> Values]
    BY <1>1, LateTyped, ValuesOfTypes
  <2>3. LinkInv' /\ Complete(spec)'
    BY <2>1, LinkNext DEF LinkInv, SavedInv
  <2>4. ~site.always => GetMergedParameters(late) = GetMergedParameters(spec)
    BY <1>1, <2>1, <2>2, LateMerged DEF LinkInv, SavedInv
  <2> HIDE DEF late
  <2>5. Complete(late) /\ KnownIn(late)
    BY <1>1, <2>1, <2>3 DEF LinkInv, IdentityInv, Complete, KnownIn
  <2>6. QED  BY <1>1, <2>1, <2>2, <2>4, <2>5, SavingLinks
<1>5. CASE Create
  <2>1. /\ mr = "live" /\ ~made.there /\ mg = spec /\ Complete(spec) /\ KnownIn(spec)
        /\ made' = [there |-> TRUE, params |-> GetMergedParameters(spec)]
        /\ UNCHANGED <<ref, spec, mr>>
    BY <1>5 DEF Create, Connecting, LinkInv, ConnectInv, IdentityInv
  <2>2. \A f \in site.refs : GetMergedParameters(spec)[f] \in 1..ref[f].gen
    BY <1>1, <2>1, MergedKnown
  <2>3. GetMergedParameters(spec)' = GetMergedParameters(spec)
    BY <1>1, <2>1, SameMerge
  <2>4. Promise!Make
    BY <1>1, <2>1, <2>2, <2>3 DEF Promise!Make
  <2>5. QED  BY <2>4 DEF Promise!Next
<1>6. CASE Delete
  <2>1. /\ mr = "deleted" /\ mr' = "gone" /\ made' = [there |-> FALSE, params |-> NotMade]
        /\ UNCHANGED <<ref, spec>>
    BY <1>6 DEF Delete
  <2>2. GetMergedParameters(spec)' = GetMergedParameters(spec)
    BY <1>1, <2>1, SameMerge
  <2>3. Promise!Finish
    BY <1>1, <2>1, <2>2 DEF Promise!Finish, Promise!Blank, NotMade, None
  <2>4. QED  BY <2>3 DEF Promise!Next
<1>7. CASE Discard
  <2>1. /\ mr = "live" /\ mr' \in {"deleted"} \cup (IF made.there THEN {} ELSE {"gone"})
        /\ UNCHANGED <<ref, spec, made>>
    BY <1>7 DEF Discard, KeptInv
  <2>2. GetMergedParameters(spec)' = GetMergedParameters(spec)
    BY <1>1, <2>1, SameMerge
  <2>3. Promise!Delete
    BY <1>1, <2>1, <2>2 DEF Promise!Delete
  <2>4. QED  BY <2>3 DEF Promise!Next
<1>8. ASSUME NEW g \in site.refs, Identify(g) \/ Remove(g) \/ Recreate(g)
      PROVE  [Promise!Next]_(Promise!vars)
  <2>1. ref \in [site.refs -> Objects] /\ UNCHANGED <<spec, made, mr>>
    BY <1>1, <1>8 DEF Identify, Remove, Recreate, TypeInv, TypeOK, Objects
  <2>2. CASE Identify(g) \/ Remove(g)
    <3>1. \A f \in site.refs : ref'[f].gen = ref[f].gen
      BY <2>1, <2>2 DEF Identify, Remove, Objects
    <3>2. QED  BY <1>1, <2>1, <3>1, Unseen
  <2>3. CASE Recreate(g)
    <3>1. \A f \in site.refs : ref'[f].gen = IF f = g THEN ref[f].gen + 1 ELSE ref[f].gen
      BY <2>1, <2>3 DEF Recreate, Objects
    <3>2. GetMergedParameters(spec)' = GetMergedParameters(spec)
      BY <1>1, <2>1, SameMerge
    <3>3. Promise!Renew(g)
      BY <1>1, <2>1, <3>1, <3>2 DEF Promise!Renew
    <3>4. QED  BY <3>3 DEF Promise!Next
  <2>4. QED  BY <1>8, <2>2, <2>3
<1>9. QED
  BY <1>2, <1>3, <1>4, <1>5, <1>6, <1>7, <1>8 DEF Next, Reconcile, InitializersFail, Start,
    Resolve, ResolveFails, ConnectFails, AddFinalizer, Fail, Process, Down, vars, mrVars

\* Whatever is deployed, fails, restarts or is re-created, from outside there is only
\* what Linkage allows: zz_generated.resolvers.go, zz_*_terraformed.go.
THEOREM ImplementsLinkage == Spec => KeepsLinkage
<1>1. Spec => []KeptInv
  BY LinkAlways, KeptInit, KeptNext, PTL DEF Spec
<1>2. QED
  BY <1>1, LinkAlways, PromiseInit, PromiseNext, PTL DEF Spec, KeepsLinkage, Promise!Spec
=============================================================================
