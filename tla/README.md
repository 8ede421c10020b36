# Verification of provider-clickhousedbops

TLA+ models of the Crossplane provider for ClickHouse database operations, the
TLC configurations that check them on small instances, and TLAPS proofs of
theorems about them for every value of the constants.

Paths are relative to the repository (`config/importinit.go` is
`src/config/importinit.go` in `PROJECT.json`). To check a run:
`tlc -config MCAdoption_adopt.cfg MCAdoption`; to check proofs:
`tlapm AdoptionProofs.tla`.

## 1. The system

The provider is generated with upjet: for each of eleven kinds (database, user,
role, settings profile, setting, profile association, two kinds of grant, named
collection, row policy, masking policy), in two API flavours (cluster-scoped
and namespaced), a managed reconciler of crossplane-runtime calls an upjet
external client, which calls the Terraform provider clickhousedbops in the same
process, which speaks SQL to ClickHouse. What the repository adds by hand is
the code between these libraries. That code is the subject here.

| Component | State it keeps | Operations | Interacts with |
|---|---|---|---|
| Import by name and external names (`config/importinit.go`, `config/external_name.go`, `config/overrides.go`) | the `external-name` annotation, `status.atProvider.id` (`uuid` for a database), the in-memory copy of the MR, the Terraform state kept per MR by upjet's operation tracker | `adoptByNameInitializer`, `GetIDFn`, `GetExternalNameFn` | the reconciler, which saves what the initializer sets; the goroutine that runs CREATE and DROP and writes to the same copy; ClickHouse rows, by name and by UUID |
| UUID lookup by name (`internal/clients/roleresolver.go`) | none | one SELECT by name: found, absent, error | the initializer above; the ProviderConfig's credentials |
| Client cache (`internal/clients/caching_provider.go`) | map from configuration hash to client and time of creation, behind a mutex | `Configure` (evict, hit or build, probe, store) | every concurrent reconcile; the clock |
| Password initializers (`config/password_generator.go`) | two keys of a Secret, a reference in the copy of the MR | `PasswordValidator`, `PasswordRefProcessor`, `PasswordGenerator` | the owner of the secret, the informer cache, other users of the same secret, upjet's Observe and update |
| Connection parameters and ProviderConfig resolution (`internal/clients/clients.go`) | a ProviderConfigUsage per MR | `TerraformSetupBuilder`, `resolveLegacy`, `resolveModern`, `ResolveConnParams`, `parsePort` | API server, the ProviderConfig controllers |
| Grant privilege backfill (`config/grantprivilege_backfill.go`) | fields of `status.atProvider` | seeds optional fields before Observe | upjet's choice between state and parameters |
| References between resources (`config/overrides.go`, both `zz_generated.resolvers.go`) | the reference fields of `forProvider` and `initProvider` | `ResolveReferences` of six kinds in two scopes | the objects referred to, whose external name becomes a field of this one; the reconciler, which saves what was resolved |
| Composite and name-based external names (`config/external_name.go`, `config/overrides.go`) | external name | `idWithStub`, `nameFromState`, row and masking policy templates | upjet |
| Generated controllers and ProviderConfig controllers (`internal/controller`) | which controllers of the process run | `SetupGated`, `Setup` of 22 kinds and of the ProviderConfigs | the gate, which calls back; the manager, which a missing CRD ends |
| Start-up and CRD gate (`cmd/provider/main.go`) | the process, the registrations with the gate | `main`, `canWatchCRD` | the API server, on which CRDs become established in any order |
| API types and Terraformed methods (`apis`) | none | `GetMergedParameters`, `LateInitialize`, validation rules | the API server, upjet |
| Code generation, packaging, examples, end-to-end tests | none | | not part of the running provider |

### What is hard here

* One copy of the MR is written by the reconcile and by the goroutine of an
  asynchronous CREATE, while the API server holds another and the informer
  cache an older one.
* ClickHouse's CREATE is not idempotent and has no transaction with the API
  server: between CREATE and the saved external name lies a crash window.
* A placeholder UUID (the sentinel) that must parse as a UUID must never be
  mistaken for one.
* Cached clients are built outside the lock, dated by a clock read before it,
  and remember the error of a query asked only once.
* A password reaches ClickHouse through a secret, its stale cache, a reference,
  the Terraform state and an asynchronous update, with several users on one
  secret and its owner rotating it.
* A reference is resolved from an object that may be removed and re-created with
  another UUID before, between and after the reconcile's saves, and what was
  resolved outlives it.
* A reference or a required field may be given in `forProvider`, in
  `initProvider` or in both; the lookup by name reads only one of them.
* Controllers start one by one, as CRDs come; a controller that does not wait
  takes the process with it, one whose Setup fails is gone until a restart.

The hazards, each at its line, are listed in `PROJECT.json`.

### What makes each component correct

* Adoption: an MR ends up with the UUID of the row of its name, in annotation
  and status; it never takes another identity, never creates what was there
  when it looked, never loses a saved UUID, never leaves a row behind.
* Client cache: a served client is of the right configuration, working when it
  was cached and no older than the TTL; a young client is never evicted, and
  replaced only by a call that had missed before it was stored; failure is not
  remembered.
* Passwords: the owner's plaintext is never changed, whatever is written with a
  stale copy of its secret; the last password settles in ClickHouse; none is
  rolled back; observed users are left alone; a generated password is generated
  once.
* Connection: a ProviderConfig in use stays, one that is deleted goes once its
  users have gone or moved, an MR and its config can be deleted together, the
  lookup by name reaches the server that the provider reaches.
* Grants: the grantee reaches the first Read, a grant recorded before the upgrade
  is never replaced for the options it lacks, and a reference yields a name.
* References: nothing is made before, or with anything but, the identities of
  what it refers to; they are saved all or none; without `Always` what is saved
  stays what the object was made with; deletion does not wait for them.
* Start-up: whatever comes or does not come, the controllers that can run do,
  and none ends the process; then every MR is made.

## 2. The modules

| Module | Models |
|---|---|
| `ExternalName` | the conversions between external name and Terraform ID, and the UUID tests |
| `Adoption` (EXTENDS `ExternalName`) | one MR of a kind adopted by name: its reconcile, its asynchronous operation, its cache, its row |
| `AdoptionProofs`, `AdoptionIdentityProofs` | theorems about `Adoption` |
| `AdoptionOwnershipProofs` | `Adoption` implements `Ownership` |
| `Ownership` | abstract: what adoption promises to the rest of the world about the row of one name |
| `ProviderConfigs` | how MRs come to their connections: ProviderConfigs, usages, secrets, ports, the lookup's and the provider's dialling |
| `ProviderConfigsProofs` | theorems about `ProviderConfigs` |
| `Grants` | one grant, its grantee and its options across the upgrade that brought them |
| `CachingProvider` | the client cache under concurrent `Configure` calls |
| `Serving` | abstract: what a call of `Configure` promises its caller |
| `CachingProviderProofs` | theorems about `CachingProvider`, which implements `Serving` |
| `Passwords` | a secret, its owner, its cache, and the users whose password it holds |
| `Rollout` | abstract: what the password initializers promise about a secret and its users |
| `GrantsProofs` | theorems about `Grants` |
| `PasswordsProofs` | theorems about `Passwords`, which implements `Rollout` |
| `KindForms` | the forms that code generation fills in: controller, type, Terraform methods, resolver |
| `ClusterKinds`, `NamespacedKinds` | each generated kind of a scope in these forms |
| `ResourceConfigs` | what the repository configures for each Terraform resource |
| `Kinds` | both scopes together; assumptions that generated code and configuration agree |
| `Startup` (EXTENDS `Kinds`) | the process, the gate and the set-up of controllers |
| `References` (EXTENDS `Startup`) | an MR of any kind with its references, from admission to deletion |
| `Linkage` | abstract: what referring promises about an MR, its references and its object |
| `ReferencesProofs` | theorems about `Startup` and `References`, which implements `Linkage` |
| `MCAdoption`, `MCCachingProvider`, `MCPasswords`, `MCProviderConfigs`, `MCGrants`, `MCReferences` | what TLC instantiates |

Definitions called *Mutant* in the modules are plausible mistakes in the code
next to them; each property is falsified by one of them (`PROJECT.json`,
`mutants`).

### Adoption

An identifier is the sequence of its `:`-separated segments. `api`, `seen` and
`mg` are the MR on the API server, in the informer cache and in the reconcile's
hands; `tf` is the Terraform state in the operation tracker; `op` is the
goroutine; `row` is the one row of the name `spec.forProvider.name`. `pc` walks
through a reconcile: `Get`; the initializer (`InitializeRecorded` when the
observation holds a UUID, `InitializeSeed` or `LookupFails` otherwise);
`IncompleteCreate`, `ObserveRunning`, `ReadFails`, `ReadFound` or
`ReadNotFound`; then finalizer, late initialization, the three steps of a
create, delete, or the status update. `Update` is a PUT under optimistic lock
that decodes the response into the copy and leaves the status alone, the
behaviour the comments at importinit.go:43-64 rely on. `LateInitialize` saves
an external name that Observe changed.

`RunCreate`, `FinishCreate`, `FinishFailed` and `RunDelete` are the goroutine.
While `op.shared` holds it writes to `mg`, the copy of the reconcile that
started it. The environment lets the cache catch up, kills the provider (copy,
operation and Terraform state are lost, a CREATE already sent may still be
executed), lets somebody else write the MR, create or drop the row, delete the
MR, start to manage an MR that was only observed, or clear an interrupted
create.

Where the libraries leave room the model takes every choice: the Terraform ID
ClickHouse's provider returns with or without the cluster prefix, whether a
failed read leaves a state in the tracker, whether a failed create leaves the
ID it was called with.

Each MR is a `"database"`, whose state is rebuilt from `status.atProvider.uuid`, or
a `"role"`, which stands for user and settings profile too and is rebuilt from
the external name.

`Ownership` is the specification seen from outside: a row under a name that
comes, goes and is recorded. A recorded UUID is the row's, is recorded once and
for good; a row goes only for a deleted, managed MR whose row it is; the MR goes
after it. `KeepsOwnership` says that `Adoption`, without drift, implements it under
the mapping `identity <-` the annotation of a live MR when it holds a UUID: every
reconcile, goroutine, crash and conflict is one of its steps or a stutter.

### ProviderConfigs

A reconcile of an MR resolves its config (`GetConfig`: which of the three types,
which secret), tracks the usage (`Track`), reads the credentials and dials
(`Lookup`); then Connect does it all again (`Connect`). Meanwhile users switch
references, edit secrets and delete configs and MRs, and crossplane-runtime
lets a deleted config go when no usage names it. Credentials are a port and a
protocol; a port is a JSON number, counted in tenths so that fractions show, or
a string. `Listens` are the four ports of a ClickHouse server.

### Grants

A reconcile of one GrantPrivilege runs the backfill (`Initialize`) in the new
version, resolves the grantee (`Resolve`), rebuilds or keeps its Terraform state
(`ConnectState`) and reads. What is kept of the grant is its grantee, standing
for all fields that are not options, and which of the two options are set.
`Restart` loses the tracked state and may bring the new version.

### CachingProvider

One action per critical section and per call between them: `Configure` (hash
and clock, before the lock), `Lookup` (evict, then hit or miss, under the
lock), `InnerConfigure` and `Probe` (outside), `Store` (under the lock, dated
by the first clock reading). A client is the configuration it was built for,
when, and what its once-only version query remembers. `OnlyMissesReplace` follows
the calls that are building a client (`Building`): nobody joins them while a young
client is cached, and a young client gives way only to the client of one of them,
which leaves.

`Serving` is the same seen by the callers: `calls`, `asked`, `served` and the
`clock`. A call is served nothing or a client of its configuration, at most `TTL`
older than the call; one that remembers a failure was built during the call, so
it reaches only the call that saw it fail. `KeepsServing` maps `calls <-` the `pc`
without what lies between `idle` and `done`, `asked <- req`, and `served <-` the
client in `resp` once the call is done: cache, lock, eviction and probe do not show.

### Passwords

Passwords are numbered in the order they reach the secret; a hash is a password
hashed once more. The secret has a version for the optimistic lock of the
patch. Each User MR reads the cache, writes the secret and then lets Observe
read the hash through its reference and compare it with the Terraform state;
`Run` is CREATE or ALTER USER in the goroutine; where the owner's password meets a
user that was there before, ClickHouse's provider may refuse it. After a restart
the rebuilt state has no hash or the last one recorded (`Crash`). The validator's exclusion of two
methods at once is the constant `Methods`: one of them for all MRs of a behaviour.
An MR with policy `"none"` is one that does not exist. The adoption initializer that runs
between the two password initializers touches neither secret nor reference; its
failure is one of the failures of `Fail`.

`Rollout` has the numbers only: of the latest password, of the one in the secret,
of the one whose hash is there, and of the one each user has. The owner rotates,
the provider generates or offers the hash of the password *that is there*, somebody
withdraws, a *managed* user is given a *later* password. `KeepsRollout` maps
`current` and `hashed` to the numbers in the secret's two keys and `applied` to those
in ClickHouse; a hash that is written for the second time, a lost reply or a
restart is a stutter.

### Kinds

`ClusterKinds` and `NamespacedKinds` hold one definition for each generated
controller, type, set of Terraform methods and resolver; `KindForms` says what
the generators put around the parts that differ. `Kinds` relates the scopes to
each other and to `ResourceConfigs`, as assumptions TLC evaluates: `SameKinds`,
`InitializersRun` (the configured initializers are wired, and exactly the kinds
with a UUID as external name adopt by name), `ReferencesResolved` (the
resolvers resolve what is configured, to the right kinds, wherever the type has
the field), `FieldsConfigured`, `SecretsMapped`, `SecretMethodsKnown`. A kind
regenerated for one scope only, or after a change of `overrides.go` in part,
falsifies one of them.

### Startup and References

`site` is a deployment: the kind and scope of the MR, the reference fields it
gives and where, with which policy, where its required fields are, whether its
row is there before it, whether the provider may watch CRDs (`gated`), which
CRDs come `late` and whether one of another kind never comes (`missing`).
`up`, `est`, `running` and `failed` are the process, the established CRDs and
the controllers set up or failed. `Boot` is `main`; `Setup` the gate's callback,
which may fail, or set up one of the two controllers of the namespaced
ProviderConfigs and fail on the other; `Exit` is controller-runtime ending the process over a watch
that never syncs, `Crash` any other end.

`ref` are the objects referred to, each with the number of its life (`gen`),
which stands for its UUID: `Identify` is their own adoption (what `Ownership`
promises: once per life), `Remove` and `Recreate` their users. `spec` is the
MR's reference fields on the API server, `mg` the reconcile's copy, `made` the
object in ClickHouse and the parameters it was made with. A reconcile runs the
initializers (`InitializersFail`, or on with `Start`), resolves one reference after
the other (`Resolve`, `ResolveFails`), saves them (`Save`), finds its
configuration (`ConnectFails`) and then adds its finalizer (`AddFinalizer`), creates,
observes with late initialization, or deletes. `todo` are the positions of the references still to be
resolved, taken in the resolver's order (`IsNext`). `Discard` is the deletion of the MR; as it changes
the object, a reconcile under way loses its writes to a conflict.

`Linkage` is what is seen of this from outside: how many identities each object
referred to has had (`lives <- gen`), the identity that is written down for each
field (`record <-` the merged parameters of `spec`), the object and what it was made
with, and the phase of the MR. Identities are written down together, once unless
`Always`, and none that never was; the object is made of what is written down and
goes with the MR. Places, merges, late initialization, copies, CRDs and restarts
are stutters under `KeepsLinkage`. An MR that has its finalizer and no object yet may
go at once or by way of `deleted`.

## 3. The runs

| Run | Instance | Shows |
|---|---|---|
| `adopt` | 3 UUIDs, 2 faults, a cluster; database or role; MR unpinned, pinned by name or UUID; observed first or managed | type, recorded identity, no CREATE over what was there, no orphan, IDs that name the recorded row, the refinement of `Ownership`, convergence |
| `drift` | 4 UUIDs, 3 faults, prefixed and dangling pins, rows dropped behind the provider | the sentinel is never saved |
| `restored` | *violated* (no cluster) | a row restored under a new UUID is not adopted |
| `cache` | 2 calls, 2 configurations, TTL 1, 3 ticks, 2 failures | only working clients are cached, a young one is neither evicted nor replaced but by a call that had missed before it was stored, no failure is remembered, and the refinement of `Serving`, which says what a call is served |
| `passwords` | 2 users, each with its own password, a generated one or absent; 2 edits by the owner, 1 fault | plaintext kept, no rollback, observed users untouched, the refinement of `Rollout`, the last password settles, also after the secret or its hash was deleted, unless the user was there before and the password is refused |
| `generated_twice` | *violated* | two reads of a stale cache generate twice |
| `configs` | a namespaced and a cluster-scoped MR, 3 configs, 2 secrets, a good port and one beyond 65535, 2 events | the port dialled is the one given, a config in use stays, MRs connect, deletions finish |
| `https` | *violated* | with the README's https credentials the lookup never succeeds |
| `grants` | by name or by reference, before or after the user, before or after the upgrade, 3 faults | read with a grantee, never replaced for missing options once recorded, made and recorded |
| `grants_reference` | *violated* | a reference to a User yields its UUID, not its name |
| `bootstrap` | 192 deployments, 2 events | no controller watches a CRD that is not there, each starts, MRs are made with and only with the identities of what they refer to, say what they were made with, follow `Always`, and can be deleted; the refinement of `Linkage` |
| `init_name` | *violated* | a name in `initProvider` alone is admitted and never looked up |

Bounds. Faults (`MaxFaults`) are shared by crashes, failed calls, lost replies,
rivals and drops: two let a crash meet a conflict or a rival, three let a row
be dropped, re-created and a reconcile fail on top. Three UUIDs give the MR,
a rival and a lost CREATE a row each; the fourth is for a dangling pin. Two
callers and a TTL shorter than the clock are enough for a call to be overtaken
by another and by expiry, with the comparison met at, below and above its
boundary. Two edits let the owner rotate while a rotation is in flight, or
delete and re-create. Two events let an MR switch configs and the old one be
deleted, or a config be deleted with its MR while a call fails; the number
74536.5 would be port 9000 in 16 bits. Three faults let a grant be executed
unrecorded, the upgrade follow and fail once more. The deployments of
`bootstrap` are: every reference field of every kind of both scopes, alone, in
each place and in both, with `Always` and with `IfNotPresent`, all CRDs late;
two MRs with two references each; the adopted kinds with and without a row,
named in either place; every other kind; a role with the CRDs of the configs
late or not, gated or not, another CRD missing or not. Two events let an object
be removed and re-created around a crash, a Setup or a call fail twice, or an MR be
deleted after one of these. Symmetry is used in `drift` only, where nothing but an
invariant is checked.

Deadlock is checked everywhere but in `bootstrap` and `init_name`: a controller
whose Setup failed and one whose CRD never comes do wait for good. `Deleted` in `Adoption` is the stuttering of an
MR that is gone, `AllGone` in `ProviderConfigs` of all MRs; the others never
stop.

### Fairness

`Adoption` assumes weak fairness of the reconcile (the work queue retries what
failed, every MR is polled), of the goroutine and of the informer cache.
`CachingProvider` assumes it of each caller's next step, `Passwords` of each
MR's reconcile, each operation and the cache, `ProviderConfigs` of each MR's
reconcile, of the config reconciler that a usage's deletion wakes and of the
garbage collector, `Grants` of the reconcile, the GRANT and the making of the
user, `References` of the reconcile, of the restart of a process that ended, of
the gate's callbacks and of the controllers of the objects referred to. None is
assumed of faults, users, rivals, the clock or the establishment of CRDs. Liveness is therefore about what happens once the finitely
many faults and edits of a behaviour are over.

## 4. What is proved

Every safety property of a passing run is a theorem, and all four refinements are.
TLAPS checks the following for all values of the constants, subject to the named
ASSUMEs of the modules, which TLC evaluates in every run: a kind is given, the
sentinel is no assigned UUID, names are no UUIDs, times and bounds are naturals,
a site (`SitesAssumption`) gives only references that its kind has, and
the generated code of each kind agrees with its configuration (`Kinds`).

* `CachingProviderProofs`: `TypeCorrect`; `CacheHealthy`; `Fresh`;
  `YoungStays` (`OnlyMissesReplace`). The argument relates a call in flight to what it holds: a
  client between construction and store was born no earlier than the clock its
  call read, and is of the call's configuration; only a client whose probe
  answered is at `store`. With it, an entry is dated no later than its client,
  so freshness by the entry's date is freshness by the client's, and a call's
  clock reading is never ahead of the clock, so an entry expired for the call
  is expired; with `YoungSurvives`, that eviction leaves a young entry alone, only
  `Store` touches it, whose call is one of `Building`, and only `Lookup` could join
  `Building`, which a young entry turns into a hit. The theorems hold for TTL 0 too,
  where the run takes TTL 1. `ImplementsServing`, the run's `KeepsServing`, adds that no client was
  built in the future (`BornInv`); the steps before a call returns are stutters
  (`Hidden`), the four ways to return a `Serve` (`Returned`): a hit by `EntryInv`, a
  client just probed by `ClientInv`.
* `AdoptionProofs`: `TypeCorrect` and `SentinelStaysOut`. The type invariant
  alone is not inductive for the sentinel: the in-memory copy *does* carry the
  sentinel, as observation, while no row is found. The inductive invariant
  bounds, step by step of the reconcile, what the copy's external name and the
  tracker's state may hold, for the reconcile and for the goroutine that shares
  the copy, and follows it to the five places that save the annotation.
* `AdoptionIdentityProofs`: `IdentityRecorded`, `CreatesOverNothing`,
  `LeavesNoOrphan` and `IDNamesWhatIsRecorded`, under `Quiet`: nobody drops the row
  behind the provider, and the pin is the object's name or the row's UUID, as in
  the run `adopt`. None of the four is inductive, and they need each other.
  `SafeInv` says that the row of the name is never another one while the MR is
  live, a create is on its way or the row is one that was there first or the MR
  made (`Steady`), and that meanwhile every copy of the MR holds nothing but that
  row's UUID (`IdInv`). What lets a stale copy do no harm: a copy that is fresh
  agrees with the server on phase, policy and finalizer (`CopyInv`), so who
  creates has its finalizer and is not deleted (`FinInv`), a deletion only starts
  for what is no longer live (`StepInv`), and what Connect makes of tracker and
  copy is the row if the row was there for the initializer (`TrackInv`), so Read
  does not miss it.
  `Quiet` is needed: with rows dropped behind the provider, or with a pin that names
  no row, TLC finds counterexamples to each of the four.
* `AdoptionOwnershipProofs`: `ImplementsOwnership`, the run's `KeepsOwnership`, under
  `Quiet` too. Beyond `SafeInv` it takes that a copy that was fresh does not lose
  a UUID (`KeepsInv`), or the MR's identity could be taken back; that a row whose
  CREATE lost its reply was made under a finalizer (`LostInv`); and that a copy
  that deletes manages, however old it is (`ManageInv`).
* `ProviderConfigsProofs`: `TypeCorrect`, `PortsGiven` and `Protected`
  (`UsedStays`). An MR that is not gone has its usage on the config it
  connected through, until it resolves another; to keep that through `Connect`, a reconcile that dials has
  its usage on the config it resolved, which is the cluster-wide one or its MR's
  own. The finalizer's rule, no usage left, then protects the config. That the
  secret is in a namespace at all rests on the same resolution.
* `GrantsProofs`: `TypeCorrect`, `ReadsHaveGrantee` and `NeverReplaced`. A Read's
  grantee comes from the tracked state, the observation or the parameters: the
  first two have one whenever they are there, the last after resolution. For
  `NeverReplaced` the invariant follows the options: a state of the new version
  has them or is made of parameters. Saving a resolved reference replaces the
  backfilled observation in the copy by the server's; that does no harm because
  a grant by reference never has one (`OnlyByName`).
* `PasswordsProofs`, for any key of the plaintext: `ObservedStays`, because an MR that
  does not manage its user is idle and runs nothing (`UnmanagedIdle`), `TypeCorrect`,
  `PlaintextStays` and `NeverRolledBack`; where the key is not `hash`:
  `ImplementsRollout`. Two invariants carry them: copies of the secret with the same
  version are the same secret (`CopiesOrdered`, so a patch that passes the optimistic
  lock hashes the value that is there), and passwords get older from secret to
  hash, cache, operation and ClickHouse (`Aged`). The first makes a written hash an
  `Offer`, the second the end of an operation an `Apply` of a later password. For
  the key `hash` `PlaintextStays` says that hashing in place keeps the owner's
  password, not its plaintext; `Rollout` has no such step, as it takes the two keys
  for different ones.
* `ReferencesProofs`, the process: `WatchesEstablished`. No established CRD goes, each
  controller in `running` had its gate's CRDs, and in both scopes each controller
  watches only what its gate waits for.
* `ReferencesProofs`, the MR: `TypeCorrect`, `MadeOfIdentities`, `SavedTogether`,
  `SaysMade`, `KeepsWhatIsResolved` and `ImplementsLinkage`, for every deployment.
  `TypeCorrect` is more than types: that a life's number stays in range takes that
  every life after the first has cost an event (`LivesInv`). `LinkInv` is inductive,
  and each part is there for the next:
  `ResolveInv`: while references are resolved, those not in `todo` have a value in the
  copy, and what was settled before is still what is saved;
  `ConnectInv`: whoever connects holds what is saved, and all of it if the MR is live
  (this is where all-or-none comes from, as the save needs `todo = {}`);
  `SavedInv`: what is saved is complete or empty, complete once the object is made,
  and merges to what it was made with unless `Always`;
  `IdentityInv`: no value anywhere is one the object referred to never had.
  That the resolver has an entry for each reference given, or something complete
  would never be reached, is the lemma `ResolvesGiven`; it rests on the assumption
  `ReferencesResolved` about the generated resolvers. That late initialization does
  not change what the MR says, in either direction of the merge, is `LateMerged`.
  `ImplementsLinkage` also needs that an MR whose object is there has its finalizer
  and is not gone (`KeptInv`), so that it does not go without its object.

One theorem states what no run lists: `Fresh` (`ServedFresh`), which the refinement
of `Serving` implies.

Only model-checked: all liveness (`Converges`, `Recovers`, `PasswordSettles`,
`GrantSettles`, `Connects`, `DeletionFinishes`, `ConfigGoes`, `Starts`, `EndsMade`,
`Follows`, `DeletesUnaided`), which, as ENABLED, is beyond the prover.

## 5. Assumptions about code outside the repository

* crossplane-runtime: initializers run before Connect and Observe; the status
  update ends a reconcile; the critical annotations are saved before and after a
  create; a create whose end is unknown stops the MR.
* upjet: the Terraform state of an MR lives in memory and is lost with the
  process; without one it is rebuilt from `GetIDFn` or from the status;
  asynchronous operations run one at a time; Observe reports up to date while
  one runs.
* The Terraform state of a user that was there before has no hash: ClickHouse does
  not show one, and adoption records an ID that upjet takes the status for a state
  by. The hash of the secret is therefore news to Observe, which plans an ALTER. Whether
  the Terraform provider executes it or refuses a password that is not the user's is
  decided outside the repository; the model has both, and `PasswordSettles` lets a
  refused user keep its password. A state rebuilt after a restart has no hash or the
  last one recorded.
* `APIPatchingApplicator` patches only under the version it was given, or
  without a version if it was given none.
* The ProviderConfig reconciler sets its finalizer before a config is used and
  lists usages up to date; usages are owned by their MR. clickhouse-go speaks the
  native protocol unless `Options.Protocol` says otherwise.
* upjet's connector uses the tracked state, then the observation, then the
  parameters; a change of an option that is set for the first time asks for a
  replacement, which upjet refuses. Composite IDs of grants contain `:`.
* crossplane-runtime resolves references before Connect and not for an MR that is
  being deleted, saves them only after all were resolved, and takes an empty
  external name for an error. Objects referred to are given by name, in the
  resolver's namespace.
* The gate calls back once, when all CRDs of a registration are established, and
  logs an error of the callback. Established CRDs stay. controller-runtime ends
  the process when a watch does not sync.
* ClickHouse refuses a CREATE for a name that exists; a UUID is used once.

## 6. Observations

* The external name is compared with `spec.forProvider.name`
  (external_name.go:80), while the comment above speaks of the Kubernetes name.
* An MR deleted before its identity was recorded adopts by name and drops what
  it finds, a rival's row included.
* A CREATE whose reply was lost leaves a row that only a later lookup by name
  can find; if the MR is deleted meanwhile the row stays. `NoOrphan` leaves such
  rows (`"lost"` in `origin`) out.
* With TTL 0 a call that read the clock before another stored is still served
  the other's client (caching_provider.go:117 compares with `>`).

* An annotation `cluster:uuid` counts as in sync (importinit.go:50 strips the
  prefix before it tests, and importinit_test.go keeps it), but `GetIDFn` makes
  `cluster:cluster:uuid` of it. Without the pin `"prefixed"` the invariant
  `IDNamesRecorded` holds.
* Two concurrent misses of the client cache build two pools for one
  configuration; the second replaces the first, which is never closed
  (caching_provider.go:88-112). `OnlyMissesReplace` allows just that, one client for
  each call that had missed.
* The documents disagree on a user that exists with another password than the
  secret's: docs/user-import-workflow.md:85 and 122 say that the hash is verified
  with no password change and line 181 that a mismatch is rejected, while
  provider-metadata.yaml:525 and the description in overrides.go:187 speak of a change
  that updates in place. Nothing in the repository compares the hashes; with no
  hash in the state, the reconcile asks for an update (section 5).
* An informer cache that still shows an MR that is gone can let it adopt by name
  once more; an MR that is being deleted may record the row it has just dropped.
* The comment at overrides.go:176-183 says that the state falls back to
  status.atProvider.id for users; docs/import.md says that the ID is rebuilt from
  the external name, and the model follows the latter.
* A ProviderConfig fetched just before it goes still gets a usage and a row;
  the MR then cannot be deleted until the config is re-created
  (clients.go:161-166, 190-208).
* A GRANT that was executed but never recorded is read by its parameters, which
  lack options the user left out; the replacement that follows is refused on
  every reconcile until the provider restarts (`tf.copied` in `Grants`).
* external_name.go:136 says that composite resources "cannot be imported";
  docs/import.md lists them as importable.

* passwordSecretRef.key may be `hash`: the hash then overwrites the plaintext
  (password_generator.go:274), which docs/password-configuration.md:79 says is
  never done, and is hashed again by every reconcile. `Passwords` has the key as a
  constant. The runs take `password`, as the hashes of hashes would not end;
  `TypeCorrect`, `PlaintextStays`, `NeverRolledBack` and `ObservedStays` hold for this
  key too, but what `PlaintextStays` says of it is less: the password stays, its
  plaintext is lost.
* A namespaced User's reference loses its namespace in the JSON round trip
  (password_generator.go:340), so a passwordSecretRef to another namespace
  (zz_user_types.go:755) is written there and read in the MR's own. The run `passwords`
  has a cluster-scoped MR with a foreign secret, whose reference keeps the namespace;
  the theorems of `Passwords` hold for both, since a hash that is not found sets no
  password.
* Late initialization writes what was merged from `initProvider` into
  `forProvider`, which has the say from then on; a reference in `initProvider`
  with `Always` is still resolved but no longer used.
* NamedCollection's `keysSecretRef` is a map of strings in `initProvider`
  (zz_namedcollection_types.go:26), not a reference.
* A `clusterName` given in `initProvider` alone leaves the lookup by name on the
  local server, since it too is read from `forProvider`.
* A Setup that fails in the gate's callback is not tried again until the process
  restarts.
* The comment of `initProvider` (zz_role_types.go:67-75) excepts reference fields,
  but the types have them there and the resolvers resolve them.

## 7. Not modelled, and why

* SQL, connection set-up, TLS: I/O.
* Deep copies, getters and setters of the managed interfaces, list types,
  conversion hubs: generated code without behaviour of its own. Metrics,
  webhooks, change logs: no state of a resource.
* References by selector and with policy `Optional`; an MR and a referent that
  change names; a referent of the other scope.
* The plaintext's way into the connection details that upjet publishes, and a
  return from managing to observing.
* A ProviderConfig reference that is nil or of an unknown kind (clients.go:179-182,
  190-205): `GetConfig` has those that are found or not found. Such an MR neither
  connects nor can be deleted until it is corrected.
* Stale informer caches in `ProviderConfigs` and `Grants`: `Adoption` and
  `Passwords` have them.
* `nameFromState` and the templated names of row and masking policies: string
  formatting, read by ClickHouse only.

## 8. Plan

1. `ExternalName`, `Adoption` with `Ownership`, `CachingProvider` with `Serving`,
   `Passwords` with `Rollout`, `ProviderConfigs`, `Grants` (done).
2. `Startup` and `References` with the tables of kinds they rest on, and `Linkage`
   (done).
3. Proofs of every safety property and of the four refinements (done).
4. The pin `"prefixed"` in `CreatesOverNothing`, `LeavesNoOrphan` and `ImplementsOwnership`,
   whose properties hold with it
   by TLC on the instance of `adopt`.
5. An abstract specification of `ProviderConfigs`.
6. Ownership of one name by two MRs of different API flavours.
