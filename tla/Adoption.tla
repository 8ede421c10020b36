------------------------------ MODULE Adoption ------------------------------
(***************************************************************************)
(* One managed resource (MR) of a kind that is adopted by name: database,  *)
(* role, user or settings profile.  A reconcile copies the MR from the     *)
(* informer cache, runs adoptByNameInitializer (config/importinit.go),     *)
(* reads ClickHouse by UUID, and creates, saves or deletes.  CREATE and    *)
(* DROP run in a goroutine that shares the reconcile's in-memory copy      *)
(* (zz_controller.go: NewTerraformPluginFrameworkAsyncConnector).          *)
(*                                                                         *)
(* The reconciler of crossplane-runtime, upjet's asynchronous client, the  *)
(* API server and ClickHouse are not part of the repository: their actions *)
(* are written from what the code and its comments rely on.                *)
(***************************************************************************)
EXTENDS ExternalName

CONSTANTS SpecName,     \* spec.forProvider.name, the name in ClickHouse
          K8sName,      \* metadata.name
          Kinds,        \* "database", whose Read uses status.atProvider.uuid; "role"
          ObserveFirst, \* the MR may start with managementPolicies ["Observe"]
          PinForms,     \* the external names a user may start with
          Drift,        \* rows may be dropped behind the provider's back
          MaxFaults     \* crashes, failed calls, rivals, drops in a behaviour

NoRow   == "no row"
NoState == NoName

ASSUME AdoptionAssumption ==
  /\ Kinds # {} /\ Kinds \subseteq {"database", "role"} /\ ObserveFirst \in BOOLEAN
  /\ PinForms \subseteq {"none", "name", "uuid", "prefixed", "dangling"}
  /\ Drift \in BOOLEAN /\ MaxFaults \in Nat
  /\ NoRow \notin Uuids
  /\ SpecName \notin Uuids \cup {Sentinel} /\ K8sName \notin Uuids \cup {Sentinel}

VARIABLES
  api,    \* the MR on the API server
  seen,   \* the MR in the informer cache
  mg,     \* the reconcile's in-memory copy of the MR
  loc,    \* the reconcile's locals
  pc,     \* where the reconcile is
  tf,     \* the operation tracker's Terraform state: an identifier or NoState
  op,     \* the asynchronous operation
  row,    \* the UUID of the row named SpecName in ClickHouse, or NoRow
  origin, \* who made each UUID's row (history)
  faults  \* faults left
vars == <<api, seen, mg, loc, pc, tf, op, row, origin, faults>>

Phases == {"live", "deleting", "gone"}
Steps  == {"none", "create", "created", "failed", "delete"}
PCs    == {"idle", "initialize", "observe", "finalize", "lateinit", "pending",
           "create", "succeeded", "status", "delete", "unfinalize"}

\* What a row's UUID may look like in the Terraform state and in the status.
IDs(u)      == {<<u>>, WithCluster(<<u>>)}
StateIDs(u) == IF api.kind = "database" THEN {<<u>>} ELSE IDs(u)
RowIDs      == UNION {IDs(u) : u \in Uuids}

Names        == {NoName, <<SpecName>>, <<K8sName>>, <<Sentinel>>} \cup {<<u>> : u \in Uuids}
                  \cup (IF "prefixed" \in PinForms THEN RowIDs ELSE {})
Observations == {NoName, <<Sentinel>>} \cup RowIDs
States       == Observations \cup {WithCluster(n) : n \in Names \cup {<<Sentinel>>}}

\* kind: "role" stands for user and settings profile too; en: the annotation
\* crossplane.io/external-name; obs: status.atProvider.id (uuid for a database);
\* pending: the newest of the external-create-* annotations is create-pending;
\* fin: the finalizer is there; observe: managementPolicies is ["Observe"].
Objects == [kind: {"database", "role"}, en: Names, obs: Observations, pending: BOOLEAN,
            fin: BOOLEAN, phase: Phases, observe: BOOLEAN]

\* fresh: no one else wrote the MR since it was copied, so an Update of it meets
\* no conflict; exists, late: what Observe reported; base: the row when the
\* initializer ran (history).
Locals == [fresh: BOOLEAN, exists: BOOLEAN, late: BOOLEAN, base: Uuids \cup {NoRow}]

TypeOK ==
  /\ api \in Objects /\ seen \in Objects /\ mg \in Objects
  /\ loc \in Locals
  /\ pc \in PCs
  /\ tf \in States
  /\ op \in [step: Steps, id: Uuids \cup {NoRow}, shared: BOOLEAN]
  /\ row \in Uuids \cup {NoRow}
  /\ origin \in [Uuids -> {"free", "initial", "mr", "lost", "rival"}]
  /\ faults \in 0..MaxFaults

NoOp     == [step |-> "none", id |-> NoRow, shared |-> FALSE]
NewMR(n) == [kind |-> "role", en |-> n, obs |-> NoName, pending |-> FALSE, fin |-> FALSE,
             phase |-> "live", observe |-> FALSE]
NoLocals == [fresh |-> FALSE, exists |-> FALSE, late |-> FALSE, base |-> NoRow]

\* What a user may pin the external name to: nothing, the plain name or a UUID
\* (docs/import.md), a UUID with its cluster (config/importinit_test.go), or a
\* UUID that names no row.
Pins(r) ==
  LET pinned == IF r = NoRow THEN {} ELSE {<<r>>} IN
    (IF "none"     \in PinForms THEN {NoName}                     ELSE {}) \cup
    (IF "name"     \in PinForms THEN {<<K8sName>>}                ELSE {}) \cup
    (IF "uuid"     \in PinForms THEN pinned                       ELSE {}) \cup
    (IF "prefixed" \in PinForms /\ r # NoRow THEN IDs(r)  ELSE {}) \cup
    (IF "dangling" \in PinForms THEN {<<u>> : u \in Uuids \ {r}} ELSE {})

Init ==
  /\ row \in Uuids \cup {NoRow}
  /\ \E k \in Kinds, n \in Pins(row), o \in {FALSE, ObserveFirst} :
       /\ api = [NewMR(n) EXCEPT !.kind = k, !.observe = o]
       /\ origin = [u \in Uuids |-> IF u = row \/ n = <<u>> THEN "initial" ELSE "free"]
  /\ seen = api /\ mg = NewMR(NoName) /\ loc = NoLocals /\ pc = "idle"
  /\ tf = NoState /\ op = NoOp /\ faults = MaxFaults

-----------------------------------------------------------------------------
(* Writes to the API server.                                               *)

Fault == faults > 0 /\ faults' = faults - 1

\* The reconcile ends: its copy of the MR is dropped.
Requeue ==
  /\ pc' = "idle" /\ mg' = NewMR(NoName) /\ loc' = NoLocals
  /\ op' = [op EXCEPT !.shared = FALSE]

\* client.Update(m): optimistic lock, the status subresource stays the server's,
\* and the response is decoded into the copy.
Update(m) ==
  /\ loc.fresh
  /\ api' = [m EXCEPT !.obs = api.obs]
  /\ mg' = api'

Conflict == ~loc.fresh /\ Requeue /\ UNCHANGED api

\* Status().Update(mg), its conflict ignored, ends a reconcile.
SaveStatus ==
  /\ api' = IF loc.fresh THEN [api EXCEPT !.obs = mg.obs] ELSE api
  /\ Requeue

ClickHouse == <<row, origin>>

-----------------------------------------------------------------------------
(* The reconcile.                                                          *)

Get ==
  /\ pc = "idle" /\ seen.phase # "gone"
  /\ mg' = seen /\ loc' = [NoLocals EXCEPT !.fresh = (seen = api)]
  /\ pc' = "initialize"
  /\ UNCHANGED <<api, seen, tf, op, ClickHouse, faults>>

\* adoptByNameInitializer, the observation holds a real UUID: the external name
\* must hold it too, and it is saved here.
Recorded(obs) == obs \notin {NoName, <<Sentinel>>}

\* Mutant: the external name is left as it is.
InitializeUnsynced ==
  /\ pc = "initialize" /\ Recorded(mg.obs)
  /\ pc' = "observe" /\ loc' = [loc EXCEPT !.base = row]
  /\ UNCHANGED <<api, mg, op, seen, tf, ClickHouse, faults>>

InitializeRecorded ==
  /\ pc = "initialize" /\ Recorded(mg.obs)
  /\ IF isRealUUID(stripClusterPrefix(mg.en))
       THEN UNCHANGED <<api, mg, op>> /\ pc' = "observe" /\ loc' = [loc EXCEPT !.base = row]
       ELSE \/ /\ Update([mg EXCEPT !.en = stripClusterPrefix(mg.obs)])
               /\ pc' = "observe" /\ loc' = [loc EXCEPT !.base = row] /\ UNCHANGED op
            \/ Conflict
  /\ UNCHANGED <<seen, tf, ClickHouse, faults>>

\* seedIdentifier: both in memory only.
Seed(en, obs) == mg' = [mg EXCEPT !.en = en, !.obs = obs]

\* seedImportIdentifier: a pinned UUID wins, else the row's name is looked up,
\* and the sentinel stands for an absent row.
\* Mutant: no resolver is wired.
SeedWithoutResolver ==
  LET en == stripClusterPrefix(mg.en) IN
    IF IsUUID(en) THEN Seed(en, en) ELSE Seed(mg.en, <<Sentinel>>)

SeedImport ==
  LET en == stripClusterPrefix(mg.en) IN
    IF IsUUID(en)        THEN Seed(en, en)
    ELSE IF row # NoRow  THEN Seed(<<row>>, <<row>>)
    ELSE Seed(mg.en, <<Sentinel>>)

InitializeSeed ==
  /\ pc = "initialize" /\ ~Recorded(mg.obs)
  /\ SeedImport
  /\ pc' = "observe" /\ loc' = [loc EXCEPT !.base = row]
  /\ UNCHANGED <<api, seen, tf, op, ClickHouse, faults>>

\* The lookup by name fails: the error is returned and the reconcile retried.
\* Mutant: a failed lookup counts as "not found".
LookupFailsForcesCreate ==
  /\ pc = "initialize" /\ ~Recorded(mg.obs) /\ ~IsUUID(stripClusterPrefix(mg.en))
  /\ Fault /\ Seed(mg.en, <<Sentinel>>)
  /\ pc' = "observe" /\ loc' = [loc EXCEPT !.base = row]
  /\ UNCHANGED <<api, seen, tf, op, ClickHouse>>

LookupFails ==
  /\ pc = "initialize" /\ ~Recorded(mg.obs) /\ ~IsUUID(stripClusterPrefix(mg.en))
  /\ Fault /\ Requeue
  /\ UNCHANGED <<api, seen, tf, ClickHouse>>

\* A reconcile that finds create-pending set by an earlier one that never came
\* back refuses to go on.
IncompleteCreate ==
  /\ pc = "observe" /\ mg.pending
  /\ SaveStatus
  /\ UNCHANGED <<seen, tf, ClickHouse, faults>>

\* Observe while an operation of this process is running: exists, up to date.
ObserveRunning ==
  /\ pc = "observe" /\ ~mg.pending /\ op # NoOp
  /\ pc' = IF mg.phase = "deleting" THEN "status" ELSE "finalize"
  /\ loc' = [loc EXCEPT !.exists = TRUE]
  /\ UNCHANGED <<api, seen, mg, tf, op, ClickHouse, faults>>

\* Connect: without a tracked state one is rebuilt, from the observation for a
\* database and from the external name (GetIDFn) for the other kinds.
ConnectState ==
  IF tf # NoState THEN tf
  ELSE IF mg.kind = "database" THEN mg.obs ELSE IDFromClusterName(mg.en, SpecName)

Observing == pc = "observe" /\ ~mg.pending /\ op = NoOp

\* Read fails: ClickHouse is unreachable, or the ID is no UUID.  The tracker may
\* keep the state it was called with.
ReadFails ==
  /\ Observing
  /\ IF IsUUID(stripClusterPrefix(ConnectState)) THEN Fault ELSE UNCHANGED faults
  /\ tf' \in {tf, ConnectState}
  /\ SaveStatus
  /\ UNCHANGED <<seen, ClickHouse>>

RowFound(state) == row # NoRow /\ stripClusterPrefix(state) = <<row>>

ReadFound ==
  /\ Observing /\ RowFound(ConnectState)
  /\ \E id \in StateIDs(row) :
       LET en == ExternalNameFromClusterName(id) IN
         /\ tf' = id
         /\ mg' = [mg EXCEPT !.en = en, !.obs = id]
         /\ loc' = [loc EXCEPT !.exists = TRUE, !.late = (en # mg.en)]
  /\ pc' = IF mg.phase = "live" THEN "finalize" ELSE IF mg.observe THEN "unfinalize" ELSE "delete"
  /\ UNCHANGED <<api, seen, op, ClickHouse, faults>>

ReadNotFound ==
  /\ Observing /\ ~RowFound(ConnectState) /\ IsUUID(stripClusterPrefix(ConnectState))
  /\ tf' = NoState
  /\ pc' = IF mg.phase = "deleting" THEN "unfinalize" ELSE IF mg.observe THEN "status" ELSE "finalize"
  /\ loc' = [loc EXCEPT !.exists = FALSE]
  /\ UNCHANGED <<api, seen, mg, op, ClickHouse, faults>>

AddFinalizer ==
  /\ pc = "finalize"
  /\ \/ /\ IF mg.fin THEN UNCHANGED <<api, mg>> ELSE Update([mg EXCEPT !.fin = TRUE])
        /\ pc' = IF ~loc.exists THEN "pending"
                 ELSE IF loc.late /\ ~mg.observe THEN "lateinit" ELSE "status"
        /\ UNCHANGED <<loc, op>>
     \/ ~mg.fin /\ Conflict
  /\ UNCHANGED <<seen, tf, ClickHouse, faults>>

\* Observe changed the external name: it is saved.
LateInitialize ==
  /\ pc = "lateinit"
  /\ \/ Update(mg) /\ pc' = "status" /\ UNCHANGED <<loc, op>>
     \/ Conflict
  /\ UNCHANGED <<seen, tf, ClickHouse, faults>>

\* create-pending is saved before the create, so that a stale copy of the MR
\* or a crash cannot lead to a second one.
CreatePending ==
  /\ pc = "pending"
  /\ \/ Update([mg EXCEPT !.pending = TRUE]) /\ pc' = "create" /\ UNCHANGED <<loc, op>>
     \/ Conflict
  /\ UNCHANGED <<seen, tf, ClickHouse, faults>>

\* Create starts the goroutine and returns at once.
Create ==
  /\ pc = "create"
  /\ op' = [NoOp EXCEPT !.step = "create", !.shared = TRUE]
  /\ pc' = "succeeded"
  /\ UNCHANGED <<api, seen, mg, loc, tf, ClickHouse, faults>>

\* create-succeeded is saved with the other annotations, whoever wrote the MR
\* meanwhile (the update is retried on a conflict).
CreateSucceeded ==
  /\ pc = "succeeded"
  /\ api' = [api EXCEPT !.en = mg.en, !.pending = FALSE]
  /\ mg' = api' /\ loc' = [loc EXCEPT !.fresh = TRUE]
  /\ pc' = "status"
  /\ UNCHANGED <<seen, tf, op, ClickHouse, faults>>

Delete ==
  /\ pc = "delete"
  /\ op' = [step |-> "delete", id |-> stripClusterPrefix(tf)[1], shared |-> TRUE]
  /\ pc' = "status"
  /\ UNCHANGED <<api, seen, mg, loc, tf, ClickHouse, faults>>

UpdateStatus ==
  /\ pc = "status"
  /\ SaveStatus
  /\ UNCHANGED <<seen, tf, ClickHouse, faults>>

\* The last finalizer goes, and with it the MR and its tracker.
RemoveFinalizer ==
  /\ pc = "unfinalize"
  /\ \/ /\ loc.fresh
        /\ api' = [api EXCEPT !.fin = FALSE, !.phase = "gone"]
        /\ tf' = NoState /\ Requeue
     \/ Conflict /\ UNCHANGED tf
  /\ UNCHANGED <<seen, ClickHouse, faults>>

Reconcile ==
  \/ Get \/ InitializeRecorded \/ InitializeSeed \/ LookupFails \/ IncompleteCreate
  \/ ObserveRunning \/ ReadFails \/ ReadFound \/ ReadNotFound \/ AddFinalizer
  \/ LateInitialize \/ CreatePending \/ Create \/ CreateSucceeded \/ UpdateStatus
  \/ Delete \/ RemoveFinalizer

-----------------------------------------------------------------------------
(* The goroutine of the asynchronous operation.                            *)

NewRow(by) == \E u \in Uuids :
                /\ origin[u] = "free"
                /\ row' = u /\ origin' = [origin EXCEPT ![u] = by]

\* CREATE is not idempotent: it fails when the name is taken.  It may also fail
\* before the row is made, or its reply may be lost.
RunCreate ==
  /\ op.step = "create"
  /\ \/ /\ row = NoRow /\ NewRow("mr")
        /\ op' = [op EXCEPT !.step = "created", !.id = row'] /\ UNCHANGED faults
     \/ row = NoRow /\ NewRow("lost") /\ Fault /\ op' = [op EXCEPT !.step = "failed"]
     \/ /\ op' = [op EXCEPT !.step = "failed"] /\ UNCHANGED ClickHouse
        /\ IF row = NoRow THEN Fault ELSE UNCHANGED faults
  /\ UNCHANGED <<api, seen, mg, loc, pc, tf>>

\* The new state goes to the tracker, the external name and the observation to
\* the copy the reconcile may still be working on.
FinishCreate ==
  /\ op.step = "created" /\ op' = NoOp
  /\ \E id \in StateIDs(op.id) :
       /\ tf' = id
       /\ IF op.shared
            THEN mg' = [mg EXCEPT !.en = ExternalNameFromClusterName(id), !.obs = id]
            ELSE UNCHANGED mg
  /\ UNCHANGED <<api, seen, loc, pc, ClickHouse, faults>>

\* After a failed create upjet may record the ID it was called with.
FinishFailed ==
  /\ op.step = "failed" /\ op' = NoOp
  /\ mg' \in {mg, IF op.shared
                    THEN [mg EXCEPT !.en = ExternalNameFromClusterName(IDFromClusterName(mg.en, SpecName))]
                    ELSE mg}
  /\ UNCHANGED <<api, seen, loc, pc, tf, ClickHouse, faults>>

RunDelete ==
  /\ op.step = "delete" /\ op' = NoOp
  /\ \/ /\ row' = IF row = op.id THEN NoRow ELSE row
        /\ tf' = NoState /\ UNCHANGED faults
     \/ Fault /\ UNCHANGED <<row, tf>>
  /\ UNCHANGED <<api, seen, mg, loc, pc, origin>>

Goroutine == RunCreate \/ FinishCreate \/ FinishFailed \/ RunDelete

-----------------------------------------------------------------------------
(* The environment.                                                        *)

CacheSync ==
  /\ seen # api /\ seen' = api
  /\ UNCHANGED <<api, mg, loc, pc, tf, op, ClickHouse, faults>>

\* The provider dies.  A CREATE already sent may still be executed.
Crash ==
  /\ Fault
  /\ pc # "idle" \/ op # NoOp \/ tf # NoState
  /\ pc' = "idle" /\ mg' = NewMR(NoName) /\ loc' = NoLocals /\ op' = NoOp /\ tf' = NoState
  /\ \/ op.step = "create" /\ row = NoRow /\ NewRow("mr")
     \/ UNCHANGED ClickHouse
  /\ UNCHANGED <<api, seen>>

\* Another writer (a user, another controller) updates the MR.
Touch ==
  /\ Fault /\ loc.fresh
  /\ loc' = [loc EXCEPT !.fresh = FALSE]
  /\ UNCHANGED <<api, seen, mg, pc, tf, op, ClickHouse>>

\* Someone else creates the same name: another MR, a DBA, a restored backup.
Rival ==
  /\ Fault /\ row = NoRow /\ NewRow("rival")
  /\ UNCHANGED <<api, seen, mg, loc, pc, tf, op>>

Drop ==
  /\ Drift /\ Fault /\ row # NoRow /\ row' = NoRow
  /\ UNCHANGED <<api, seen, mg, loc, pc, tf, op, origin>>

UserDelete ==
  /\ api.phase = "live"
  /\ api' = [api EXCEPT !.phase = IF api.fin THEN "deleting" ELSE "gone"]
  /\ loc' = [loc EXCEPT !.fresh = FALSE]
  /\ UNCHANGED <<seen, mg, pc, tf, op, ClickHouse, faults>>

\* The user lets the provider manage what it has only observed
\* (docs/user-import-workflow.md, phase 2).
Manage ==
  /\ api.observe /\ api.phase = "live"
  /\ api' = [api EXCEPT !.observe = FALSE]
  /\ loc' = [loc EXCEPT !.fresh = FALSE]
  /\ UNCHANGED <<seen, mg, pc, tf, op, ClickHouse, faults>>

\* The operator removes the create-pending annotation of an interrupted create.
ClearPending ==
  /\ api.pending /\ pc = "idle" /\ op = NoOp
  /\ api' = [api EXCEPT !.pending = FALSE]
  /\ UNCHANGED <<seen, mg, loc, pc, tf, op, ClickHouse, faults>>

Environment == CacheSync \/ Crash \/ Touch \/ Rival \/ Drop \/ UserDelete \/ Manage
                 \/ ClearPending

\* Nothing is left to reconcile.
Deleted == seen.phase = "gone" /\ pc = "idle" /\ op = NoOp /\ UNCHANGED vars

Next == Reconcile \/ Goroutine \/ Environment \/ Deleted

\* The work queue retries a failed reconcile and every MR is polled, goroutines
\* run, and the informer catches up.
Spec == /\ Init /\ [][Next]_vars
        /\ WF_vars(Reconcile) /\ WF_vars(Goroutine) /\ WF_vars(CacheSync)

-----------------------------------------------------------------------------
(* Properties.                                                             *)

\* The annotation of a live MR never holds anything but what the user pinned or
\* the UUID of the row of that name, and its status never another row's UUID
\* (without drift; external_name.go:103-112, importinit.go:40-57).
RecordedIdentity ==
  api.phase = "live" =>
    /\ api.en \in {NoName, <<K8sName>>, <<row>>}
    /\ stripClusterPrefix(api.obs) \in {NoName, <<Sentinel>>, <<row>>}

\* The placeholder never reaches the annotation, whatever is dropped or fails:
\* it parses as a UUID, so it would be read on every reconcile and stop the
\* lookup by name for good (external_name.go:103-112).
SentinelNeverSaved == api.en # <<Sentinel>>

\* A CREATE is never issued for a row that was there when the initializer ran:
\* neither one that existed before the MR nor one the MR made, crash or not
\* (overrides.go:135-139).  A rival's row, or one whose CREATE lost its reply,
\* may appear after an earlier look and meet one CREATE, which then fails.
NeverCreatesOverExisting ==
  pc = "create" /\ row # NoRow /\ row = loc.base => origin[row] \notin {"initial", "mr"}

\* A deleted MR leaves no row of its own behind, even when the deletion meets a
\* running create or a crash that lost the external name (importinit.go:43-55).
\* Rows whose CREATE lost its reply are not counted.
NoOrphan == api.phase = "gone" /\ row # NoRow => origin[row] # "mr"

\* Whatever the status of a live MR records is what Connect reads: the ID built
\* from the external name names the recorded UUID (importinit.go:43-49).
IDNamesRecorded ==
  pc = "observe" /\ tf = NoState /\ mg.phase = "live" /\ Recorded(mg.obs)
    => stripClusterPrefix(ConnectState) = stripClusterPrefix(mg.obs)

\* Seen from outside, without drift, every step of reconcile, goroutine, crash or
\* conflict is one step of Ownership or none: a UUID is recorded once and is the
\* row's, only a deleted, managed MR drops a row, and it goes after the row
\* (docs/import.md:82-96, importinit.go:26-98).
Promise == INSTANCE Ownership WITH
  None <- NoRow, phase <- api.phase, observe <- api.observe,
  identity <- IF api.phase = "live" /\ isRealUUID(api.en) THEN api.en[1] ELSE NoRow
KeepsOwnership == Promise!Spec

Adopted  == row # NoRow /\ api.en = <<row>> /\ stripClusterPrefix(api.obs) = <<row>>
Absent   == api.observe /\ row = NoRow
Wedged   == api.pending /\ pc \notin {"create", "succeeded"}

\* Once the faults are over every MR ends up deleted, or adopted with its UUID
\* in both annotation and status, or stopped by an interrupted create until the
\* operator steps in.
Converges == <>[](api.phase = "gone" \/ Wedged \/ (api.phase = "live" /\ (Adopted \/ Absent)))

\* A live MR whose row is there for good, under its name, ends up holding that
\* row's UUID, also when the row was dropped and restored (overrides.go:135-139).
RestoredIsAdopted ==
  <>[](api.phase = "live" /\ ~Wedged /\ row # NoRow) => <>[](api.en = <<row>>)
=============================================================================
