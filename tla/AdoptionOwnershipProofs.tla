----------------------- MODULE AdoptionOwnershipProofs -----------------------
(***************************************************************************)
(* Adoption implements Ownership, where no row is dropped behind the       *)
(* provider and what is pinned is the object's name or the UUID of its     *)
(* row: for any UUIDs, kind, policy, cluster and number of faults.         *)
(***************************************************************************)
EXTENDS AdoptionIdentityProofs

\* A copy that is or has been fresh does not lose an external name that is a UUID.
KeepsInv ==
  loc.fresh \/ pc \in {"create", "succeeded"} =>
    (isRealUUID(api.en) => isRealUUID(mg.en))

\* A row whose CREATE lost its reply was made by an MR that had its finalizer.
LostInv == row # NoRow /\ origin[row] = "lost" => api.fin \/ api.phase = "gone"

\* Who deletes manages, also in a copy that lags behind.
ManageInv ==
  /\ ~seen.observe => ~api.observe
  /\ pc # "idle" /\ ~mg.observe => ~api.observe
  /\ pc = "delete" \/ op.step = "delete" => ~api.observe
  /\ pc = "unfinalize" /\ loc.fresh /\ ~api.observe => ~SeenRow

OwnInv == KeepsInv /\ LostInv /\ ManageInv

\* The UUID a live MR has recorded is its row's.
RealInv == api.phase = "live" /\ isRealUUID(api.en) => row \in Uuids /\ api.en = <<row>>

LEMMA RealRecorded ==
  ASSUME TInv, SafeInv
  PROVE  RealInv
BY KnownReal DEF TInv, SafeInv, IdInv, Steady, Known, RealInv

-----------------------------------------------------------------------------
(* The invariant.                                                          *)

LEMMA InitOwn == ASSUME Init PROVE OwnInv
<1>1. PICK k \in Kinds, n \in Pins(row), o \in {FALSE, ObserveFirst} :
        /\ api = [NewMR(n) EXCEPT !.kind = k, !.observe = o]
        /\ origin = [u \in Uuids |-> IF u = row \/ n = <<u>> THEN "initial" ELSE "free"]
  BY DEF Init
<1>2. /\ seen = api /\ ~loc.fresh /\ pc = "idle" /\ op.step = "none"
      /\ row # NoRow => origin[row] # "lost"
  BY <1>1 DEF Init, NoLocals, NoOp
<1> QED
  BY <1>2 DEF OwnInv, KeepsInv, LostInv, ManageInv

\* A reconcile that ends.
LEMMA EndOwn ==
  ASSUME TInv, OwnInv, Requeue, UNCHANGED <<seen, row, origin>>, Same(api', api)
  PROVE  OwnInv'
BY RequeueEffect DEF TInv, OwnInv, KeepsInv, LostInv, ManageInv, Same

LEMMA ConflictOwn ==
  ASSUME TInv, OwnInv, Conflict, UNCHANGED <<seen, row, origin>>
  PROVE  OwnInv'
BY EndOwn DEF Conflict, Same

\* A copy that is saved.
LEMMA UpdateOwn ==
  ASSUME TInv, SafeInv, OwnInv, NEW m \in Objects, Update(m),
         m.phase = mg.phase, m.observe = mg.observe, mg.fin => m.fin,
         UNCHANGED <<seen, op, row, origin>>, loc'.fresh = loc.fresh,
         pc' \notin {"delete", "unfinalize"}
  PROVE  OwnInv'
<1>1. /\ mg' = api' /\ Same(api', m) /\ mg.observe = api.observe /\ mg.fin = api.fin
      /\ mg.phase = api.phase
  BY UpdateEffect DEF SafeInv, CopyInv
<1> QED
  BY <1>1 DEF OwnInv, KeepsInv, LostInv, ManageInv, Same

\* A step within a reconcile that writes no more than its own copy.
LEMMA CopyOwn ==
  ASSUME OwnInv, UNCHANGED <<api, seen, op, row, origin>>, pc # "idle",
         loc'.fresh = loc.fresh, mg'.observe = mg.observe,
         isRealUUID(mg.en) => isRealUUID(mg'.en),
         pc' \in {"create", "succeeded"} => loc.fresh \/ pc = "create",
         pc' = "delete" => ~mg.observe,
         pc' = "unfinalize" => (mg.observe /\ (loc.fresh => api.observe)) \/ ~SeenRow
  PROVE  OwnInv'
BY DEF OwnInv, KeepsInv, LostInv, ManageInv, SeenRow

LEMMA ReconcileOwn ==
  ASSUME Quiet, TInv, SafeInv, OwnInv, Reconcile
  PROVE  OwnInv'
<1>1. /\ mg \in Objects /\ mg.en \in Names /\ mg.obs \in Observations /\ api \in Objects
      /\ loc \in Locals /\ mg.en # <<Sentinel>> /\ row \in Uuids \cup {NoRow}
  BY DEF TInv, TypeOK, Objects, NoSentinel
<1>2. CASE Get
  BY <1>2 DEF Get, NoLocals, ClickHouse, OwnInv, KeepsInv, LostInv, ManageInv
<1>3. CASE InitializeRecorded
  <2> DEFINE n == stripClusterPrefix(mg.obs)
  <2> DEFINE m == [mg EXCEPT !.en = n]
  <2>1. pc = "initialize" /\ UNCHANGED <<seen, row, origin>> /\ mg.obs \in RowIDs
    BY <1>1, <1>3, RecordedMembers DEF InitializeRecorded, ClickHouse
  <2>2. m \in Objects /\ Same(m, mg)
    BY <1>1, <2>1, RowIDMembers, Members DEF Objects, Same
  <2>3. CASE UNCHANGED <<api, mg, op>> /\ pc' = "observe" /\ loc' = [loc EXCEPT !.base = row]
    BY <1>1, <2>1, <2>3, CopyOwn DEF Locals
  <2>4. CASE Update(m) /\ pc' = "observe" /\ loc' = [loc EXCEPT !.base = row] /\ UNCHANGED op
    <3>1. loc'.fresh = loc.fresh
      BY <1>1, <2>4 DEF Locals
    <3> HIDE DEF m
    <3> QED
      BY <2>1, <2>2, <2>4, <3>1, UpdateOwn DEF Same
  <2> QED
    BY <1>3, <2>1, <2>3, <2>4, ConflictOwn DEF InitializeRecorded
<1>4. CASE InitializeSeed
  <2>1. /\ pc = "initialize" /\ pc' = "observe" /\ loc'.fresh = loc.fresh
        /\ UNCHANGED <<api, seen, op, row, origin>>
    BY <1>1, <1>4 DEF InitializeSeed, ClickHouse, Locals
  <2>2. PICK en, obs : /\ Seed(en, obs)
                       /\ isRealUUID(mg.en) => en = mg.en
    BY <1>1, <1>4, PlainNames DEF InitializeSeed, SeedImport, isRealUUID
  <2>3. mg'.observe = mg.observe /\ mg'.en = en
    BY <1>1, <2>2 DEF Seed, Objects
  <2> QED
    BY <2>1, <2>2, <2>3, CopyOwn
<1>5. CASE LookupFails
  BY <1>5, EndOwn DEF LookupFails, ClickHouse, Same
<1>6. CASE IncompleteCreate \/ ReadFails \/ UpdateStatus
  <2>1. SaveStatus /\ UNCHANGED <<seen, row, origin>>
    BY <1>6 DEF IncompleteCreate, ReadFails, UpdateStatus, ClickHouse
  <2> QED
    BY <2>1, SaveStatusEffect, EndOwn
<1>7. CASE ObserveRunning
  <2>1. /\ pc = "observe" /\ pc' \in {"status", "finalize"} /\ loc'.fresh = loc.fresh
        /\ UNCHANGED <<api, seen, mg, op, row, origin>>
    BY <1>1, <1>7 DEF ObserveRunning, ClickHouse, Locals
  <2> QED
    BY <2>1, CopyOwn
<1>8. CASE ReadFound
  <2>1. PICK id \in StateIDs(row) :
          LET en == ExternalNameFromClusterName(id) IN
            /\ mg' = [mg EXCEPT !.en = en, !.obs = id]
            /\ loc' = [loc EXCEPT !.exists = TRUE, !.late = (en # mg.en)]
    BY <1>8 DEF ReadFound
  <2>2. row \in Uuids
    BY <1>1, <1>8 DEF ReadFound, RowFound
  <2>3. ExternalNameFromClusterName(id) = <<row>>
    BY <2>2, StateIDsOfRow
  <2>4. isRealUUID(mg'.en) /\ mg'.observe = mg.observe /\ loc'.fresh = loc.fresh
    BY <1>1, <2>1, <2>2, <2>3, RealRow DEF Objects, Locals
  <2>5. /\ pc = "observe" /\ UNCHANGED <<api, seen, op, row, origin>>
        /\ pc' = IF mg.phase = "live" THEN "finalize"
                 ELSE IF mg.observe THEN "unfinalize" ELSE "delete"
    BY <1>8 DEF ReadFound, Observing, ClickHouse
  <2>6. loc.fresh => api.observe = mg.observe
    BY DEF SafeInv, CopyInv
  <2> QED
    BY <2>4, <2>5, <2>6, CopyOwn
<1>9. CASE ReadNotFound
  <2>1. /\ pc = "observe" /\ op = NoOp /\ ~RowFound(ConnectState) /\ loc'.fresh = loc.fresh
        /\ pc' \in {"unfinalize", "status", "finalize"}
        /\ UNCHANGED <<api, seen, mg, op, row, origin>>
    BY <1>1, <1>9 DEF ReadNotFound, Observing, ClickHouse, Locals
  <2>2. ~SeenRow
    BY <2>1, ConnectsToRow DEF SafeInv, NoOp
  <2> QED
    BY <2>1, <2>2, CopyOwn
<1>10. CASE AddFinalizer
  <2> DEFINE m == [mg EXCEPT !.fin = TRUE]
  <2>1. pc = "finalize" /\ UNCHANGED <<seen, row, origin>>
    BY <1>10 DEF AddFinalizer, ClickHouse
  <2>2. m \in Objects /\ m.phase = mg.phase /\ m.observe = mg.observe /\ m.fin
    BY <1>1 DEF Objects
  <2>3. CASE /\ IF mg.fin THEN UNCHANGED <<api, mg>> ELSE Update(m)
             /\ pc' \in {"pending", "lateinit", "status"}
             /\ UNCHANGED <<loc, op>>
    <3> HIDE DEF m
    <3>1. CASE mg.fin
      BY <2>1, <2>3, <3>1, CopyOwn
    <3>2. CASE ~mg.fin
      BY <2>1, <2>2, <2>3, <3>2, UpdateOwn
    <3> QED
      BY <3>1, <3>2
  <2> QED
    BY <1>10, <2>1, <2>3, ConflictOwn DEF AddFinalizer
<1>11. CASE LateInitialize
  <2>1. UNCHANGED <<seen, row, origin>>
    BY <1>11 DEF LateInitialize, ClickHouse
  <2>2. CASE Update(mg) /\ pc' = "status" /\ UNCHANGED <<loc, op>>
    BY <1>1, <2>1, <2>2, UpdateOwn
  <2> QED
    BY <1>11, <2>1, <2>2, ConflictOwn DEF LateInitialize
<1>12. CASE CreatePending
  <2> DEFINE m == [mg EXCEPT !.pending = TRUE]
  <2>1. UNCHANGED <<seen, row, origin>>
    BY <1>12 DEF CreatePending, ClickHouse
  <2>2. m \in Objects /\ m.phase = mg.phase /\ m.observe = mg.observe /\ m.fin = mg.fin
    BY <1>1 DEF Objects
  <2>3. CASE Update(m) /\ pc' = "create" /\ UNCHANGED <<loc, op>>
    <3> HIDE DEF m
    <3> QED
      BY <2>1, <2>2, <2>3, UpdateOwn
  <2> QED
    BY <1>12, <2>1, <2>3, ConflictOwn DEF CreatePending
<1>13. CASE Create \/ Delete
  <2>1. /\ pc \in {"create", "delete"} /\ pc' = IF pc = "create" THEN "succeeded" ELSE "status"
        /\ op'.step = "delete" => pc = "delete"
        /\ UNCHANGED <<api, seen, mg, loc, row, origin>>
    BY <1>13 DEF Create, Delete, NoOp, ClickHouse
  <2> QED
    BY <2>1 DEF OwnInv, KeepsInv, LostInv, ManageInv
<1>14. CASE CreateSucceeded
  <2>1. /\ pc' = "status" /\ mg' = api' /\ Same(api', api)
        /\ UNCHANGED <<seen, op, row, origin>>
    BY <1>1, <1>14 DEF CreateSucceeded, Objects, ClickHouse, Same
  <2> QED
    BY <2>1 DEF OwnInv, KeepsInv, LostInv, ManageInv, Same
<1>15. CASE RemoveFinalizer
  <2>1. UNCHANGED <<seen, row, origin>>
    BY <1>15 DEF RemoveFinalizer, ClickHouse
  <2>2. CASE api' = [api EXCEPT !.fin = FALSE, !.phase = "gone"] /\ Requeue
    <3>1. api'.phase = "gone" /\ api'.observe = api.observe
      BY <1>1, <2>2 DEF Objects
    <3> QED
      BY <2>1, <2>2, <3>1, RequeueEffect DEF TInv, OwnInv, KeepsInv, LostInv, ManageInv
  <2> QED
    BY <1>15, <2>1, <2>2, ConflictOwn DEF RemoveFinalizer
<1> QED
  BY <1>2, <1>3, <1>4, <1>5, <1>6, <1>7, <1>8, <1>9, <1>10, <1>11, <1>12, <1>13, <1>14, <1>15
     DEF Reconcile

LEMMA GoroutineOwn ==
  ASSUME TInv, SafeInv, OwnInv, Goroutine
  PROVE  OwnInv'
<1>1. /\ UNCHANGED <<api, seen, loc, pc>>
      /\ pc \notin {"create", "delete", "unfinalize"} /\ op.step # "none"
  <2>1. UNCHANGED <<api, seen, loc, pc>> /\ op.step # "none"
    BY DEF Goroutine, RunCreate, FinishCreate, FinishFailed, RunDelete
  <2> QED
    BY <2>1 DEF SafeInv, StepInv, NoOp
<1>2. mg \in Objects /\ mg.en \in Names /\ op \in [step: Steps, id: Uuids \cup {NoRow}, shared: BOOLEAN]
  BY DEF TInv, TypeOK, Objects
<1>3. CASE RunCreate
  <2>1. mg' = mg /\ op'.step \in {"created", "failed"} /\ api.fin
    BY <1>2, <1>3 DEF RunCreate, SafeInv, FinInv, Creating
  <2> QED
    BY <1>1, <2>1 DEF OwnInv, KeepsInv, LostInv, ManageInv
<1>4. CASE FinishCreate
  <2>1. PICK id \in StateIDs(op.id) :
          IF op.shared
            THEN mg' = [mg EXCEPT !.en = ExternalNameFromClusterName(id), !.obs = id]
            ELSE UNCHANGED mg
    BY <1>4 DEF FinishCreate
  <2>2. row \in Uuids /\ op.id = row
    BY <1>4 DEF FinishCreate, TInv, OpInv, SafeInv, StepInv
  <2>3. ExternalNameFromClusterName(id) = <<row>>
    BY <2>2, StateIDsOfRow
  <2>4. mg'.observe = mg.observe /\ (isRealUUID(mg.en) => isRealUUID(mg'.en))
    BY <1>2, <2>1, <2>2, <2>3, RealRow DEF Objects
  <2>5. op'.step = "none" /\ UNCHANGED <<row, origin>>
    BY <1>4 DEF FinishCreate, NoOp, ClickHouse
  <2> QED
    BY <1>1, <2>4, <2>5 DEF OwnInv, KeepsInv, LostInv, ManageInv
<1>5. CASE FinishFailed
  <2> DEFINE n == ExternalNameFromClusterName(IDFromClusterName(mg.en, SpecName))
  <2>1. isRealUUID(mg.en) => n = mg.en
    BY <1>2, RoundTrip, AdoptionAssumption DEF isRealUUID, IsUUID, NoName
  <2>2. /\ mg' \in {mg, [mg EXCEPT !.en = n]} /\ op'.step = "none" /\ UNCHANGED <<row, origin>>
    BY <1>5 DEF FinishFailed, NoOp, ClickHouse
  <2> HIDE DEF n
  <2>3. mg'.observe = mg.observe /\ (isRealUUID(mg.en) => isRealUUID(mg'.en))
    BY <1>2, <2>1, <2>2 DEF Objects
  <2> QED
    BY <1>1, <2>2, <2>3 DEF OwnInv, KeepsInv, LostInv, ManageInv
<1>6. CASE RunDelete
  <2>1. row' \in {row, NoRow} /\ op'.step = "none" /\ UNCHANGED <<mg, origin>>
    BY <1>6 DEF RunDelete, NoOp
  <2> QED
    BY <1>1, <2>1 DEF OwnInv, KeepsInv, LostInv, ManageInv
<1> QED
  BY <1>3, <1>4, <1>5, <1>6 DEF Goroutine

LEMMA EnvironmentOwn ==
  ASSUME Quiet, TInv, SafeInv, OwnInv, Environment
  PROVE  OwnInv'
<1>1. api \in Objects /\ loc \in Locals
  BY DEF TInv, TypeOK
<1>2. CASE CacheSync
  BY <1>2 DEF CacheSync, ClickHouse, OwnInv, KeepsInv, LostInv, ManageInv, SeenRow
<1>3. CASE Crash
  <2>1. /\ pc' = "idle" /\ ~loc'.fresh /\ op'.step = "none" /\ UNCHANGED <<api, seen>>
    BY <1>3 DEF Crash, NoLocals, NoOp
  <2>2. LostInv'
    BY <1>3, <2>1, NewRowEffect DEF Crash, ClickHouse, TInv, OwnInv, LostInv
  <2> QED
    BY <2>1, <2>2 DEF OwnInv, KeepsInv, ManageInv
<1>4. CASE Touch
  <2>1. ~loc'.fresh /\ UNCHANGED <<api, seen, mg, pc, op, row, origin>>
    BY <1>1, <1>4 DEF Touch, Locals, ClickHouse
  <2> QED
    BY <2>1 DEF OwnInv, KeepsInv, LostInv, ManageInv
<1>5. CASE Rival
  <2>1. origin'[row'] = "rival" /\ UNCHANGED <<api, seen, mg, loc, pc, op>>
    BY <1>5, NewRowEffect DEF Rival, TInv
  <2> QED
    BY <2>1 DEF OwnInv, KeepsInv, LostInv, ManageInv, SeenRow
<1>6. CASE UserDelete
  <2>1. /\ ~loc'.fresh /\ api'.en = api.en /\ api'.fin = api.fin /\ api'.observe = api.observe
        /\ api'.phase = "gone" \/ api'.fin
        /\ UNCHANGED <<seen, mg, pc, op, row, origin>>
    BY <1>1, <1>6 DEF UserDelete, Objects, Locals, ClickHouse
  <2> QED
    BY <1>6, <2>1 DEF UserDelete, OwnInv, KeepsInv, LostInv, ManageInv
<1>7. CASE Manage
  <2>1. /\ ~loc'.fresh /\ ~api'.observe
        /\ api'.en = api.en /\ api'.fin = api.fin /\ api'.phase = api.phase
        /\ UNCHANGED <<seen, mg, pc, op, row, origin>>
    BY <1>1, <1>7 DEF Manage, Objects, Locals, ClickHouse
  <2> QED
    BY <2>1 DEF OwnInv, KeepsInv, LostInv, ManageInv
<1>8. CASE ClearPending
  <2>1. /\ Same(api', api) /\ api'.en = api.en
        /\ UNCHANGED <<seen, mg, loc, pc, op, row, origin>>
    BY <1>1, <1>8 DEF ClearPending, Objects, ClickHouse, Same
  <2> QED
    BY <2>1 DEF OwnInv, KeepsInv, LostInv, ManageInv, SeenRow, Same
<1> QED
  BY <1>2, <1>3, <1>4, <1>5, <1>6, <1>7, <1>8 DEF Environment, Drop, Quiet

LEMMA InductiveOwn ==
  ASSUME Quiet
  PROVE  Spec => [](TInv /\ SafeInv /\ OwnInv /\ RealInv)
<1>1. ASSUME TInv, SafeInv, OwnInv, [Next]_vars PROVE OwnInv'
  <2>1. CASE UNCHANGED vars
    BY <1>1, <2>1 DEF vars, OwnInv, KeepsInv, LostInv, ManageInv, SeenRow
  <2> QED
    BY <1>1, <2>1, ReconcileOwn, GoroutineOwn, EnvironmentOwn DEF Next, Deleted
<1>2. Init => OwnInv
  BY InitOwn
<1>3. TInv /\ SafeInv => RealInv
  BY RealRecorded
<1> QED
  BY <1>1, <1>2, <1>3, InductiveSafe, PTL DEF Spec

-----------------------------------------------------------------------------
(* The refinement.                                                         *)

Identity == IF api.phase = "live" /\ isRealUUID(api.en) THEN api.en[1] ELSE NoRow

LEMMA InitMaps == ASSUME Quiet, Init PROVE Promise!Init
<1>1. PICK k \in Kinds, n \in Pins(row), o \in {FALSE, ObserveFirst} :
        /\ api = [NewMR(n) EXCEPT !.kind = k, !.observe = o]
        /\ origin = [u \in Uuids |-> IF u = row \/ n = <<u>> THEN "initial" ELSE "free"]
  BY DEF Init
<1>2. api.en = n /\ api.phase = "live" /\ api.observe = o /\ row \in Uuids \cup {NoRow}
  BY <1>1 DEF Init, NewMR
<1>3. n = NoName \/ n = <<K8sName>> \/ (row # NoRow /\ n = <<row>>)
  BY <1>1 DEF Pins, Quiet
<1>4. \A u \in Uuids : n = <<u>> => u = row
  BY <1>3, AdoptionAssumption DEF NoName
<1>5. origin = [u \in Uuids |-> IF u = row THEN "initial" ELSE "free"]
  BY <1>1, <1>4
<1>6. Identity \in {NoRow, row}
  BY <1>2, <1>4 DEF Identity, isRealUUID, IsUUID
<1> QED
  BY <1>2, <1>5, <1>6, AdoptionAssumption DEF Promise!Init, Identity

\* A step that leaves ClickHouse alone, and phase and policy as they are, records
\* the row's UUID or nothing.
LEMMA RecordMaps ==
  ASSUME RealInv, RealInv', UNCHANGED <<row, origin>>,
         api'.phase = api.phase, api'.observe = api.observe,
         isRealUUID(api.en) => isRealUUID(api'.en)
  PROVE  [Promise!Next]_(Promise!vars)
<1> DEFINE I == Identity
<1>1. CASE api.phase = "live" /\ ~isRealUUID(api.en) /\ isRealUUID(api'.en)
  <2>1. Identity = NoRow /\ Identity' = row /\ row # NoRow
    BY <1>1, AdoptionAssumption DEF RealInv, Identity
  <2> QED
    BY <1>1, <2>1 DEF Promise!Next, Promise!Record, Identity
<1>2. CASE ~(api.phase = "live" /\ ~isRealUUID(api.en) /\ isRealUUID(api'.en))
  <2>1. Identity' = Identity
    BY <1>2 DEF RealInv, Identity
  <2> QED
    BY <2>1 DEF Promise!vars, Identity
<1> QED
  BY <1>1, <1>2

LEMMA ReconcileMaps ==
  ASSUME TInv, SafeInv, OwnInv, RealInv, RealInv', Reconcile
  PROVE  [Promise!Next]_(Promise!vars)
<1>1. mg \in Objects /\ api \in Objects /\ row \in Uuids \cup {NoRow}
      /\ origin \in [Uuids -> {"free", "initial", "mr", "lost", "rival"}]
  BY DEF TInv, TypeOK
<1>2. CASE UNCHANGED <<api, row, origin>>
  BY <1>2, RecordMaps
<1>3. ASSUME NEW m \in Objects, Update(m), UNCHANGED <<row, origin>>,
             m.phase = mg.phase, m.observe = mg.observe, m.en = mg.en \/ isRealUUID(m.en)
      PROVE  [Promise!Next]_(Promise!vars)
  <2>1. Same(api', m) /\ api'.en = m.en /\ mg.observe = api.observe /\ mg.phase = api.phase
    BY <1>3, UpdateEffect DEF SafeInv, CopyInv
  <2>2. isRealUUID(api.en) => isRealUUID(mg.en)
    BY <1>3, UpdateEffect DEF OwnInv, KeepsInv
  <2> QED
    BY <1>3, <2>1, <2>2, RecordMaps DEF Same
<1>4. CASE Get \/ InitializeSeed \/ LookupFails \/ ObserveRunning \/ ReadFound \/ ReadNotFound
             \/ Create \/ Delete
  BY <1>2, <1>4 DEF Get, InitializeSeed, LookupFails, ObserveRunning, ReadFound, ReadNotFound,
     Create, Delete, ClickHouse
<1>5. CASE IncompleteCreate \/ ReadFails \/ UpdateStatus
  <2>1. SaveStatus /\ UNCHANGED <<row, origin>>
    BY <1>5 DEF IncompleteCreate, ReadFails, UpdateStatus, ClickHouse
  <2> QED
    BY <2>1, SaveStatusEffect, RecordMaps DEF Same
<1>6. CASE InitializeRecorded
  <2> DEFINE n == stripClusterPrefix(mg.obs)
  <2> DEFINE m == [mg EXCEPT !.en = n]
  <2>1. PICK u \in Uuids : n = <<u>>
    BY <1>1, <1>6, RecordedMembers, RowIDMembers DEF InitializeRecorded, Objects
  <2>2. m \in Objects /\ m.phase = mg.phase /\ m.observe = mg.observe /\ isRealUUID(m.en)
    BY <1>1, <2>1, Members, SentinelAssumption DEF Objects, isRealUUID, IsUUID
  <2>3. UNCHANGED <<row, origin>> /\ (UNCHANGED api \/ Update(m))
    BY <1>6 DEF InitializeRecorded, Conflict, ClickHouse
  <2> HIDE DEF m
  <2> QED
    BY <1>2, <1>3, <2>2, <2>3
<1>7. CASE AddFinalizer \/ LateInitialize \/ CreatePending
  <2>1. PICK m \in {mg, [mg EXCEPT !.fin = TRUE], [mg EXCEPT !.pending = TRUE]} :
          UNCHANGED <<row, origin>> /\ (UNCHANGED api \/ Update(m))
    BY <1>7 DEF AddFinalizer, LateInitialize, CreatePending, Conflict, ClickHouse
  <2>2. m \in Objects /\ m.phase = mg.phase /\ m.observe = mg.observe /\ m.en = mg.en
    BY <1>1 DEF Objects
  <2> QED
    BY <1>2, <1>3, <2>1, <2>2
<1>8. CASE CreateSucceeded
  <2>1. /\ Same(api', api) /\ api'.en = mg.en /\ UNCHANGED <<row, origin>>
        /\ isRealUUID(api.en) => isRealUUID(mg.en)
    BY <1>1, <1>8 DEF CreateSucceeded, Objects, ClickHouse, Same, OwnInv, KeepsInv
  <2> QED
    BY <2>1, RecordMaps DEF Same
<1>9. CASE RemoveFinalizer
  <2>1. pc = "unfinalize" /\ UNCHANGED <<row, origin>>
    BY <1>9 DEF RemoveFinalizer, ClickHouse
  <2>2. CASE loc.fresh /\ api' = [api EXCEPT !.fin = FALSE, !.phase = "gone"]
    <3>1. api.phase = "deleting"
      BY <1>1, <2>1, <2>2 DEF Objects, Phases, SafeInv, StepInv, CopyInv
    <3>2. api'.phase = "gone" /\ api'.observe = api.observe
      BY <1>1, <2>2 DEF Objects
    <3>3. api.observe \/ row = NoRow \/ origin[row] \in {"rival", "lost"}
      <4>1. api.observe \/ ~SeenRow
        BY <2>1, <2>2 DEF OwnInv, ManageInv
      <4>2. row # NoRow => origin[row] \in {"initial", "mr", "lost", "rival"}
        BY <1>1 DEF SafeInv, UsedInv
      <4> QED
        BY <4>1, <4>2 DEF SeenRow
    <3> QED
      BY <2>1, <3>1, <3>2, <3>3 DEF Promise!Next, Promise!Finish
  <2> QED
    BY <1>2, <1>9, <2>1, <2>2 DEF RemoveFinalizer, Conflict
<1> QED
  BY <1>4, <1>5, <1>6, <1>7, <1>8, <1>9 DEF Reconcile

\* The MR makes the row, in this process or after its end.
LEMMA MakeMaps ==
  ASSUME TInv, SafeInv, Creating, row = NoRow, NEW by \in {"mr", "lost"}, NewRow(by),
         UNCHANGED api
  PROVE  Promise!Next
<1>1. api.phase # "gone" /\ ~api.observe
  BY DEF SafeInv, FinInv
<1> QED
  BY <1>1 DEF NewRow, Promise!Next, Promise!Make, Promise!Appear

LEMMA GoroutineMaps ==
  ASSUME TInv, SafeInv, OwnInv, Goroutine
  PROVE  [Promise!Next]_(Promise!vars)
<1>1. CASE UNCHANGED <<api, row, origin>>
  BY <1>1 DEF Promise!vars
<1>2. CASE RunCreate
  <2>1. Creating /\ UNCHANGED api
    BY <1>2 DEF RunCreate, Creating
  <2> QED
    BY <1>1, <1>2, <2>1, MakeMaps DEF RunCreate, ClickHouse
<1>3. CASE FinishCreate \/ FinishFailed
  BY <1>1, <1>3 DEF FinishCreate, FinishFailed, ClickHouse
<1>4. CASE RunDelete
  <2>1. /\ op.step = "delete" /\ UNCHANGED <<api, origin>>
        /\ row' \in {row, NoRow}
    BY <1>4 DEF RunDelete
  <2>2. api.phase # "live" /\ row # NoRow /\ ~api.observe
    BY <2>1 DEF SafeInv, StepInv, OwnInv, ManageInv
  <2>3. CASE row' = NoRow
    BY <2>1, <2>2, <2>3 DEF Promise!Next, Promise!Drop
  <2> QED
    BY <1>1, <2>1, <2>3
<1> QED
  BY <1>2, <1>3, <1>4 DEF Goroutine

LEMMA EnvironmentMaps ==
  ASSUME Quiet, TInv, SafeInv, OwnInv, RealInv, RealInv', Environment
  PROVE  [Promise!Next]_(Promise!vars)
<1>1. /\ api \in Objects /\ row \in Uuids \cup {NoRow}
      /\ origin \in [Uuids -> {"free", "initial", "mr", "lost", "rival"}]
  BY DEF TInv, TypeOK
<1>2. CASE UNCHANGED <<api, row, origin>>
  BY <1>2 DEF Promise!vars
<1>3. CASE CacheSync \/ Touch
  BY <1>2, <1>3 DEF CacheSync, Touch, ClickHouse
<1>4. CASE Crash
  BY <1>2, <1>4, MakeMaps DEF Crash, Creating, ClickHouse
<1>5. CASE Rival
  BY <1>5 DEF Rival, NewRow, Promise!Next, Promise!Rival, Promise!Appear
<1>6. CASE UserDelete
  <2>1. /\ api.phase = "live" /\ api'.phase = IF api.fin THEN "deleting" ELSE "gone"
        /\ api'.observe = api.observe /\ UNCHANGED <<row, origin>>
    BY <1>1, <1>6 DEF UserDelete, Objects, ClickHouse
  <2>2. CASE api.fin
    BY <2>1, <2>2 DEF Promise!Next, Promise!Delete
  <2>3. CASE ~api.fin
    <3>1. row # NoRow => origin[row] \in {"initial", "rival"}
      BY <1>1, <2>1, <2>3 DEF SafeInv, UsedInv, FinInv, OwnRow, OwnInv, LostInv
    <3> QED
      BY <2>1, <2>3, <3>1 DEF Promise!Next, Promise!Forget
  <2> QED
    BY <2>2, <2>3
<1>7. CASE Manage
  <2>1. /\ api.phase = "live" /\ api.observe /\ ~api'.observe /\ api'.observe = FALSE
        /\ api'.phase = api.phase /\ api'.en = api.en /\ UNCHANGED <<row, origin>>
    BY <1>1, <1>7 DEF Manage, Objects, ClickHouse
  <2> QED
    BY <2>1 DEF Promise!Next, Promise!Manage
<1>8. CASE ClearPending
  <2>1. Same(api', api) /\ api'.en = api.en /\ UNCHANGED <<row, origin>>
    BY <1>1, <1>8 DEF ClearPending, Objects, ClickHouse, Same
  <2> QED
    BY <2>1, RecordMaps DEF Same
<1> QED
  BY <1>3, <1>4, <1>5, <1>6, <1>7, <1>8 DEF Environment, Drop, Quiet

\* Seen from outside, every step of reconcile, goroutine, crash or conflict is one
\* step of Ownership or none: a UUID is recorded once and is the row's, only a
\* deleted, managed MR drops a row, and it goes after the row
\* (docs/import.md:82-96, importinit.go:26-98).
THEOREM ImplementsOwnership ==
  ASSUME Quiet
  PROVE  Spec => KeepsOwnership
<1>1. Init => Promise!Init
  BY InitMaps
<1>2. ASSUME TInv, SafeInv, OwnInv, RealInv, RealInv', [Next]_vars
      PROVE  [Promise!Next]_(Promise!vars)
  <2>1. CASE UNCHANGED vars
    BY <2>1 DEF vars, Promise!vars
  <2> QED
    BY <1>2, <2>1, ReconcileMaps, GoroutineMaps, EnvironmentMaps DEF Next, Deleted
<1> QED
  BY <1>1, <1>2, InductiveOwn, PTL DEF Spec, KeepsOwnership, Promise!Spec
=============================================================================
