------------------------ MODULE AdoptionIdentityProofs ------------------------
(***************************************************************************)
(* Of Adoption it is proved that an MR keeps to one identity, where no row *)
(* is dropped behind the provider and what is pinned is the object's name  *)
(* or the UUID of its row: what is recorded, what is created, what is left *)
(* behind, for any UUIDs, kind, policy, cluster and number of faults.      *)
(***************************************************************************)
EXTENDS AdoptionProofs

Quiet == ~Drift /\ PinForms \subseteq {"none", "name", "uuid"}

\* The row is one that the initializer must not miss; the provider's own.
SeenRow == row # NoRow /\ origin[row] \in {"initial", "mr"}
OwnRow  == row # NoRow /\ origin[row] = "mr"

\* A create is about to start or under way.
Creating == pc = "create" \/ op.step \in {"create", "created", "failed"}

\* As long as this holds, the row of the name has not been another one.
Steady == api.phase = "live" \/ Creating \/ SeenRow

RowUuid    == Uuids \cap {row}
KnownNames == {NoName, <<K8sName>>} \cup {<<u>> : u \in RowUuid}
KnownIDs   == {NoName, <<Sentinel>>} \cup UNION {IDs(u) : u \in RowUuid}
Known(m)   == m.en \in KnownNames /\ m.obs \in KnownIDs

\* Copies lag behind the MR on the API server, and one that is fresh does not.
CopyInv ==
  /\ loc.fresh => /\ pc # "idle"
                  /\ mg.phase = api.phase /\ mg.observe = api.observe /\ mg.fin = api.fin
  /\ \A m \in {seen, mg} : /\ m.phase # "live" => api.phase # "live"
                           /\ m.fin => api.fin \/ api.phase = "gone"
  /\ mg.phase = "gone" => pc = "status"

\* Operations run one at a time, on the row that was read, and only deletion ends
\* with a row less.
StepInv ==
  /\ pc \in {"delete", "unfinalize"} \/ op.step = "delete" => api.phase # "live"
  /\ pc \in {"create", "delete", "unfinalize"} => op = NoOp
  /\ pc \in {"finalize", "pending"} /\ ~loc.exists =>
       op = NoOp /\ ~mg.observe /\ mg.phase = "live"
  /\ pc = "pending" => ~loc.exists /\ mg.fin
  /\ pc = "delete" => stripClusterPrefix(tf) = <<row>>
  /\ op.step \in {"created", "delete"} => row # NoRow /\ op.id = row
  /\ op.shared => pc \in {"succeeded", "status"}
  /\ pc = "initialize" /\ loc.fresh => mg.obs = api.obs

\* A row that is there, or was when the initializer ran, is not one to come.
UsedInv == \A u \in {row, loc.base} : u \in Uuids => origin[u] # "free"

\* Who creates has its finalizer, and nothing it made is there when that goes.
FinInv ==
  /\ Creating \/ OwnRow => api.fin /\ ~api.observe /\ api.phase # "gone"
  /\ pc = "unfinalize" /\ loc.fresh => ~OwnRow

IdInv == Steady => Known(api) /\ Known(seen) /\ Known(mg)

\* What Connect makes of tracker and copy is the row.
TrackInv ==
  /\ SeenRow /\ op.step # "created" =>
       /\ tf = NoState \/ stripClusterPrefix(tf) = <<row>>
       /\ pc = "observe" /\ tf = NoState => loc.base = row
  /\ pc = "observe" /\ Steady /\ loc.base = row /\ row # NoRow =>
       mg.en = <<row>> /\ mg.obs \in IDs(row)

CreateInv ==
  (pc \in {"finalize", "pending"} /\ ~loc.exists) \/ pc = "create" =>
    ~(SeenRow /\ row = loc.base)

\* External name and observation of one copy are of one row.
PairInv ==
  /\ \A m \in {seen, mg} :
       m.phase = "live" /\ Recorded(m.obs) /\ isRealUUID(m.en)
         => m.en = stripClusterPrefix(m.obs)
  /\ pc = "observe" /\ Recorded(mg.obs) => isRealUUID(mg.en)

SafeInv ==
  /\ CopyInv /\ StepInv /\ UsedInv /\ FinInv /\ IdInv /\ TrackInv /\ CreateInv /\ PairInv

-----------------------------------------------------------------------------
(* What the actions share.                                                 *)

\* The fields of an MR that the invariants speak of, but for its identity.
Same(m, n) == m.phase = n.phase /\ m.observe = n.observe /\ m.fin = n.fin

LEMMA UpdateEffect ==
  ASSUME TInv, NEW m \in Objects, Update(m)
  PROVE  /\ loc.fresh /\ mg' = api'
         /\ Same(api', m) /\ api'.en = m.en /\ api'.obs = api.obs
BY DEF TInv, TypeOK, Update, Objects, Same

LEMMA RequeueEffect ==
  ASSUME TypeOK, Requeue
  PROVE  /\ pc' = "idle" /\ ~loc'.fresh
         /\ mg'.en = NoName /\ mg'.obs = NoName
         /\ mg'.phase = "live" /\ ~mg'.fin
         /\ op'.step = op.step /\ op'.id = op.id /\ ~op'.shared
         /\ loc'.base = NoRow
BY DEF TypeOK, Requeue, NewMR, NoLocals

LEMMA SaveStatusEffect ==
  ASSUME TInv, SaveStatus
  PROVE  /\ Requeue
         /\ Same(api', api) /\ api'.en = api.en
         /\ api'.obs = api.obs \/ (api'.obs = mg.obs /\ loc.fresh)
BY DEF TInv, TypeOK, SaveStatus, Objects, Same

LEMMA NewRowEffect ==
  ASSUME TypeOK, NEW by, NewRow(by)
  PROVE  /\ row' \in Uuids /\ origin[row'] = "free" /\ origin'[row'] = by
         /\ \A u \in Uuids : u # row' => origin'[u] = origin[u]
BY DEF TypeOK, NewRow

\* A row that comes does not change what is known, as long as none was there.
LEMMA KnownMore ==
  ASSUME row \in Uuids \cup {NoRow}, row' = row \/ row = NoRow
  PROVE  KnownNames \subseteq KnownNames' /\ KnownIDs \subseteq KnownIDs'
BY AdoptionAssumption DEF KnownNames, KnownIDs, RowUuid, IDs, WithCluster

\* What is known is the row's.
LEMMA KnownReal ==
  ASSUME TypeOK, NEW n \in KnownNames, isRealUUID(n)
  PROVE  row \in Uuids /\ n = <<row>>
BY AdoptionAssumption DEF TypeOK, KnownNames, RowUuid, isRealUUID, IsUUID, NoName

LEMMA KnownRecorded ==
  ASSUME TypeOK, NEW o \in KnownIDs, Recorded(o)
  PROVE  row \in Uuids /\ o \in IDs(row) /\ stripClusterPrefix(o) = <<row>>
BY NameOfRow DEF TypeOK, KnownIDs, RowUuid, Recorded

LEMMA KnownRow ==
  ASSUME row \in Uuids
  PROVE  <<row>> \in KnownNames /\ IDs(row) \subseteq KnownIDs /\ <<row>> \in IDs(row)
BY DEF KnownNames, KnownIDs, RowUuid, IDs

LEMMA RealRow ==
  ASSUME row \in Uuids
  PROVE  isRealUUID(<<row>>)
BY SentinelAssumption DEF isRealUUID, IsUUID

LEMMA PlainNames ==
  ASSUME Quiet, NEW n \in Names
  PROVE  stripClusterPrefix(n) = n
BY Strip DEF Quiet, Names

\* A reconcile that ends, with or without saving a status.
LEMMA EndKeeps ==
  ASSUME TInv, SafeInv, Requeue, UNCHANGED <<seen, row, origin>>,
         Same(api', api), api'.en = api.en,
         api'.obs = api.obs \/ (api'.obs = mg.obs /\ loc.fresh),
         SeenRow /\ op.step # "created" => tf' = NoState \/ stripClusterPrefix(tf') = <<row>>
  PROVE  SafeInv'
<1> USE RequeueEffect DEF TInv
<1>1. CopyInv'
  BY DEF SafeInv, CopyInv, Same
<1>2. StepInv' /\ UsedInv'
  BY AdoptionAssumption DEF SafeInv, StepInv, UsedInv, Same
<1>3. FinInv'
  BY DEF SafeInv, FinInv, Same, Creating, OwnRow
<1>4. IdInv'
  BY DEF SafeInv, IdInv, Same, Steady, Creating, SeenRow, Known, KnownNames, KnownIDs, RowUuid
<1>5. TrackInv'
  BY DEF SafeInv, TrackInv, SeenRow
<1>6. CreateInv' /\ PairInv'
  BY DEF SafeInv, CreateInv, PairInv, Recorded
<1>7. QED  BY <1>1, <1>2, <1>3, <1>4, <1>5, <1>6 DEF SafeInv

\* Connect makes the row's ID of what the initializer left.
LEMMA ConnectsToRow ==
  ASSUME TInv, TrackInv, pc = "observe", SeenRow, op.step # "created"
  PROVE  RowFound(ConnectState)
<1>1. row \in Uuids
  BY DEF TInv, TypeOK, SeenRow
<1>2. CASE tf # NoState
  BY <1>2 DEF TrackInv, RowFound, ConnectState, SeenRow
<1>3. CASE tf = NoState
  <2>1. mg.en = <<row>> /\ mg.obs \in IDs(row)
    BY <1>3 DEF TrackInv, Steady, SeenRow
  <2>2. IDFromClusterName(mg.en, SpecName) \in IDs(row)
    BY <1>1, <2>1, AdoptionAssumption DEF IDFromClusterName, IDs, NoName
  <2> QED
    BY <1>1, <1>3, <2>1, <2>2, NameOfRow DEF ConnectState, RowFound, SeenRow
<1> QED
  BY <1>2, <1>3

-----------------------------------------------------------------------------
(* The initial states, and every step.                                     *)

LEMMA InitSafe == ASSUME Quiet, Init PROVE SafeInv
<1>1. PICK k \in Kinds, n \in Pins(row), o \in {FALSE, ObserveFirst} :
        /\ api = [NewMR(n) EXCEPT !.kind = k, !.observe = o]
        /\ origin = [u \in Uuids |-> IF u = row \/ n = <<u>> THEN "initial" ELSE "free"]
  BY DEF Init
<1>2. n \in KnownNames
  BY <1>1, AdoptionAssumption DEF Pins, Quiet, KnownNames, RowUuid, Init
<1>3. /\ api.en = n /\ api.obs = NoName /\ api.phase = "live" /\ ~api.fin
      /\ mg.en = NoName /\ mg.obs = NoName /\ mg.phase = "live" /\ ~mg.fin
      /\ seen = api /\ ~loc.fresh /\ loc.base = NoRow /\ pc = "idle" /\ tf = NoState
      /\ op.step = "none" /\ ~op.shared
  BY <1>1 DEF Init, NewMR, NoLocals, NoOp
<1>4. row \in Uuids \cup {NoRow} /\ (row # NoRow => origin[row] = "initial")
  BY <1>1 DEF Init
<1>5. CopyInv /\ StepInv /\ UsedInv
  BY <1>3, <1>4, AdoptionAssumption DEF CopyInv, StepInv, UsedInv
<1>6. FinInv /\ IdInv
  BY <1>2, <1>3, <1>4 DEF FinInv, IdInv, Creating, OwnRow, Known, KnownNames, KnownIDs
<1>7. TrackInv /\ CreateInv /\ PairInv
  BY <1>3 DEF TrackInv, CreateInv, PairInv, Recorded
<1> QED
  BY <1>5, <1>6, <1>7 DEF SafeInv

LEMMA GetSafe ==
  ASSUME TInv, SafeInv, Get
  PROVE  SafeInv'
<1>1. /\ mg' = seen /\ pc' = "initialize" /\ loc'.fresh = (seen = api) /\ loc'.base = NoRow
      /\ UNCHANGED <<api, seen, tf, op, row, origin, faults>> /\ seen.phase # "gone" /\ pc = "idle"
  BY DEF Get, NoLocals, ClickHouse
<1>2. CopyInv' /\ StepInv' /\ UsedInv'
  BY <1>1, AdoptionAssumption DEF SafeInv, CopyInv, StepInv, UsedInv
<1>3. FinInv'
  BY <1>1 DEF SafeInv, FinInv, Creating, OwnRow
<1>4. IdInv'
  BY <1>1 DEF SafeInv, IdInv, Steady, Creating, SeenRow, Known, KnownNames, KnownIDs, RowUuid
<1>5. TrackInv' /\ CreateInv' /\ PairInv'
  BY <1>1 DEF SafeInv, TrackInv, CreateInv, PairInv, SeenRow, Recorded
<1> QED
  BY <1>2, <1>3, <1>4, <1>5 DEF SafeInv

LEMMA InitializeRecordedSafe ==
  ASSUME Quiet, TInv, SafeInv, InitializeRecorded
  PROVE  SafeInv'
<1> DEFINE n == stripClusterPrefix(mg.obs)
<1> DEFINE m == [mg EXCEPT !.en = n]
<1>1. TypeOK /\ mg \in Objects /\ mg.en \in Names /\ mg.obs \in RowIDs /\ api \in Objects
      /\ loc \in Locals
  BY RecordedMembers DEF TInv, TypeOK, Objects, InitializeRecorded
<1>2. PICK u \in Uuids : mg.obs \in IDs(u) /\ n = <<u>>
  BY <1>1, RowIDMembers
<1>3. pc = "initialize" /\ Recorded(mg.obs) /\ UNCHANGED <<seen, tf, row, origin, faults>>
  BY DEF InitializeRecorded, ClickHouse
<1>4. Steady => row = u /\ <<u>> \in KnownNames
  BY <1>1, <1>2, <1>3, KnownRecorded, KnownRow, AdoptionAssumption
     DEF SafeInv, IdInv, Known
<1>5. isRealUUID(<<u>>)
  BY SentinelAssumption DEF isRealUUID, IsUUID
<1>6. CASE /\ isRealUUID(mg.en)
           /\ UNCHANGED <<api, mg, op>> /\ pc' = "observe" /\ loc' = [loc EXCEPT !.base = row]
  <2>1. loc'.fresh = loc.fresh /\ loc'.base = row
    BY <1>1, <1>6 DEF Locals
  <2>2. CopyInv' /\ StepInv' /\ UsedInv'
    BY <1>3, <1>6, <2>1 DEF SafeInv, CopyInv, StepInv, UsedInv
  <2>3. FinInv'
    BY <1>3, <1>6, <2>1 DEF SafeInv, FinInv, Creating, OwnRow
  <2>4. IdInv'
    BY <1>3, <1>6, <2>1
       DEF SafeInv, IdInv, Steady, Creating, SeenRow, Known, KnownNames, KnownIDs, RowUuid
  <2>5. TrackInv'
    <3>1. Steady /\ row # NoRow => mg.en = <<row>> /\ mg.obs \in IDs(row)
      BY <1>1, <1>3, <1>6, KnownReal, KnownRecorded DEF SafeInv, IdInv, Known
    <3> QED
      BY <1>3, <1>6, <2>1, <3>1 DEF SafeInv, TrackInv, Steady, Creating, SeenRow
  <2>6. CreateInv' /\ PairInv'
    BY <1>3, <1>6, <2>1 DEF SafeInv, CreateInv, PairInv
  <2> QED
    BY <2>2, <2>3, <2>4, <2>5, <2>6 DEF SafeInv
<1>7. CASE Update(m) /\ pc' = "observe" /\ loc' = [loc EXCEPT !.base = row] /\ UNCHANGED op
  <2>1. loc'.fresh = loc.fresh /\ loc'.base = row
    BY <1>1, <1>7 DEF Locals
  <2>2. m \in Objects /\ m.en = <<u>> /\ Same(m, mg)
    BY <1>1, <1>2, Members DEF Objects, Same
  <2>3. /\ loc.fresh /\ mg' = api' /\ Same(api', mg) /\ Same(api', api)
        /\ api'.en = <<u>> /\ api'.obs = api.obs /\ api.obs = mg.obs
    BY <1>3, <1>7, <2>2, UpdateEffect DEF Same, SafeInv, CopyInv, StepInv
  <2> HIDE DEF m, n
  <2>4. CopyInv' /\ StepInv' /\ UsedInv'
    BY <1>3, <1>7, <2>1, <2>3 DEF SafeInv, CopyInv, StepInv, UsedInv, Same
  <2>5. FinInv'
    BY <1>3, <1>7, <2>1, <2>3 DEF SafeInv, FinInv, Creating, OwnRow, Same
  <2>6. IdInv'
    BY <1>3, <1>4, <1>7, <2>1, <2>3
       DEF SafeInv, IdInv, Steady, Creating, SeenRow, Known, KnownNames, KnownIDs, RowUuid, Same
  <2>7. TrackInv'
    BY <1>2, <1>3, <1>4, <1>7, <2>1, <2>3
       DEF SafeInv, TrackInv, Steady, Creating, SeenRow, Same
  <2>8. CreateInv' /\ PairInv'
    BY <1>2, <1>3, <1>5, <1>7, <2>1, <2>3 DEF SafeInv, CreateInv, PairInv, n
  <2> QED
    BY <2>4, <2>5, <2>6, <2>7, <2>8 DEF SafeInv
<1>8. CASE Conflict
  BY <1>3, <1>8, EndKeeps DEF Conflict, Same, SafeInv, TrackInv
<1> QED
  BY <1>1, <1>6, <1>7, <1>8, PlainNames DEF InitializeRecorded

LEMMA InitializeSeedSafe ==
  ASSUME Quiet, TInv, SafeInv, InitializeSeed
  PROVE  SafeInv'
<1>1. TypeOK /\ mg \in Objects /\ mg.en \in Names /\ mg.en # <<Sentinel>> /\ loc \in Locals
      /\ row \in Uuids \cup {NoRow}
  BY DEF TInv, TypeOK, Objects, NoSentinel
<1>2. /\ pc = "initialize" /\ ~Recorded(mg.obs) /\ SeedImport
      /\ UNCHANGED <<api, seen, tf, op, row, origin, faults>>
      /\ pc' = "observe" /\ loc'.fresh = loc.fresh /\ loc'.base = row
  BY <1>1 DEF InitializeSeed, ClickHouse, Locals
<1>3. PICK en, obs :
        /\ Seed(en, obs)
        /\ \/ isRealUUID(mg.en) /\ en = mg.en /\ obs = mg.en
           \/ row \in Uuids /\ en = <<row>> /\ obs = <<row>>
           \/ row = NoRow /\ en = mg.en /\ obs = <<Sentinel>>
  BY <1>1, <1>2, PlainNames DEF SeedImport, isRealUUID
<1>4. mg'.en = en /\ mg'.obs = obs /\ Same(mg', mg)
  BY <1>1, <1>3 DEF Seed, Objects, Same
<1>5. Recorded(obs) => isRealUUID(en) /\ en = stripClusterPrefix(obs)
  BY <1>1, <1>3, RealRow, PlainNames, Strip DEF Recorded
<1>6. Steady => /\ en \in KnownNames /\ obs \in KnownIDs
                /\ row # NoRow => en = <<row>> /\ obs \in IDs(row)
  <2> SUFFICES ASSUME Steady PROVE /\ en \in KnownNames /\ obs \in KnownIDs
                                   /\ row # NoRow => en = <<row>> /\ obs \in IDs(row)
    OBVIOUS
  <2>1. mg.en \in KnownNames
    BY DEF SafeInv, IdInv, Known
  <2>2. <<Sentinel>> \in KnownIDs
    BY DEF KnownIDs
  <2> QED
    BY <1>1, <1>3, <2>1, <2>2, KnownReal, KnownRow
<1>7. CopyInv' /\ StepInv' /\ UsedInv'
  BY <1>2, <1>4 DEF SafeInv, CopyInv, StepInv, UsedInv, Same
<1>8. FinInv'
  BY <1>2, <1>4 DEF SafeInv, FinInv, Creating, OwnRow
<1>9. IdInv'
  BY <1>2, <1>4, <1>6
     DEF SafeInv, IdInv, Steady, Creating, SeenRow, Known, KnownNames, KnownIDs, RowUuid
<1>10. TrackInv'
  BY <1>2, <1>4, <1>6 DEF SafeInv, TrackInv, Steady, Creating, SeenRow
<1>11. CreateInv' /\ PairInv'
  BY <1>2, <1>4, <1>5 DEF SafeInv, CreateInv, PairInv
<1> QED
  BY <1>7, <1>8, <1>9, <1>10, <1>11 DEF SafeInv

LEMMA LookupFailsSafe ==
  ASSUME TInv, SafeInv, LookupFails
  PROVE  SafeInv'
BY EndKeeps DEF LookupFails, ClickHouse, Same, SafeInv, TrackInv

LEMMA SaveSafe ==
  ASSUME TInv, SafeInv, SaveStatus, UNCHANGED <<seen, row, origin>>,
         SeenRow /\ op.step # "created" => tf' = NoState \/ stripClusterPrefix(tf') = <<row>>
  PROVE  SafeInv'
BY EndKeeps, SaveStatusEffect

LEMMA IncompleteCreateSafe ==
  ASSUME TInv, SafeInv, IncompleteCreate
  PROVE  SafeInv'
BY SaveSafe DEF IncompleteCreate, ClickHouse, SafeInv, TrackInv

LEMMA UpdateStatusSafe ==
  ASSUME TInv, SafeInv, UpdateStatus
  PROVE  SafeInv'
BY SaveSafe DEF UpdateStatus, ClickHouse, SafeInv, TrackInv

LEMMA ReadFailsSafe ==
  ASSUME TInv, SafeInv, ReadFails
  PROVE  SafeInv'
<1>1. /\ pc = "observe" /\ op.step # "created" /\ tf' \in {tf, ConnectState} /\ SaveStatus
      /\ UNCHANGED <<seen, row, origin>>
  BY DEF ReadFails, Observing, NoOp, ClickHouse
<1>2. SeenRow => stripClusterPrefix(ConnectState) = <<row>>
  BY <1>1, ConnectsToRow DEF RowFound, SafeInv
<1> QED
  BY <1>1, <1>2, SaveSafe DEF SafeInv, TrackInv

LEMMA ObserveRunningSafe ==
  ASSUME TInv, SafeInv, ObserveRunning
  PROVE  SafeInv'
<1>1. /\ pc = "observe" /\ pc' \in {"status", "finalize"} /\ loc'.exists
      /\ loc'.fresh = loc.fresh /\ loc'.base = loc.base
      /\ UNCHANGED <<api, seen, mg, tf, op, row, origin, faults>>
  BY DEF TInv, TypeOK, Locals, ObserveRunning, ClickHouse
<1>2. CopyInv' /\ StepInv' /\ UsedInv'
  BY <1>1 DEF SafeInv, CopyInv, StepInv, UsedInv
<1>3. FinInv'
  BY <1>1 DEF SafeInv, FinInv, Creating, OwnRow
<1>4. IdInv'
  BY <1>1 DEF SafeInv, IdInv, Steady, Creating, SeenRow, Known, KnownNames, KnownIDs, RowUuid
<1>5. TrackInv' /\ CreateInv' /\ PairInv'
  BY <1>1 DEF SafeInv, TrackInv, CreateInv, PairInv, SeenRow
<1> QED
  BY <1>2, <1>3, <1>4, <1>5 DEF SafeInv

LEMMA ReadFoundSafe ==
  ASSUME TInv, SafeInv, ReadFound
  PROVE  SafeInv'
<1>1. PICK id \in StateIDs(row) :
        LET en == ExternalNameFromClusterName(id) IN
          /\ tf' = id
          /\ mg' = [mg EXCEPT !.en = en, !.obs = id]
          /\ loc' = [loc EXCEPT !.exists = TRUE, !.late = (en # mg.en)]
  BY DEF ReadFound
<1>2. row \in Uuids /\ mg \in Objects /\ loc \in Locals
  BY DEF TInv, TypeOK, ReadFound, RowFound
<1>3. id \in IDs(row)
  BY <1>2 DEF StateIDs, IDs
<1>4. stripClusterPrefix(id) = <<row>> /\ ExternalNameFromClusterName(id) = <<row>>
  BY <1>2, <1>3, NameOfRow
<1>5. /\ mg'.en = <<row>> /\ mg'.obs = id /\ Same(mg', mg) /\ tf' = id
      /\ loc'.exists /\ loc'.fresh = loc.fresh /\ loc'.base = loc.base
  BY <1>1, <1>2, <1>4 DEF Objects, Locals, Same
<1>6. /\ pc = "observe" /\ op = NoOp /\ UNCHANGED <<api, seen, op, row, origin, faults>>
      /\ pc' = IF mg.phase = "live" THEN "finalize"
               ELSE IF mg.observe THEN "unfinalize" ELSE "delete"
  BY DEF ReadFound, Observing, ClickHouse
<1>7. CopyInv' /\ UsedInv'
  BY <1>5, <1>6 DEF SafeInv, CopyInv, UsedInv, Same
<1>8. StepInv'
  BY <1>4, <1>5, <1>6 DEF SafeInv, CopyInv, StepInv, NoOp
<1>9. FinInv'
  BY <1>5, <1>6 DEF SafeInv, CopyInv, FinInv, Creating, OwnRow
<1>10. IdInv'
  BY <1>2, <1>3, <1>5, <1>6, KnownRow
     DEF SafeInv, IdInv, Steady, Creating, SeenRow, Known, KnownNames, KnownIDs, RowUuid
<1>11. TrackInv' /\ CreateInv' /\ PairInv'
  BY <1>4, <1>5, <1>6 DEF SafeInv, TrackInv, CreateInv, PairInv, SeenRow
<1> QED
  BY <1>7, <1>8, <1>9, <1>10, <1>11 DEF SafeInv

LEMMA ReadNotFoundSafe ==
  ASSUME TInv, SafeInv, ReadNotFound
  PROVE  SafeInv'
<1>1. /\ pc = "observe" /\ op = NoOp /\ ~RowFound(ConnectState)
      /\ tf' = NoState /\ ~loc'.exists /\ loc'.fresh = loc.fresh /\ loc'.base = loc.base
      /\ pc' = IF mg.phase = "deleting" THEN "unfinalize"
               ELSE IF mg.observe THEN "status" ELSE "finalize"
      /\ UNCHANGED <<api, seen, mg, op, row, origin, faults>>
  BY DEF TInv, TypeOK, Locals, ReadNotFound, Observing, ClickHouse
<1>2. ~SeenRow
  BY <1>1, ConnectsToRow DEF SafeInv, NoOp
<1>3. mg.phase \in {"live", "deleting"} /\ mg.observe \in BOOLEAN
  BY <1>1 DEF TInv, TypeOK, Objects, Phases, SafeInv, CopyInv
<1>4. CopyInv' /\ StepInv' /\ UsedInv'
  BY <1>1, <1>3 DEF SafeInv, CopyInv, StepInv, UsedInv, NoOp
<1>5. FinInv'
  BY <1>1, <1>2 DEF SafeInv, FinInv, Creating, OwnRow, SeenRow
<1>6. IdInv'
  BY <1>1 DEF SafeInv, IdInv, Steady, Creating, SeenRow, Known, KnownNames, KnownIDs, RowUuid
<1>7. TrackInv' /\ CreateInv' /\ PairInv'
  BY <1>1, <1>2 DEF SafeInv, TrackInv, CreateInv, PairInv, SeenRow
<1> QED
  BY <1>4, <1>5, <1>6, <1>7 DEF SafeInv

\* A fresh copy saved with its finalizer: another step of the same reconcile.
LEMMA SavedSafe ==
  ASSUME TInv, SafeInv, NEW m \in Objects, Update(m), m.en = mg.en,
         m.phase = mg.phase, m.observe = mg.observe, mg.fin => m.fin,
         UNCHANGED <<seen, loc, tf, op, row, origin>>,
         pc \in {"finalize", "lateinit", "pending"},
         pc' \in {"lateinit", "pending", "create", "status"},
         pc' = "pending" => pc = "finalize" /\ ~loc.exists /\ m.fin,
         pc' = "create" => pc = "pending"
  PROVE  SafeInv'
<1> USE DEF Same
<1>1. /\ loc.fresh /\ mg' = api' /\ api'.en = mg.en /\ api'.obs = api.obs
      /\ api'.phase = api.phase /\ api'.phase = mg.phase
      /\ api'.observe = api.observe /\ api'.observe = mg.observe
      /\ api'.fin = m.fin /\ (api.fin => api'.fin)
  BY UpdateEffect DEF SafeInv, CopyInv
<1>2. mg.phase # "gone"
  BY DEF SafeInv, CopyInv
<1>3. CopyInv' /\ UsedInv'
  BY <1>1, <1>2 DEF SafeInv, CopyInv, UsedInv
<1>4. StepInv'
  BY <1>1 DEF SafeInv, StepInv
<1>5. Steady' => Steady
  BY <1>1 DEF SafeInv, StepInv, Steady, Creating, SeenRow
<1>6. FinInv'
  BY <1>1, <1>2 DEF SafeInv, StepInv, FinInv, Creating, OwnRow
<1>7. IdInv'
  BY <1>1, <1>5 DEF SafeInv, IdInv, Known, KnownNames, KnownIDs, RowUuid
<1>8. TrackInv' /\ CreateInv'
  BY DEF SafeInv, StepInv, TrackInv, CreateInv, SeenRow
<1>9. PairInv'
  <2>1. ASSUME mg'.phase = "live", Recorded(mg'.obs), isRealUUID(mg'.en)
        PROVE  mg'.en = stripClusterPrefix(mg'.obs)
    BY <1>1, <2>1, KnownReal, KnownRecorded DEF TInv, SafeInv, IdInv, Steady, Known
  <2> QED
    BY <2>1 DEF SafeInv, PairInv
<1> QED
  BY <1>3, <1>4, <1>6, <1>7, <1>8, <1>9 DEF SafeInv

LEMMA AddFinalizerSafe ==
  ASSUME TInv, SafeInv, AddFinalizer
  PROVE  SafeInv'
<1> DEFINE m == [mg EXCEPT !.fin = TRUE]
<1>1. pc = "finalize" /\ UNCHANGED <<seen, tf, row, origin, faults>>
  BY DEF AddFinalizer, ClickHouse
<1>2. m \in Objects /\ m.en = mg.en /\ m.phase = mg.phase /\ m.observe = mg.observe /\ m.fin
  BY DEF TInv, TypeOK, Objects
<1>3. CASE Conflict
  BY <1>1, <1>3, EndKeeps DEF Conflict, Same, SafeInv, TrackInv
<1>4. CASE /\ IF mg.fin THEN UNCHANGED <<api, mg>> ELSE Update(m)
           /\ pc' = IF ~loc.exists THEN "pending"
                    ELSE IF loc.late /\ ~mg.observe THEN "lateinit" ELSE "status"
           /\ UNCHANGED <<loc, op>>
  <2>1. CASE ~mg.fin
    <3> HIDE DEF m
    <3> QED
      BY <1>1, <1>2, <1>4, <2>1, SavedSafe
  <2>2. CASE mg.fin
    <3>1. UNCHANGED <<api, mg>>
      BY <1>4, <2>2
    <3>2. CopyInv' /\ UsedInv'
      BY <1>1, <1>4, <3>1 DEF SafeInv, CopyInv, UsedInv
    <3>3. StepInv'
      BY <1>1, <1>4, <2>2, <3>1 DEF SafeInv, StepInv
    <3>4. FinInv'
      BY <1>1, <1>4, <3>1 DEF SafeInv, FinInv, Creating, OwnRow
    <3>5. IdInv'
      BY <1>1, <1>4, <3>1
         DEF SafeInv, IdInv, Steady, Creating, SeenRow, Known, KnownNames, KnownIDs, RowUuid
    <3>6. TrackInv' /\ CreateInv' /\ PairInv'
      BY <1>1, <1>4, <3>1 DEF SafeInv, TrackInv, CreateInv, PairInv, SeenRow
    <3> QED
      BY <3>2, <3>3, <3>4, <3>5, <3>6 DEF SafeInv
  <2> QED
    BY <2>1, <2>2
<1> QED
  BY <1>3, <1>4 DEF AddFinalizer

LEMMA LateInitializeSafe ==
  ASSUME TInv, SafeInv, LateInitialize
  PROVE  SafeInv'
<1>1. pc = "lateinit" /\ UNCHANGED <<seen, tf, row, origin>>
  BY DEF LateInitialize, ClickHouse
<1>2. CASE Conflict
  BY <1>1, <1>2, EndKeeps DEF Conflict, Same, SafeInv, TrackInv
<1>3. CASE ~Conflict
  BY <1>1, <1>3, SavedSafe DEF LateInitialize, TInv, TypeOK
<1> QED
  BY <1>2, <1>3

LEMMA CreatePendingSafe ==
  ASSUME TInv, SafeInv, CreatePending
  PROVE  SafeInv'
<1> DEFINE m == [mg EXCEPT !.pending = TRUE]
<1>1. pc = "pending" /\ UNCHANGED <<seen, tf, row, origin>>
  BY DEF CreatePending, ClickHouse
<1>2. /\ m \in Objects /\ m.en = mg.en /\ m.phase = mg.phase /\ m.observe = mg.observe
      /\ m.fin = mg.fin
  BY DEF TInv, TypeOK, Objects
<1>3. CASE Conflict
  BY <1>1, <1>3, EndKeeps DEF Conflict, Same, SafeInv, TrackInv
<1>4. CASE Update(m) /\ pc' = "create" /\ UNCHANGED <<loc, op>>
  <2> HIDE DEF m
  <2> QED
    BY <1>1, <1>2, <1>4, SavedSafe
<1> QED
  BY <1>3, <1>4 DEF CreatePending

LEMMA CreateSafe ==
  ASSUME TInv, SafeInv, Create
  PROVE  SafeInv'
<1>1. /\ pc = "create" /\ pc' = "succeeded" /\ op'.step = "create"
      /\ UNCHANGED <<api, seen, mg, loc, tf, row, origin, faults>>
  BY DEF Create, NoOp, ClickHouse
<1>2. CopyInv' /\ UsedInv'
  BY <1>1 DEF SafeInv, CopyInv, UsedInv
<1>3. StepInv'
  BY <1>1 DEF SafeInv, StepInv
<1>4. FinInv' /\ IdInv'
  BY <1>1 DEF SafeInv, FinInv, OwnRow, IdInv, Steady, Creating, SeenRow, Known, KnownNames,
     KnownIDs, RowUuid
<1>5. TrackInv' /\ CreateInv' /\ PairInv'
  BY <1>1 DEF SafeInv, StepInv, NoOp, TrackInv, CreateInv, PairInv, SeenRow
<1> QED
  BY <1>2, <1>3, <1>4, <1>5 DEF SafeInv

LEMMA CreateSucceededSafe ==
  ASSUME TInv, SafeInv, CreateSucceeded
  PROVE  SafeInv'
<1>1. /\ pc = "succeeded" /\ pc' = "status" /\ loc'.fresh /\ loc'.base = loc.base
      /\ mg' = api' /\ api'.en = mg.en /\ api'.obs = api.obs /\ Same(api', api)
      /\ UNCHANGED <<seen, tf, op, row, origin, faults>>
  BY DEF TInv, TypeOK, Objects, Locals, CreateSucceeded, ClickHouse, Same
<1>2. CopyInv' /\ UsedInv'
  BY <1>1 DEF SafeInv, CopyInv, UsedInv, Same
<1>3. StepInv'
  BY <1>1 DEF SafeInv, StepInv, Same
<1>4. FinInv'
  BY <1>1 DEF SafeInv, FinInv, Creating, OwnRow, Same
<1>5. Steady' => Steady
  BY <1>1 DEF Steady, Creating, SeenRow, Same
<1>6. IdInv'
  BY <1>1, <1>5 DEF SafeInv, IdInv, Known, KnownNames, KnownIDs, RowUuid
<1>7. TrackInv' /\ CreateInv'
  BY <1>1 DEF SafeInv, TrackInv, CreateInv, SeenRow
<1>8. PairInv'
  <2>1. ASSUME mg'.phase = "live", Recorded(mg'.obs), isRealUUID(mg'.en)
        PROVE  mg'.en = stripClusterPrefix(mg'.obs)
    BY <1>1, <2>1, KnownReal, KnownRecorded DEF TInv, SafeInv, IdInv, Steady, Known, Same
  <2> QED
    BY <1>1, <2>1 DEF SafeInv, PairInv
<1> QED
  BY <1>2, <1>3, <1>4, <1>6, <1>7, <1>8 DEF SafeInv

LEMMA DeleteSafe ==
  ASSUME TInv, SafeInv, Delete
  PROVE  SafeInv'
<1>1. /\ pc = "delete" /\ pc' = "status" /\ op'.step = "delete"
      /\ op'.id = stripClusterPrefix(tf)[1]
      /\ UNCHANGED <<api, seen, mg, loc, tf, row, origin, faults>>
  BY DEF Delete, ClickHouse
<1>2. row \in Uuids /\ op'.id = row
  <2>1. PICK u \in Uuids : stripClusterPrefix(tf) = <<u>>
    BY <1>1, RowIDMembers DEF TInv, OpInv
  <2> QED
    BY <1>1, <2>1 DEF SafeInv, StepInv
<1>3. CopyInv' /\ UsedInv'
  BY <1>1 DEF SafeInv, CopyInv, UsedInv
<1>4. StepInv'
  BY <1>1, <1>2, AdoptionAssumption DEF SafeInv, StepInv
<1>5. FinInv' /\ IdInv'
  BY <1>1 DEF SafeInv, FinInv, OwnRow, IdInv, Steady, Creating, SeenRow, Known, KnownNames,
     KnownIDs, RowUuid
<1>6. TrackInv' /\ CreateInv' /\ PairInv'
  BY <1>1 DEF SafeInv, StepInv, NoOp, TrackInv, CreateInv, PairInv, SeenRow
<1> QED
  BY <1>3, <1>4, <1>5, <1>6 DEF SafeInv

LEMMA RemoveFinalizerSafe ==
  ASSUME TInv, SafeInv, RemoveFinalizer
  PROVE  SafeInv'
<1>1. pc = "unfinalize" /\ UNCHANGED <<seen, row, origin, faults>>
  BY DEF RemoveFinalizer, ClickHouse
<1>2. CASE Conflict /\ UNCHANGED tf
  BY <1>1, <1>2, EndKeeps DEF Conflict, Same, SafeInv, TrackInv
<1>3. CASE /\ loc.fresh
           /\ api' = [api EXCEPT !.fin = FALSE, !.phase = "gone"]
           /\ tf' = NoState /\ Requeue
  <2>1. /\ api'.en = api.en /\ api'.obs = api.obs /\ api'.phase = "gone"
        /\ api'.observe = api.observe
    BY <1>3 DEF TInv, TypeOK, Objects
  <2>2. /\ pc' = "idle" /\ ~loc'.fresh /\ loc'.base = NoRow
        /\ mg'.en = NoName /\ mg'.obs = NoName /\ mg'.phase = "live" /\ ~mg'.fin
        /\ op'.step = "none" /\ op'.id = NoRow /\ ~op'.shared
    BY <1>1, <1>3, RequeueEffect DEF TInv, SafeInv, StepInv, NoOp
  <2>3. CopyInv' /\ StepInv' /\ UsedInv'
    BY <1>1, <2>1, <2>2, AdoptionAssumption DEF SafeInv, CopyInv, StepInv, UsedInv
  <2>4. FinInv'
    BY <1>1, <1>3, <2>2 DEF SafeInv, FinInv, Creating, OwnRow
  <2>5. IdInv'
    BY <1>1, <2>1, <2>2
       DEF SafeInv, IdInv, Steady, Creating, SeenRow, Known, KnownNames, KnownIDs, RowUuid
  <2>6. TrackInv' /\ CreateInv' /\ PairInv'
    BY <1>1, <1>3, <2>2 DEF SafeInv, TrackInv, CreateInv, PairInv, Recorded
  <2> QED
    BY <2>3, <2>4, <2>5, <2>6 DEF SafeInv
<1> QED
  BY <1>2, <1>3 DEF RemoveFinalizer

\* A row made where none was: by the create, a rival, or a create that outlives
\* the provider.
LEMMA NewRowKeeps ==
  ASSUME TInv, SafeInv, row = NoRow, NEW by, by # "free", NewRow(by)
  PROVE  /\ row' # loc.base /\ ~SeenRow /\ ~OwnRow
         /\ \A u \in {row', loc.base} : u \in Uuids => origin'[u] # "free"
         /\ Steady => \A m \in {api, seen, mg} : m.en \in KnownNames' /\ m.obs \in KnownIDs'
<1>1. /\ row' \in Uuids /\ origin[row'] = "free" /\ origin'[row'] = by
      /\ \A u \in Uuids : u # row' => origin'[u] = origin[u]
  BY NewRowEffect DEF TInv
<1>2. KnownNames \subseteq KnownNames' /\ KnownIDs \subseteq KnownIDs'
  BY KnownMore
<1> QED
  BY <1>1, <1>2 DEF SafeInv, UsedInv, SeenRow, OwnRow, IdInv, Known

LEMMA RunCreateSafe ==
  ASSUME TInv, SafeInv, RunCreate
  PROVE  SafeInv'
<1>1. /\ op.step = "create" /\ UNCHANGED <<api, seen, mg, loc, pc, tf>> /\ Creating
      /\ pc # "create" /\ ~(pc \in {"finalize", "pending"} /\ ~loc.exists)
  BY DEF RunCreate, Creating, SafeInv, StepInv, NoOp
<1>2. op \in [step: Steps, id: Uuids \cup {NoRow}, shared: BOOLEAN]
  BY DEF TInv, TypeOK
<1>3. ASSUME NEW by \in {"mr", "lost"}, row = NoRow, NewRow(by), op'.shared = op.shared,
             \/ by = "mr" /\ op'.step = "created" /\ op'.id = row'
             \/ by = "lost" /\ op'.step = "failed"
      PROVE  SafeInv'
  <2>1. row' \in Uuids /\ origin'[row'] = by
    BY <1>3, NewRowEffect DEF TInv
  <2>2. CopyInv' /\ UsedInv'
    BY <1>1, <1>3, NewRowKeeps DEF SafeInv, CopyInv, UsedInv
  <2>3. StepInv'
    BY <1>1, <1>3, <2>1, AdoptionAssumption DEF SafeInv, StepInv, NoOp
  <2>4. FinInv' /\ IdInv'
    BY <1>1, <1>3, NewRowKeeps
       DEF SafeInv, StepInv, FinInv, IdInv, Steady, Creating, Known, NoOp
  <2>5. TrackInv'
    BY <1>1, <1>3, <2>1, NewRowKeeps DEF SafeInv, TrackInv, SeenRow
  <2>6. CreateInv' /\ PairInv'
    BY <1>1 DEF SafeInv, CreateInv, PairInv
  <2> QED
    BY <2>2, <2>3, <2>4, <2>5, <2>6 DEF SafeInv
<1>4. CASE op' = [op EXCEPT !.step = "failed"] /\ UNCHANGED <<row, origin>>
  <2>1. op'.step = "failed" /\ op'.shared = op.shared
    BY <1>2, <1>4
  <2>2. CopyInv' /\ StepInv' /\ UsedInv'
    BY <1>1, <1>4, <2>1 DEF SafeInv, CopyInv, StepInv, UsedInv, NoOp
  <2>3. FinInv' /\ IdInv'
    BY <1>1, <1>4, <2>1 DEF SafeInv, StepInv, FinInv, OwnRow, IdInv, Steady, Creating, Known,
       KnownNames, KnownIDs, RowUuid, NoOp
  <2>4. TrackInv' /\ CreateInv' /\ PairInv'
    BY <1>1, <1>4, <2>1
       DEF SafeInv, TrackInv, CreateInv, PairInv, Steady, Creating, SeenRow
  <2> QED
    BY <2>2, <2>3, <2>4 DEF SafeInv
<1>5. CASE row = NoRow /\ NewRow("mr") /\ op' = [op EXCEPT !.step = "created", !.id = row']
  BY <1>2, <1>3, <1>5
<1>6. CASE row = NoRow /\ NewRow("lost") /\ op' = [op EXCEPT !.step = "failed"]
  BY <1>2, <1>3, <1>6
<1> QED
  BY <1>4, <1>5, <1>6 DEF RunCreate, ClickHouse

LEMMA FinishCreateSafe ==
  ASSUME TInv, SafeInv, FinishCreate
  PROVE  SafeInv'
<1>1. PICK id \in StateIDs(op.id) :
        /\ tf' = id
        /\ IF op.shared
             THEN mg' = [mg EXCEPT !.en = ExternalNameFromClusterName(id), !.obs = id]
             ELSE UNCHANGED mg
  BY DEF FinishCreate
<1>2. /\ op.step = "created" /\ op'.step = "none" /\ ~op'.shared /\ Creating /\ Steady
      /\ UNCHANGED <<api, seen, loc, pc, row, origin, faults>>
  BY DEF FinishCreate, NoOp, ClickHouse, Creating, Steady
<1>3. row \in Uuids /\ op.id = row
  BY <1>2 DEF TInv, OpInv, SafeInv, StepInv
<1>4. id \in IDs(row)
  BY <1>3 DEF StateIDs, IDs
<1>5. /\ stripClusterPrefix(id) = <<row>> /\ ExternalNameFromClusterName(id) = <<row>>
      /\ id # NoName
  BY <1>3, <1>4, NameOfRow
<1>6. /\ Same(mg', mg)
      /\ \/ op.shared /\ mg'.en = <<row>> /\ mg'.obs = id
         \/ ~op.shared /\ mg' = mg
  <2>1. CASE op.shared
    <3>1. mg' = [mg EXCEPT !.en = <<row>>, !.obs = id]
      BY <1>1, <1>5, <2>1
    <3> QED
      BY <2>1, <3>1 DEF TInv, TypeOK, Objects, Same
  <2>2. CASE ~op.shared
    BY <1>1, <2>2 DEF Same
  <2> QED
    BY <2>1, <2>2
<1>7. CopyInv' /\ UsedInv'
  BY <1>2, <1>6 DEF SafeInv, CopyInv, UsedInv, Same
<1>8. StepInv'
  BY <1>2, <1>6 DEF SafeInv, StepInv, NoOp
<1>9. FinInv' /\ IdInv'
  BY <1>2, <1>3, <1>4, <1>6, KnownRow
     DEF SafeInv, FinInv, OwnRow, IdInv, Creating, Known, KnownNames, KnownIDs, RowUuid
<1>10. TrackInv'
  BY <1>1, <1>2, <1>5, <1>6 DEF SafeInv, StepInv, TrackInv, SeenRow, NoState
<1>11. CreateInv'
  BY <1>2 DEF SafeInv, CreateInv, SeenRow
<1>12. PairInv'
  BY <1>2, <1>5, <1>6 DEF SafeInv, StepInv, PairInv, Same
<1> QED
  BY <1>7, <1>8, <1>9, <1>10, <1>11, <1>12 DEF SafeInv

LEMMA FinishFailedSafe ==
  ASSUME TInv, SafeInv, FinishFailed
  PROVE  SafeInv'
<1> DEFINE n == ExternalNameFromClusterName(IDFromClusterName(mg.en, SpecName))
<1>1. /\ op.step = "failed" /\ op'.step = "none" /\ ~op'.shared /\ Creating /\ Steady
      /\ mg' \in {mg, IF op.shared THEN [mg EXCEPT !.en = n] ELSE mg}
      /\ UNCHANGED <<api, seen, loc, pc, tf, row, origin, faults>>
  BY DEF FinishFailed, NoOp, ClickHouse, Creating, Steady
<1>2. mg \in Objects /\ mg.en \in Names
  BY DEF TInv, TypeOK, Objects
<1>3. n \in {NoName, mg.en}
  BY <1>2, RoundTrip
<1> HIDE DEF n
<1>4. /\ Same(mg', mg) /\ mg'.obs = mg.obs /\ mg'.en \in {NoName, mg.en}
      /\ (~op.shared => mg' = mg)
  BY <1>1, <1>2, <1>3 DEF Objects, Same
<1>5. CopyInv' /\ UsedInv'
  BY <1>1, <1>4 DEF SafeInv, CopyInv, UsedInv, Same
<1>6. StepInv'
  BY <1>1, <1>4 DEF SafeInv, StepInv, NoOp
<1>7. FinInv' /\ IdInv'
  BY <1>1, <1>4
     DEF SafeInv, FinInv, OwnRow, IdInv, Creating, Known, KnownNames, KnownIDs, RowUuid
<1>8. TrackInv'
  BY <1>1, <1>4 DEF SafeInv, StepInv, TrackInv, SeenRow
<1>9. CreateInv'
  BY <1>1 DEF SafeInv, CreateInv, SeenRow
<1>10. PairInv'
  <2>1. ~isRealUUID(NoName)
    BY DEF isRealUUID, IsUUID, NoName
  <2> QED
    BY <1>1, <1>4, <2>1 DEF SafeInv, StepInv, PairInv, Same
<1> QED
  BY <1>5, <1>6, <1>7, <1>8, <1>9, <1>10 DEF SafeInv

LEMMA RunDeleteSafe ==
  ASSUME TInv, SafeInv, RunDelete
  PROVE  SafeInv'
<1>1. /\ op.step = "delete" /\ op'.step = "none" /\ ~op'.shared /\ pc # "create"
      /\ UNCHANGED <<api, seen, mg, loc, pc, origin>> /\ api.phase # "live"
      /\ \/ row' = NoRow /\ tf' = NoState
         \/ UNCHANGED <<row, tf>>
  BY DEF RunDelete, NoOp, SafeInv, StepInv
<1>2. CopyInv' /\ StepInv' /\ UsedInv'
  BY <1>1, AdoptionAssumption DEF SafeInv, CopyInv, StepInv, UsedInv, NoOp
<1>3. FinInv'
  BY <1>1 DEF SafeInv, FinInv, Creating, OwnRow
<1>4. IdInv'
  BY <1>1
     DEF SafeInv, IdInv, Steady, Creating, SeenRow, Known, KnownNames, KnownIDs, RowUuid
<1>5. TrackInv' /\ CreateInv' /\ PairInv'
  BY <1>1 DEF SafeInv, TrackInv, CreateInv, PairInv, SeenRow, Steady, Creating
<1> QED
  BY <1>2, <1>3, <1>4, <1>5 DEF SafeInv

LEMMA CrashSafe ==
  ASSUME TInv, SafeInv, Crash
  PROVE  SafeInv'
<1>1. /\ pc' = "idle" /\ ~loc'.fresh /\ loc'.base = NoRow /\ tf' = NoState
      /\ mg'.en = NoName /\ mg'.obs = NoName /\ mg'.phase = "live" /\ ~mg'.fin
      /\ op'.step = "none" /\ ~op'.shared /\ UNCHANGED <<api, seen>>
  BY DEF Crash, NewMR, NoLocals, NoOp
<1>2. CopyInv' /\ StepInv'
  BY <1>1 DEF SafeInv, CopyInv, StepInv
<1>3. TrackInv' /\ CreateInv' /\ PairInv'
  BY <1>1 DEF SafeInv, TrackInv, CreateInv, PairInv, Recorded
<1>4. NoName \in KnownNames' /\ NoName \in KnownIDs'
  BY DEF KnownNames, KnownIDs
<1>5. CASE op.step = "create" /\ row = NoRow /\ NewRow("mr")
  <2>1. Creating /\ Steady
    BY <1>5 DEF Creating, Steady
  <2>2. UsedInv' /\ FinInv'
    BY <1>1, <1>5, <2>1, NewRowKeeps, AdoptionAssumption DEF SafeInv, UsedInv, FinInv
  <2>3. IdInv'
    BY <1>1, <1>4, <1>5, <2>1, NewRowKeeps DEF IdInv, Known
  <2> QED
    BY <1>2, <1>3, <2>2, <2>3 DEF SafeInv
<1>6. CASE UNCHANGED <<row, origin>>
  <2>1. UsedInv' /\ FinInv'
    BY <1>1, <1>6, AdoptionAssumption DEF SafeInv, UsedInv, FinInv, Creating, OwnRow
  <2>2. IdInv'
    BY <1>1, <1>4, <1>6
       DEF SafeInv, IdInv, Steady, Creating, SeenRow, Known, KnownNames, KnownIDs, RowUuid
  <2> QED
    BY <1>2, <1>3, <2>1, <2>2 DEF SafeInv
<1> QED
  BY <1>5, <1>6 DEF Crash, ClickHouse

LEMMA RivalSafe ==
  ASSUME TInv, SafeInv, Rival
  PROVE  SafeInv'
<1>1. /\ row = NoRow /\ NewRow("rival") /\ row' \in Uuids /\ origin'[row'] = "rival"
      /\ UNCHANGED <<api, seen, mg, loc, pc, tf, op>>
  BY NewRowEffect DEF Rival, TInv
<1>2. CopyInv' /\ StepInv' /\ UsedInv'
  <2>1. CopyInv' /\ StepInv'
    <3>1. pc # "delete"
      <4>1. pc = "delete" => \E u \in Uuids : stripClusterPrefix(tf) = <<u>>
        BY RowIDMembers DEF TInv, OpInv
      <4> QED
        BY <1>1, <4>1, AdoptionAssumption DEF SafeInv, StepInv
    <3> QED
      BY <1>1, <3>1 DEF SafeInv, CopyInv, StepInv
  <2>2. \A u \in {row', loc.base} : u \in Uuids => origin'[u] # "free"
    BY <1>1, NewRowKeeps
  <2> QED
    BY <1>1, <2>1, <2>2 DEF UsedInv
<1>3. ~SeenRow' /\ ~OwnRow'
  BY <1>1 DEF SeenRow, OwnRow
<1>4. FinInv' /\ IdInv'
  BY <1>1, <1>3, NewRowKeeps DEF SafeInv, FinInv, IdInv, Steady, Creating, Known
<1>5. TrackInv' /\ CreateInv' /\ PairInv'
  BY <1>1, <1>3, NewRowKeeps DEF SafeInv, TrackInv, CreateInv, PairInv
<1> QED
  BY <1>2, <1>4, <1>5 DEF SafeInv

\* Others write the MR, the informer reads it, the operator clears a mark.
LEMMA WritersSafe ==
  ASSUME TInv, SafeInv, CacheSync \/ Touch \/ UserDelete \/ Manage \/ ClearPending
  PROVE  SafeInv'
<1>1. UNCHANGED <<mg, pc, tf, op, row, origin>>
  BY DEF CacheSync, Touch, UserDelete, Manage, ClearPending, ClickHouse
<1>2. loc'.base = loc.base /\ loc'.exists = loc.exists
  BY DEF TInv, TypeOK, Locals, CacheSync, Touch, UserDelete, Manage, ClearPending
<1>3. /\ api'.en = api.en /\ api'.obs = api.obs /\ api'.fin = api.fin
      /\ \/ api'.phase = api.phase
         \/ /\ api.phase = "live" /\ ~loc'.fresh
            /\ api'.phase = IF api.fin THEN "deleting" ELSE "gone"
      /\ api'.observe = api.observe \/ (~api'.observe /\ ~loc'.fresh)
      /\ loc'.fresh => loc.fresh
  <2>1. api \in Objects /\ loc \in Locals
    BY DEF TInv, TypeOK
  <2>2. CASE CacheSync
    BY <2>2 DEF CacheSync
  <2>3. CASE Touch
    BY <2>1, <2>3 DEF Touch, Locals
  <2>4. CASE UserDelete
    BY <2>1, <2>4 DEF UserDelete, Objects, Locals
  <2>5. CASE Manage
    BY <2>1, <2>5 DEF Manage, Objects, Locals
  <2>6. CASE ClearPending
    BY <2>1, <2>6 DEF ClearPending, Objects
  <2> QED
    BY <2>2, <2>3, <2>4, <2>5, <2>6
<1>4. seen' \in {seen, api}
  BY DEF CacheSync, Touch, UserDelete, Manage, ClearPending
<1>5. seen' = api => api' = api \/ seen = api
  BY DEF CacheSync, Touch, UserDelete, Manage, ClearPending
<1>6. CopyInv'
  BY <1>1, <1>3, <1>4, <1>5 DEF SafeInv, CopyInv
<1>7. StepInv' /\ UsedInv'
  BY <1>1, <1>2, <1>3 DEF SafeInv, StepInv, UsedInv
<1>8. FinInv'
  BY <1>1, <1>3 DEF SafeInv, FinInv, Creating, OwnRow
<1>9. Steady' => Steady
  BY <1>1, <1>3 DEF Steady, Creating, SeenRow
<1>10. IdInv'
  BY <1>1, <1>3, <1>4, <1>9 DEF SafeInv, IdInv, Known, KnownNames, KnownIDs, RowUuid
<1>11. TrackInv' /\ CreateInv'
  BY <1>1, <1>2, <1>9 DEF SafeInv, TrackInv, CreateInv, SeenRow
<1>12. PairInv'
  <2>1. ASSUME api.phase = "live", Recorded(api.obs), isRealUUID(api.en)
        PROVE  api.en = stripClusterPrefix(api.obs)
    BY <2>1, KnownReal, KnownRecorded DEF TInv, SafeInv, IdInv, Steady, Known
  <2> QED
    BY <1>1, <1>4, <2>1 DEF SafeInv, PairInv
<1> QED
  BY <1>6, <1>7, <1>8, <1>10, <1>11, <1>12 DEF SafeInv

LEMMA NextSafe ==
  ASSUME Quiet, TInv, SafeInv, [Next]_vars
  PROVE  SafeInv'
<1>1. CASE UNCHANGED vars
  BY <1>1 DEF vars, SafeInv, CopyInv, StepInv, UsedInv, FinInv, IdInv, TrackInv, CreateInv,
     PairInv, Creating, OwnRow, SeenRow, Steady, Known, KnownNames, KnownIDs, RowUuid
<1>2. CASE Reconcile
  BY <1>2, GetSafe, InitializeRecordedSafe, InitializeSeedSafe, LookupFailsSafe,
     IncompleteCreateSafe, ObserveRunningSafe, ReadFailsSafe, ReadFoundSafe, ReadNotFoundSafe,
     AddFinalizerSafe, LateInitializeSafe, CreatePendingSafe, CreateSafe, CreateSucceededSafe,
     UpdateStatusSafe, DeleteSafe, RemoveFinalizerSafe DEF Reconcile
<1>3. CASE Goroutine
  BY <1>3, RunCreateSafe, FinishCreateSafe, FinishFailedSafe, RunDeleteSafe DEF Goroutine
<1>4. CASE Environment
  BY <1>4, CrashSafe, RivalSafe, WritersSafe DEF Environment, Drop, Quiet
<1> QED
  BY <1>1, <1>2, <1>3, <1>4 DEF Next, Deleted

LEMMA InductiveSafe ==
  ASSUME Quiet
  PROVE  Spec => [](TInv /\ SafeInv)
<1>1. Init => SafeInv
  BY InitSafe
<1>2. TInv /\ SafeInv /\ [Next]_vars => SafeInv'
  BY NextSafe
<1> QED
  BY <1>1, <1>2, Inductive, PTL DEF Spec

-----------------------------------------------------------------------------
(* The theorems.                                                           *)

\* The annotation of a live MR never holds anything but what the user pinned or
\* the UUID of the row of that name, and its status never another row's UUID
\* (external_name.go:103-112, importinit.go:40-57).
THEOREM IdentityRecorded ==
  ASSUME Quiet
  PROVE  Spec => []RecordedIdentity
<1>1. ASSUME TInv, SafeInv PROVE RecordedIdentity
  <2> SUFFICES ASSUME api.phase = "live"
               PROVE  /\ api.en \in {NoName, <<K8sName>>, <<row>>}
                      /\ stripClusterPrefix(api.obs) \in {NoName, <<Sentinel>>, <<row>>}
    BY DEF RecordedIdentity
  <2>1. api.en \in KnownNames /\ api.obs \in KnownIDs
    BY <1>1 DEF SafeInv, IdInv, Steady, Known
  <2>2. CASE Recorded(api.obs)
    BY <1>1, <2>1, <2>2, KnownRecorded DEF KnownNames, RowUuid, TInv
  <2>3. CASE ~Recorded(api.obs)
    BY <2>1, <2>3, Strip DEF KnownNames, RowUuid, Recorded
  <2> QED
    BY <2>2, <2>3
<1> QED
  BY <1>1, InductiveSafe, PTL

\* A CREATE is never issued for a row that was there when the initializer ran,
\* neither one that existed before the MR nor one the MR made, crash or not
\* (overrides.go:135-139).
THEOREM CreatesOverNothing ==
  ASSUME Quiet
  PROVE  Spec => []NeverCreatesOverExisting
<1>1. SafeInv => NeverCreatesOverExisting
  BY DEF SafeInv, CreateInv, SeenRow, NeverCreatesOverExisting
<1> QED
  BY <1>1, InductiveSafe, PTL

\* A deleted MR leaves no row of its own behind, even when the deletion meets a
\* running create or a crash that lost the external name (importinit.go:43-55).
THEOREM LeavesNoOrphan ==
  ASSUME Quiet
  PROVE  Spec => []NoOrphan
<1>1. SafeInv => NoOrphan
  BY DEF SafeInv, FinInv, OwnRow, NoOrphan
<1> QED
  BY <1>1, InductiveSafe, PTL

\* The ID that Connect builds from the external name names the UUID that the
\* status of a live MR records (importinit.go:43-49).
THEOREM IDNamesWhatIsRecorded ==
  ASSUME Quiet
  PROVE  Spec => []IDNamesRecorded
<1>1. ASSUME TInv, SafeInv PROVE IDNamesRecorded
  <2> SUFFICES ASSUME pc = "observe", tf = NoState, mg.phase = "live", Recorded(mg.obs)
               PROVE  stripClusterPrefix(ConnectState) = stripClusterPrefix(mg.obs)
    BY DEF IDNamesRecorded
  <2>1. isRealUUID(mg.en) /\ mg.en = stripClusterPrefix(mg.obs)
    BY <1>1 DEF SafeInv, PairInv
  <2>2. PICK u \in Uuids : mg.en = <<u>>
    BY <2>1 DEF isRealUUID, IsUUID
  <2>3. IDFromClusterName(mg.en, SpecName) \in IDs(u)
    BY <2>2, AdoptionAssumption DEF IDFromClusterName, IDs, NoName
  <2> QED
    BY <2>1, <2>2, <2>3, NameOfRow DEF ConnectState
<1> QED
  BY <1>1, InductiveSafe, PTL
=============================================================================
