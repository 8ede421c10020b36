--------------------------- MODULE AdoptionProofs ---------------------------
(***************************************************************************)
(* Adoption for any set of UUIDs, any kind, management policy, cluster and *)
(* pinned name, and any number of faults, drift included.                  *)
(***************************************************************************)
EXTENDS Adoption, SequenceTheorems, TLAPS

-----------------------------------------------------------------------------
(* The conversions of ExternalName.                                        *)

LEMMA Strip ==
  /\ stripClusterPrefix(NoName) = NoName
  /\ \A x : stripClusterPrefix(<<x>>) = <<x>>
  /\ \A x, y : stripClusterPrefix(<<x, y>>) = <<y>>
  /\ \A x, y, z : stripClusterPrefix(<<x, y, z>>) = <<y, z>>
  BY DEF stripClusterPrefix, NoName

LEMMA Prefix ==
  /\ Cluster = NoCluster => \A id : WithCluster(id) = id
  /\ Cluster # NoCluster => \A x : WithCluster(<<x>>) = <<Cluster, x>>
  /\ Cluster # NoCluster => \A x, y : WithCluster(<<x, y>>) = <<Cluster, x, y>>
<1>1. ASSUME NEW x PROVE <<Cluster>> \o <<x>> = <<Cluster, x>>
  <2> DEFINE S == {Cluster, x}
  <2>1. <<Cluster>> \in Seq(S) /\ <<x>> \in Seq(S) /\ <<Cluster, x>> \in Seq(S)
    OBVIOUS
  <2> DEFINE s == <<Cluster>> \o <<x>>
  <2>2. s \in Seq(S) /\ Len(s) = 2 /\ s[1] = Cluster /\ s[2] = x
    BY <2>1, ConcatProperties
  <2>3. Len(<<Cluster, x>>) = 2 /\ \A i \in 1..2 : s[i] = <<Cluster, x>>[i]
    BY <2>2
  <2> HIDE DEF s
  <2>4. s = <<Cluster, x>>
    BY <2>1, <2>2, <2>3, SeqEqual
  <2> QED
    BY <2>4 DEF s
<1>2. ASSUME NEW x, NEW y PROVE <<Cluster>> \o <<x, y>> = <<Cluster, x, y>>
  <2> DEFINE S == {Cluster, x, y}
  <2>1. <<Cluster>> \in Seq(S) /\ <<x, y>> \in Seq(S) /\ <<Cluster, x, y>> \in Seq(S)
    OBVIOUS
  <2> DEFINE s == <<Cluster>> \o <<x, y>>
  <2>2. s \in Seq(S) /\ Len(s) = 3 /\ s[1] = Cluster /\ s[2] = x /\ s[3] = y
    BY <2>1, ConcatProperties
  <2>3. Len(<<Cluster, x, y>>) = 3 /\ \A i \in 1..3 : s[i] = <<Cluster, x, y>>[i]
    BY <2>2
  <2> HIDE DEF s
  <2>4. s = <<Cluster, x, y>>
    BY <2>1, <2>2, <2>3, SeqEqual
  <2> QED
    BY <2>4 DEF s
<1> QED
  BY <1>1, <1>2 DEF WithCluster

\* However a row's UUID is written, the external name made of it is the UUID.
LEMMA NameOfRow ==
  ASSUME NEW u \in Uuids, NEW id \in IDs(u)
  PROVE  /\ stripClusterPrefix(id) = <<u>>
         /\ ExternalNameFromClusterName(id) = <<u>>
         /\ id # <<Sentinel>> /\ id # NoName
<1>1. id = <<u>> \/ (Cluster # NoCluster /\ id = <<Cluster, u>>)
  BY Prefix DEF IDs
<1>2. stripClusterPrefix(id) = <<u>>
  BY <1>1, Strip
<1> QED
  BY <1>1, <1>2, SentinelAssumption DEF ExternalNameFromClusterName, externalNameFromID, NoName

LEMMA StateIDsOfRow ==
  ASSUME NEW u \in Uuids, NEW id \in StateIDs(u)
  PROVE  id \in RowIDs /\ ExternalNameFromClusterName(id) = <<u>>
<1>1. id \in IDs(u)
  BY DEF StateIDs, IDs
<1> QED
  BY <1>1, NameOfRow DEF RowIDs

\* Going to an ID and back changes nothing, but for the names that stand for
\* "no UUID yet", which become empty.
LEMMA RoundTrip ==
  ASSUME NEW n \in Names
  PROVE  ExternalNameFromClusterName(IDFromClusterName(n, SpecName)) =
           IF n \in {NoName, <<SpecName>>, <<Sentinel>>} THEN NoName ELSE n
<1> DEFINE id == IF n \in {NoName, <<SpecName>>} THEN <<Sentinel>> ELSE n
<1>1. IDFromClusterName(n, SpecName) = WithCluster(id)
  BY DEF IDFromClusterName
<1>2. PICK x, y : \/ id = <<x>>
                  \/ Cluster # NoCluster /\ id = <<x, y>>
  <2>1. CASE n \in {NoName, <<SpecName>>, <<K8sName>>, <<Sentinel>>}
    BY <2>1
  <2>2. CASE n \in {<<u>> : u \in Uuids}
    BY <2>2
  <2>3. ASSUME NEW u \in Uuids, n \in IDs(u)
        PROVE  n = <<u>> \/ (Cluster # NoCluster /\ n = <<Cluster, u>>)
    BY <2>3, Prefix DEF IDs
  <2> QED
    BY <2>1, <2>2, <2>3 DEF Names, RowIDs
<1>3. stripClusterPrefix(WithCluster(id)) = id
  BY <1>2, Prefix, Strip
<1> QED
  BY <1>1, <1>3 DEF ExternalNameFromClusterName, externalNameFromID, NoName

-----------------------------------------------------------------------------
(* Types, and the sentinel stays out of every copy of the external name.   *)

NoSentinel == /\ api.en # <<Sentinel>> /\ seen.en # <<Sentinel>> /\ mg.en # <<Sentinel>>

OpInv == /\ op.step = "created" => op.id \in Uuids
         /\ pc = "delete" => tf \in RowIDs /\ op = NoOp

TInv == TypeOK /\ NoSentinel /\ OpInv

\* The members of the sets of identifiers that the actions produce.
LEMMA Members ==
  /\ NoName \in Names /\ NoName \in Observations /\ NoState \in States
  /\ NoName # <<Sentinel>>
  /\ <<Sentinel>> \in Observations
  /\ \A u \in Uuids : <<u>> \in Names /\ <<u>> # <<Sentinel>> /\ <<u>> \in RowIDs
  /\ RowIDs \subseteq Observations /\ Observations \subseteq States
  BY SentinelAssumption DEF Names, Observations, States, RowIDs, IDs, NoName, NoState

LEMMA RowIDMembers ==
  ASSUME NEW id \in RowIDs
  PROVE  \E u \in Uuids : id \in IDs(u) /\ stripClusterPrefix(id) = <<u>>
  BY NameOfRow DEF RowIDs

LEMMA RecordedMembers ==
  ASSUME NEW obs \in Observations, Recorded(obs)
  PROVE  obs \in RowIDs
  BY DEF Recorded, Observations

LEMMA StripMembers ==
  ASSUME NEW n \in Names, n # <<Sentinel>>
  PROVE  /\ stripClusterPrefix(n) \in Names /\ stripClusterPrefix(n) # <<Sentinel>>
         /\ IsUUID(stripClusterPrefix(n)) => stripClusterPrefix(n) \in RowIDs
<1>1. CASE n \in RowIDs
  BY <1>1, RowIDMembers, Members
<1>2. CASE n \notin RowIDs
  <2>1. n \in {NoName, <<SpecName>>, <<K8sName>>}
    BY <1>2, Members DEF Names
  <2>2. stripClusterPrefix(n) = n
    BY <2>1, Strip
  <2> QED
    BY <2>1, <2>2, Members, AdoptionAssumption DEF IsUUID, NoName
<1> QED
  BY <1>1, <1>2

LEMMA ConnectMembers ==
  ASSUME TypeOK
  PROVE  ConnectState \in States
<1>1. mg.en \in Names /\ mg.obs \in Observations /\ tf \in States
  BY DEF TypeOK, Objects
<1>2. IDFromClusterName(mg.en, SpecName) \in States
  BY <1>1 DEF IDFromClusterName, States
<1> QED
  BY <1>1, <1>2, Members DEF ConnectState

LEMMA RoundTripMembers ==
  ASSUME NEW n \in Names
  PROVE  /\ ExternalNameFromClusterName(IDFromClusterName(n, SpecName)) \in Names
         /\ ExternalNameFromClusterName(IDFromClusterName(n, SpecName)) # <<Sentinel>>
  BY RoundTrip, Members

LEMMA InitTInv == Init => TInv
<1> SUFFICES ASSUME Init PROVE TInv
  OBVIOUS
<1> USE AdoptionAssumption
<1>1. PICK k \in Kinds, n \in Pins(row), o \in {FALSE, ObserveFirst} :
        /\ api = [NewMR(n) EXCEPT !.kind = k, !.observe = o]
        /\ origin = [u \in Uuids |-> IF u = row \/ n = <<u>> THEN "initial" ELSE "free"]
  BY DEF Init
<1>2. n \in Names /\ n # <<Sentinel>>
  <2>1. \/ n \in {NoName, <<K8sName>>}
        \/ \E u \in Uuids : n = <<u>>
        \/ "prefixed" \in PinForms /\ n \in RowIDs
    BY <1>1 DEF Pins, Init, RowIDs
  <2>2. CASE n \in {NoName, <<K8sName>>}
    BY <2>2, Members DEF Names
  <2>3. CASE \E u \in Uuids : n = <<u>>
    BY <2>3, Members
  <2>4. CASE "prefixed" \in PinForms /\ n \in RowIDs
    BY <2>4, NameOfRow DEF Names, RowIDs
  <2> QED
    BY <2>1, <2>2, <2>3, <2>4
<1>3. \A m \in Names :
        /\ NewMR(m) \in Objects /\ NewMR(m).en = m
        /\ [NewMR(m) EXCEPT !.kind = k, !.observe = o] \in Objects
        /\ [NewMR(m) EXCEPT !.kind = k, !.observe = o].en = m
  BY <1>1, Members DEF NewMR, Objects, Phases
<1>4. origin \in [Uuids -> {"free", "initial", "mr", "lost", "rival"}]
  BY <1>1
<1>5. api \in Objects /\ api.en = n /\ NewMR(NoName) \in Objects /\ NewMR(NoName).en = NoName
  BY <1>1, <1>2, <1>3, Members
<1> QED
  BY <1>2, <1>4, <1>5, Members
     DEF Init, TInv, TypeOK, NoSentinel, OpInv, NoOp, NoLocals, Locals, PCs, Steps

\* What the shared pieces of the actions do.
LEMMA RequeueTyped ==
  ASSUME TypeOK, Requeue
  PROVE  /\ mg' \in Objects /\ mg'.en # <<Sentinel>> /\ loc' \in Locals
         /\ pc' = "idle"
         /\ op' \in [step: Steps, id: Uuids \cup {NoRow}, shared: BOOLEAN]
         /\ op'.step = op.step /\ op'.id = op.id
  BY Members DEF TypeOK, Requeue, NewMR, NoLocals, Objects, Locals, Phases

LEMMA UpdateTyped ==
  ASSUME TInv, NEW m \in Objects, m.en # <<Sentinel>>, Update(m)
  PROVE  api' \in Objects /\ mg' \in Objects /\ api'.en = m.en /\ mg'.en = m.en
  BY DEF TInv, TypeOK, Update, Objects

LEMMA SaveStatusTyped ==
  ASSUME TInv, SaveStatus
  PROVE  api' \in Objects /\ api'.en = api.en /\ Requeue
  BY DEF TInv, TypeOK, SaveStatus, Objects

LEMMA FaultTyped ==
  ASSUME TypeOK, Fault
  PROVE  faults' \in 0..MaxFaults
  BY AdoptionAssumption DEF TypeOK, Fault

LEMMA NewRowTyped ==
  ASSUME TypeOK, NEW by \in {"mr", "lost", "rival"}, NewRow(by)
  PROVE  row' \in Uuids /\ origin' \in [Uuids -> {"free", "initial", "mr", "lost", "rival"}]
  BY DEF TypeOK, NewRow

LEMMA ReconcileTInv ==
  ASSUME TInv, Reconcile
  PROVE  TInv'
<1> USE DEF TInv, ClickHouse
<1> mg.en \in Names /\ mg.obs \in Observations /\ mg.en # <<Sentinel>>
  BY DEF TypeOK, Objects, NoSentinel
<1>1. CASE Get
  BY <1>1 DEF Get, TypeOK, NoSentinel, OpInv, Locals, NoLocals, PCs
<1>2. CASE InitializeRecorded
  <2> DEFINE n == stripClusterPrefix(mg.obs)
  <2>1. n \in Names /\ n # <<Sentinel>>
    BY <1>2, RecordedMembers, RowIDMembers, Members DEF InitializeRecorded
  <2> DEFINE m == [mg EXCEPT !.en = n]
  <2>2. m \in Objects /\ m.en = n
    BY <2>1 DEF TypeOK, Objects
  <2>3. CASE /\ UNCHANGED <<api, mg, op>> /\ pc' = "observe" /\ loc' = [loc EXCEPT !.base = row]
    BY <1>2, <2>3 DEF InitializeRecorded, TypeOK, NoSentinel, OpInv, Locals, PCs
  <2>4. CASE Update(m) /\ pc' = "observe" /\ loc' = [loc EXCEPT !.base = row] /\ UNCHANGED op
    <3>1. api' \in Objects /\ mg' \in Objects /\ api'.en = n /\ mg'.en = n
      BY <2>2, <2>4, <2>1, UpdateTyped
    <3> QED
      BY <1>2, <2>1, <2>4, <3>1 DEF InitializeRecorded, TypeOK, NoSentinel, OpInv, Locals, PCs
  <2>5. CASE Conflict
    BY <1>2, <2>5, RequeueTyped DEF InitializeRecorded, Conflict, TypeOK, NoSentinel, OpInv, PCs
  <2> QED
    BY <1>2, <2>3, <2>4, <2>5 DEF InitializeRecorded
<1>3. CASE InitializeSeed
  <2>1. PICK e \in Names, o \in Observations : Seed(e, o) /\ e # <<Sentinel>>
    <3>1. CASE IsUUID(stripClusterPrefix(mg.en))
      BY <1>3, <3>1, StripMembers, Members DEF InitializeSeed, SeedImport
    <3>2. CASE ~IsUUID(stripClusterPrefix(mg.en)) /\ row # NoRow
      BY <1>3, <3>2, Members DEF InitializeSeed, SeedImport, TypeOK
    <3>3. CASE ~IsUUID(stripClusterPrefix(mg.en)) /\ row = NoRow
      BY <1>3, <3>3, Members DEF InitializeSeed, SeedImport
    <3> QED
      BY <3>1, <3>2, <3>3
  <2>2. mg' \in Objects /\ mg'.en # <<Sentinel>>
    BY <2>1 DEF Seed, TypeOK, Objects
  <2> QED
    BY <1>3, <2>2 DEF InitializeSeed, TypeOK, NoSentinel, OpInv, Locals, PCs
<1>4. CASE LookupFails
  BY <1>4, RequeueTyped, FaultTyped DEF LookupFails, TypeOK, NoSentinel, OpInv, PCs
<1>5. CASE IncompleteCreate
  BY <1>5, SaveStatusTyped, RequeueTyped DEF IncompleteCreate, TypeOK, NoSentinel, OpInv, PCs
<1>6. CASE ObserveRunning
  BY <1>6 DEF ObserveRunning, TypeOK, NoSentinel, OpInv, Locals, PCs
<1>7. CASE ReadFails
  <2>1. faults' \in 0..MaxFaults
    BY <1>7, FaultTyped DEF ReadFails, TypeOK
  <2>2. tf' \in States
    BY <1>7, ConnectMembers DEF ReadFails, TypeOK
  <2> QED
    BY <1>7, <2>1, <2>2, SaveStatusTyped, RequeueTyped DEF ReadFails, TypeOK, NoSentinel, OpInv, PCs
<1>8. CASE ReadFound
  <2>1. PICK id \in StateIDs(row) :
          LET en == ExternalNameFromClusterName(id) IN
            /\ tf' = id
            /\ mg' = [mg EXCEPT !.en = en, !.obs = id]
            /\ loc' = [loc EXCEPT !.exists = TRUE, !.late = (en # mg.en)]
    BY <1>8 DEF ReadFound
  <2>2. row \in Uuids
    BY <1>8 DEF ReadFound, RowFound, TypeOK
  <2>3. id \in RowIDs /\ ExternalNameFromClusterName(id) = <<row>>
    BY <2>2, StateIDsOfRow
  <2> DEFINE en == ExternalNameFromClusterName(id)
  <2>4. en \in Names /\ en # <<Sentinel>> /\ id \in Observations
    BY <2>2, <2>3, Members
  <2>5. /\ tf' = id
        /\ mg' = [mg EXCEPT !.en = en, !.obs = id]
        /\ loc' = [loc EXCEPT !.exists = TRUE, !.late = (en # mg.en)]
    BY <2>1
  <2> HIDE DEF en
  <2>6. mg' \in Objects /\ mg'.en # <<Sentinel>>
    BY <2>4, <2>5 DEF TypeOK, Objects
  <2>7. tf' \in RowIDs /\ loc' \in Locals
    BY <2>3, <2>5 DEF TypeOK, Locals
  <2> QED
    BY <1>8, <2>6, <2>7, Members DEF ReadFound, Observing, TypeOK, NoSentinel, OpInv, PCs
<1>9. CASE ReadNotFound
  BY <1>9, Members DEF ReadNotFound, TypeOK, NoSentinel, OpInv, Locals, PCs
<1>10. CASE AddFinalizer
  <2> DEFINE m == [mg EXCEPT !.fin = TRUE]
  <2>1. m \in Objects /\ m.en = mg.en
    BY DEF TypeOK, Objects
  <2>2. CASE Conflict
    BY <1>10, <2>2, RequeueTyped DEF AddFinalizer, Conflict, TypeOK, NoSentinel, OpInv, PCs
  <2>3. CASE ~Conflict
    <3>1. api' \in Objects /\ mg' \in Objects /\ api'.en # <<Sentinel>> /\ mg'.en # <<Sentinel>>
      BY <1>10, <2>1, <2>3, UpdateTyped DEF AddFinalizer, TypeOK, NoSentinel
    <3> QED
      BY <1>10, <2>3, <3>1 DEF AddFinalizer, TypeOK, NoSentinel, OpInv, PCs
  <2> QED
    BY <2>2, <2>3
<1>11. CASE LateInitialize
  <2>1. CASE Conflict
    BY <1>11, <2>1, RequeueTyped DEF LateInitialize, Conflict, TypeOK, NoSentinel, OpInv, PCs
  <2>2. CASE ~Conflict
    <3>1. api' \in Objects /\ mg' \in Objects /\ api'.en # <<Sentinel>> /\ mg'.en # <<Sentinel>>
      BY <1>11, <2>2, UpdateTyped DEF LateInitialize, TypeOK
    <3> QED
      BY <1>11, <2>2, <3>1 DEF LateInitialize, TypeOK, NoSentinel, OpInv, PCs
  <2> QED
    BY <2>1, <2>2
<1>12. CASE CreatePending
  <2> DEFINE m == [mg EXCEPT !.pending = TRUE]
  <2>1. m \in Objects /\ m.en = mg.en
    BY DEF TypeOK, Objects
  <2>2. CASE Conflict
    BY <1>12, <2>2, RequeueTyped DEF CreatePending, Conflict, TypeOK, NoSentinel, OpInv, PCs
  <2>3. CASE ~Conflict
    <3>1. api' \in Objects /\ mg' \in Objects /\ api'.en # <<Sentinel>> /\ mg'.en # <<Sentinel>>
      BY <1>12, <2>1, <2>3, UpdateTyped DEF CreatePending
    <3> QED
      BY <1>12, <2>3, <3>1 DEF CreatePending, TypeOK, NoSentinel, OpInv, PCs
  <2> QED
    BY <2>2, <2>3
<1>13. CASE Create
  BY <1>13 DEF Create, NoOp, TypeOK, NoSentinel, OpInv, PCs, Steps
<1>14. CASE CreateSucceeded
  <2>1. api' \in Objects /\ mg' \in Objects /\ api'.en = mg.en /\ mg'.en = mg.en /\ loc' \in Locals
    BY <1>14 DEF CreateSucceeded, TypeOK, Objects, Locals
  <2> QED
    BY <1>14, <2>1 DEF CreateSucceeded, TypeOK, NoSentinel, OpInv, PCs
<1>15. CASE UpdateStatus
  BY <1>15, SaveStatusTyped, RequeueTyped DEF UpdateStatus, TypeOK, NoSentinel, OpInv, PCs
<1>16. CASE Delete
  <2>1. stripClusterPrefix(tf)[1] \in Uuids
    BY <1>16, RowIDMembers DEF Delete, OpInv
  <2> QED
    BY <1>16, <2>1 DEF Delete, TypeOK, NoSentinel, OpInv, PCs, Steps
<1>17. CASE RemoveFinalizer
  <2>1. CASE Conflict /\ UNCHANGED tf
    BY <1>17, <2>1, RequeueTyped DEF RemoveFinalizer, Conflict, TypeOK, NoSentinel, OpInv, PCs
  <2>2. CASE /\ api' = [api EXCEPT !.fin = FALSE, !.phase = "gone"]
             /\ tf' = NoState /\ Requeue
    <3>1. api' \in Objects /\ api'.en = api.en
      BY <2>2 DEF TypeOK, Objects, Phases
    <3> QED
      BY <1>17, <2>2, <3>1, RequeueTyped, Members DEF RemoveFinalizer, TypeOK, NoSentinel, OpInv, PCs
  <2> QED
    BY <1>17, <2>1, <2>2 DEF RemoveFinalizer
<1> QED
  BY <1>1, <1>2, <1>3, <1>4, <1>5, <1>6, <1>7, <1>8, <1>9, <1>10, <1>11, <1>12, <1>13,
     <1>14, <1>15, <1>16, <1>17 DEF Reconcile

LEMMA GoroutineTInv ==
  ASSUME TInv, Goroutine
  PROVE  TInv'
<1> USE DEF TInv, ClickHouse
<1> mg.en \in Names /\ mg.en # <<Sentinel>>
  BY DEF TypeOK, Objects, NoSentinel
<1> op.step # "none"
  BY DEF Goroutine, RunCreate, FinishCreate, FinishFailed, RunDelete
<1> pc # "delete"
  BY DEF OpInv, NoOp
<1>1. CASE RunCreate
  <2>1. CASE /\ row = NoRow /\ NewRow("mr")
             /\ op' = [op EXCEPT !.step = "created", !.id = row'] /\ UNCHANGED faults
    BY <1>1, <2>1, NewRowTyped DEF RunCreate, TypeOK, NoSentinel, OpInv, Steps
  <2>2. CASE row = NoRow /\ NewRow("lost") /\ Fault /\ op' = [op EXCEPT !.step = "failed"]
    BY <1>1, <2>2, NewRowTyped, FaultTyped DEF RunCreate, TypeOK, NoSentinel, OpInv, Steps
  <2>3. CASE /\ op' = [op EXCEPT !.step = "failed"] /\ UNCHANGED <<row, origin>>
             /\ IF row = NoRow THEN Fault ELSE UNCHANGED faults
    BY <1>1, <2>3, FaultTyped DEF RunCreate, TypeOK, NoSentinel, OpInv, Steps
  <2> QED
    BY <1>1, <2>1, <2>2, <2>3 DEF RunCreate
<1>2. CASE FinishCreate
  <2>1. PICK id \in StateIDs(op.id) :
          /\ tf' = id
          /\ IF op.shared
               THEN mg' = [mg EXCEPT !.en = ExternalNameFromClusterName(id), !.obs = id]
               ELSE UNCHANGED mg
    BY <1>2 DEF FinishCreate
  <2>2. op.id \in Uuids
    BY <1>2 DEF FinishCreate, OpInv
  <2>3. id \in RowIDs /\ ExternalNameFromClusterName(id) = <<op.id>>
    BY <2>2, StateIDsOfRow
  <2> HIDE DEF ClickHouse
  <2>4. mg' \in Objects /\ mg'.en # <<Sentinel>>
    <3>1. CASE op.shared
      <4> mg \in Objects
        BY DEF TypeOK
      <4> DEFINE en == ExternalNameFromClusterName(id)
      <4>1. en \in Names /\ en # <<Sentinel>> /\ id \in Observations
        BY <2>2, <2>3, Members
      <4>2. mg' = [mg EXCEPT !.en = en, !.obs = id]
        BY <2>1, <3>1
      <4> HIDE DEF en
      <4> QED
        BY <4>1, <4>2 DEF Objects
    <3>2. CASE ~op.shared
      BY <2>1, <3>2 DEF TypeOK, NoSentinel
    <3> QED
      BY <3>1, <3>2
  <2>5. tf' \in States
    BY <2>1, <2>3, Members
  <2> QED
    BY <1>2, <2>4, <2>5 DEF ClickHouse, FinishCreate, NoOp, TypeOK, NoSentinel, OpInv, Steps
<1>3. CASE FinishFailed
  <2> DEFINE n == ExternalNameFromClusterName(IDFromClusterName(mg.en, SpecName))
  <2>1. n \in Names /\ n # <<Sentinel>>
    BY RoundTripMembers
  <2>2. mg' \in {mg, [mg EXCEPT !.en = n]}
    BY <1>3 DEF FinishFailed
  <2> HIDE DEF n
  <2>3. mg' \in Objects /\ mg'.en # <<Sentinel>>
    BY <2>1, <2>2 DEF TypeOK, Objects
  <2> QED
    BY <1>3, <2>3 DEF FinishFailed, NoOp, TypeOK, NoSentinel, OpInv, Steps
<1>4. CASE RunDelete
  <2>1. faults' \in 0..MaxFaults
    BY <1>4, FaultTyped DEF RunDelete, TypeOK
  <2>2. row' \in Uuids \cup {NoRow} /\ tf' \in States
    BY <1>4, Members DEF RunDelete, TypeOK
  <2> QED
    BY <1>4, <2>1, <2>2 DEF RunDelete, NoOp, TypeOK, NoSentinel, OpInv, Steps
<1> QED
  BY <1>1, <1>2, <1>3, <1>4 DEF Goroutine

LEMMA EnvironmentTInv ==
  ASSUME TInv, Environment
  PROVE  TInv'
<1> USE DEF TInv, ClickHouse
<1>1. CASE CacheSync
  BY <1>1 DEF CacheSync, TypeOK, NoSentinel, OpInv
<1>2. CASE Crash
  <2>1. faults' \in 0..MaxFaults
    BY <1>2, FaultTyped DEF Crash
  <2>2. /\ row' \in Uuids \cup {NoRow}
        /\ origin' \in [Uuids -> {"free", "initial", "mr", "lost", "rival"}]
    BY <1>2, NewRowTyped DEF Crash, TypeOK
  <2>3. mg' \in Objects /\ mg'.en # <<Sentinel>> /\ loc' \in Locals
    BY <1>2, Members DEF Crash, NewMR, NoLocals, Objects, Locals, Phases
  <2> QED
    BY <1>2, <2>1, <2>2, <2>3, Members
       DEF Crash, NoOp, TypeOK, NoSentinel, OpInv, Steps, PCs
<1>3. CASE Touch
  BY <1>3, FaultTyped DEF Touch, TypeOK, NoSentinel, OpInv, Locals
<1>4. CASE Rival
  BY <1>4, FaultTyped, NewRowTyped DEF Rival, TypeOK, NoSentinel, OpInv
<1>5. CASE Drop
  BY <1>5, FaultTyped DEF Drop, TypeOK, NoSentinel, OpInv
<1>6. CASE UserDelete
  <2>1. api' \in Objects /\ api'.en = api.en
    BY <1>6 DEF UserDelete, TypeOK, Objects, Phases
  <2> QED
    BY <1>6, <2>1 DEF UserDelete, TypeOK, NoSentinel, OpInv, Locals
<1>7. CASE Manage
  <2>1. api' \in Objects /\ api'.en = api.en
    BY <1>7 DEF Manage, TypeOK, Objects
  <2> QED
    BY <1>7, <2>1 DEF Manage, TypeOK, NoSentinel, OpInv, Locals
<1>8. CASE ClearPending
  <2>1. api' \in Objects /\ api'.en = api.en
    BY <1>8 DEF ClearPending, TypeOK, Objects
  <2> QED
    BY <1>8, <2>1 DEF ClearPending, TypeOK, NoSentinel, OpInv
<1> QED
  BY <1>1, <1>2, <1>3, <1>4, <1>5, <1>6, <1>7, <1>8 DEF Environment

LEMMA Inductive == Spec => []TInv
<1>1. ASSUME TInv, [Next]_vars PROVE TInv'
  <2>1. CASE UNCHANGED vars
    BY <1>1, <2>1 DEF vars, TInv, TypeOK, NoSentinel, OpInv
  <2>2. CASE Deleted
    BY <1>1, <2>1, <2>2 DEF Deleted
  <2> QED
    BY <1>1, <2>1, <2>2, ReconcileTInv, GoroutineTInv, EnvironmentTInv DEF Next
<1> QED
  BY <1>1, InitTInv, PTL DEF Spec

\* Type correctness: nothing the reconciler, the goroutine or a fault does takes
\* an identifier out of the forms the conversions know (external_name.go).
THEOREM TypeCorrect == Spec => []TypeOK
<1>1. TInv => TypeOK
  BY DEF TInv
<1> QED
  BY <1>1, Inductive, PTL

\* The placeholder is never saved as an external name, for any kind, policy,
\* cluster, pinned name and number of faults (external_name.go:103-112).
THEOREM SentinelStaysOut == Spec => []SentinelNeverSaved
<1>1. TInv => SentinelNeverSaved
  BY DEF TInv, NoSentinel, SentinelNeverSaved
<1> QED
  BY <1>1, Inductive, PTL
=============================================================================
