---------------------------- MODULE GrantsProofs ----------------------------
(***************************************************************************)
(* Of Grants it is proved that its variables have their types, that no     *)
(* Read is without its grantee, and that the upgrade asks for no           *)
(* replacement of a grant whose status was recorded.                       *)
(***************************************************************************)
EXTENDS Grants, TLAPS

LEMMA ObservationType ==
  /\ NoObservation \in Observation
  /\ \A g \in Grantees, o \in SUBSET Options :
       g # Unset => [grantee |-> g, opts |-> o] \in Observation
  /\ \A obs \in Observation :
       /\ obs = [grantee |-> obs.grantee, opts |-> obs.opts]
       /\ obs.grantee \in Grantees /\ obs.opts \in SUBSET Options
       /\ obs.grantee = Unset => obs = NoObservation
BY DEF Observation, NoObservation, Grantees, Unset, UserName, UserUUID, Options

LEMMA SeededType ==
  \A obs \in Observation :
    /\ SeedDefaults(obs) \in Observation
    /\ SeedDefaults(obs) = NoObservation \/ SeedDefaults(obs).opts = Options
    /\ obs = NoObservation => SeedDefaults(obs) = NoObservation
BY DEF SeedDefaults, Observation, NoObservation, Grantees, Unset, UserName, UserUUID, Options

LEMMA NothingType ==
  NoObject \in Objects /\ NoState \in States /\ NoOp \in [grantee: Grantees, shared: BOOLEAN]
BY ObservationType DEF NoObject, NoState, NoOp, Objects, States, Grantees

LEMMA ConnectStateType == TypeOK => ConnectState \in States
BY ObservationType DEF TypeOK, ConnectState, Objects, States

-----------------------------------------------------------------------------
(* Types.                                                                  *)

LEMMA TypeInit == Init => TypeOK
<1> SUFFICES ASSUME Init  PROVE TypeOK
  OBVIOUS
<1>1. PICK g \in Givens : api = [NoObject EXCEPT !.grantee = g]
  BY DEF Init
<1>2. g \in Grantees
  BY GrantsAssumption DEF Grantees, Unset, UserName
<1>3. api \in Objects
  BY <1>1, <1>2, NothingType DEF Objects
<1>4. user \in [made: BOOLEAN, recorded: BOOLEAN]
  BY DEF Init
<1>5. mg \in Objects /\ tf \in States /\ op \in [grantee: Grantees, shared: BOOLEAN]
  BY NothingType DEF Init
<1>6. pc \in PCs /\ granted \in BOOLEAN /\ version \in {"old", "new"}
  BY DEF Init, PCs
<1>7. faults \in 0..MaxFaults
  BY GrantsAssumption DEF Init
<1>8. QED  BY <1>3, <1>4, <1>5, <1>6, <1>7 DEF TypeOK

LEMMA UpdateType ==
  ASSUME TypeOK, NEW m \in Objects, Update(m)
  PROVE  api' \in Objects /\ mg' \in Objects
<1>1. [m EXCEPT !.obs = api.obs] \in Objects
  BY DEF Objects, TypeOK
<1>2. QED  BY <1>1 DEF Update

LEMMA RequeueType ==
  ASSUME TypeOK, Requeue
  PROVE  mg' \in Objects /\ op' \in [grantee: Grantees, shared: BOOLEAN]
BY NothingType DEF Requeue, TypeOK

LEMMA FaultType ==
  ASSUME TypeOK, Fault \/ UNCHANGED faults  PROVE faults' \in 0..MaxFaults
BY GrantsAssumption DEF TypeOK, Fault

LEMMA TypeNext == TypeOK /\ [Next]_vars => TypeOK'
<1> SUFFICES ASSUME TypeOK, [Next]_vars  PROVE TypeOK'
  OBVIOUS
<1> USE DEF TypeOK, PCs
<1>1. ConnectState \in States /\ Unset \in Grantees /\ UserName \in Grantees
  BY ConnectStateType DEF Grantees
<1>2. CASE Get
  BY <1>2 DEF Get
<1>3. CASE Initialize
  <2>1. [mg EXCEPT !.obs = SeedDefaults(mg.obs)] \in Objects
    BY SeededType DEF Objects
  <2>2. QED  BY <1>3, <2>1 DEF Initialize
<1>4. CASE Resolve
  <2>1. [mg EXCEPT !.grantee = UserUUID] \in Objects
    BY DEF Objects, Grantees
  <2>2. CASE pc' = "observe" /\ UNCHANGED <<api, mg, op>>
    BY <1>4, <2>2 DEF Resolve
  <2>3. CASE Update([mg EXCEPT !.grantee = UserUUID]) /\ pc' = "observe" /\ UNCHANGED op
    BY <1>4, <2>1, <2>3, UpdateType DEF Resolve
  <2>4. CASE Requeue /\ UNCHANGED api
    BY <1>4, <2>4, RequeueType DEF Resolve, Requeue
  <2>5. QED  BY <1>4, <2>2, <2>3, <2>4 DEF Resolve
<1>5. CASE ReadFound
  <2>1. tf' \in States /\ tf'.grantee = UserName /\ tf'.opts \in SUBSET Options
    BY <1>5, <1>1 DEF ReadFound, States
  <2>2. [grantee |-> tf'.grantee, opts |-> tf'.opts] \in Observation
    BY <2>1, ObservationType DEF Grantees, Unset, UserName
  <2>3. mg' \in Objects
    BY <1>5, <2>2 DEF ReadFound, Objects
  <2>4. QED  BY <1>5, <2>1, <2>3 DEF ReadFound
<1>6. CASE ReadNotFound
  BY <1>6, NothingType DEF ReadNotFound
<1>7. CASE ReadFails
  BY <1>7, <1>1, RequeueType, FaultType DEF ReadFails, Requeue
<1>8. CASE ObserveRunning \/ Refused
  BY <1>8 DEF ObserveRunning, Refused
<1>9. CASE AddFinalizer
  <2>1. [mg EXCEPT !.fin = TRUE] \in Objects
    BY DEF Objects
  <2>2. api' \in Objects /\ mg' \in Objects
    BY <1>9, <2>1, UpdateType DEF AddFinalizer
  <2>3. QED  BY <1>9, <2>2 DEF AddFinalizer
<1>10. CASE LateInitialize
  <2>1. api' \in Objects /\ mg' \in Objects
    BY <1>10, UpdateType DEF LateInitialize
  <2>2. QED  BY <1>10, <2>1 DEF LateInitialize
<1>11. CASE Create
  BY <1>11 DEF Create, Objects
<1>12. CASE UpdateStatus
  <2>1. [api EXCEPT !.obs = mg.obs] \in Objects
    BY DEF Objects
  <2>2. QED  BY <1>12, <2>1, RequeueType DEF UpdateStatus, Requeue
<1>13. CASE Run
  <2>1. CASE op.grantee = UserName /\ granted' = TRUE /\ UNCHANGED faults
             /\ \E o \in SUBSET Options :
                  /\ tf' = [grantee |-> UserName, copied |-> FALSE, opts |-> o]
                  /\ mg' = IF op.shared
                            THEN [mg EXCEPT !.named = TRUE,
                                            !.obs = [grantee |-> UserName, opts |-> tf'.opts]]
                            ELSE mg
    <3>1. PICK o \in SUBSET Options :
            /\ tf' = [grantee |-> UserName, copied |-> FALSE, opts |-> o]
            /\ mg' = IF op.shared
                      THEN [mg EXCEPT !.named = TRUE,
                                      !.obs = [grantee |-> UserName, opts |-> tf'.opts]]
                      ELSE mg
      BY <2>1
    <3>2. tf' \in States /\ tf'.opts = o
      BY <3>1, <1>1 DEF States
    <3>3. [grantee |-> UserName, opts |-> tf'.opts] \in Observation
      BY <3>2, <1>1, ObservationType DEF Unset, UserName
    <3>4. mg' \in Objects
      BY <3>1, <3>3 DEF Objects
    <3>5. op' \in [grantee: Grantees, shared: BOOLEAN]
      BY <1>13, NothingType DEF Run
    <3>6. QED  BY <1>13, <2>1, <3>2, <3>4, <3>5 DEF Run
  <2>2. CASE (faults' = faults \/ Fault) /\ UNCHANGED <<granted, tf, mg>>
    <3>1. op' \in [grantee: Grantees, shared: BOOLEAN]
      BY <1>13, NothingType DEF Run
    <3>2. QED  BY <1>13, <2>2, <3>1, FaultType DEF Run
  <2>3. QED
    <3>1. (IF version = "new" THEN Options ELSE {}) \in SUBSET Options
      OBVIOUS
    <3>2. QED  BY <1>13, <2>1, <2>2, <3>1 DEF Run
<1>14. CASE User
  BY <1>14 DEF User, UserMade, UserRecorded
<1>15. CASE Restart
  BY <1>15, FaultType, NothingType DEF Restart
<1>16. CASE UNCHANGED vars
  BY <1>16 DEF vars
<1>17. QED
  BY <1>2, <1>3, <1>4, <1>5, <1>6, <1>7, <1>8, <1>9, <1>10, <1>11, <1>12, <1>13,
     <1>14, <1>15, <1>16
  DEF Next, Reconcile

\* The variables of Grants have their types; in particular no observation has options
\* without a grantee (grantprivilege_backfill.go).
THEOREM TypeCorrect == Spec => []TypeOK
BY TypeInit, TypeNext, PTL DEF Spec

-----------------------------------------------------------------------------
(* The grantee of a Read, and the options of what is read.                 *)

\* A tracked state has a grantee; the reconcile's copy has the MR's, once
\* resolution is past.
GranteeKnown ==
  /\ tf # NoState => tf.grantee # Unset
  /\ pc # "idle" => mg.grantee = api.grantee
  /\ pc = "observe" => mg.grantee # Unset

\* A grant that is not for the user's name is never executed nor observed.
OnlyByName ==
  \/ api.grantee = UserName
  \/ /\ api.obs = NoObservation /\ mg.obs = NoObservation
     /\ op.grantee # UserName /\ tf.grantee # UserName

\* The new version's states have their options, or are made of parameters; its
\* copy of the MR is backfilled before the read.
Complete ==
  version = "new" =>
    /\ tf # NoState => tf.copied \/ tf.opts = Options
    /\ pc \in {"resolve", "observe"} => mg.obs = NoObservation \/ mg.obs.opts = Options

GrantInv ==
  /\ TypeOK /\ GranteeKnown /\ OnlyByName /\ Complete
  /\ pc = "replace" => op = NoOp /\ tf.copied

LEMMA GranteeRead == TypeOK /\ GranteeKnown => ReadHasGrantee
BY ObservationType DEF TypeOK, GranteeKnown, ReadHasGrantee, ConnectState, Objects

\* What Connect makes of a copy that was backfilled.
LEMMA ConnectComplete ==
  ASSUME TypeOK, Complete, pc = "observe"
  PROVE  version = "new" => ConnectState.copied \/ ConnectState.opts = Options
BY DEF Complete, ConnectState

LEMMA ConnectByName ==
  ASSUME TypeOK, GranteeKnown, OnlyByName, pc = "observe", api.grantee # UserName
  PROVE  ConnectState.grantee # UserName
BY DEF GranteeKnown, OnlyByName, ConnectState

LEMMA GrantInit == Init => GrantInv
<1> SUFFICES ASSUME Init  PROVE GrantInv
  OBVIOUS
<1>1. api.obs = NoObservation /\ mg.obs = NoObservation
  BY DEF Init, NoObject
<1>2. QED
  BY <1>1, TypeInit DEF Init, GrantInv, GranteeKnown, OnlyByName, Complete, NoState,
    NoOp, Unset, UserName

LEMMA GrantNext == GrantInv /\ [Next]_vars => GrantInv'
<1> SUFFICES ASSUME GrantInv, [Next]_vars  PROVE GrantInv'
  OBVIOUS
<1> USE DEF GrantInv
<1>1. TypeOK'
  BY TypeNext
<1> SUFFICES GranteeKnown' /\ OnlyByName' /\ Complete'
             /\ (pc' = "replace" => op' = NoOp /\ tf'.copied)
  BY <1>1
<1>2. NoObject.grantee = Unset /\ NoObject.obs = NoObservation
      /\ NoState.grantee = Unset /\ Unset # UserName /\ UserUUID # Unset /\ UserUUID # UserName
      /\ NoOp.grantee = Unset
  BY DEF NoObject, NoState, NoOp, Unset, UserName, UserUUID
<1>3. CASE Get
  BY <1>3 DEF Get, GranteeKnown, OnlyByName, Complete
<1>4. CASE Initialize
  <2>1. mg' = [mg EXCEPT !.obs = mg'.obs] /\ mg'.grantee = mg.grantee
    BY <1>4 DEF Initialize, TypeOK, Objects
  <2>2. version = "new" => mg'.obs = NoObservation \/ mg'.obs.opts = Options
    BY <1>4, SeededType DEF Initialize, TypeOK, Objects
  <2>3. mg.obs = NoObservation => mg'.obs = NoObservation
    BY <1>4, SeededType DEF Initialize, TypeOK, Objects
  <2>4. QED  BY <1>4, <2>1, <2>2, <2>3 DEF Initialize, GranteeKnown, OnlyByName, Complete
<1>5. CASE Resolve
  <2>1. CASE mg.grantee # Unset /\ pc' = "observe" /\ UNCHANGED <<api, mg, op>>
    BY <1>5, <2>1 DEF Resolve, GranteeKnown, OnlyByName, Complete
  <2>2. CASE mg.grantee = Unset /\ Update([mg EXCEPT !.grantee = UserUUID])
             /\ pc' = "observe" /\ UNCHANGED op
    <3>1. api' = mg' /\ mg'.grantee = UserUUID /\ mg'.obs = api.obs
      BY <2>2 DEF Update, TypeOK, Objects
    <3>2. api.grantee # UserName /\ api.obs = NoObservation
      BY <1>2, <1>5, <2>2 DEF Resolve, GranteeKnown, OnlyByName
    <3>3. QED
      BY <1>2, <1>5, <2>2, <3>1, <3>2 DEF Resolve, GranteeKnown, OnlyByName, Complete
  <2>3. CASE Requeue /\ UNCHANGED api
    BY <1>2, <1>5, <2>3 DEF Resolve, Requeue, GranteeKnown, OnlyByName, Complete,
      TypeOK
  <2>4. QED  BY <1>5, <2>1, <2>2, <2>3 DEF Resolve
<1>6. CASE ReadFound
  <2>1. /\ pc = "observe" /\ op = NoOp /\ tf' = ConnectState /\ tf'.grantee = UserName
        /\ mg'.grantee = mg.grantee /\ UNCHANGED <<api, op, version>>
        /\ pc' = IF version = "new" /\ tf'.opts # Options THEN "replace" ELSE "finalize"
    BY <1>6 DEF ReadFound, Observing, TypeOK, Objects
  <2>2. api.grantee = UserName
    BY <2>1, ConnectByName
  <2>3. version = "new" => tf'.copied \/ tf'.opts = Options
    BY <2>1, ConnectComplete
  <2>4. QED
    BY <1>2, <2>1, <2>2, <2>3 DEF GranteeKnown, OnlyByName, Complete
<1>7. CASE ReadNotFound
  BY <1>2, <1>7 DEF ReadNotFound, Observing, GranteeKnown, OnlyByName, Complete
<1>8. CASE ReadFails
  <2>1. /\ pc = "observe" /\ tf' \in {tf, ConnectState} /\ UNCHANGED <<api, version>>
        /\ pc' = "idle" /\ mg' = NoObject /\ op'.grantee = op.grantee
    BY <1>8 DEF ReadFails, Observing, Requeue, TypeOK
  <2>2. ConnectState.grantee # Unset
    BY <2>1, GranteeRead DEF ReadHasGrantee
  <2>3. api.grantee = UserName \/ tf'.grantee # UserName
    BY <2>1, ConnectByName DEF OnlyByName
  <2>4. version = "new" => tf' = NoState \/ tf'.copied \/ tf'.opts = Options
    BY <2>1, ConnectComplete DEF Complete
  <2>5. QED
    BY <1>2, <2>1, <2>2, <2>3, <2>4 DEF GranteeKnown, OnlyByName, Complete
<1>9. CASE ObserveRunning \/ Refused
  BY <1>9 DEF ObserveRunning, Refused, GranteeKnown, OnlyByName, Complete
<1>10. CASE AddFinalizer
  <2>1. /\ pc' \in {"create", "name"} /\ pc = "finalize" /\ UNCHANGED <<tf, op, version>>
        /\ api'.grantee = api.grantee \/ api'.grantee = mg.grantee
        /\ mg'.grantee = mg.grantee
        /\ api'.obs = api.obs /\ mg'.obs \in {api.obs, mg.obs}
    BY <1>10 DEF AddFinalizer, Update, TypeOK, Objects
  <2>2. QED  BY <2>1 DEF GranteeKnown, OnlyByName, Complete
<1>11. CASE LateInitialize
  <2>1. /\ pc' = "status" /\ pc = "name" /\ UNCHANGED <<tf, op, version>>
        /\ api'.grantee = api.grantee \/ api'.grantee = mg.grantee
        /\ mg'.grantee = mg.grantee
        /\ api'.obs = api.obs /\ mg'.obs \in {api.obs, mg.obs}
    BY <1>11 DEF LateInitialize, Update, TypeOK, Objects
  <2>2. QED  BY <2>1 DEF GranteeKnown, OnlyByName, Complete
<1>12. CASE Create
  BY <1>12 DEF Create, GranteeKnown, OnlyByName, Complete
<1>13. CASE UpdateStatus
  <2>1. /\ pc' = "idle" /\ mg' = NoObject /\ op'.grantee = op.grantee
        /\ UNCHANGED <<tf, version>>
        /\ api'.grantee = api.grantee /\ api'.obs = mg.obs
    BY <1>13 DEF UpdateStatus, Requeue, TypeOK, Objects
  <2>2. QED  BY <1>2, <2>1 DEF GranteeKnown, OnlyByName, Complete
<1>14. CASE Run
  <2>1. op # NoOp /\ op' = NoOp /\ UNCHANGED <<api, pc, version>>
    BY <1>14 DEF Run
  <2>2. CASE UNCHANGED <<tf, mg>>
    BY <1>2, <2>1, <2>2 DEF GranteeKnown, OnlyByName, Complete
  <2>3. CASE op.grantee = UserName /\ ~UNCHANGED <<tf, mg>>
    <3>1. tf' = [grantee |-> UserName, copied |-> FALSE,
                 opts |-> IF version = "new" THEN Options ELSE {}]
      BY <1>14, <2>3 DEF Run
    <3>2. api.grantee = UserName
      BY <2>3 DEF OnlyByName
    <3>3. mg'.grantee = mg.grantee /\ (mg'.obs = mg.obs \/ mg'.obs.opts = tf'.opts)
      <4>1. /\ mg' = IF op.shared
                      THEN [mg EXCEPT !.named = TRUE,
                                      !.obs = [grantee |-> UserName, opts |-> tf'.opts]]
                      ELSE mg
        BY <1>14, <2>3 DEF Run
      <4>2. mg \in Objects
        BY DEF TypeOK
      <4>3. QED  BY <4>1, <4>2 DEF Objects
    <3>4. QED
      BY <1>2, <2>1, <3>1, <3>2, <3>3 DEF GranteeKnown, OnlyByName, Complete
  <2>4. QED  BY <1>14, <2>2, <2>3 DEF Run
<1>15. CASE User
  BY <1>15 DEF User, GranteeKnown, OnlyByName, Complete
<1>16. CASE Restart
  BY <1>2, <1>16 DEF Restart, GranteeKnown, OnlyByName, Complete
<1>17. CASE UNCHANGED vars
  BY <1>17 DEF vars, GranteeKnown, OnlyByName, Complete
<1>18. QED
  BY <1>3, <1>4, <1>5, <1>6, <1>7, <1>8, <1>9, <1>10, <1>11, <1>12, <1>13, <1>14,
     <1>15, <1>16, <1>17
  DEF Next, Reconcile

\* No grant is ever read without its grantee, whatever fails, restarts or is upgraded
\* (grantprivilege_backfill.go:40-43).
THEOREM ReadsHaveGrantee == Spec => []ReadHasGrantee
BY GrantInit, GrantNext, GranteeRead, PTL DEF Spec, GrantInv

\* No upgrade asks for the replacement of a recorded grant for the options it lacks
\* (grantprivilege_backfill.go:14-19).
THEOREM NeverReplaced == Spec => []NotReplaced
<1>1. GrantInv => NotReplaced
  BY DEF GrantInv, NotReplaced
<1>2. QED  BY <1>1, GrantInit, GrantNext, PTL DEF Spec
=============================================================================
