------------------------------- MODULE Grants -------------------------------
(***************************************************************************)
(* One GrantPrivilege MR, its grantee given by name or by a reference to a *)
(* User MR, across the upgrade that brought the options current_grants and *)
(* grant_option: reference resolution (config/overrides.go), the composite *)
(* external name (idWithStub in config/external_name.go), the backfill of  *)
(* config/grantprivilege_backfill.go, and what Connect makes of the result.*)
(* Stale copies and deletion are in Adoption.                              *)
(***************************************************************************)
EXTENDS Naturals

CONSTANTS Givens,   \* granteeUserName as first applied: "unset" stands for a reference
          MaxFaults \* crashes and failed calls in a behaviour

ASSUME GrantsAssumption == Givens \subseteq {"name", "unset"} /\ MaxFaults \in Nat

Options  == {"current_grants", "grant_option"}
Unset    == "unset"
UserName == "name"
UserUUID == "uuid"
Grantees == {Unset, UserName, UserUUID}

VARIABLES
  user,    \* the user: made in ClickHouse, recorded in its MR's external name
  api,     \* the grant's MR on the API server
  mg,      \* the reconcile's in-memory copy of it
  pc,      \* where the reconcile is
  tf,      \* the operation tracker's Terraform state
  op,      \* the asynchronous GRANT
  granted, \* the user has the privilege
  version, \* of the provider: "old" knows no options
  faults   \* faults left
vars == <<user, api, mg, pc, tf, op, granted, version, faults>>

\* What of status.atProvider matters: the grantee stands for the fields that are
\* not options, which never stand alone.
Observation == {o \in [grantee: Grantees, opts: SUBSET Options] : o.grantee = Unset => o.opts = {}}
\* named: the external name is a composite ID (it contains ":").
Objects     == [grantee: Grantees, named: BOOLEAN, obs: Observation, fin: BOOLEAN]
\* copied: made of the parameters of the spec, for want of an observation.
States      == [grantee: Grantees, opts: SUBSET Options, copied: BOOLEAN]
PCs         == {"idle", "initialize", "resolve", "observe", "replace", "finalize",
                "name", "create", "status"}

NoObservation == [grantee |-> Unset, opts |-> {}]
NoState       == [grantee |-> Unset, opts |-> {}, copied |-> FALSE]
NoObject      == [grantee |-> Unset, named |-> FALSE, obs |-> NoObservation, fin |-> FALSE]
NoOp          == [grantee |-> Unset, shared |-> FALSE]

TypeOK ==
  /\ user \in [made: BOOLEAN, recorded: BOOLEAN]
  /\ api \in Objects /\ mg \in Objects
  /\ pc \in PCs
  /\ tf \in States
  /\ op \in [grantee: Grantees, shared: BOOLEAN]
  /\ granted \in BOOLEAN /\ version \in {"old", "new"}
  /\ faults \in 0..MaxFaults

Init ==
  /\ user \in [made: BOOLEAN, recorded: {FALSE}]
  /\ api \in {[NoObject EXCEPT !.grantee = g] : g \in Givens}
  /\ mg = NoObject /\ pc = "idle" /\ tf = NoState /\ op = NoOp
  /\ granted = FALSE /\ version \in {"old", "new"} /\ faults = MaxFaults

-----------------------------------------------------------------------------
(* The reconcile.                                                          *)

Fault == faults > 0 /\ faults' = faults - 1

\* The reconcile ends, its copy of the MR is dropped.
Requeue == /\ pc' = "idle" /\ mg' = NoObject /\ op' = [op EXCEPT !.shared = FALSE]

\* A PUT or PATCH of the MR leaves the status the server's, in the copy too.
Update(m) == api' = [m EXCEPT !.obs = api.obs] /\ mg' = api'

Get ==
  /\ pc = "idle" /\ pc' = "initialize" /\ mg' = api
  /\ UNCHANGED <<user, api, tf, op, granted, version, faults>>

\* Mutants: defaults are seeded into an empty observation too; no options known.
SeedDefaultsAlways(obs) == [obs EXCEPT !.opts = Options]
SeedDefaultsNever(obs)  == obs

\* Only an observation with fields of an earlier reconcile gets the options it
\* lacks.
SeedDefaults(obs) ==
  IF obs.grantee = Unset THEN obs ELSE [obs EXCEPT !.opts = Options]

\* backfillGrantPrivilegeDefaults came with the options.
Initialize ==
  /\ pc = "initialize" /\ pc' = "resolve"
  /\ mg' = IF version = "new" THEN [mg EXCEPT !.obs = SeedDefaults(mg.obs)] ELSE mg
  /\ UNCHANGED <<user, api, tf, op, granted, version, faults>>

\* ResolveReferences: a set field is left alone; an empty external name is an
\* error.  References without an extractor take the external name, which is the
\* user's UUID.
Resolve ==
  /\ pc = "resolve"
  /\ \/ mg.grantee # Unset /\ pc' = "observe" /\ UNCHANGED <<api, mg, op>>
     \/ /\ mg.grantee = Unset /\ user.recorded
        /\ Update([mg EXCEPT !.grantee = UserUUID])
        /\ pc' = "observe" /\ UNCHANGED op
     \/ /\ mg.grantee = Unset /\ ~user.recorded
        /\ Requeue /\ UNCHANGED api
  /\ UNCHANGED <<user, tf, granted, version, faults>>

\* Connect: without a tracked state the observation is the state, and without an
\* observation the parameters are.
ConnectState ==
  IF tf # NoState THEN tf
  ELSE IF mg.obs = NoObservation
    THEN [grantee |-> mg.grantee, opts |-> {}, copied |-> TRUE]
    ELSE [grantee |-> mg.obs.grantee, opts |-> mg.obs.opts, copied |-> FALSE]

Observing == pc = "observe" /\ op = NoOp

\* Read leaves options that the state lacks unset; the plan sets them, which
\* asks for a replacement that upjet refuses.
ReadFound ==
  /\ Observing /\ ConnectState.grantee = UserName /\ granted
  /\ tf' = ConnectState
  /\ mg' = [mg EXCEPT !.named = TRUE,
                      !.obs = [grantee |-> tf'.grantee, opts |-> tf'.opts]]
  /\ pc' = IF version = "new" /\ tf'.opts # Options THEN "replace" ELSE "finalize"
  /\ UNCHANGED <<user, api, op, granted, version, faults>>

ReadNotFound ==
  /\ Observing /\ ConnectState.grantee # Unset
  /\ ~(ConnectState.grantee = UserName /\ granted)
  /\ tf' = NoState /\ pc' = "finalize"
  /\ UNCHANGED <<user, api, mg, op, granted, version, faults>>

\* ClickHouse is unreachable, or the state names no grantee.
ReadFails ==
  /\ Observing /\ tf' \in {tf, ConnectState}
  /\ IF ConnectState.grantee = Unset THEN UNCHANGED faults ELSE Fault
  /\ Requeue
  /\ UNCHANGED <<user, api, granted, version>>

\* A GRANT of this process is running: exists, up to date.
ObserveRunning ==
  /\ pc = "observe" /\ op # NoOp /\ pc' = "status"
  /\ UNCHANGED <<user, api, mg, tf, op, granted, version, faults>>

\* The refused replacement is an error; the finalizer, the external name and the
\* status are saved all the same.
Refused ==
  /\ pc = "replace" /\ pc' = "finalize"
  /\ UNCHANGED <<user, api, mg, tf, op, granted, version, faults>>

AddFinalizer ==
  /\ pc = "finalize" /\ pc' = IF tf = NoState THEN "create" ELSE "name"
  /\ IF mg.fin THEN UNCHANGED <<api, mg>> ELSE Update([mg EXCEPT !.fin = TRUE])
  /\ UNCHANGED <<user, tf, op, granted, version, faults>>

LateInitialize ==
  /\ pc = "name" /\ pc' = "status"
  /\ IF mg.named = api.named THEN UNCHANGED <<api, mg>> ELSE Update(mg)
  /\ UNCHANGED <<user, tf, op, granted, version, faults>>

Create ==
  /\ pc = "create" /\ pc' = "status"
  /\ op' = [grantee |-> mg.grantee, shared |-> TRUE]
  /\ UNCHANGED <<user, api, mg, tf, granted, version, faults>>

UpdateStatus ==
  /\ pc = "status" /\ Requeue
  /\ api' = [api EXCEPT !.obs = mg.obs]
  /\ UNCHANGED <<user, tf, granted, version, faults>>

Reconcile ==
  \/ Get \/ Initialize \/ Resolve \/ ReadFound \/ ReadNotFound \/ ReadFails
  \/ ObserveRunning \/ Refused \/ AddFinalizer \/ LateInitialize \/ Create \/ UpdateStatus

-----------------------------------------------------------------------------
(* The goroutine of the GRANT, and the environment.                        *)

\* GRANT needs the grantee to exist under that name, and may be repeated.
Run ==
  /\ op # NoOp /\ op' = NoOp
  /\ \/ /\ op.grantee = UserName /\ user.made /\ granted' = TRUE
        /\ tf' = [grantee |-> UserName, copied |-> FALSE,
                  opts |-> IF version = "new" THEN Options ELSE {}]
        /\ mg' = IF op.shared
                   THEN [mg EXCEPT !.named = TRUE, !.obs = [grantee |-> UserName, opts |-> tf'.opts]]
                   ELSE mg
        /\ UNCHANGED faults
     \/ /\ IF op.grantee = UserName /\ user.made THEN Fault ELSE UNCHANGED faults
        /\ UNCHANGED <<granted, tf, mg>>
  /\ UNCHANGED <<user, api, pc, version>>

UserMade     == ~user.made /\ user' = [user EXCEPT !.made = TRUE]
UserRecorded == user.made /\ ~user.recorded /\ user' = [user EXCEPT !.recorded = TRUE]

User == (UserMade \/ UserRecorded) /\ UNCHANGED <<api, mg, pc, tf, op, granted, version, faults>>

\* The provider stops and comes back, perhaps as the new version.  A GRANT already
\* sent may still be executed.
Restart ==
  /\ \/ Fault /\ UNCHANGED version
     \/ version = "old" /\ version' = "new" /\ UNCHANGED faults
  /\ granted' \in {granted, granted \/ (op.grantee = UserName /\ user.made)}
  /\ pc' = "idle" /\ mg' = NoObject /\ tf' = NoState /\ op' = NoOp
  /\ UNCHANGED <<user, api>>

Next == Reconcile \/ Run \/ User \/ Restart

\* The MR is polled, the goroutine runs, the user's own MR is reconciled.
Spec == /\ Init /\ [][Next]_vars
        /\ WF_vars(Reconcile) /\ WF_vars(Run) /\ WF_vars(User)

-----------------------------------------------------------------------------
(* Properties.                                                             *)

\* No Read is without its grantee: defaults seeded into an empty status would
\* make Connect take the status for a state and leave the parameters out
\* (grantprivilege_backfill.go:40-43).
ReadHasGrantee == pc = "observe" => ConnectState.grantee # Unset

\* An upgrade never asks for the replacement of a grant whose status was recorded,
\* through restarts, references resolved and statuses reset in between
\* (grantprivilege_backfill.go:14-19).  A GRANT that was executed but never
\* recorded is read by its parameters, which lack the options.
NotReplaced == pc = "replace" => tf.copied

\* A grant that names its grantee, applied before the user exists or by the old
\* version, is made in the end and recorded with its options, however the upgrade
\* and the faults fall (grantprivilege_backfill.go:14-19); but for the one read by
\* its parameters, which stays with what they say until the provider restarts.
GrantSettles ==
  <>[](version = "new" /\ api.grantee = UserName =>
         granted /\ api.named /\ (api.obs.opts = Options \/ tf.copied))

\* granteeUserName is the "Name of the `user` to grant privileges to"
\* (zz_grantprivilege_types.go), by reference too.
GranteeIsName == api.grantee \in {Unset, UserName}
=============================================================================
