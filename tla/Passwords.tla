------------------------------ MODULE Passwords ------------------------------
(***************************************************************************)
(* The password initializers of the user kind (config/password_generator.go)*)
(* and how a password travels: secret -> informer cache -> initializer ->  *)
(* hash in the secret -> hash in ClickHouse.  Several User MRs may share   *)
(* one secret; their reconciles interleave.                                *)
(*                                                                         *)
(* method "byop": passwordSecretRef, the plaintext is the owner's and      *)
(* PasswordRefProcessor adds its hash.  method "generate":                 *)
(* autoGeneratePassword, PasswordGenerator makes both.  PasswordValidator  *)
(* lets one of the two through.                                            *)
(***************************************************************************)
EXTENDS Naturals

CONSTANTS Users,      \* User MRs that may share the secret
          Methods,    \* the methods the MRs may use, all of them the same
          SecretKey,  \* passwordSecretRef.key
          Namespaced, \* the MR is of the namespaced API
          Foreign,    \* passwordSecretRef.namespace is not the MR's own
          MaxEdits,   \* what owners do to the secret in a behaviour
          MaxFaults   \* crashes and failed calls in a behaviour

ASSUME PasswordsAssumption ==
  /\ Methods \subseteq {"byop", "generate"} /\ SecretKey \in {"password", "hash"}
  /\ Namespaced \in BOOLEAN /\ Foreign \in BOOLEAN
  /\ MaxEdits \in Nat /\ MaxFaults \in Nat

VARIABLES
  secret, \* the secret on the API server
  cached, \* the secret in the informer cache
  method, \* "byop" or "generate"
  policy, \* managementPolicies of each MR, "none" if there is no such MR
  pc,     \* where the reconcile of each MR is
  copy,   \* the secret it has read
  ref,    \* namespace passwordSha256HashSecretRef names in its copy of the MR
  plan,   \* the hash a running create or update sets, or Nothing
  tf,     \* the hash in the operation tracker's Terraform state, or Nothing
  ch,     \* the hash ClickHouse has for the user, or NoUser
  last,   \* passwords are numbered in the order they reach the secret (history)
  owned,  \* the plaintext the owner last wrote (history)
  edits, faults \* edits and faults left
memory == <<pc, copy, ref>>
vars   == <<secret, cached, method, policy, memory, plan, tf, ch, last, owned, edits, faults>>

\* A value of a secret's key: password number pw, hashed n times.
Plain(p)    == [pw |-> p, n |-> 0]
Hash(v)     == [v EXCEPT !.n = @ + 1]
Nothing     == Plain(0)
Passwords   == [pw: Nat \ {0}, n: {0}]
Hashes      == [pw: Nat \ {0}, n: IF SecretKey = "hash" THEN Nat ELSE {1}]
NoUser      == [pw |-> 0, n |-> 2]
UnknownHash == [pw |-> 0, n |-> 1] \* of a user that was there before the MR

Data    == [password: Passwords \cup {Nothing}, hash: Hashes \cup {Nothing}]
Secrets == [there: BOOLEAN, ver: Nat, data: Data]
Empty   == [password |-> Nothing, hash |-> Nothing]
Absent  == [there |-> FALSE, ver |-> 0, data |-> Empty]

Namespaces == {"own", "other"}
PCs        == {"idle", "read", "fetch", "apply", "observe"}

TypeOK ==
  /\ secret \in Secrets /\ cached \in Secrets
  /\ method \in Methods /\ policy \in [Users -> {"Observe", "Managed", "none"}]
  /\ pc \in [Users -> PCs]
  /\ copy \in [Users -> Secrets]
  /\ ref \in [Users -> Namespaces \cup {"none"}]
  /\ plan \in [Users -> Hashes \cup {Nothing}]
  /\ tf \in [Users -> Hashes \cup {Nothing}]
  /\ ch \in [Users -> Hashes \cup {UnknownHash, NoUser}]
  /\ last \in Nat /\ owned \in Passwords \cup {Nothing}
  /\ edits \in 0..MaxEdits /\ faults \in 0..MaxFaults

\* Where the secret of the initializers is.
SecretNamespace == IF Foreign THEN "other" ELSE "own"

\* Owners share a plaintext among MRs; a connection secret is one MR's.
Init ==
  /\ method \in Methods
  /\ \E there, given \in BOOLEAN :
         /\ given => (there /\ method = "byop")
         /\ secret = [there |-> there, ver |-> 0,
                      data  |-> IF given THEN [Empty EXCEPT ![SecretKey] = Plain(1)] ELSE Empty]
         /\ last  = IF given THEN 1 ELSE 0
         /\ owned = IF given THEN Plain(1) ELSE Nothing
  /\ cached = secret
  /\ policy \in [Users -> {"Observe", "Managed", "none"}]
  /\ \E u \in Users : /\ policy[u] # "none"
                      /\ method = "generate" => \A v \in Users \ {u} : policy[v] = "none"
  /\ pc = [u \in Users |-> "idle"] /\ copy = [u \in Users |-> Absent]
  /\ ref = [u \in Users |-> "none"]
  /\ plan = [u \in Users |-> Nothing] /\ tf = [u \in Users |-> Nothing]
  /\ ch \in [Users -> {NoUser, UnknownHash}]
  /\ edits = MaxEdits /\ faults = MaxFaults

-----------------------------------------------------------------------------
(* The initializers.                                                       *)

Fault    == faults > 0 /\ faults' = faults - 1
Go(u, l) == pc' = [pc EXCEPT ![u] = l]

\* The reconcile ends, with an error or not.
Return(u) ==
  /\ Go(u, "idle")
  /\ copy' = [copy EXCEPT ![u] = Absent]
  /\ ref'  = [ref EXCEPT ![u] = "none"]

\* setPasswordHashSecretRef: the JSON round trip drops the namespace of a
\* namespaced MR's reference, which upjet resolves in the MR's namespace.  The
\* copy of the secret is done with.
setPasswordHashSecretRef(u) ==
  /\ ref' = [ref EXCEPT ![u] = IF Namespaced THEN "own" ELSE SecretNamespace]
  /\ copy' = [copy EXCEPT ![u] = Absent]
  /\ Go(u, "observe")

\* Mutant: observe-only MRs are not left out.
StartObserved(u) ==
  /\ pc[u] = "idle" /\ policy[u] # "none" /\ Go(u, "read")
  /\ UNCHANGED <<secret, cached, method, policy, copy, ref, plan, tf, ch, last, owned, edits, faults>>

\* With managementPolicies ["Observe"] no initializer does anything, and Observe
\* reads the user without touching it.
Start(u) ==
  /\ pc[u] = "idle" /\ policy[u] = "Managed" /\ Go(u, "read")
  /\ UNCHANGED <<secret, cached, method, policy, copy, ref, plan, tf, ch, last, owned, edits, faults>>

\* Mutant: a missing key is hashed like an empty password.
ReadRefUnchecked(u) ==
  /\ method = "byop" /\ pc[u] = "read"
  /\ IF ~cached.there THEN Return(u)
     ELSE IF cached.data.hash = Hash(cached.data[SecretKey]) THEN setPasswordHashSecretRef(u)
     ELSE Go(u, "apply") /\ copy' = [copy EXCEPT ![u] = cached] /\ UNCHANGED ref
  /\ UNCHANGED <<secret, cached, method, policy, plan, tf, ch, last, owned, edits, faults>>

\* Mutant: any hash that is there will do.
ReadRefPresence(u) ==
  /\ method = "byop" /\ pc[u] = "read"
  /\ IF ~cached.there \/ cached.data[SecretKey] = Nothing THEN Return(u)
     ELSE IF cached.data.hash # Nothing THEN setPasswordHashSecretRef(u)
     ELSE Go(u, "apply") /\ copy' = [copy EXCEPT ![u] = cached] /\ UNCHANGED ref
  /\ UNCHANGED <<secret, cached, method, policy, plan, tf, ch, last, owned, edits, faults>>

\* PasswordRefProcessor: one fetch for the plaintext and the hash it has.
ReadRef(u) ==
  /\ method = "byop" /\ pc[u] = "read"
  /\ IF ~cached.there \/ cached.data[SecretKey] = Nothing THEN Return(u)
     ELSE IF cached.data.hash = Hash(cached.data[SecretKey]) THEN setPasswordHashSecretRef(u)
     ELSE Go(u, "apply") /\ copy' = [copy EXCEPT ![u] = cached] /\ UNCHANGED ref
  /\ UNCHANGED <<secret, cached, method, policy, plan, tf, ch, last, owned, edits, faults>>

\* Mutant: a secret without a hash counts as generated.
CheckSecret(u) ==
  /\ method = "generate" /\ pc[u] = "read"
  /\ IF cached.there THEN setPasswordHashSecretRef(u)
                     ELSE Go(u, "fetch") /\ UNCHANGED <<copy, ref>>
  /\ UNCHANGED <<secret, cached, method, policy, plan, tf, ch, last, owned, edits, faults>>

\* PasswordGenerator, isPasswordHashAlreadySet: a hash means "generated".
CheckHash(u) ==
  /\ method = "generate" /\ pc[u] = "read"
  /\ IF cached.data.hash # Nothing THEN setPasswordHashSecretRef(u)
                                   ELSE Go(u, "fetch") /\ UNCHANGED <<copy, ref>>
  /\ UNCHANGED <<secret, cached, method, policy, plan, tf, ch, last, owned, edits, faults>>

\* applyPasswordSecret reads the secret again, its version with it.
Fetch(u) ==
  /\ pc[u] = "fetch" /\ Go(u, "apply")
  /\ copy' = [copy EXCEPT ![u] = cached]
  /\ UNCHANGED <<secret, cached, method, policy, ref, plan, tf, ch, last, owned, edits, faults>>

\* APIPatchingApplicator: a secret that was read is patched if it still has the
\* version read; one that was not there is created, or patched whatever its
\* version when the cache shows it by now.
Applies(s) ==
  IF s.there THEN secret.there /\ s.ver = secret.ver ELSE secret.there = cached.there

\* A merge patch: keys that are not given stay.
Write(data) ==
  LET Patched(k) == IF data[k] # Nothing THEN data[k] ELSE secret.data[k]
  IN secret' = [there |-> TRUE, ver |-> secret.ver + 1,
                data  |-> [password |-> Patched("password"), hash |-> Patched("hash")]]

\* Mutant: the secret is patched under its name alone, without the version read.
ApplyHashUnversioned(u) ==
  /\ method = "byop" /\ pc[u] = "apply"
  /\ \/ /\ secret.there
        /\ Write([copy[u].data EXCEPT !.hash = Hash(copy[u].data[SecretKey])])
        /\ setPasswordHashSecretRef(u)
     \/ ~secret.there /\ Return(u) /\ UNCHANGED secret
  /\ UNCHANGED <<cached, method, policy, plan, tf, ch, last, owned, edits, faults>>

\* Mutant: the hash alone is patched in, without the version read.
ApplyHashAlone(u) ==
  /\ method = "byop" /\ pc[u] = "apply"
  /\ \/ /\ secret.there
        /\ Write([password |-> Nothing, hash |-> Hash(copy[u].data[SecretKey])])
        /\ setPasswordHashSecretRef(u)
     \/ ~secret.there /\ Return(u) /\ UNCHANGED secret
  /\ UNCHANGED <<cached, method, policy, plan, tf, ch, last, owned, edits, faults>>

\* applyHashSecret; a conflict is an error.
ApplyHash(u) ==
  /\ method = "byop" /\ pc[u] = "apply"
  /\ \/ /\ Applies(copy[u])
        /\ Write([copy[u].data EXCEPT !.hash = Hash(copy[u].data[SecretKey])])
        /\ setPasswordHashSecretRef(u)
     \/ ~Applies(copy[u]) /\ Return(u) /\ UNCHANGED secret
  /\ UNCHANGED <<cached, method, policy, plan, tf, ch, last, owned, edits, faults>>

\* applyPasswordSecret, both keys at once.
ApplyPassword(u) ==
  /\ method = "generate" /\ pc[u] = "apply"
  /\ \/ /\ Applies(copy[u])
        /\ last' = last + 1
        /\ Write([password |-> Plain(last'), hash |-> Hash(Plain(last'))])
        /\ setPasswordHashSecretRef(u)
     \/ ~Applies(copy[u]) /\ Return(u) /\ UNCHANGED <<secret, last>>
  /\ UNCHANGED <<cached, method, policy, plan, tf, ch, owned, edits, faults>>

\* A call to the API server or to ClickHouse fails, the one of the adoption
\* initializer between the two password initializers included.
Fail(u) ==
  /\ pc[u] # "idle" /\ Fault /\ Return(u)
  /\ UNCHANGED <<secret, cached, method, policy, plan, tf, ch, last, owned, edits>>

-----------------------------------------------------------------------------
(* Observe and the asynchronous operation (upjet), and the environment.    *)

\* The hash is read through the reference, from the cache; it is compared with
\* the Terraform state, since ClickHouse does not show it.
Observe(u) ==
  LET h == cached.data.hash IN
  /\ pc[u] = "observe" /\ Return(u)
  /\ plan' = IF /\ ref[u] = SecretNamespace /\ h # Nothing /\ plan[u] = Nothing
                /\ ch[u] = NoUser \/ tf[u] # h
             THEN [plan EXCEPT ![u] = h] ELSE plan
  /\ UNCHANGED <<secret, cached, method, policy, tf, ch, last, owned, edits, faults>>

\* CREATE USER or ALTER USER; its reply may be lost.  The owner's password of a user
\* that was there before may also be refused.
Run(u) ==
  /\ plan[u] # Nothing /\ plan' = [plan EXCEPT ![u] = Nothing]
  /\ \/ /\ ch' = [ch EXCEPT ![u] = plan[u]] /\ tf' = [tf EXCEPT ![u] = plan[u]]
        /\ UNCHANGED faults
     \/ method = "byop" /\ ch[u] = UnknownHash /\ UNCHANGED <<ch, tf, faults>>
     \/ Fault /\ ch' \in {ch, [ch EXCEPT ![u] = plan[u]]} /\ UNCHANGED tf
  /\ UNCHANGED <<secret, cached, method, policy, memory, last, owned, edits>>

CacheSync ==
  /\ cached # secret /\ cached' = secret
  /\ UNCHANGED <<secret, method, policy, memory, plan, tf, ch, last, owned, edits, faults>>

\* The Terraform state is lost with the process; the one rebuilt has no hash, or the
\* one that was recorded.
Crash ==
  /\ Fault
  /\ pc' = [u \in Users |-> "idle"] /\ copy' = [u \in Users |-> Absent]
  /\ ref' = [u \in Users |-> "none"]
  /\ plan' = [u \in Users |-> Nothing]
  /\ \E kept \in SUBSET Users : tf' = [u \in Users |-> IF u \in kept THEN tf[u] ELSE Nothing]
  /\ UNCHANGED <<secret, cached, method, policy, ch, last, owned, edits>>

Edit == edits > 0 /\ edits' = edits - 1

\* The owner writes a new plaintext, into a new secret if there is none.
Rotate ==
  /\ method = "byop" /\ Edit
  /\ last' = last + 1 /\ owned' = Plain(last')
  /\ secret' = [there |-> TRUE, ver |-> secret.ver + 1,
                data  |-> [secret.data EXCEPT ![SecretKey] = owned']]
  /\ UNCHANGED <<cached, method, policy, memory, plan, tf, ch, faults>>

DeleteSecret ==
  /\ secret.there /\ Edit
  /\ owned' = Nothing
  /\ secret' = [Absent EXCEPT !.ver = secret.ver + 1]
  /\ UNCHANGED <<cached, method, policy, memory, plan, tf, ch, last, faults>>

DeleteHash ==
  /\ secret.data.hash # Nothing /\ SecretKey # "hash" /\ Edit
  /\ secret' = [secret EXCEPT !.ver = @ + 1, !.data = [@ EXCEPT !.hash = Nothing]]
  /\ UNCHANGED <<cached, method, policy, memory, plan, tf, ch, last, owned, faults>>

\* The second phase of docs/user-import-workflow.md.
Manage(u) ==
  /\ policy[u] = "Observe" /\ policy' = [policy EXCEPT ![u] = "Managed"]
  /\ UNCHANGED <<secret, cached, method, memory, plan, tf, ch, last, owned, edits, faults>>

Reconcile(u) == \/ Start(u) \/ ReadRef(u) \/ CheckHash(u) \/ Fetch(u)
                \/ ApplyHash(u) \/ ApplyPassword(u) \/ Observe(u)
Environment  == CacheSync \/ Crash \/ Rotate \/ DeleteSecret \/ DeleteHash

Next == Environment \/ \E u \in Users : Reconcile(u) \/ Fail(u) \/ Run(u) \/ Manage(u)

\* Every MR is polled, the goroutines run, the informer catches up.
Spec == /\ Init /\ [][Next]_vars /\ WF_vars(CacheSync)
        /\ \A u \in Users : WF_vars(Reconcile(u)) /\ WF_vars(Run(u))

-----------------------------------------------------------------------------
(* Properties.                                                             *)

\* Under its key the secret keeps the owner's last password, whatever is written with
\* a stale copy of the secret or from another MR; it keeps it in plaintext, unless the
\* owner chose the key "hash", where it is hashed in place
\* (password_generator.go:106-109, 120-123, 268-274).
PlaintextKept ==
  method = "byop" => /\ secret.data[SecretKey].pw = owned.pw
                     /\ SecretKey # "hash" => secret.data[SecretKey] = owned

\* ClickHouse never goes back to an earlier password, whatever is read late,
\* retried or repeated after a restart (password_generator.go:126-128).
NoRollback ==
  [][\A u \in Users : ch'[u] # ch[u] => ch'[u].pw >= ch[u].pw]_vars

\* "Check idempotency: if the hash is already stored, skip generation"
\* (password_generator.go:214): a generated password stays until someone deletes
\* it.
GeneratedOnce ==
  [][method = "generate" /\ secret.data.hash # Nothing /\ secret'.data.hash # Nothing
       => secret'.data = secret.data]_vars

\* A user that is only observed keeps its password, even when it shares the
\* secret with a managed one (docs/user-import-workflow.md:34-39).
ObservedUntouched ==
  \A u \in Users : policy[u] = "Observe" => ch[u] \in {NoUser, UnknownHash}

\* Seen from outside every step is one of Rollout or none: the provider adds to the
\* secret the hash of the password that is there, or a password of its own, and gives
\* managed users later passwords only (password_generator.go:79-130, 205-240).
Promise == INSTANCE Rollout WITH
  latest <- last, current <- secret.data[SecretKey].pw, hashed <- secret.data.hash.pw,
  applied <- [u \in Users |-> ch[u].pw]
KeepsRollout == Promise!Spec

Usable == secret.there /\ secret.data[SecretKey] # Nothing

\* The last password in the secret, rotated by its owner or generated anew after
\* the secret was deleted, becomes the password of every managed user.  One that was
\* there before may keep its own as long as the owner's is refused.
PasswordSettles ==
  <>[](\A u \in Users : policy[u] = "Managed" =>
         IF Usable THEN /\ secret.data.hash = Hash(secret.data[SecretKey])
                        /\ \/ ch[u] = secret.data.hash
                           \/ method = "byop" /\ ch[u] = UnknownHash
                   ELSE method = "byop")
==============================================================================
