--------------------------- MODULE PasswordsProofs ---------------------------
(***************************************************************************)
(* Theorems about Passwords.  Whatever the key of the secret is: the types,*)
(* that the owner's password is kept, that none is rolled back, and that   *)
(* observed users are left alone.  Where the plaintext and the hash have   *)
(* keys of their own, Passwords implements Rollout.                        *)
(***************************************************************************)
EXTENDS Passwords, TLAPS

\* The secret and its copies carry versions: equal versions, equal secrets.
Ordered(s) == s.ver <= secret.ver /\ (s.ver = secret.ver => s = secret)

\* An owner's secret that is about to be written was read with a plaintext.
CopiesOrdered ==
  /\ Ordered(cached)
  /\ method = "byop" =>
       \A u \in Users :
         /\ pc[u] # "fetch"
         /\ pc[u] = "apply" =>
              copy[u].there /\ copy[u].data[SecretKey] # Nothing /\ Ordered(copy[u])

\* Hash h is not older than any hash that was handed out before it.
NotBefore(h) ==
  h # Nothing => \A u \in Users : ch[u].pw <= h.pw /\ plan[u].pw <= h.pw

\* Passwords get older from the secret to its hash, to the cache, to the operation,
\* to ClickHouse.
Aged ==
  /\ secret.data[SecretKey].pw <= last /\ secret.data.hash.pw <= last
  /\ cached.data.hash.pw <= last
  /\ \A u \in Users : ch[u].pw <= last /\ plan[u].pw <= last
  /\ NotBefore(secret.data[SecretKey]) /\ NotBefore(secret.data.hash)
  /\ NotBefore(cached.data.hash)
  /\ \A v \in {secret.data[SecretKey], secret.data.hash} :
       v # Nothing => cached.data.hash.pw <= v.pw /\ secret.data.hash.pw <= v.pw
  /\ \A u \in Users : plan[u] # Nothing => ch[u].pw <= plan[u].pw

\* An MR that does not manage its user is not reconciled and runs nothing.
UnmanagedIdle ==
  \A u \in Users : policy[u] # "Managed" =>
    pc[u] = "idle" /\ plan[u] = Nothing /\ ch[u] \in {NoUser, UnknownHash}

PasswordInv == TypeOK /\ CopiesOrdered /\ PlaintextKept /\ Aged

-----------------------------------------------------------------------------
(* Types.                                                                  *)

\* What may be under the owner's key.
Values == IF SecretKey = "hash" THEN Hashes ELSE Passwords

LEMMA ValueTypes ==
  /\ Nothing = [pw |-> 0, n |-> 0] /\ Nothing \notin Passwords /\ Nothing \notin Hashes
  /\ \A v \in Values \cup Passwords : Hash(v) \in Hashes /\ Hash(v).pw = v.pw /\ v.pw # 0
  /\ \A p \in Nat : Plain(p + 1) \in Passwords \cap Values /\ Plain(p + 1).pw = p + 1
  /\ \A v \in Passwords \cup Hashes \cup {Nothing, NoUser, UnknownHash} : v.pw \in Nat
<1>1. \A v \in Passwords : Hash(v) = [pw |-> v.pw, n |-> 1]
  BY DEF Passwords, Hash
<1>2. \A v \in Hashes : Hash(v) = [pw |-> v.pw, n |-> v.n + 1]
  BY DEF Hashes, Hash
<1>3. CASE SecretKey = "hash"
  BY <1>1, <1>2, <1>3 DEF Nothing, Passwords, Hashes, Values, Plain, NoUser, UnknownHash
<1>4. CASE SecretKey # "hash"
  BY <1>1, <1>4 DEF Nothing, Passwords, Hashes, Values, Plain, NoUser, UnknownHash
<1>5. QED  BY <1>3, <1>4

LEMMA SecretTypes ==
  /\ Absent \in Secrets /\ Empty \in Data
  /\ Absent.data[SecretKey] = Nothing /\ Absent.data.hash = Nothing
  /\ \A s \in Secrets : /\ s.ver \in Nat /\ s.there \in BOOLEAN /\ s.data \in Data
                        /\ s.data.password \in Passwords \cup {Nothing}
                        /\ s.data.hash \in Hashes \cup {Nothing}
                        /\ s.data[SecretKey] \in Values \cup {Nothing}
BY PasswordsAssumption DEF Secrets, Data, Values, Absent, Empty

\* The writes of the secret.
Secret(p, h) == [there |-> TRUE, ver |-> secret.ver + 1, data |-> [password |-> p, hash |-> h]]

LEMMA SecretData ==
  ASSUME NEW p, NEW h
  PROVE  /\ Secret(p, h).ver = secret.ver + 1
         /\ Secret(p, h).data.password = p /\ Secret(p, h).data.hash = h
         /\ Secret(p, h).data[SecretKey] = IF SecretKey = "hash" THEN h ELSE p
BY PasswordsAssumption DEF Secret

LEMMA SecretType ==
  ASSUME TypeOK, NEW p \in Passwords \cup {Nothing}, NEW h \in Hashes \cup {Nothing}
  PROVE  Secret(p, h) \in Secrets
BY DEF TypeOK, Secret, Secrets, Data

LEMMA HashWritten ==
  ASSUME TypeOK, CopiesOrdered, NEW u \in Users, ApplyHash(u), secret' # secret
  PROVE  /\ secret.data[SecretKey] \in Values
         /\ secret' = Secret(secret.data.password, Hash(secret.data[SecretKey]))
<1> DEFINE h == Hash(secret.data[SecretKey])
<1>1. /\ method = "byop" /\ pc[u] = "apply" /\ Applies(copy[u])
      /\ Write([copy[u].data EXCEPT !.hash = Hash(copy[u].data[SecretKey])])
  BY DEF ApplyHash
<1>2. copy[u] = secret /\ secret.data[SecretKey] # Nothing
  BY <1>1 DEF CopiesOrdered, Ordered, Applies
<1>3. secret.data \in Data /\ secret.data[SecretKey] \in Values
  BY <1>2, SecretTypes DEF TypeOK
<1>4. h # Nothing
  BY <1>3, ValueTypes
<1> HIDE DEF h
<1>5. LET d == [secret.data EXCEPT !.hash = h]
      IN d["password"] = secret.data.password /\ d["hash"] = h
  BY <1>3 DEF Data
<1>6. Write([secret.data EXCEPT !.hash = h])
  BY <1>1, <1>2 DEF h
<1>7. secret' = Secret(secret.data.password, h)
  BY <1>4, <1>5, <1>6 DEF Write, Secret
<1>8. QED  BY <1>3, <1>7 DEF h

LEMMA PasswordWritten ==
  ASSUME TypeOK, NEW u \in Users, ApplyPassword(u)
  PROVE  \/ UNCHANGED <<secret, last>>
         \/ /\ last' = last + 1 /\ Plain(last') \in Passwords
            /\ secret' = Secret(Plain(last'), Hash(Plain(last')))
<1>1. last \in Nat
  BY DEF TypeOK
<1>2. /\ Plain(last + 1) \in Passwords /\ Plain(last + 1) # Nothing
      /\ Hash(Plain(last + 1)) # Nothing
  BY <1>1, ValueTypes
<1>3. QED  BY <1>2 DEF ApplyPassword, Write, Secret

LEMMA SecretRotated ==
  ASSUME TypeOK, Rotate
  PROVE  /\ last' = last + 1 /\ Plain(last') \in Passwords \cap Values /\ owned' = Plain(last')
         /\ secret' = IF SecretKey = "hash" THEN Secret(secret.data.password, Plain(last'))
                                            ELSE Secret(Plain(last'), secret.data.hash)
<1>1. last \in Nat /\ secret.data \in Data
  BY SecretTypes DEF TypeOK
<1>2. /\ [secret.data EXCEPT !["password"] = owned'] = [password |-> owned', hash |-> secret.data.hash]
      /\ [secret.data EXCEPT !["hash"] = owned'] = [password |-> secret.data.password, hash |-> owned']
  BY <1>1 DEF Data
<1>3. last' = last + 1 /\ Plain(last') \in Passwords \cap Values /\ owned' = Plain(last')
  BY <1>1, ValueTypes DEF Rotate
<1>4. QED  BY <1>2, <1>3, PasswordsAssumption DEF Rotate, Secret

LEMMA HashDeleted ==
  ASSUME TypeOK, DeleteHash
  PROVE  /\ secret' \in Secrets /\ secret'.ver = secret.ver + 1
         /\ secret'.data.hash = Nothing
         /\ SecretKey # "hash" /\ secret'.data[SecretKey] = secret.data[SecretKey]
<1>1. secret \in Secrets /\ secret.data \in Data /\ secret.ver \in Nat
  BY SecretTypes DEF TypeOK
<1> DEFINE d == [secret.data EXCEPT !.hash = Nothing]
<1>2. d \in Data /\ d.password = secret.data.password /\ d.hash = Nothing
  BY <1>1 DEF Data
<1>3. secret' = [secret EXCEPT !.ver = @ + 1, !.data = d]
  BY DEF DeleteHash
<1> HIDE DEF d
<1>4. secret'.there = secret.there /\ secret'.ver = secret.ver + 1 /\ secret'.data = d
  BY <1>1, <1>3 DEF Secrets
<1>5. secret' = [there |-> secret.there, ver |-> secret.ver + 1, data |-> d]
  BY <1>1, <1>3 DEF Secrets
<1>6. secret' \in Secrets
  BY <1>1, <1>2, <1>5 DEF Secrets
<1>7. SecretKey # "hash" /\ SecretKey \in {"password", "hash"}
  BY PasswordsAssumption DEF DeleteHash
<1>8. QED  BY <1>2, <1>4, <1>6, <1>7

MemoryOK ==
  pc \in [Users -> PCs] /\ copy \in [Users -> Secrets] /\ ref \in [Users -> Namespaces \cup {"none"}]

LEMMA ReturnType == ASSUME TypeOK, NEW u \in Users, Return(u)  PROVE MemoryOK'
BY SecretTypes DEF TypeOK, Return, Go, MemoryOK, PCs

LEMMA RefType ==
  ASSUME TypeOK, NEW u \in Users, setPasswordHashSecretRef(u)  PROVE MemoryOK'
BY SecretTypes
   DEF TypeOK, setPasswordHashSecretRef, SecretNamespace, Go, MemoryOK, PCs, Namespaces

LEMMA GoType ==
  ASSUME TypeOK, NEW u \in Users, NEW l \in PCs, Go(u, l),
         UNCHANGED ref, copy' = copy \/ copy' = [copy EXCEPT ![u] = cached]
  PROVE  MemoryOK'
BY DEF TypeOK, Go, MemoryOK

LEMMA PasswordFault ==
  ASSUME TypeOK, Fault \/ UNCHANGED faults  PROVE faults' \in 0..MaxFaults
BY PasswordsAssumption DEF TypeOK, Fault

LEMMA PasswordEdit == ASSUME TypeOK, Edit  PROVE edits' \in 0..MaxEdits
BY PasswordsAssumption DEF TypeOK, Edit

LEMMA PasswordTypeInit == Init => TypeOK
<1> SUFFICES ASSUME Init  PROVE TypeOK
  OBVIOUS
<1>1. PICK there, given \in BOOLEAN :
        /\ secret = [there |-> there, ver |-> 0,
                     data |-> IF given THEN [Empty EXCEPT ![SecretKey] = Plain(1)] ELSE Empty]
        /\ last = IF given THEN 1 ELSE 0
        /\ owned = IF given THEN Plain(1) ELSE Nothing
  BY DEF Init
<1>2. Plain(1) \in Passwords /\ (SecretKey = "hash" => Plain(1) \in Hashes)
  BY DEF Plain, Passwords, Hashes
<1>3. [Empty EXCEPT ![SecretKey] = Plain(1)] \in Data
  BY <1>2, PasswordsAssumption DEF Empty, Data
<1>4. secret \in Secrets /\ last \in Nat /\ owned \in Passwords \cup {Nothing}
  BY <1>1, <1>2, <1>3, SecretTypes DEF Secrets
<1>5. /\ pc \in [Users -> PCs] /\ copy \in [Users -> Secrets]
      /\ ref \in [Users -> Namespaces \cup {"none"}]
  BY SecretTypes DEF Init, PCs
<1>6. /\ plan \in [Users -> Hashes \cup {Nothing}] /\ tf \in [Users -> Hashes \cup {Nothing}]
      /\ ch \in [Users -> Hashes \cup {UnknownHash, NoUser}]
  BY DEF Init
<1>7. edits \in 0..MaxEdits /\ faults \in 0..MaxFaults
  BY PasswordsAssumption DEF Init
<1>8. QED  BY <1>4, <1>5, <1>6, <1>7 DEF Init, TypeOK

LEMMA PasswordTypeNext ==
  ASSUME TypeOK, CopiesOrdered, [Next]_vars  PROVE TypeOK'
<1>1. ASSUME MemoryOK', UNCHANGED <<secret, cached, method, policy, plan, tf, ch, last, owned, edits>>,
             Fault \/ UNCHANGED faults
      PROVE  TypeOK'
  BY <1>1, PasswordFault DEF TypeOK, MemoryOK
<1>2. ASSUME MemoryOK', secret' \in Secrets, last' \in Nat,
             UNCHANGED <<cached, method, policy, plan, tf, ch, owned, edits, faults>>
      PROVE  TypeOK'
  BY <1>2 DEF TypeOK, MemoryOK
<1>3. ASSUME UNCHANGED memory  PROVE MemoryOK'
  BY <1>3 DEF TypeOK, MemoryOK, memory
<1>4. /\ secret.data.password \in Passwords \cup {Nothing}
      /\ secret.data.hash \in Hashes \cup {Nothing} /\ secret.ver \in Nat /\ last \in Nat
  BY SecretTypes DEF TypeOK
<1>5. ASSUME NEW u \in Users, Start(u)  PROVE TypeOK'
  BY <1>1, <1>5, GoType DEF Start, PCs
<1>6. ASSUME NEW u \in Users, ReadRef(u)  PROVE TypeOK'
  BY <1>1, <1>6, GoType, RefType, ReturnType DEF ReadRef, PCs
<1>7. ASSUME NEW u \in Users, CheckHash(u)  PROVE TypeOK'
  BY <1>1, <1>7, GoType, RefType DEF CheckHash, PCs
<1>8. ASSUME NEW u \in Users, Fetch(u)  PROVE TypeOK'
  BY <1>1, <1>8, GoType DEF Fetch, PCs
<1>9. ASSUME NEW u \in Users, ApplyHash(u)  PROVE TypeOK'
  <2>1. MemoryOK'
    BY <1>9, RefType, ReturnType DEF ApplyHash
  <2>2. secret' \in Secrets
    <3>1. CASE UNCHANGED secret
      BY <3>1 DEF TypeOK
    <3>2. CASE secret' # secret
      <4>1. Hash(secret.data[SecretKey]) \in Hashes
        BY <1>9, <3>2, HashWritten, ValueTypes
      <4>2. QED  BY <1>4, <1>9, <3>2, <4>1, HashWritten, SecretType
    <3>3. QED  BY <3>1, <3>2
  <2>3. QED  BY <1>2, <1>4, <1>9, <2>1, <2>2 DEF ApplyHash
<1>10. ASSUME NEW u \in Users, ApplyPassword(u)  PROVE TypeOK'
  <2>1. MemoryOK'
    BY <1>10, RefType, ReturnType DEF ApplyPassword
  <2>2. secret' \in Secrets /\ last' \in Nat
    BY <1>4, <1>10, PasswordWritten, SecretType, ValueTypes DEF TypeOK
  <2>3. QED  BY <1>2, <1>10, <2>1, <2>2 DEF ApplyPassword
<1>11. ASSUME NEW u \in Users, Fail(u)  PROVE TypeOK'
  BY <1>1, <1>11, ReturnType DEF Fail
<1>12. ASSUME NEW u \in Users, Observe(u)  PROVE TypeOK'
  <2>1. cached.data.hash \in Hashes \cup {Nothing}
    BY SecretTypes DEF TypeOK
  <2>2. plan' \in [Users -> Hashes \cup {Nothing}]
    BY <1>12, <2>1 DEF Observe, TypeOK
  <2>3. MemoryOK'
    BY <1>12, ReturnType DEF Observe
  <2>4. QED  BY <1>12, <2>2, <2>3 DEF Observe, TypeOK, MemoryOK
<1>13. ASSUME NEW u \in Users, Run(u)  PROVE TypeOK'
  <2>1. /\ plan' \in [Users -> Hashes \cup {Nothing}] /\ tf' \in [Users -> Hashes \cup {Nothing}]
        /\ ch' \in [Users -> Hashes \cup {UnknownHash, NoUser}]
    BY <1>13 DEF Run, TypeOK
  <2>2. faults' \in 0..MaxFaults
    BY <1>13, PasswordFault DEF Run
  <2>3. QED  BY <1>3, <1>13, <2>1, <2>2 DEF Run, TypeOK, MemoryOK
<1>14. CASE CacheSync
  BY <1>3, <1>14 DEF CacheSync, TypeOK, MemoryOK
<1>15. CASE Crash
  <2>1. MemoryOK'
    BY <1>15, SecretTypes DEF Crash, MemoryOK, PCs
  <2>2. /\ plan' \in [Users -> Hashes \cup {Nothing}] /\ tf' \in [Users -> Hashes \cup {Nothing}]
    BY <1>15 DEF Crash, TypeOK
  <2>3. faults' \in 0..MaxFaults
    BY <1>15, PasswordFault DEF Crash
  <2>4. QED  BY <1>15, <2>1, <2>2, <2>3 DEF Crash, TypeOK, MemoryOK
<1>16. CASE Rotate
  <2>1. secret' \in Secrets /\ owned' \in Passwords /\ last' \in Nat
    <3>1. CASE SecretKey = "hash"
      BY <1>4, <1>16, <3>1, SecretRotated, SecretType DEF Values
    <3>2. CASE SecretKey # "hash"
      BY <1>4, <1>16, <3>2, SecretRotated, SecretType
    <3>3. QED  BY <3>1, <3>2
  <2>2. edits' \in 0..MaxEdits
    BY <1>16, PasswordEdit DEF Rotate
  <2>3. QED  BY <1>3, <1>16, <2>1, <2>2 DEF Rotate, TypeOK, MemoryOK
<1>17. CASE DeleteSecret
  <2>1. secret' \in Secrets
    BY <1>4, <1>17, SecretTypes DEF DeleteSecret, Secrets
  <2>2. edits' \in 0..MaxEdits
    BY <1>17, PasswordEdit DEF DeleteSecret
  <2>3. QED  BY <1>3, <1>17, <2>1, <2>2 DEF DeleteSecret, TypeOK, MemoryOK
<1>18. CASE DeleteHash
  <2>1. secret' \in Secrets
    BY <1>18, HashDeleted, SecretTypes DEF TypeOK
  <2>2. edits' \in 0..MaxEdits
    BY <1>18, PasswordEdit DEF DeleteHash
  <2>3. QED  BY <1>3, <1>18, <2>1, <2>2 DEF DeleteHash, TypeOK, MemoryOK
<1>19. ASSUME NEW u \in Users, Manage(u)  PROVE TypeOK'
  BY <1>3, <1>19 DEF Manage, TypeOK, MemoryOK
<1>20. CASE UNCHANGED vars
  BY <1>3, <1>20 DEF vars, TypeOK, MemoryOK
<1>21. QED
  BY <1>5, <1>6, <1>7, <1>8, <1>9, <1>10, <1>11, <1>12, <1>13, <1>14, <1>15, <1>16,
     <1>17, <1>18, <1>19, <1>20
  DEF Next, Reconcile, Environment

-----------------------------------------------------------------------------
(* Versions, and the plaintext.                                            *)

LEMMA OrderedInit == Init => CopiesOrdered
<1> SUFFICES ASSUME Init  PROVE CopiesOrdered
  OBVIOUS
<1>1. secret.ver = 0 /\ cached = secret /\ pc = [u \in Users |-> "idle"]
  BY DEF Init
<1>2. QED  BY <1>1 DEF CopiesOrdered, Ordered

\* A write of the secret makes every copy an older one.
LEMMA OlderThanWritten ==
  ASSUME TypeOK, NEW s \in Secrets, Ordered(s), secret'.ver = secret.ver + 1
  PROVE  s.ver < secret'.ver
BY SecretTypes DEF TypeOK, Ordered

LEMMA OrderedNext ==
  ASSUME TypeOK, CopiesOrdered, [Next]_vars  PROVE CopiesOrdered'
<1>1. /\ cached \in Secrets /\ secret \in Secrets /\ secret.ver \in Nat
      /\ \A u \in Users : copy[u] \in Secrets
  BY SecretTypes DEF TypeOK
<1>2. ASSUME UNCHANGED <<secret, cached, method>>,
             \A v \in Users :
               \/ method = "generate" \/ pc'[v] \notin {"fetch", "apply"}
               \/ pc'[v] = pc[v] /\ copy'[v] = copy[v]
               \/ /\ pc'[v] = "apply" /\ copy'[v] = cached
                  /\ cached.there /\ cached.data[SecretKey] # Nothing
      PROVE  CopiesOrdered'
  BY <1>2 DEF CopiesOrdered, Ordered
<1>3. ASSUME secret'.ver = secret.ver + 1, UNCHANGED <<cached, method>>,
             \A v \in Users :
               \/ method = "generate" \/ pc'[v] \notin {"fetch", "apply"}
               \/ pc'[v] = pc[v] /\ copy'[v] = copy[v]
      PROVE  CopiesOrdered'
  BY <1>1, <1>3, SecretTypes DEF CopiesOrdered, Ordered
<1>4. ASSUME NEW u \in Users, Go(u, "idle") \/ Go(u, "read") \/ Go(u, "observe"),
             copy' = copy \/ copy' = [copy EXCEPT ![u] = Absent]
      PROVE  \A v \in Users : \/ pc'[v] \notin {"fetch", "apply"}
                              \/ pc'[v] = pc[v] /\ copy'[v] = copy[v]
  BY <1>4 DEF Go, TypeOK
<1>5. ASSUME NEW u \in Users, Start(u) \/ Fail(u) \/ Observe(u)  PROVE CopiesOrdered'
  BY <1>2, <1>4, <1>5 DEF Start, Fail, Observe, Return
<1>6. ASSUME NEW u \in Users, ReadRef(u)  PROVE CopiesOrdered'
  <2>1. CASE Return(u) \/ setPasswordHashSecretRef(u)
    BY <1>2, <1>4, <1>6, <2>1 DEF ReadRef, Return, setPasswordHashSecretRef
  <2>2. CASE /\ Go(u, "apply") /\ copy' = [copy EXCEPT ![u] = cached]
             /\ cached.there /\ cached.data[SecretKey] # Nothing
    BY <1>2, <1>6, <2>2 DEF ReadRef, Go, TypeOK
  <2>3. QED  BY <1>6, <2>1, <2>2 DEF ReadRef
<1>7. ASSUME NEW u \in Users, CheckHash(u)  PROVE CopiesOrdered'
  BY <1>2, <1>7 DEF CheckHash
<1>8. ASSUME NEW u \in Users, Fetch(u)  PROVE CopiesOrdered'
  <2>1. method = "generate"
    BY <1>8, PasswordsAssumption DEF Fetch, CopiesOrdered, TypeOK
  <2>2. QED  BY <1>2, <1>8, <2>1 DEF Fetch
<1>9. ASSUME NEW u \in Users, ApplyHash(u) \/ ApplyPassword(u)  PROVE CopiesOrdered'
  <2>1. UNCHANGED secret \/ secret'.ver = secret.ver + 1
    BY <1>9, HashWritten, PasswordWritten, SecretData
  <2>2. Return(u) \/ setPasswordHashSecretRef(u)
    BY <1>9 DEF ApplyHash, ApplyPassword
  <2>3. \A v \in Users : \/ pc'[v] \notin {"fetch", "apply"}
                         \/ pc'[v] = pc[v] /\ copy'[v] = copy[v]
    BY <1>4, <2>2 DEF Return, setPasswordHashSecretRef
  <2>4. UNCHANGED <<cached, method>>
    BY <1>9 DEF ApplyHash, ApplyPassword
  <2>5. QED  BY <1>2, <1>3, <2>1, <2>3, <2>4
<1>10. ASSUME NEW u \in Users, Run(u) \/ Manage(u)  PROVE CopiesOrdered'
  <2>1. UNCHANGED <<secret, cached, method, pc, copy>>
    BY <1>10 DEF Run, Manage, memory
  <2>2. \A v \in Users : pc'[v] = pc[v] /\ copy'[v] = copy[v]
    BY <2>1
  <2>3. QED  BY <1>2, <2>1, <2>2
<1>11. CASE CacheSync
  BY <1>1, <1>11 DEF CacheSync, memory, CopiesOrdered, Ordered
<1>12. CASE Crash
  BY <1>2, <1>12 DEF Crash
<1>13. CASE Rotate \/ DeleteSecret \/ DeleteHash
  <2>1. secret'.ver = secret.ver + 1
    BY <1>13, SecretRotated, SecretData, HashDeleted DEF DeleteSecret, Absent
  <2>2. UNCHANGED <<cached, method, pc, copy>>
    BY <1>13 DEF Rotate, DeleteSecret, DeleteHash, memory
  <2>3. QED  BY <1>3, <2>1, <2>2
<1>14. CASE UNCHANGED vars
  BY <1>2, <1>14 DEF vars, memory
<1>15. QED
  BY <1>5, <1>6, <1>7, <1>8, <1>9, <1>10, <1>11, <1>12, <1>13, <1>14
  DEF Next, Reconcile, Environment

LEMMA KeptInit == Init => PlaintextKept
BY PasswordsAssumption DEF Init, PlaintextKept, Empty

LEMMA KeptNext ==
  ASSUME TypeOK, CopiesOrdered, PlaintextKept, [Next]_vars
  PROVE  PlaintextKept'
<1>1. ASSUME secret'.data[SecretKey].pw = secret.data[SecretKey].pw,
             SecretKey # "hash" => secret'.data[SecretKey] = secret.data[SecretKey],
             UNCHANGED <<method, owned>>
      PROVE  PlaintextKept'
  BY <1>1 DEF PlaintextKept
<1>2. ASSUME NEW u \in Users, ApplyHash(u)  PROVE PlaintextKept'
  <2>1. /\ secret'.data[SecretKey].pw = secret.data[SecretKey].pw
        /\ SecretKey # "hash" => secret'.data[SecretKey] = secret.data[SecretKey]
    <3>1. CASE UNCHANGED secret
      BY <3>1
    <3>2. CASE secret' # secret
      <4>1. secret'.data[SecretKey] = IF SecretKey = "hash" THEN Hash(secret.data[SecretKey])
                                                            ELSE secret.data.password
        BY <1>2, <3>2, HashWritten, SecretData
      <4>2. Hash(secret.data[SecretKey]).pw = secret.data[SecretKey].pw
        BY <1>2, <3>2, HashWritten, ValueTypes
      <4>3. QED  BY <4>1, <4>2, PasswordsAssumption
    <3>3. QED  BY <3>1, <3>2
  <2>2. QED  BY <1>1, <1>2, <2>1 DEF ApplyHash
<1>3. ASSUME NEW u \in Users, ApplyPassword(u)  PROVE PlaintextKept'
  BY <1>3 DEF ApplyPassword, PlaintextKept
<1>4. CASE Rotate
  <2>1. secret'.data[SecretKey] = owned'
    BY <1>4, SecretRotated, SecretData
  <2>2. QED  BY <2>1 DEF PlaintextKept
<1>5. CASE DeleteSecret
  <2>1. secret'.data[SecretKey] = Nothing /\ owned' = Nothing
    BY <1>5, PasswordsAssumption DEF DeleteSecret, Absent, Empty
  <2>2. QED  BY <2>1 DEF PlaintextKept
<1>6. CASE DeleteHash
  BY <1>1, <1>6, HashDeleted DEF DeleteHash
<1>7. CASE UNCHANGED <<secret, method, owned>>
  BY <1>1, <1>7
<1>8. QED
  BY <1>2, <1>3, <1>4, <1>5, <1>6, <1>7
  DEF Next, Reconcile, Environment, vars, Start, ReadRef, CheckHash, Fetch, Fail, Observe, Run,
    Manage, CacheSync, Crash

-----------------------------------------------------------------------------
(* The age of passwords.                                                   *)

LEMMA Numbers ==
  ASSUME TypeOK
  PROVE  /\ last \in Nat
         /\ secret.data.password \in Passwords \cup {Nothing}
         /\ secret.data[SecretKey] \in Values \cup {Nothing}
         /\ secret.data.hash \in Hashes \cup {Nothing}
         /\ cached.data.hash \in Hashes \cup {Nothing}
         /\ secret.data[SecretKey].pw \in Nat /\ secret.data.hash.pw \in Nat
         /\ cached.data.hash.pw \in Nat
         /\ \A u \in Users : ch[u].pw \in Nat /\ plan[u].pw \in Nat
<1>1. /\ secret \in Secrets /\ cached \in Secrets /\ last \in Nat
      /\ \A u \in Users : /\ ch[u] \in Hashes \cup {UnknownHash, NoUser}
                         /\ plan[u] \in Hashes \cup {Nothing}
  BY DEF TypeOK
<1>2. QED  BY <1>1, SecretTypes, ValueTypes DEF Values

LEMMA AgedInit == Init => Aged
<1> SUFFICES ASSUME Init  PROVE Aged
  OBVIOUS
<1>1. /\ \A u \in Users : ch[u].pw = 0 /\ plan[u] = Nothing
      /\ Nothing.pw = 0 /\ Plain(1).pw = 1
  BY DEF Init, NoUser, UnknownHash, Nothing, Plain
<1>2. /\ secret.data.hash \in {Nothing, secret.data[SecretKey]} /\ cached = secret
      /\ \/ secret.data[SecretKey] = Nothing /\ last = 0
         \/ secret.data[SecretKey] = Plain(1) /\ last = 1
  BY PasswordsAssumption DEF Init, Empty
<1>3. QED  BY <1>1, <1>2 DEF Aged, NotBefore

\* What the five kinds of steps do to the age of passwords: the secret is written
\* anew, hashed, deleted in whole or in part; the cache catches up; a hash is
\* handed out; a hash arrives.
LEMMA AgedNext ==
  ASSUME TypeOK, CopiesOrdered, Aged, [Next]_vars  PROVE Aged'
<1> USE DEF Aged, NotBefore
<1>1. /\ Nothing.pw = 0 /\ Nothing \notin Passwords /\ Nothing \notin Hashes
      /\ \A v \in Passwords : Hash(v).pw = v.pw /\ Hash(v) \in Hashes
      /\ Plain(last + 1).pw = last + 1 /\ last \in Nat
  BY ValueTypes DEF TypeOK
<1>2. CASE UNCHANGED <<secret, cached, plan, ch, last>>
  BY <1>2
<1>3. ASSUME last' = last + 1, UNCHANGED <<cached, plan, ch>>,
             secret'.data[SecretKey].pw = last',
             \/ secret'.data.hash.pw = last'
             \/ secret'.data.hash = secret.data.hash
      PROVE  Aged'
  BY <1>1, <1>3, Numbers
<1>4. ASSUME NEW u \in Users, ApplyHash(u)  PROVE Aged'
  <2>1. CASE UNCHANGED secret
    BY <1>2, <1>4, <2>1 DEF ApplyHash
  <2>2. CASE secret' # secret
    <3> DEFINE k == secret.data[SecretKey]
    <3>1. k \in Values /\ secret' = Secret(secret.data.password, Hash(k))
      BY <1>4, <2>2, HashWritten
    <3>2. /\ secret'.data.hash = Hash(k)
          /\ secret'.data[SecretKey] = IF SecretKey = "hash" THEN Hash(k) ELSE k
      BY <3>1, SecretData, PasswordsAssumption
    <3>3. Hash(k).pw = k.pw /\ k # Nothing
      BY <3>1, ValueTypes DEF Values
    <3>4. secret'.data.hash.pw = k.pw /\ secret'.data[SecretKey].pw = k.pw
      BY <3>2, <3>3
    <3> HIDE DEF k
    <3>5. UNCHANGED <<cached, plan, ch, last>>
      BY <1>4 DEF ApplyHash
    <3>6. QED  BY <1>1, <3>3, <3>4, <3>5, Numbers DEF k
  <2>3. QED  BY <2>1, <2>2
<1>5. ASSUME NEW u \in Users, ApplyPassword(u)  PROVE Aged'
  <2>1. CASE UNCHANGED <<secret, last>>
    BY <1>2, <1>5, <2>1 DEF ApplyPassword
  <2>2. CASE /\ last' = last + 1 /\ Plain(last') \in Passwords
             /\ secret' = Secret(Plain(last'), Hash(Plain(last')))
    <3>1. Plain(last').pw = last' /\ Hash(Plain(last')).pw = last'
      BY <2>2, ValueTypes DEF Plain
    <3>2. secret'.data[SecretKey].pw = last' /\ secret'.data.hash.pw = last'
      BY <2>2, <3>1, SecretData
    <3>3. QED  BY <1>3, <1>5, <2>2, <3>2 DEF ApplyPassword
  <2>3. QED  BY <1>5, <2>1, <2>2, PasswordWritten
<1>6. CASE Rotate
  <2>1. Plain(last').pw = last'
    BY DEF Plain
  <2>2. secret'.data[SecretKey].pw = last'
    BY <1>6, <2>1, SecretRotated, SecretData
  <2>3. secret'.data.hash.pw = last' \/ secret'.data.hash = secret.data.hash
    BY <1>6, <2>1, SecretRotated, SecretData
  <2>4. QED  BY <1>3, <1>6, <2>2, <2>3, SecretRotated DEF Rotate
<1>7. CASE DeleteSecret
  <2>1. secret'.data[SecretKey] = Nothing /\ secret'.data.hash = Nothing
    BY <1>7, PasswordsAssumption DEF DeleteSecret, Absent, Empty
  <2>2. QED  BY <1>1, <1>7, <2>1, Numbers DEF DeleteSecret
<1>8. CASE DeleteHash
  BY <1>1, <1>8, Numbers, HashDeleted DEF DeleteHash
<1>9. CASE CacheSync
  BY <1>1, <1>9, Numbers DEF CacheSync
<1>10. ASSUME NEW u \in Users, Observe(u)  PROVE Aged'
  BY <1>1, <1>10, Numbers DEF Observe, TypeOK
<1>11. ASSUME NEW u \in Users, Run(u)  PROVE Aged'
  <2>1. UNCHANGED <<secret, cached, last>> /\ plan[u] # Nothing
    BY <1>11 DEF Run
  <2>2. \A w \in Users :
          /\ ch'[w] = ch[w] \/ ch'[w] = plan[w]
          /\ plan'[w] = Nothing \/ (plan'[w] = plan[w] /\ ch'[w] = ch[w])
    BY <1>11 DEF Run, TypeOK
  <2>3. \A w \in Users : ch'[w].pw <= last /\ plan'[w].pw <= last
    BY <1>1, <2>2
  <2>4. ASSUME NEW h, h # Nothing, NotBefore(h), h.pw \in Nat, NEW w \in Users
        PROVE  ch'[w].pw <= h.pw /\ plan'[w].pw <= h.pw
    BY <1>1, <2>2, <2>4
  <2>5. \A w \in Users : plan'[w] # Nothing => ch'[w].pw <= plan'[w].pw
    BY <2>2
  <2>6. QED  BY <2>1, <2>3, <2>4, <2>5, Numbers
<1>12. CASE Crash
  BY <1>1, <1>12, Numbers DEF Crash
<1>13. QED
  BY <1>2, <1>4, <1>5, <1>6, <1>7, <1>8, <1>9, <1>10, <1>11, <1>12
  DEF Next, Reconcile, Environment, vars, Start, ReadRef, CheckHash, Fetch, Fail, Manage

\* Only the end of an operation changes what ClickHouse has.
LEMMA NoRollbackStep ==
  ASSUME TypeOK, Aged, [Next]_vars
  PROVE  \A u \in Users : ch'[u] # ch[u] => ch'[u].pw >= ch[u].pw
<1>1. ASSUME NEW v \in Users, Run(v), NEW u \in Users, ch'[u] # ch[u]
      PROVE  ch'[u].pw >= ch[u].pw
  BY <1>1, Numbers DEF Run, Aged, TypeOK
<1>2. CASE UNCHANGED ch
  BY <1>2
<1>3. QED
  BY <1>1, <1>2
  DEF Next, Reconcile, Environment, vars, Start, ReadRef, CheckHash, Fetch, ApplyHash,
    ApplyPassword, Fail, Observe, Manage, CacheSync, Crash, Rotate, DeleteSecret, DeleteHash

-----------------------------------------------------------------------------
(* Observed users.                                                         *)

LEMMA UnmanagedNext ==
  ASSUME TypeOK, UnmanagedIdle, [Next]_vars  PROVE UnmanagedIdle'
<1> USE DEF UnmanagedIdle
<1>0. /\ pc = [u \in Users |-> pc[u]] /\ plan = [u \in Users |-> plan[u]]
      /\ ch = [u \in Users |-> ch[u]]
  BY DEF TypeOK
<1> USE <1>0
<1>1. ASSUME NEW u \in Users, policy[u] = "Managed",
             \A v \in Users \ {u} : pc'[v] = pc[v] /\ plan'[v] = plan[v] /\ ch'[v] = ch[v],
             UNCHANGED policy
      PROVE  UnmanagedIdle'
  BY <1>1
<1>2. CASE UNCHANGED <<pc, plan, ch, policy>>
  BY <1>2
<1>3. ASSUME NEW u \in Users, Start(u)  PROVE UnmanagedIdle'
  BY <1>1, <1>3 DEF Start, Go
<1>4. ASSUME NEW u \in Users, Reconcile(u) \/ Fail(u), pc[u] # "idle"  PROVE UnmanagedIdle'
  <2>1. policy[u] = "Managed" /\ UNCHANGED <<policy, ch>>
    BY <1>4 DEF Reconcile, Fail, Start, ReadRef, CheckHash, Fetch, ApplyHash, ApplyPassword, Observe
  <2>2. \E l \in PCs : Go(u, l)
    BY <1>4 DEF Reconcile, Fail, Start, ReadRef, CheckHash, Fetch, ApplyHash, ApplyPassword,
      Observe, Return, setPasswordHashSecretRef, PCs
  <2>3. plan' = plan \/ plan' = [plan EXCEPT ![u] = cached.data.hash]
    BY <1>4 DEF Reconcile, Fail, Start, ReadRef, CheckHash, Fetch, ApplyHash, ApplyPassword, Observe
  <2>4. QED  BY <1>1, <2>1, <2>2, <2>3 DEF Go
<1>5. ASSUME NEW u \in Users, Reconcile(u)  PROVE pc[u] = "idle" => Start(u)
  BY <1>5 DEF Reconcile, ReadRef, CheckHash, Fetch, ApplyHash, ApplyPassword, Observe
<1>6. ASSUME NEW u \in Users, Run(u)  PROVE UnmanagedIdle'
  BY <1>1, <1>6 DEF Run, memory
<1>7. CASE Crash
  BY <1>7 DEF Crash
<1>8. ASSUME NEW u \in Users, Manage(u)  PROVE UnmanagedIdle'
  BY <1>8 DEF Manage, memory
<1>9. CASE CacheSync \/ Rotate \/ DeleteSecret \/ DeleteHash
  BY <1>2, <1>9 DEF CacheSync, Rotate, DeleteSecret, DeleteHash, memory
<1>10. CASE UNCHANGED vars
  BY <1>2, <1>10 DEF vars, memory
<1>11. ASSUME NEW u \in Users, Fail(u)  PROVE pc[u] # "idle"
  BY <1>11 DEF Fail
<1>12. QED
  BY <1>3, <1>4, <1>5, <1>6, <1>7, <1>8, <1>9, <1>10, <1>11 DEF Next, Environment

-----------------------------------------------------------------------------
(* The refinement of Rollout: what each step is, seen from outside.        *)

LEMMA PromiseInit == SecretKey = "password" /\ Init => Promise!Init
<1> SUFFICES ASSUME SecretKey = "password", Init  PROVE Promise!Init
  OBVIOUS
<1>1. /\ Nothing.pw = 0 /\ Plain(1).pw = 1 /\ NoUser.pw = 0 /\ UnknownHash.pw = 0
      /\ Empty.hash = Nothing /\ Empty.password = Nothing
      /\ [Empty EXCEPT !["password"] = Plain(1)] = [password |-> Plain(1), hash |-> Nothing]
  BY DEF Nothing, Plain, NoUser, UnknownHash, Empty
<1>2. /\ last \in {0, 1} /\ secret.data["password"].pw = last /\ secret.data.hash.pw = 0
  BY <1>1 DEF Init
<1>3. \A u \in Users : ch[u].pw = 0
  BY <1>1 DEF Init
<1>4. policy \in [Users -> {"Observe", "Managed", "none"}]
  BY DEF Init
<1>5. QED  BY <1>2, <1>3, <1>4 DEF Promise!Init

\* Where secret, passwords and users stay, nothing is seen.
LEMMA PromiseUnseen ==
  ASSUME UNCHANGED <<policy, last, secret, ch>>  PROVE UNCHANGED Promise!vars
BY DEF Promise!vars

\* A hash is written: it is that of the password that is there.
LEMMA PromiseOffer ==
  ASSUME SecretKey = "password", PasswordInv, NEW u \in Users, ApplyHash(u)
  PROVE  Promise!Offer \/ UNCHANGED Promise!vars
<1>1. UNCHANGED <<policy, last, ch>>
  BY DEF ApplyHash
<1>2. CASE UNCHANGED secret
  BY <1>1, <1>2, PromiseUnseen
<1>3. CASE secret' # secret
  <2> DEFINE p == secret.data.password
  <2>1. p \in Passwords /\ secret' = Secret(p, Hash(p))
    BY <1>3, HashWritten DEF PasswordInv, Values
  <2>2. secret'.data.password = p /\ secret'.data.hash = Hash(p)
    BY <2>1 DEF Secret
  <2>3. p.pw # 0 /\ Hash(p).pw = p.pw
    BY <2>1, ValueTypes DEF Passwords
  <2>4. QED  BY <1>1, <2>2, <2>3 DEF Promise!Offer
<1>4. QED  BY <1>2, <1>3

LEMMA PromiseGenerate ==
  ASSUME SecretKey = "password", PasswordInv, NEW u \in Users, ApplyPassword(u)
  PROVE  Promise!Generate \/ UNCHANGED Promise!vars
<1>1. UNCHANGED <<policy, ch>>
  BY DEF ApplyPassword
<1>2. CASE UNCHANGED <<secret, last>>
  BY <1>1, <1>2, PromiseUnseen
<1>3. CASE /\ last' = last + 1 /\ Plain(last') \in Passwords
           /\ secret' = Secret(Plain(last'), Hash(Plain(last')))
  <2>1. secret'.data.password = Plain(last') /\ secret'.data.hash = Hash(Plain(last'))
    BY <1>3 DEF Secret
  <2>2. Plain(last').pw = last' /\ Hash(Plain(last')).pw = last'
    BY <1>3, ValueTypes DEF Plain
  <2>3. QED  BY <1>1, <1>3, <2>1, <2>2 DEF Promise!Generate
<1>4. QED  BY <1>2, <1>3, PasswordWritten DEF PasswordInv

LEMMA PromiseRotate ==
  ASSUME SecretKey = "password", PasswordInv, Rotate  PROVE Promise!Rotate
<1>1. last' = last + 1 /\ secret' = Secret(Plain(last'), secret.data.hash)
  BY SecretRotated DEF PasswordInv
<1>2. secret'.data.password = Plain(last') /\ secret'.data.hash = secret.data.hash
  BY <1>1 DEF Secret
<1>3. UNCHANGED <<policy, ch>> /\ Plain(last').pw = last'
  BY DEF Rotate, Plain
<1>4. QED  BY <1>1, <1>2, <1>3 DEF Promise!Rotate

LEMMA PromiseWithdraw ==
  ASSUME SecretKey = "password", PasswordInv, DeleteSecret \/ DeleteHash
  PROVE  Promise!Withdraw
<1>1. UNCHANGED <<policy, last, ch>>
  BY DEF DeleteSecret, DeleteHash
<1>2. /\ secret'.data.hash = Nothing
      /\ secret'.data.password = Nothing \/ secret'.data.password = secret.data.password
  BY HashDeleted, SecretTypes DEF DeleteSecret, PasswordInv, Absent, Empty
<1>3. Nothing.pw = 0
  BY DEF Nothing, Plain
<1>4. QED  BY <1>1, <1>2, <1>3 DEF Promise!Withdraw

\* What arrives in ClickHouse is what its user has, or later.
LEMMA PromiseApply ==
  ASSUME PasswordInv, UnmanagedIdle, NEW u \in Users, Run(u)
  PROVE  Promise!Apply(u) \/ UNCHANGED Promise!vars
<1>1. UNCHANGED <<policy, last, secret>> /\ plan[u] # Nothing
  BY DEF Run
<1>2. CASE ch' = ch
  BY <1>1, <1>2, PromiseUnseen
<1>3. CASE ch' = [ch EXCEPT ![u] = plan[u]]
  <2>1. policy[u] = "Managed"
    BY <1>1 DEF UnmanagedIdle
  <2>2. /\ ch[u].pw \in Nat /\ plan[u].pw \in Nat /\ last \in Nat
        /\ ch[u].pw <= plan[u].pw /\ plan[u].pw <= last
    BY <1>1, Numbers DEF PasswordInv, Aged
  <2>3. \A v \in Users : ch'[v].pw = IF v = u THEN plan[u].pw ELSE ch[v].pw
    BY <1>3 DEF PasswordInv, TypeOK
  <2>4. CASE plan[u].pw = ch[u].pw
    <3>1. [v \in Users |-> ch'[v].pw] = [v \in Users |-> ch[v].pw]
      BY <2>3, <2>4
    <3>2. QED  BY <1>1, <3>1 DEF Promise!vars
  <2>5. CASE plan[u].pw # ch[u].pw
    <3>1. plan[u].pw \in (ch[u].pw + 1)..last
      BY <2>2, <2>5
    <3>2. [v \in Users |-> ch'[v].pw] = [[v \in Users |-> ch[v].pw] EXCEPT ![u] = plan[u].pw]
      BY <2>3
    <3>3. QED  BY <1>1, <2>1, <3>1, <3>2 DEF Promise!Apply
  <2>6. QED  BY <2>4, <2>5
<1>4. QED  BY <1>2, <1>3 DEF Run

LEMMA PromiseNext ==
  ASSUME SecretKey = "password", PasswordInv, UnmanagedIdle, [Next]_vars
  PROVE  [Promise!Next]_(Promise!vars)
<1>1. ASSUME NEW u \in Users, Manage(u)  PROVE Promise!Manage(u)
  BY <1>1 DEF Manage, Promise!Manage
<1>2. CASE UNCHANGED <<policy, last, secret, ch>>
  BY <1>2, PromiseUnseen
<1>3. CASE \E u \in Users : ApplyHash(u) \/ ApplyPassword(u)
  BY <1>3, PromiseOffer, PromiseGenerate DEF Promise!Next
<1>4. CASE Rotate \/ DeleteSecret \/ DeleteHash
  BY <1>4, PromiseRotate, PromiseWithdraw DEF Promise!Next
<1>5. CASE \E u \in Users : Run(u) \/ Manage(u)
  BY <1>1, <1>5, PromiseApply DEF Promise!Next
<1>6. QED
  BY <1>2, <1>3, <1>4, <1>5
  DEF Next, Reconcile, Environment, vars, Start, ReadRef, CheckHash, Fetch, Fail, Observe,
    CacheSync, Crash

-----------------------------------------------------------------------------
(* The theorems.                                                           *)

LEMMA InvInit == Init => PasswordInv
BY PasswordTypeInit, OrderedInit, KeptInit, AgedInit DEF PasswordInv

LEMMA InvNext == PasswordInv /\ [Next]_vars => PasswordInv'
BY PasswordTypeNext, OrderedNext, KeptNext, AgedNext DEF PasswordInv

LEMMA IdleAlways == Spec => []UnmanagedIdle
<1>1. Init => UnmanagedIdle
  BY DEF Init, UnmanagedIdle
<1>2. PasswordInv /\ UnmanagedIdle /\ [Next]_vars => UnmanagedIdle'
  BY UnmanagedNext DEF PasswordInv
<1>3. QED  BY <1>1, <1>2, InvInit, InvNext, PTL DEF Spec

\* The variables of Passwords have their types; in particular the hash of a secret is
\* a password hashed once, unless the owner chose its key for the plaintext
\* (password_generator.go:268-274).
THEOREM TypeCorrect == Spec => []TypeOK
BY InvInit, InvNext, PTL DEF Spec, PasswordInv

\* Whatever key the owner chose, the password under it stays the owner's last one, in
\* plaintext unless the key is "hash", where the hash replaces it
\* (password_generator.go:106-109, 120-123, 268-274).
THEOREM PlaintextStays == Spec => []PlaintextKept
BY InvInit, InvNext, PTL DEF Spec, PasswordInv

\* Whatever the key, no password is rolled back (password_generator.go:126-128).
THEOREM NeverRolledBack == Spec => NoRollback
<1>1. PasswordInv /\ [Next]_vars =>
        [\A u \in Users : ch'[u] # ch[u] => ch'[u].pw >= ch[u].pw]_vars
  BY NoRollbackStep DEF PasswordInv
<1>2. QED  BY <1>1, InvInit, InvNext, PTL DEF Spec, NoRollback

\* A user that is only observed keeps its password
\* (docs/user-import-workflow.md:34-39).
THEOREM ObservedStays == Spec => []ObservedUntouched
<1>1. UnmanagedIdle => ObservedUntouched
  BY DEF UnmanagedIdle, ObservedUntouched
<1>2. QED  BY <1>1, IdleAlways, PTL

\* Whatever the order of reconciles, stale caches, retries and restarts, all that is
\* seen of the provider is that it hashes the password that is there, or generates
\* one, and gives managed users later ones, where the plaintext has a key other than
\* that of the hash (password_generator.go:79-130, 205-240).
THEOREM ImplementsRollout == ASSUME SecretKey = "password"  PROVE Spec => KeepsRollout
<1>1. Init => Promise!Init
  BY PromiseInit
<1>2. PasswordInv /\ UnmanagedIdle /\ [Next]_vars => [Promise!Next]_(Promise!vars)
  BY PromiseNext
<1>3. QED
  BY <1>1, <1>2, IdleAlways, InvInit, InvNext, PTL DEF Spec, KeepsRollout, Promise!Spec
=============================================================================
