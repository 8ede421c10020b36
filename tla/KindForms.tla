----------------------------- MODULE KindForms -----------------------------
(***************************************************************************)
(* The forms that upjet and angryjet fill in for every kind: a controller, *)
(* an API type, the Terraform methods and a reference resolver.  Fields go *)
(* by their JSON names, resources by their names after "clickhousedbops_". *)
(***************************************************************************)
EXTENDS Sequences

Places == {"forProvider", "initProvider"}

\* A controller: the CRDs its gate waits for and those it watches, the resource
\* whose configuration it takes, and where its initializers come from: the
\* configuration, the name of the object, or nowhere.
Controller(kind, resource, initializers) ==
  [gate |-> {kind}, watches |-> {kind}, resource |-> resource,
   initializers |-> initializers]

\* The fields of an API type: required by its validation rules, shared by
\* forProvider, initProvider and status, in forProvider and status only
\* (identifiers), in forProvider only (local), references to secrets, in status
\* only (computed).
NoFields == [required |-> {}, shared |-> {}, identifiers |-> {}, local |-> {},
             secrets |-> {}, computed |-> {"id"}]

Fields(type, place) ==
  type.shared \cup type.secrets
    \cup IF place = "forProvider" THEN type.identifiers \cup type.local ELSE {}

Observed(type) == type.shared \cup type.identifiers \cup type.computed

\* The API server: a required field is given in either place.  The schema demands
\* an identifier in forProvider.
Admitted(type, given) ==
  /\ \A p \in Places : given[p] \subseteq Fields(type, p)
  /\ \A f \in type.required : \E p \in Places : f \in given[p]

\* The Terraform methods: whether merging initProvider into forProvider overwrites
\* what is set there, and the fields that late initialization leaves out.
Terraformed(resource, version, secrets) ==
  [resource |-> resource, version |-> version, secrets |-> secrets,
   overwrite |-> FALSE, notInitialized |-> {}]

\* The paths of the values that the methods of an auth block keep in secrets.
AuthSecrets(methods) ==
  {<<"auth", m, s>> : m \in methods, s \in {"valueSecretRef", "valueWoSecretRef"}}

\* The references of a resolver in its order, forProvider first.
InPlace(place, refs) ==
  [i \in DOMAIN refs |-> [place |-> place, field |-> refs[i][1], to |-> refs[i][2]]]
InForProvider(refs) == InPlace("forProvider", refs)
InBoth(refs) == InPlace("forProvider", refs) \o InPlace("initProvider", refs)
=============================================================================
