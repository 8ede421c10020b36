------------------------------- MODULE Kinds -------------------------------
(***************************************************************************)
(* The kinds of the provider in both flavours: what is generated for each  *)
(* and what the repository configures for it, and the assumptions that the *)
(* generated files agree with the configuration and with each other.       *)
(***************************************************************************)
EXTENDS KindForms, ResourceConfigs

C == INSTANCE ClusterKinds
N == INSTANCE NamespacedKinds

Flavours == {"cluster", "namespaced"}

Controllers == [cluster |-> C!Controllers, namespaced |-> N!Controllers]
Types       == [cluster |-> C!Types, namespaced |-> N!Types]
Terraform   == [cluster |-> C!Terraform, namespaced |-> N!Terraform]
Resolvers   == [cluster |-> C!Resolvers, namespaced |-> N!Resolvers]

ManagedKinds    == DOMAIN C!Types
ControllerNames == ManagedKinds \cup {"ProviderConfig"}

ResolverOf(flavour, kind) ==
  IF kind \in DOMAIN Resolvers[flavour] THEN Resolvers[flavour][kind] ELSE <<>>

RefFields(flavour, kind) ==
  {ResolverOf(flavour, kind)[i].field : i \in DOMAIN ResolverOf(flavour, kind)}

\* The kind a field refers to, as it is configured.
Target(flavour, kind, field) ==
  LET resource == Terraform[flavour][kind].resource
      ref      == CHOOSE r \in Configure[resource].references : r[1] = field
  IN gvkOverride[ref[2]]

\* The initializers a kind's controller runs.
InitializersOf(flavour, kind) ==
  LET c == Controllers[flavour][kind]
      s == IF c.initializers = "configured" THEN Configure[c.resource].initializers ELSE <<>>
  IN {s[i] : i \in DOMAIN s}

-----------------------------------------------------------------------------

\* Both flavours have a controller, a type and the same Terraform methods for every
\* kind.
ASSUME SameKinds ==
  /\ Terraform["cluster"] = Terraform["namespaced"] /\ DOMAIN C!Terraform = ManagedKinds
  /\ \A flavour \in Flavours :
       DOMAIN Types[flavour] = ManagedKinds /\ DOMAIN Controllers[flavour] = ControllerNames
  /\ \A flavour \in Flavours, k \in ManagedKinds :
       LET resource == Controllers[flavour][k].resource
       IN resource = Terraform[flavour][k].resource /\ gvkOverride[resource] = k

\* No configured initializer is left out of a generated controller.
ASSUME InitializersRun ==
  \A flavour \in Flavours, k \in ManagedKinds :
    LET resource == Terraform[flavour][k].resource
    IN /\ Controllers[flavour][k].initializers = "configured"
            <=> Configure[resource].initializers # <<>>
       /\ "adopt" \in InitializersOf(flavour, k)
            <=> ExternalNameConfigs[resource] = "uuid"

\* A resolver resolves the references that are configured, to their kinds, wherever
\* the type has the field.
ASSUME ReferencesResolved ==
  \A flavour \in Flavours, k \in ManagedKinds :
    LET r == ResolverOf(flavour, k)
        refs == Configure[Terraform[flavour][k].resource].references
    IN {<<r[i].place, r[i].field, r[i].to>> : i \in DOMAIN r}
         = UNION {{<<p, ref[1], gvkOverride[ref[2]]>> :
                     ref \in {x \in refs : x[1] \in Fields(Types[flavour][k], p)}} : p \in Places}

\* The types have the fields that are added and made secret, and none left out.
ASSUME FieldsConfigured ==
  \A flavour \in Flavours, k \in ManagedKinds :
    LET c    == Configure[Terraform[flavour][k].resource]
        type == Types[flavour][k]
    IN /\ c.added = type.local /\ c.sensitive \subseteq type.secrets
       /\ c.omitted \cap (Fields(type, "forProvider") \cup Observed(type)) = {}

\* The secrets of a type are the ones the Terraform methods map.
ASSUME SecretsMapped ==
  \A flavour \in Flavours, k \in ManagedKinds :
    LET s == Terraform[flavour][k].secrets
    IN {p \in s : Len(p) = 1} = {<<f>> : f \in Types[flavour][k].secrets}

\* The methods that keep a secret are methods of the auth block.
ASSUME SecretMethodsKnown ==
  /\ C!SecretMethods \subseteq C!AuthMethods /\ N!SecretMethods \subseteq N!AuthMethods
=============================================================================
