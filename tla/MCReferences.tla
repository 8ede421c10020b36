---------------------------- MODULE MCReferences ----------------------------
(***************************************************************************)
(* Small deployments of References for TLC.                                *)
(***************************************************************************)
EXTENDS References

\* An MR that gives the fields in refs at the places in "at".
Site(flavour, kind, refs, at) ==
  [kind |-> kind, flavour |-> flavour, refs |-> refs,
   given |-> [p \in Places |-> IF p \in at THEN refs ELSE {}],
   named |-> "forProvider", existing |-> FALSE, always |-> FALSE,
   gated |-> TRUE, missing |-> TRUE, late |-> {kind}]

Late(s) == [s EXCEPT !.late = {s.kind} \cup {Target(s.flavour, s.kind, f) : f \in s.refs}]

Adopted == {k \in ManagedKinds : "adopt" \in InitializersOf("cluster", k)}

\* Every field that refers, of every kind, at the places that have it.
MCReferring ==
  UNION {
    {[Late(Site(fl, k, {f}, at)) EXCEPT !.always = a] :
       f \in RefFields(fl, k), at \in SUBSET Places \ {{}}, a \in BOOLEAN} :
    fl \in Flavours, k \in ManagedKinds}

\* Two objects; one of them in initProvider.
MCPairs ==
  {Site(fl, "GrantRole", {"roleName", "granteeUserName"}, {"forProvider"}) : fl \in Flavours}
    \cup
  {[Site(fl, "SettingProfileAssociation", {"roleId", "settingsProfileId"}, {"forProvider"})
      EXCEPT !.given = [p \in Places |-> IF p = "forProvider" THEN {"settingsProfileId"}
                                                              ELSE {"roleId"}]] :
     fl \in Flavours}

\* The kinds that are adopted by name, their row there or not.
MCNamed(place) ==
  {[Site(fl, k, {}, {}) EXCEPT !.existing = e, !.named = place] :
     fl \in Flavours, k \in Adopted, e \in BOOLEAN}

\* The rest of the kinds.
MCOthers == {Site(fl, k, {}, {}) : fl \in Flavours, k \in ManagedKinds \ Adopted}

\* CRDs of the configs that come late, and a provider that cannot watch CRDs.
MCConfigs ==
  {[Site(fl, "Role", {}, {}) EXCEPT !.gated = g, !.missing = m, !.late = l] :
     fl \in Flavours, g \in BOOLEAN, m \in BOOLEAN,
     l \in {{"Role"}, {"Role"} \cup Configs}}

MCSites ==
  MCReferring \cup MCPairs \cup MCNamed("forProvider") \cup MCNamed("initProvider")
    \cup MCOthers \cup MCConfigs

MCInitProvider == MCNamed("initProvider")
=============================================================================
