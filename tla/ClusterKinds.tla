----------------------------- MODULE ClusterKinds ------------------------------
(***************************************************************************)
(* The cluster-scoped kinds as generated: for each kind the controller     *)
(* (internal/controller/cluster/clickhousedbops), the API type, the        *)
(* Terraform glue and the reference resolver                               *)
(* (apis/cluster/clickhousedbops/v1alpha1).  The forms are in KindForms.   *)
(***************************************************************************)
EXTENDS KindForms

-----------------------------------------------------------------------------
(* Controllers: the kind that gates and is watched, the resource, where the  *)
(* initializers come from.                                                   *)

DatabaseController == Controller("Database", "database", "configured")
GrantPrivilegeController ==
  Controller("GrantPrivilege", "grant_privilege", "configured")
GrantRoleController == Controller("GrantRole", "grant_role", "none")
MaskingPolicyController ==
  Controller("MaskingPolicy", "masking_policy", "name")
NamedCollectionController ==
  Controller("NamedCollection", "named_collection", "name")
RoleController == Controller("Role", "role", "configured")
RowPolicyController == Controller("RowPolicy", "row_policy", "name")
SettingController == Controller("Setting", "setting", "none")
SettingProfileController ==
  Controller("SettingProfile", "settings_profile", "configured")
SettingProfileAssociationController ==
  Controller("SettingProfileAssociation", "settings_profile_association",
    "none")
UserController == Controller("User", "user", "configured")

\* The controller of ProviderConfigs, woken by their usages.
ProviderConfigController ==
  [Controller("ProviderConfig", "", "none") EXCEPT
    !.gate = {"ProviderConfig", "ProviderConfigUsage"}, !.watches = @ \cup {"ProviderConfigUsage"}]

\* What SetupGated registers and Setup starts.
Controllers ==
  [Database |-> DatabaseController,
   GrantPrivilege |-> GrantPrivilegeController,
   GrantRole |-> GrantRoleController,
   MaskingPolicy |-> MaskingPolicyController,
   NamedCollection |-> NamedCollectionController,
   Role |-> RoleController,
   RowPolicy |-> RowPolicyController,
   Setting |-> SettingController,
   SettingProfile |-> SettingProfileController,
   SettingProfileAssociation |-> SettingProfileAssociationController,
   User |-> UserController,
   ProviderConfig |-> ProviderConfigController]

-----------------------------------------------------------------------------
(* API types.                                                                *)

DatabaseType ==
  [NoFields EXCEPT
    !.required = {"name"},
    !.shared = {"clusterName", "comment", "name"},
    !.computed = {"id", "uuid"}]

GrantPrivilegeType ==
  [NoFields EXCEPT
    !.required = {"privilegeName"},
    !.shared = {"accessObject", "clusterName", "columnName",
      "currentGrants", "databaseName", "grantOption", "granteeRoleName",
      "granteeUserName", "privilegeName", "tableName"}]

GrantRoleType ==
  [NoFields EXCEPT
    !.shared = {"adminOption", "clusterName", "granteeRoleName",
      "granteeUserName", "roleName"}]

MaskingPolicyType ==
  [NoFields EXCEPT
    !.required = {"masks", "tableName"},
    !.shared = {"granteeAllExcept", "granteeNames", "masks", "priority",
      "whereExpression"},
    !.identifiers = {"databaseName", "tableName"}]

NamedCollectionType ==
  [NoFields EXCEPT
    !.shared = {"clusterName", "notOverridableKeys", "overridableKeys"},
    !.secrets = {"keysSecretRef"}]

RoleType ==
  [NoFields EXCEPT
    !.required = {"name"},
    !.shared = {"clusterName", "name"}]

RowPolicyType ==
  [NoFields EXCEPT
    !.required = {"selectFilter", "tableName"},
    !.shared = {"clusterName", "granteeAllExcept", "granteeNames",
      "isRestrictive", "selectFilter"},
    !.identifiers = {"databaseName", "tableName"}]

SettingType ==
  [NoFields EXCEPT
    !.required = {"name"},
    !.shared = {"clusterName", "max", "min", "name",
      "settingsProfileId", "timeouts", "value", "writability"}]

SettingProfileType ==
  [NoFields EXCEPT
    !.required = {"name"},
    !.shared = {"clusterName", "inheritFrom", "name"}]

SettingProfileAssociationType ==
  [NoFields EXCEPT
    !.shared = {"clusterName", "roleId", "settingsProfileId", "userId"}]

UserType ==
  [NoFields EXCEPT
    !.required = {"name"},
    !.shared = {"auth", "clusterName", "hostIps", "name"},
    !.local = {"autoGeneratePassword", "passwordSecretRef"},
    !.secrets = {"passwordSha256HashSecretRef"}]

\* The methods of the auth block; those whose value is a secret.
AuthMethods ==
  {"bcryptHash", "bcryptPassword", "doubleSha1Hash", "doubleSha1Password",
   "http", "kerberos", "ldap", "noPassword", "plaintextPassword",
   "sshKey", "sslCertificate", "sha256Hash", "sha256Password"}

SecretMethods ==
  {"bcryptHash", "bcryptPassword", "doubleSha1Hash", "doubleSha1Password",
   "plaintextPassword", "sha256Hash", "sha256Password"}

Types ==
  [Database |-> DatabaseType,
   GrantPrivilege |-> GrantPrivilegeType,
   GrantRole |-> GrantRoleType,
   MaskingPolicy |-> MaskingPolicyType,
   NamedCollection |-> NamedCollectionType,
   Role |-> RoleType,
   RowPolicy |-> RowPolicyType,
   Setting |-> SettingType,
   SettingProfile |-> SettingProfileType,
   SettingProfileAssociation |-> SettingProfileAssociationType,
   User |-> UserType]

-----------------------------------------------------------------------------
(* Terraform: the resource, its schema version, the secrets among its        *)
(* attributes.                                                               *)

DatabaseTerraformed == Terraformed("database", 0, {})
GrantPrivilegeTerraformed == Terraformed("grant_privilege", 1, {})
GrantRoleTerraformed == Terraformed("grant_role", 0, {})
MaskingPolicyTerraformed == Terraformed("masking_policy", 0, {})
NamedCollectionTerraformed ==
  Terraformed("named_collection", 0, {<<"keysSecretRef">>})
RoleTerraformed == Terraformed("role", 0, {})
RowPolicyTerraformed == Terraformed("row_policy", 0, {})
SettingTerraformed == Terraformed("setting", 0, {})
SettingProfileTerraformed == Terraformed("settings_profile", 0, {})
SettingProfileAssociationTerraformed ==
  Terraformed("settings_profile_association", 0, {})
UserTerraformed ==
  Terraformed("user", 0, AuthSecrets(SecretMethods) \cup
    {<<"passwordSha256HashSecretRef">>})

Terraform ==
  [Database |-> DatabaseTerraformed,
   GrantPrivilege |-> GrantPrivilegeTerraformed,
   GrantRole |-> GrantRoleTerraformed,
   MaskingPolicy |-> MaskingPolicyTerraformed,
   NamedCollection |-> NamedCollectionTerraformed,
   Role |-> RoleTerraformed,
   RowPolicy |-> RowPolicyTerraformed,
   Setting |-> SettingTerraformed,
   SettingProfile |-> SettingProfileTerraformed,
   SettingProfileAssociation |-> SettingProfileAssociationTerraformed,
   User |-> UserTerraformed]

-----------------------------------------------------------------------------
(* Resolvers: the references in the order they are resolved.                 *)

GrantPrivilegeReferences ==
  InBoth(<<<<"databaseName", "Database">>, <<"granteeRoleName", "Role">>,
    <<"granteeUserName", "User">>>>)
GrantRoleReferences ==
  InBoth(<<<<"granteeRoleName", "Role">>, <<"granteeUserName", "User">>,
    <<"roleName", "Role">>>>)
MaskingPolicyReferences == InForProvider(<<<<"databaseName", "Database">>>>)
RowPolicyReferences == InForProvider(<<<<"databaseName", "Database">>>>)
SettingReferences == InBoth(<<<<"settingsProfileId", "SettingProfile">>>>)
SettingProfileAssociationReferences ==
  InBoth(<<<<"roleId", "Role">>, <<"settingsProfileId", "SettingProfile">>,
    <<"userId", "User">>>>)

Resolvers ==
  [GrantPrivilege |-> GrantPrivilegeReferences,
   GrantRole |-> GrantRoleReferences,
   MaskingPolicy |-> MaskingPolicyReferences,
   RowPolicy |-> RowPolicyReferences,
   Setting |-> SettingReferences,
   SettingProfileAssociation |-> SettingProfileAssociationReferences]
=============================================================================
