-------------------------- MODULE ResourceConfigs --------------------------
(***************************************************************************)
(* What the repository configures for each Terraform resource              *)
(* (config/overrides.go, config/external_name.go), and the lookups by name *)
(* that main registers.  Fields go by their JSON names.                    *)
(***************************************************************************)

\* A configuration: the initializers, the references, the fields added to the
\* schema, the one made a secret, and those left out.
NoConfig == [initializers |-> <<>>, references |-> {}, added |-> {}, sensitive |-> {},
             omitted |-> {}]

DatabaseConfig == [NoConfig EXCEPT !.initializers = <<"adopt">>]

GrantPrivilegeConfig ==
  [NoConfig EXCEPT
    !.initializers = <<"backfill">>,
    !.references   = {<<"databaseName", "database">>, <<"granteeRoleName", "role">>,
                      <<"granteeUserName", "user">>}]

GrantRoleConfig ==
  [NoConfig EXCEPT !.references =
    {<<"granteeRoleName", "role">>, <<"granteeUserName", "user">>, <<"roleName", "role">>}]

MaskingPolicyConfig == [NoConfig EXCEPT !.references = {<<"databaseName", "database">>}]
NamedCollectionConfig ==
  [NoConfig EXCEPT !.sensitive = {"keysSecretRef"},
                   !.omitted   = {"secretKeysWo", "secretKeysWoVersion"}]
RoleConfig == [NoConfig EXCEPT !.initializers = <<"adopt">>]
RowPolicyConfig == [NoConfig EXCEPT !.references = {<<"databaseName", "database">>}]
SettingConfig ==
  [NoConfig EXCEPT !.references = {<<"settingsProfileId", "settings_profile">>}]
SettingsProfileConfig == [NoConfig EXCEPT !.initializers = <<"adopt">>]
SettingsProfileAssociationConfig ==
  [NoConfig EXCEPT !.references =
    {<<"roleId", "role">>, <<"settingsProfileId", "settings_profile">>, <<"userId", "user">>}]
UserConfig ==
  [NoConfig EXCEPT
    !.initializers =
      <<"PasswordValidator", "PasswordRefProcessor", "adopt", "PasswordGenerator">>,
    !.added   = {"autoGeneratePassword", "passwordSecretRef"},
    !.omitted = {"passwordSha256HashWo", "passwordSha256HashWoVersion"}]

Configure ==
  [database |-> DatabaseConfig, grant_privilege |-> GrantPrivilegeConfig,
   grant_role |-> GrantRoleConfig, masking_policy |-> MaskingPolicyConfig,
   named_collection |-> NamedCollectionConfig, role |-> RoleConfig,
   row_policy |-> RowPolicyConfig, setting |-> SettingConfig,
   settings_profile |-> SettingsProfileConfig,
   settings_profile_association |-> SettingsProfileAssociationConfig,
   user |-> UserConfig]

\* What the external name of each resource is: a UUID that ClickHouse assigns, a
\* composite key without an import, a name, or a template around a name.
ExternalNameConfigs ==
  [database |-> "uuid", grant_privilege |-> "composite", grant_role |-> "composite",
   masking_policy |-> "template", named_collection |-> "name", role |-> "uuid",
   row_policy |-> "template", setting |-> "composite", settings_profile |-> "uuid",
   settings_profile_association |-> "composite", user |-> "uuid"]

\* The kinds; upjet makes those of database, role, setting and user itself.
gvkOverride ==
  [database |-> "Database", grant_privilege |-> "GrantPrivilege", grant_role |-> "GrantRole",
   masking_policy |-> "MaskingPolicy", named_collection |-> "NamedCollection",
   role |-> "Role", row_policy |-> "RowPolicy", setting |-> "Setting",
   settings_profile |-> "SettingProfile",
   settings_profile_association |-> "SettingProfileAssociation", user |-> "User"]

\* Mutant: one of the four is forgotten.
resolverFactoriesForgotten == {"role", "database", "user"}

\* The resources with a lookup by name; without one adoption finds nothing.
resolverFactories == {"role", "database", "user", "settings_profile"}
=============================================================================
