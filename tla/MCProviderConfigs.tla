------------------------- MODULE MCProviderConfigs -------------------------
(* ProviderConfigs with the constants of the .cfg files.                    *)
EXTENDS ProviderConfigs
=============================================================================
