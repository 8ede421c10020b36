-------------------------- MODULE MCCachingProvider --------------------------
(* CachingProvider with a few callers and configurations, which the .cfg    *)
(* files give.                                                              *)
EXTENDS CachingProvider
==============================================================================
