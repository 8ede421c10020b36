---------------------------- MODULE ExternalName ----------------------------
(***************************************************************************)
(* The conversions between a Crossplane external name and a Terraform ID   *)
(* (config/external_name.go) and the UUID tests of config/importinit.go.   *)
(*                                                                         *)
(* An identifier is the sequence of its ":"-separated segments: "uuid" is  *)
(* <<uuid>>, "cluster:uuid" is <<cluster, uuid>>, "" is <<>>.              *)
(***************************************************************************)
EXTENDS Naturals, Sequences

CONSTANTS Uuids,     \* the UUIDs ClickHouse can assign to a row
          Sentinel,  \* ffffffff-...: parses as a UUID, never assigned
          Cluster    \* spec.forProvider.clusterName, or NoCluster

NoName    == <<>>
NoCluster == "no cluster"

ASSUME SentinelAssumption == Sentinel \notin Uuids

\* uuid.Parse(s) succeeds.
IsUUID(s) == \E u \in Uuids \cup {Sentinel} : s = <<u>>

\* A UUID that ClickHouse can have assigned.
isRealUUID(s) == IsUUID(s) /\ s # <<Sentinel>>

\* Drops everything up to the first separator.
stripClusterPrefix(id) == IF Len(id) > 1 THEN Tail(id) ELSE id

WithCluster(id) == IF Cluster = NoCluster THEN id ELSE <<Cluster>> \o id

\* GetIDFn of databases, roles, users and settings profiles: an external name
\* that is empty or equals forProvider.name has no UUID yet.
IDFromClusterName(externalName, name) ==
  WithCluster(IF externalName \in {NoName, <<name>>} THEN <<Sentinel>>
                                                     ELSE externalName)

\* Mutant: the sentinel is an external name like any other.
externalNameKeepsSentinel(id) == id

externalNameFromID(id) == IF id = <<Sentinel>> THEN NoName ELSE id

\* Mutants: the cluster stays in the external name; an ID without one is dropped.
ExternalNameUnstripped(id)  == externalNameFromID(id)
ExternalNameOfClusterID(id) == IF Len(id) > 1 THEN Tail(id) ELSE NoName

\* GetExternalNameFn of the same four kinds.
ExternalNameFromClusterName(id) == externalNameFromID(stripClusterPrefix(id))
=============================================================================
