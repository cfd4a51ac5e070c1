----------------------------- MODULE MCClusters -----------------------------
(* Instances of Clusters for TLC. *)
EXTENDS Clusters

CONSTANTS prod, local, prodYaml, localYaml

\* A kubeconfig, and one named like the in-cluster fallback.
Names == [f \in Files |-> IF f = localYaml THEN local ELSE prod]
=============================================================================
