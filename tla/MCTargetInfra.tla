--------------------------- MODULE MCTargetInfra ---------------------------
(* Instances of TargetInfra: command lines with both sources of the region   *)
(* and the VPC, each decision with and without the flags it needs, and the   *)
(* cluster types and sizes the generated project tells apart.                *)
EXTENDS TargetInfra

MCClusterTypes == {"", "dedicated", "enterprise", "basic"}

Locations == {{"aws-region", "vpc-id"}, {"aws-region"}, {"state-file", "cluster-arn"},
              {"state-file"}, {"state-file", "cluster-arn", "vpc-id"}}
Names == {{"env-name"}, {"env-id"}, {"env-name", "env-id"}}
Clusters == {{"cluster-name"}, {"cluster-id"}, {"cluster-name", "cluster-id"}}
Sizes == {<<"SINGLE_ZONE", 1>>, <<"MULTI_ZONE", 1>>, <<"MULTI_ZONE", 2>>, <<"SINGLE_ZONE", 0>>}

Line(decisions, type, size, given) ==
  [needs_environment |-> decisions[1], needs_cluster |-> decisions[2],
   needs_private_link |-> decisions[3], cluster_type |-> type,
   cluster_availability |-> size[1], cluster_cku |-> size[2], prevent_destroy |-> TRUE,
   given |-> given]

\* every decision with every way to name what it needs
EveryFlag ==
  {Line(d, t, s, location \cup name \cup cluster \cup subnets) :
     d \in BOOLEAN \X BOOLEAN \X BOOLEAN, t \in MCClusterTypes, s \in Sizes,
     location \in Locations, name \in Names, cluster \in Clusters,
     subnets \in {{}, {"subnet-cidrs"}}}
=============================================================================
