--------------------------- MODULE TargetProject ---------------------------
(* The Terraform project kcp generates for a Confluent Cloud target: what    *)
(* TargetInfraHCLService and the variable tables of internal/services/hcl/   *)
(* modules put into it for a TargetClusterWizardRequest, and the checks      *)
(* handleTargetClusterAssets makes of a request first. A request has its     *)
(* three decisions, the cluster's type, availability and CKUs, whether       *)
(* prevent_destroy is on, and `given`: the other fields that are not empty.  *)
(* Blocks are named by their Terraform type, and by their own name where two *)
(* of one type are generated.                                                *)
EXTENDS Terraform, Integers

CONSTANT ClusterTypes     \* the values of cluster_type; "" is the field left out
ASSUME ClusterTypesAssumption == {"", "dedicated", "enterprise"} \subseteq ClusterTypes

Fields == {"aws_region", "environment_name", "environment_id", "cluster_name", "vpc_id",
           "subnet_cidr_ranges"}
Availabilities == {"", "SINGLE_ZONE", "MULTI_ZONE"}

Request == [needs_environment : BOOLEAN, needs_cluster : BOOLEAN, needs_private_link : BOOLEAN,
            cluster_type : ClusterTypes, cluster_availability : Availabilities, cluster_cku : Nat,
            prevent_destroy : BOOLEAN, given : SUBSET Fields]

Dedicated(r) == r.cluster_type = "dedicated"
CreatesCluster(r) == r.needs_cluster \/ r.needs_environment
CreatesNetwork(r) == r.needs_private_link /\ Dedicated(r)
When(condition, names) == IF condition THEN names ELSE {}

(* ------------------------------ variables ------------------------------ *)
Credentials == {"confluent_cloud_api_key", "confluent_cloud_api_secret"}
TargetClusterProviderVariables == Credentials \cup {"aws_region"}

ConfluentCloudVariables(r) ==
  {"aws_region"}
  \cup When(r.needs_environment, {"environment_name"})
  \cup When(~r.needs_environment, {"environment_id"})
  \cup When(CreatesCluster(r), {"cluster_name", "cluster_type"})
  \cup When(CreatesCluster(r) /\ Dedicated(r), {"cluster_availability", "cluster_cku"})

\* the variables without a ValueExtractor come from the other module's outputs
NetworkOutputs == {"network_id", "network_dns_domain", "network_private_link_endpoint_service",
                   "network_zones"}
PrivateLinkInputs == {"aws_region", "vpc_id", "subnet_cidr_ranges"}
PrivateLinkFromCloud(r) == {"environment_id"} \cup When(Dedicated(r), NetworkOutputs)

RootVariables(r) ==
  TargetClusterProviderVariables \cup ConfluentCloudVariables(r) \cup PrivateLinkInputs

\* inputs.auto.tfvars leaves out the strings and lists that are empty, never a number
HasValue(r, v) ==
  CASE v \in Fields -> v \in r.given
    [] v = "cluster_type" -> r.cluster_type # ""
    [] v = "cluster_availability" -> r.cluster_availability # ""
    [] v = "cluster_cku" -> TRUE
    [] OTHER -> FALSE
Values(r) == {v \in RootVariables(r) : HasValue(r, v)}

(* ---------------------- the confluent_cloud module --------------------- *)
Environment(r) ==
  IF r.needs_environment
  THEN Block("confluent_environment", {"environment_name"}, {})
  ELSE Block("data.confluent_environment", {"environment_id"}, {})

Network(r) ==
  {b \in {Block("confluent_network", {"aws_region"}, {Environment(r).block})} : CreatesNetwork(r)}

(* Mutant of KafkaCluster: a cluster is generated only when one is asked for. *)
KafkaClusterForgetsEnvironment(r) ==
  {b \in {Block("confluent_kafka_cluster", {"cluster_name", "aws_region"},
                {Environment(r).block} \cup When(CreatesNetwork(r), {"confluent_network"}))} :
     r.needs_cluster}

KafkaCluster(r) ==
  {b \in {Block("confluent_kafka_cluster", {"cluster_name", "aws_region"},
                {Environment(r).block} \cup When(CreatesNetwork(r), {"confluent_network"}))} :
     CreatesCluster(r)}

Access(r) ==
  {Block("confluent_service_account", {}, {}),
   Block("subject-resource-owner", {},
         {"confluent_service_account", "data.confluent_schema_registry_cluster"}),
   Block("kafka-cluster-admin", {}, {"confluent_service_account", "confluent_kafka_cluster"}),
   Block("kafka-data-steward", {}, {"confluent_service_account", Environment(r).block}),
   Block("schema-registry-api-key", {},
         {"confluent_service_account", "data.confluent_schema_registry_cluster",
          Environment(r).block}),
   Block("kafka-api-key", {},
         {"confluent_service_account", "confluent_kafka_cluster", Environment(r).block,
          "kafka-cluster-admin"})}

SchemaRegistry(r) ==
  Block("data.confluent_schema_registry_cluster", {}, {Environment(r).block, "kafka-api-key"})

ConfluentCloudMain(r) ==
  {Environment(r), SchemaRegistry(r)} \cup Network(r) \cup KafkaCluster(r) \cup Access(r)

PlainOutputs == {"environment_id", "cluster_id", "cluster_bootstrap_endpoint",
                 "cluster_rest_endpoint", "service_account_id", "kafka_api_key_id",
                 "kafka_api_key_secret"}

(* Mutant of ConfluentCloudOutputNames: the network's outputs for any private link. *)
ConfluentCloudOutputNamesAnyLink(r) ==
  PlainOutputs \cup When(r.needs_private_link, NetworkOutputs)

ConfluentCloudOutputNames(r) == PlainOutputs \cup When(CreatesNetwork(r), NetworkOutputs)

ConfluentCloudOutputs(r) ==
  [o \in ConfluentCloudOutputNames(r) |->
     CASE o = "environment_id" -> Environment(r).block
       [] o = "service_account_id" -> "confluent_service_account"
       [] o \in {"kafka_api_key_id", "kafka_api_key_secret"} -> "kafka-api-key"
       [] o \in NetworkOutputs -> "confluent_network"
       [] OTHER -> "confluent_kafka_cluster"]

ConfluentCloud(r) ==
  [declares |-> ConfluentCloudVariables(r), main |-> ConfluentCloudMain(r),
   outputs |-> ConfluentCloudOutputs(r)]

(* ----------------------- the private_link module ----------------------- *)
PrivateLinkVariables(r) == PrivateLinkInputs \cup PrivateLinkFromCloud(r)

\* the endpoint, its security group and subnets, and the zone that resolves to it;
\* before them what grants the access, and where the zones and the domain come from
Endpoint(grant, service, zones, domain, zoneRef, domainRef) ==
  {Block("aws_security_group", {"vpc_id"}, {}),
   Block("aws_subnet", {"vpc_id", "subnet_cidr_ranges"} \cup zones, zoneRef),
   Block("aws_vpc_endpoint", {"vpc_id"} \cup service, {"aws_security_group", "aws_subnet", grant}),
   Block("aws_route53_zone", {"vpc_id"} \cup domain, domainRef),
   Block("aws_route53_record", {}, {"aws_route53_zone", "aws_vpc_endpoint"})}

DedicatedPrivateLinkMain ==
  {Block("data.aws_caller_identity", {}, {}),
   Block("confluent_private_link_access", {"environment_id", "network_id"},
         {"data.aws_caller_identity"})}
  \cup Endpoint("confluent_private_link_access", {"network_private_link_endpoint_service"},
                {"network_zones"}, {"network_dns_domain"}, {}, {})

EnterprisePrivateLinkMain ==
  {Block("confluent_private_link_attachment", {"aws_region", "environment_id"}, {}),
   Block("data.aws_availability_zones", {}, {}),
   Block("confluent_private_link_attachment_connection", {"environment_id"},
         {"aws_vpc_endpoint", "confluent_private_link_attachment"})}
  \cup Endpoint("confluent_private_link_attachment", {}, {}, {},
                {"data.aws_availability_zones"}, {"confluent_private_link_attachment"})

PrivateLink(r) ==
  [declares |-> PrivateLinkVariables(r),
   main |-> IF Dedicated(r) THEN DedicatedPrivateLinkMain ELSE EnterprisePrivateLinkMain,
   outputs |-> [o \in {"vpc_endpoint_id"} |-> "aws_vpc_endpoint"]]

(* ------------------------------ the project ---------------------------- *)
Modules(r) == {"confluent_cloud"} \cup When(r.needs_private_link, {"private_link"})

Call(r, m) ==
  IF m = "confluent_cloud"
  THEN [vars |-> ConfluentCloudVariables(r), outputs |-> {}]
  ELSE [vars |-> PrivateLinkInputs,
        outputs |-> {<<"confluent_cloud", v>> : v \in PrivateLinkFromCloud(r)}]

RootOutputs(r) ==
  {<<"confluent_cloud", o>> : o \in ConfluentCloudOutputNames(r) \ NetworkOutputs}
  \cup When(r.needs_private_link, {<<"private_link", "vpc_endpoint_id">>})

Providers == {Block("provider.confluent", Credentials, {}),
              Block("provider.aws", {"aws_region"}, {})}

GenerateTerraformFiles(r) ==
  [root |-> [declares |-> RootVariables(r), main |-> Providers, values |-> Values(r),
             outputs |-> RootOutputs(r)],
   calls |-> [m \in Modules(r) |-> Call(r, m)],
   modules |-> [m \in Modules(r) |->
                  IF m = "confluent_cloud" THEN ConfluentCloud(r) ELSE PrivateLink(r)]]

\* what is left for Terraform to ask: the variables no answer was given for
Prompted(r) == RootVariables(r) \ Values(r)

(* ------------------------ POST /assets/target -------------------------- *)
Accepts(r) ==
  /\ CreatesCluster(r)
  /\ r.needs_environment => "environment_name" \in r.given
  /\ "cluster_name" \in r.given /\ r.cluster_type # ""

WithDefaults(r) ==
  IF ~Dedicated(r) THEN r
  ELSE [r EXCEPT !.cluster_availability = IF @ = "" THEN "SINGLE_ZONE" ELSE @,
                 !.cluster_cku = IF @ = 0 THEN 1 ELSE @]
=============================================================================
