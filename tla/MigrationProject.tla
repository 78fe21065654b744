-------------------------- MODULE MigrationProject --------------------------
(* The Terraform project kcp generates to migrate a cluster: what            *)
(* MigrationInfraHCLService and the variable tables of internal/services/hcl *)
(* /modules put into it for a MigrationWizardRequest, and the checks         *)
(* handleMigrationAssets makes of a request first. There are three kinds of  *)
(* project: a cluster link to public brokers, jump clusters in the VPC, and  *)
(* an external outbound cluster link. A request has its decisions, the       *)
(* authentication of the jump clusters, their storage, and `given`: the      *)
(* other fields that are not empty.                                          *)
EXTENDS Terraform, Integers

Fields == {"vpc_id", "msk_region", "msk_cluster_id", "cluster_link_name",
           "target_environment_id", "target_cluster_id", "target_rest_endpoint",
           "target_bootstrap_endpoint", "msk_sasl_scram_bootstrap_servers",
           "msk_sasl_iam_bootstrap_servers", "ext_outbound_subnet_id",
           "ext_outbound_security_group_id", "aws_kafka_brokers",
           "existing_private_link_vpce_id", "jump_cluster_instance_type",
           "jump_cluster_broker_subnet_cidr", "jump_cluster_setup_host_subnet_cidr",
           "jump_cluster_iam_auth_role_name"}

Request == [has_public_msk_brokers : BOOLEAN, use_jump_clusters : BOOLEAN,
            has_existing_internet_gateway : BOOLEAN,
            msk_jump_cluster_auth_type : {"", "sasl_scram", "iam"},
            jump_cluster_broker_storage : Int, given : SUBSET Fields]

Public(r) == r.has_public_msk_brokers
Jump(r) == ~r.has_public_msk_brokers /\ r.use_jump_clusters
External(r) == ~r.has_public_msk_brokers /\ ~r.use_jump_clusters
Scram(r) == r.msk_jump_cluster_auth_type = "sasl_scram"
When(condition, names) == IF condition THEN names ELSE {}

(* ------------------------------ variables ------------------------------ *)
CloudCredentials == {"confluent_cloud_api_key", "confluent_cloud_api_secret"}
ClusterCredentials == {"confluent_cloud_cluster_api_key", "confluent_cloud_cluster_api_secret"}
TargetCredentials == {"target_cluster_api_key", "target_cluster_api_secret"}
MskCredentials == {"msk_sasl_scram_username", "msk_sasl_scram_password"}
Secrets == CloudCredentials \cup ClusterCredentials \cup TargetCredentials \cup MskCredentials

ProviderVariables(r) == CloudCredentials \cup When(~Public(r), {"aws_region"})

ClusterLinkVariables ==
  MskCredentials \cup ClusterCredentials
  \cup {"target_cluster_rest_endpoint", "target_cluster_id", "cluster_link_name",
        "msk_cluster_id", "msk_sasl_scram_bootstrap_servers"}

NetworkingVariables == {"vpc_id", "jump_cluster_broker_subnet_cidrs",
                        "jump_cluster_setup_host_subnet_cidr", "existing_private_link_vpce_id"}

\* FromModuleOutput: the module each variable comes from
SetupHostFromModules ==
  {<<"networking", "jump_cluster_setup_host_subnet_id">>,
   <<"networking", "jump_cluster_security_group_ids">>,
   <<"networking", "jump_cluster_ssh_key_pair_name">>,
   <<"jump_cluster", "jump_cluster_instances_private_dns">>,
   <<"networking", "private_key">>}
JumpClusterFromModules ==
  {<<"networking", "jump_cluster_broker_subnet_ids">>,
   <<"networking", "jump_cluster_security_group_ids">>,
   <<"networking", "jump_cluster_ssh_key_pair_name">>}

JumpClusterVariables(r) ==
  ClusterCredentials
  \cup {"jump_cluster_instance_type", "jump_cluster_broker_storage", "cluster_link_name",
        "confluent_cloud_cluster_id", "confluent_cloud_cluster_bootstrap_endpoint",
        "confluent_cloud_cluster_rest_endpoint", "msk_cluster_id",
        "msk_cluster_bootstrap_brokers"}
  \cup When(r.msk_jump_cluster_auth_type = "iam", {"jump_cluster_iam_auth_role_name"})
  \cup When(Scram(r), MskCredentials)

\* by Definition.Name; the module's own names are cc_env_id, cc_cluster_id, ...
MskPrivateClusterLinkVariables ==
  {"aws_region", "aws_vpc_id", "aws_kafka_brokers", "target_environment_id", "target_cluster_id"}

ExternalOutboundVariables ==
  MskCredentials \cup TargetCredentials
  \cup {"subnet_id", "security_group_id", "target_cluster_rest_endpoint", "target_cluster_id",
        "cluster_link_name", "msk_cluster_id", "msk_cluster_bootstrap_servers"}

RootVariables(r) ==
  ProviderVariables(r)
  \cup When(Public(r), ClusterLinkVariables)
  \cup When(Jump(r), NetworkingVariables \cup JumpClusterVariables(r))
  \cup When(External(r), MskPrivateClusterLinkVariables \cup ExternalOutboundVariables)

\* ValueExtractor: the field of the request a variable takes its value from
FieldOf(r, v) ==
  CASE v = "aws_region" -> "msk_region"
    [] v = "aws_vpc_id" -> "vpc_id"
    [] v = "confluent_cloud_cluster_id" -> "target_cluster_id"
    [] v \in {"target_cluster_rest_endpoint", "confluent_cloud_cluster_rest_endpoint"} ->
         "target_rest_endpoint"
    [] v = "confluent_cloud_cluster_bootstrap_endpoint" -> "target_bootstrap_endpoint"
    [] v = "msk_cluster_bootstrap_brokers" ->
         IF Scram(r) THEN "msk_sasl_scram_bootstrap_servers" ELSE "msk_sasl_iam_bootstrap_servers"
    [] v = "msk_cluster_bootstrap_servers" -> "msk_sasl_scram_bootstrap_servers"
    [] v = "subnet_id" -> "ext_outbound_subnet_id"
    [] v = "security_group_id" -> "ext_outbound_security_group_id"
    [] v = "jump_cluster_broker_subnet_cidrs" -> "jump_cluster_broker_subnet_cidr"
    [] OTHER -> v

\* inputs.auto.tfvars leaves out the strings and lists that are empty, never a number
Values(r) ==
  {v \in RootVariables(r) : v = "jump_cluster_broker_storage" \/ FieldOf(r, v) \in r.given}

\* the variables Terraform asks for when the project is applied
Prompted(r) == RootVariables(r) \ Values(r)

\* the "Required Credentials" of the README.md generated with jump clusters
ReadmeCredentials(r) == CloudCredentials \cup ClusterCredentials \cup When(Scram(r), MskCredentials)

(* ------------------------------- blocks -------------------------------- *)
AmiData == Block("data.aws_ami", {}, {})
UserDataInstance(name, vars) == Block(name, vars, {"data.aws_ami"})
JumpInstances(subnets, vars) == Block("aws_instance.jump_cluster", {subnets} \cup vars, {"data.aws_ami"})
Subnet(name, cidr) == Block(name, {"vpc_id", cidr}, {"data.aws_availability_zones"})
RouteTable(name, gateway) == Block(name, {"vpc_id"}, {gateway})
Association(name, subnet, table) == Block(name, {}, {subnet, table})
SecurityGroup == Block("aws_security_group", {"vpc_id"}, {})
IngressRules ==
  {Block(rule, {}, {"aws_security_group", "data.aws_vpc_endpoint"}) :
     rule \in {"ingress_rule_80", "ingress_rule_443", "ingress_rule_9092"}}
SshKey ==
  {Block("tls_private_key", {}, {}), Block("local_file.private_key", {}, {"tls_private_key"}),
   Block("local_file.public_key", {}, {"tls_private_key"}),
   Block("aws_key_pair", {}, {"tls_private_key"})}

(* ------------------------------- modules ------------------------------- *)
ClusterLinkMain ==
  {Block("local.basic_auth_credentials", ClusterCredentials, {}),
   Block("null_resource.confluent_cluster_link", ClusterLinkVariables \ ClusterCredentials,
         {"local.basic_auth_credentials"})}

SetupHostMain ==
  {AmiData, UserDataInstance("aws_instance.jump_cluster_setup_host",
                             {v[2] : v \in SetupHostFromModules})}

\* anything but sasl_scram is generated with the IAM role
JumpClusterMain(r) ==
  {AmiData,
   JumpInstances("jump_cluster_broker_subnet_ids",
         {v[2] : v \in JumpClusterFromModules}
         \cup {"jump_cluster_instance_type", "jump_cluster_broker_storage",
               "confluent_cloud_cluster_id", "confluent_cloud_cluster_bootstrap_endpoint",
               "confluent_cloud_cluster_rest_endpoint", "msk_cluster_id",
               "msk_cluster_bootstrap_brokers", "cluster_link_name"}
         \cup ClusterCredentials
         \cup (IF Scram(r) THEN MskCredentials ELSE {"jump_cluster_iam_auth_role_name"}))}

InternetGateway(r) ==
  IF r.has_existing_internet_gateway THEN "data.aws_internet_gateway" ELSE "aws_internet_gateway"

(* Mutant of PublicRouteTable: the route goes through the gateway kcp creates. *)
PublicRouteTableNewGateway(r) == RouteTable("aws_route_table.public", "aws_internet_gateway")

PublicRouteTable(r) == RouteTable("aws_route_table.public", InternetGateway(r))

NetworkingMain(r) ==
  {Block(InternetGateway(r), {"vpc_id"}, {}),
   Block("data.aws_availability_zones", {}, {}),
   SecurityGroup,
   Subnet("aws_subnet.brokers", "jump_cluster_broker_subnet_cidrs"),
   Subnet("aws_subnet.setup_host", "jump_cluster_setup_host_subnet_cidr"),
   Block("aws_eip", {}, {}),
   Block("aws_nat_gateway", {}, {"aws_eip", "aws_subnet.setup_host"}),
   PublicRouteTable(r),
   Association("aws_route_table_association.public", "aws_subnet.setup_host", "aws_route_table.public"),
   RouteTable("aws_route_table.private", "aws_nat_gateway"),
   Association("aws_route_table_association.brokers", "aws_subnet.brokers", "aws_route_table.private"),
   Block("data.aws_vpc_endpoint", {"existing_private_link_vpce_id"}, {})}
  \cup IngressRules \cup SshKey

NetworkingOutputs ==
  [jump_cluster_setup_host_subnet_id |-> "aws_subnet.setup_host",
   jump_cluster_broker_subnet_ids |-> "aws_subnet.brokers",
   jump_cluster_ssh_key_pair_name |-> "aws_key_pair",
   private_key |-> "tls_private_key",
   jump_cluster_security_group_ids |-> "aws_security_group"]

JumpClusterOutputs == [jump_cluster_instances_private_dns |-> "aws_instance.jump_cluster"]

ExternalOutboundMain ==
  {AmiData, UserDataInstance("aws_instance.external_outbound_cluster_link", ExternalOutboundVariables)}

\* the user data templates: the arguments of templatefile and the ones the file mentions
JumpTemplateNames(scram) ==
  {"confluent_cloud_cluster_id", "confluent_cloud_cluster_bootstrap_endpoint",
   "confluent_cloud_cluster_rest_endpoint", "confluent_cloud_cluster_key",
   "confluent_cloud_cluster_secret", "msk_cluster_id", "msk_cluster_bootstrap_brokers",
   "cluster_link_name"} \cup When(scram, MskCredentials)
SetupHostTemplate == [passed |-> {"broker_ips", "private_key"}, used |-> {"broker_ips", "private_key"}]

JumpTemplate(r) ==
  [passed |-> JumpTemplateNames(Scram(r)), used |-> JumpTemplateNames(Scram(r))]

ExternalOutboundTemplate ==
  LET names == TargetCredentials \cup MskCredentials
               \cup {"target_cluster_rest_endpoint", "target_cluster_id", "cluster_link_name",
                     "msk_cluster_id", "msk_cluster_bootstrap_brokers"}
  IN [passed |-> names, used |-> names]

Templates(r) ==
  CASE Public(r) -> {}
    [] Jump(r) -> {SetupHostTemplate, JumpTemplate(r)}
    [] OTHER -> {ExternalOutboundTemplate}

Module(declares, main, outputs) == [declares |-> declares, main |-> main, outputs |-> outputs]
NoOutputs == [o \in {} |-> o]

ModulesOf(r) ==
  CASE Public(r) -> [cluster_link |-> Module(ClusterLinkVariables, ClusterLinkMain, NoOutputs)]
    [] Jump(r) ->
         [jump_cluster_setup_host |->
            Module({v[2] : v \in SetupHostFromModules}, SetupHostMain, NoOutputs),
          jump_cluster |->
            Module(JumpClusterVariables(r) \cup {v[2] : v \in JumpClusterFromModules},
                   JumpClusterMain(r), JumpClusterOutputs),
          networking |-> Module(NetworkingVariables, NetworkingMain(r), NetworkingOutputs)]
    [] OTHER -> [external_outbound_cluster_link |->
                   Module(ExternalOutboundVariables, ExternalOutboundMain, NoOutputs)]

Call(vars, outputs) == [vars |-> vars, outputs |-> outputs]
Calls(r) ==
  CASE Public(r) -> [cluster_link |-> Call(ClusterLinkVariables, {})]
    [] Jump(r) -> [networking |-> Call(NetworkingVariables, {}),
                   jump_cluster_setup_host |-> Call({}, SetupHostFromModules),
                   jump_cluster |-> Call(JumpClusterVariables(r), JumpClusterFromModules)]
    [] OTHER -> [external_outbound_cluster_link |-> Call(ExternalOutboundVariables, {})]

ConfluentProvider == Block("provider.confluent", CloudCredentials, {})
AwsProvider == Block("provider.aws", {"aws_region"}, {})
MskPrivateLinkModule ==     \* a module of another repository, named by its URL
  Block("module.cluster_linking_aws_msk_private_link", MskPrivateClusterLinkVariables, {})

RootMain(r) ==
  When(~Public(r), {AwsProvider}) \cup When(~Jump(r), {ConfluentProvider})
  \cup When(External(r), {MskPrivateLinkModule})

GenerateTerraformModules(r) ==
  [root |-> [declares |-> RootVariables(r), main |-> RootMain(r), values |-> Values(r),
             outputs |-> {}],
   calls |-> Calls(r), modules |-> ModulesOf(r)]

\* what Terraform asks of the project, its templates included
CoherentMigration(r) ==
  /\ Coherent(GenerateTerraformModules(r))
  /\ \A t \in Templates(r) : t.used \subseteq t.passed

OrderedMigration(r) ==
  LET p == GenerateTerraformModules(r) IN
  NoModuleCycle(p) /\ \A m \in DOMAIN p.modules : Orderable(p.modules[m])

(* ----------------------- POST /assets/migration ------------------------ *)
ValidateClusterLink(r) ==
  {"target_cluster_id", "target_rest_endpoint", "cluster_link_name",
   "msk_sasl_scram_bootstrap_servers"} \subseteq r.given

ValidatePrivateLink(r) ==
  /\ {"vpc_id", "jump_cluster_instance_type", "jump_cluster_broker_subnet_cidr",
      "jump_cluster_setup_host_subnet_cidr", "target_cluster_id", "target_rest_endpoint",
      "target_bootstrap_endpoint", "cluster_link_name"} \subseteq r.given
  /\ r.jump_cluster_broker_storage > 0
  /\ r.msk_jump_cluster_auth_type # ""

ValidatePrivateClusterLink(r) ==
  {"vpc_id", "msk_region", "msk_cluster_id", "ext_outbound_security_group_id",
   "ext_outbound_subnet_id", "aws_kafka_brokers", "target_environment_id",
   "target_cluster_id", "target_rest_endpoint", "cluster_link_name"} \subseteq r.given

Accepts(r) ==
  CASE Public(r) -> ValidateClusterLink(r)
    [] Jump(r) -> ValidatePrivateLink(r)
    [] OTHER -> ValidatePrivateClusterLink(r)
=============================================================================
