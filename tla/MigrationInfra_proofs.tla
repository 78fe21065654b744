----------------------- MODULE MigrationInfra_proofs -----------------------
(* What is proved about the migration infrastructure project: for every      *)
(* request but one for jump clusters without an authentication, whatever     *)
(* fields are empty, the generated project and its user data templates are   *)
(* coherent and free of cycles; so is every project the command leaves on    *)
(* disk, for any command lines, any source clusters and any number of runs,  *)
(* and Terraform reads only that project there.                              *)
EXTENDS MigrationInfra, FiniteSetTheorems, TLAPS

(* The variables fed by another module's outputs.                            *)
LEMMA FromModules ==
  /\ {v[2] : v \in SetupHostFromModules} =
       {"jump_cluster_setup_host_subnet_id", "jump_cluster_security_group_ids",
        "jump_cluster_ssh_key_pair_name", "jump_cluster_instances_private_dns", "private_key"}
  /\ {v[2] : v \in JumpClusterFromModules} =
       {"jump_cluster_broker_subnet_ids", "jump_cluster_security_group_ids",
        "jump_cluster_ssh_key_pair_name"}
BY DEF SetupHostFromModules, JumpClusterFromModules

(* What a module must satisfy by itself.                                     *)
Resolves(m) == BlocksResolve(m) /\ OutputsResolve(m) /\ OneBlockPerName(m)

(* The module of a public cluster link resolves.                             *)
LEMMA ClusterLinkResolves ==
  Resolves(Module(ClusterLinkVariables, ClusterLinkMain, NoOutputs))
BY DEF Resolves, Module, BlocksResolve, OutputsResolve, OneBlockPerName, Defined, Block,
       ClusterLinkMain, ClusterLinkVariables, NoOutputs, ClusterCredentials, MskCredentials

(* The other modules but the networking have an image and an instance of it: *)
(* they resolve when the instance mentions what is declared.                 *)
LEMMA InstanceResolves ==
  ASSUME NEW name, name # "data.aws_ami", NEW declares, NEW used \in SUBSET declares,
         NEW outputs, \A o \in DOMAIN outputs : outputs[o] = name
  PROVE  Resolves(Module(declares, {AmiData, Block(name, used, {"data.aws_ami"})}, outputs))
<1> DEFINE main == {AmiData, Block(name, used, {"data.aws_ami"})}
           module == Module(declares, main, outputs)
<1>1. module.declares = declares /\ module.main = main /\ module.outputs = outputs
  BY DEF Module
<1>2. Defined(main) = {"data.aws_ami", name}
  BY DEF Defined, Block, AmiData
<1>3. \A b \in main : b.vars \subseteq declares /\ b.refs \subseteq {"data.aws_ami", name}
  BY DEF Block, AmiData
<1>4. \A b, c \in main : b.block = c.block => b = c
  BY DEF Block, AmiData
<1> HIDE DEF main, module
<1>5. BlocksResolve(module)
  BY <1>1, <1>2, <1>3 DEF BlocksResolve
<1>6. OutputsResolve(module)
  BY <1>1, <1>2 DEF OutputsResolve
<1>7. OneBlockPerName(module)
  BY <1>1, <1>4 DEF OneBlockPerName
<1>8. QED
  BY <1>5, <1>6, <1>7 DEF main, module, Resolves

(* So do the jump clusters, with either authentication: without one their    *)
(* user data would mention a role that has no variable.                      *)
LEMMA JumpClusterResolves ==
  ASSUME NEW r \in Request, r.msk_jump_cluster_auth_type # ""
  PROVE  Resolves(Module(JumpClusterVariables(r) \cup {v[2] : v \in JumpClusterFromModules},
                         JumpClusterMain(r), JumpClusterOutputs))
<1> DEFINE declares == JumpClusterVariables(r) \cup {v[2] : v \in JumpClusterFromModules}
           used == {"jump_cluster_broker_subnet_ids"} \cup
                   ({v[2] : v \in JumpClusterFromModules}
                    \cup {"jump_cluster_instance_type", "jump_cluster_broker_storage",
                          "confluent_cloud_cluster_id", "confluent_cloud_cluster_bootstrap_endpoint",
                          "confluent_cloud_cluster_rest_endpoint", "msk_cluster_id",
                          "msk_cluster_bootstrap_brokers", "cluster_link_name"}
                    \cup ClusterCredentials
                    \cup (IF Scram(r) THEN MskCredentials ELSE {"jump_cluster_iam_auth_role_name"}))
<1>1. JumpClusterMain(r) = {AmiData, Block("aws_instance.jump_cluster", used, {"data.aws_ami"})}
  BY DEF JumpClusterMain, JumpInstances
<1>2. used \subseteq declares
  <2>1. "jump_cluster_broker_subnet_ids" \in {v[2] : v \in JumpClusterFromModules}
    BY FromModules
  <2>2. ~Scram(r) => r.msk_jump_cluster_auth_type = "iam"
    BY DEF Request, Scram
  <2>3. QED
    BY <2>1, <2>2 DEF JumpClusterVariables, When
<1>3. \A o \in DOMAIN JumpClusterOutputs : JumpClusterOutputs[o] = "aws_instance.jump_cluster"
  <2>1. DOMAIN JumpClusterOutputs = {"jump_cluster_instances_private_dns"}
    BY DEF JumpClusterOutputs
  <2>2. JumpClusterOutputs["jump_cluster_instances_private_dns"] = "aws_instance.jump_cluster"
    BY DEF JumpClusterOutputs
  <2>3. QED
    BY <2>1, <2>2
<1> HIDE DEF declares, used
<1>4. Resolves(Module(declares, JumpClusterMain(r), JumpClusterOutputs))
  BY <1>1, <1>2, <1>3, InstanceResolves
<1>5. QED
  BY <1>4 DEF declares

(* So do the host that sets them up and the instance that makes an external  *)
(* outbound link: they mention all they declare.                             *)
LEMMA HostsResolve ==
  /\ Resolves(Module({v[2] : v \in SetupHostFromModules}, SetupHostMain, NoOutputs))
  /\ Resolves(Module(ExternalOutboundVariables, ExternalOutboundMain, NoOutputs))
<1> DEFINE fed == {v[2] : v \in SetupHostFromModules}
<1>1. /\ SetupHostMain =
           {AmiData, Block("aws_instance.jump_cluster_setup_host", fed, {"data.aws_ami"})}
      /\ ExternalOutboundMain =
           {AmiData, Block("aws_instance.external_outbound_cluster_link",
                           ExternalOutboundVariables, {"data.aws_ami"})}
  BY DEF SetupHostMain, ExternalOutboundMain, UserDataInstance
<1>2. DOMAIN NoOutputs = {}
  BY DEF NoOutputs
<1> HIDE DEF fed
<1>3. Resolves(Module(fed, SetupHostMain, NoOutputs))
  BY <1>1, <1>2, InstanceResolves
<1>4. Resolves(Module(ExternalOutboundVariables, ExternalOutboundMain, NoOutputs))
  BY <1>1, <1>2, InstanceResolves
<1>5. QED
  BY <1>3, <1>4 DEF fed

(* What each block of the networking module mentions.                        *)
LEMMA NetworkingBlocks ==
  ASSUME NEW r \in Request, NEW b \in NetworkingMain(r)
  PROVE  LET gateway == InternetGateway(r) IN
         \/ b = [block |-> gateway, vars |-> {"vpc_id"}, refs |-> {}]
         \/ b = [block |-> "data.aws_availability_zones", vars |-> {}, refs |-> {}]
         \/ b = [block |-> "aws_security_group", vars |-> {"vpc_id"}, refs |-> {}]
         \/ b = [block |-> "aws_eip", vars |-> {}, refs |-> {}]
         \/ b = [block |-> "data.aws_vpc_endpoint", vars |-> {"existing_private_link_vpce_id"}, refs |-> {}]
         \/ b = [block |-> "tls_private_key", vars |-> {}, refs |-> {}]
         \/ b = [block |-> "aws_subnet.brokers", vars |-> {"vpc_id", "jump_cluster_broker_subnet_cidrs"},
                 refs |-> {"data.aws_availability_zones"}]
         \/ b = [block |-> "aws_subnet.setup_host", vars |-> {"vpc_id", "jump_cluster_setup_host_subnet_cidr"},
                 refs |-> {"data.aws_availability_zones"}]
         \/ b = [block |-> "aws_nat_gateway", vars |-> {}, refs |-> {"aws_eip", "aws_subnet.setup_host"}]
         \/ b = [block |-> "aws_route_table.public", vars |-> {"vpc_id"}, refs |-> {gateway}]
         \/ b = [block |-> "aws_route_table_association.public", vars |-> {},
                 refs |-> {"aws_subnet.setup_host", "aws_route_table.public"}]
         \/ b = [block |-> "aws_route_table.private", vars |-> {"vpc_id"}, refs |-> {"aws_nat_gateway"}]
         \/ b = [block |-> "aws_route_table_association.brokers", vars |-> {},
                 refs |-> {"aws_subnet.brokers", "aws_route_table.private"}]
         \/ /\ b.block \in {"ingress_rule_80", "ingress_rule_443", "ingress_rule_9092"}
            /\ b = [block |-> b.block, vars |-> {}, refs |-> {"aws_security_group", "data.aws_vpc_endpoint"}]
         \/ /\ b.block \in {"local_file.private_key", "local_file.public_key", "aws_key_pair"}
            /\ b = [block |-> b.block, vars |-> {}, refs |-> {"tls_private_key"}]
<1>1. CASE b \in IngressRules
  BY <1>1 DEF IngressRules, Block
<1>2. CASE b \in SshKey
  BY <1>2 DEF SshKey, Block
<1>3. CASE b \notin IngressRules \cup SshKey
  BY <1>3 DEF NetworkingMain, Block, SecurityGroup, Subnet, RouteTable, PublicRouteTable, Association
<1>4. QED
  BY <1>1, <1>2, <1>3

(* The networking module resolves, with a gateway of its own or without.     *)
LEMMA NetworkingResolves ==
  ASSUME NEW r \in Request
  PROVE  Resolves(Module(NetworkingVariables, NetworkingMain(r), NetworkingOutputs))
<1> DEFINE gateway == InternetGateway(r)
           main == NetworkingMain(r)
           module == Module(NetworkingVariables, main, NetworkingOutputs)
           names == {gateway, "data.aws_availability_zones", "aws_security_group", "aws_eip",
                     "data.aws_vpc_endpoint", "tls_private_key", "aws_subnet.brokers",
                     "aws_subnet.setup_host", "aws_nat_gateway", "aws_route_table.public",
                     "aws_route_table.private", "aws_key_pair"}
<1>1. gateway \in {"data.aws_internet_gateway", "aws_internet_gateway"}
  BY DEF InternetGateway
<1>2. module.declares = NetworkingVariables /\ module.main = main /\ module.outputs = NetworkingOutputs
  BY DEF Module
<1>3. names \subseteq Defined(main)
  <2>1. \A n, used, refs : Block(n, used, refs) \in main => n \in Defined(main)
    <3>1. \A n, used, refs : Block(n, used, refs).block = n
      BY DEF Block
    <3> HIDE DEF main
    <3>2. QED
      BY <3>1 DEF Defined
  <2>2. gateway \in Defined(main) /\ "data.aws_availability_zones" \in Defined(main)
    BY <2>1 DEF NetworkingMain
  <2>3. /\ "aws_eip" \in Defined(main) /\ "data.aws_vpc_endpoint" \in Defined(main)
        /\ "aws_nat_gateway" \in Defined(main)
    BY <2>1 DEF NetworkingMain
  <2>4. "aws_security_group" \in Defined(main)
    BY <2>1 DEF NetworkingMain, SecurityGroup
  <2>5. "aws_subnet.brokers" \in Defined(main) /\ "aws_subnet.setup_host" \in Defined(main)
    BY <2>1 DEF NetworkingMain, Subnet
  <2>6. "aws_route_table.public" \in Defined(main) /\ "aws_route_table.private" \in Defined(main)
    BY <2>1 DEF NetworkingMain, RouteTable, PublicRouteTable
  <2>7. "tls_private_key" \in Defined(main) /\ "aws_key_pair" \in Defined(main)
    BY <2>1 DEF NetworkingMain, SshKey
  <2> HIDE DEF gateway, main
  <2>8. QED
    BY <2>2, <2>3, <2>4, <2>5, <2>6, <2>7
<1>4. \A b \in main : b.vars \subseteq NetworkingVariables /\ b.refs \subseteq names
  <2> HIDE DEF gateway
  <2> QED
    BY NetworkingBlocks DEF NetworkingVariables, gateway
<1>5. \A b, c \in main : b.block = c.block => b = c
  <2> DEFINE used(n) ==
               IF n \in {gateway, "aws_security_group", "aws_route_table.public", "aws_route_table.private"}
               THEN {"vpc_id"}
               ELSE IF n = "data.aws_vpc_endpoint" THEN {"existing_private_link_vpce_id"}
               ELSE IF n = "aws_subnet.brokers" THEN {"vpc_id", "jump_cluster_broker_subnet_cidrs"}
               ELSE IF n = "aws_subnet.setup_host" THEN {"vpc_id", "jump_cluster_setup_host_subnet_cidr"}
               ELSE {}
             refs(n) ==
               IF n \in {"aws_subnet.brokers", "aws_subnet.setup_host"} THEN {"data.aws_availability_zones"}
               ELSE IF n = "aws_nat_gateway" THEN {"aws_eip", "aws_subnet.setup_host"}
               ELSE IF n = "aws_route_table.public" THEN {gateway}
               ELSE IF n = "aws_route_table_association.public"
                    THEN {"aws_subnet.setup_host", "aws_route_table.public"}
               ELSE IF n = "aws_route_table.private" THEN {"aws_nat_gateway"}
               ELSE IF n = "aws_route_table_association.brokers"
                    THEN {"aws_subnet.brokers", "aws_route_table.private"}
               ELSE IF n \in {"ingress_rule_80", "ingress_rule_443", "ingress_rule_9092"}
                    THEN {"aws_security_group", "data.aws_vpc_endpoint"}
               ELSE IF n \in {"local_file.private_key", "local_file.public_key", "aws_key_pair"}
                    THEN {"tls_private_key"}
               ELSE {}
  <2>1. \A b \in main : b = [block |-> b.block, vars |-> used(b.block), refs |-> refs(b.block)]
    <3> SUFFICES ASSUME NEW b \in main
                 PROVE  b = [block |-> b.block, vars |-> used(b.block), refs |-> refs(b.block)]
      OBVIOUS
    <3>1. b = [block |-> b.block, vars |-> b.vars, refs |-> b.refs]
      BY NetworkingBlocks
    <3>2. b.vars = used(b.block)
      <4>1. \/ /\ b.block \in {gateway, "aws_security_group", "aws_route_table.public",
                               "aws_route_table.private"}
               /\ b.vars = {"vpc_id"}
            \/ b.block = "data.aws_vpc_endpoint" /\ b.vars = {"existing_private_link_vpce_id"}
            \/ b.block = "aws_subnet.brokers" /\ b.vars = {"vpc_id", "jump_cluster_broker_subnet_cidrs"}
            \/ b.block = "aws_subnet.setup_host" /\ b.vars = {"vpc_id", "jump_cluster_setup_host_subnet_cidr"}
            \/ /\ b.block \notin {gateway, "aws_security_group", "aws_route_table.public",
                                  "aws_route_table.private", "data.aws_vpc_endpoint",
                                  "aws_subnet.brokers", "aws_subnet.setup_host"}
               /\ b.vars = {}
        BY <1>1, NetworkingBlocks
      <4> HIDE DEF gateway, main
      <4>2. QED
        BY <1>1, <4>1
    <3>3. b.refs = refs(b.block)
      <4>1. \/ /\ b.block \in {"aws_subnet.brokers", "aws_subnet.setup_host"}
               /\ b.refs = {"data.aws_availability_zones"}
            \/ b.block = "aws_nat_gateway" /\ b.refs = {"aws_eip", "aws_subnet.setup_host"}
            \/ b.block = "aws_route_table.public" /\ b.refs = {gateway}
            \/ /\ b.block = "aws_route_table_association.public"
               /\ b.refs = {"aws_subnet.setup_host", "aws_route_table.public"}
            \/ b.block = "aws_route_table.private" /\ b.refs = {"aws_nat_gateway"}
            \/ /\ b.block = "aws_route_table_association.brokers"
               /\ b.refs = {"aws_subnet.brokers", "aws_route_table.private"}
            \/ /\ b.block \in {"ingress_rule_80", "ingress_rule_443", "ingress_rule_9092"}
               /\ b.refs = {"aws_security_group", "data.aws_vpc_endpoint"}
            \/ /\ b.block \in {"local_file.private_key", "local_file.public_key", "aws_key_pair"}
               /\ b.refs = {"tls_private_key"}
            \/ /\ b.block \in {gateway, "data.aws_availability_zones", "aws_security_group", "aws_eip",
                               "data.aws_vpc_endpoint", "tls_private_key"}
               /\ b.refs = {}
        BY <1>1, NetworkingBlocks
      <4> HIDE DEF gateway, main
      <4>2. QED
        BY <1>1, <4>1
    <3>4. QED
      BY <3>1, <3>2, <3>3
  <2> HIDE DEF used, refs
  <2>2. QED
    BY <2>1
<1>6. \A o \in DOMAIN NetworkingOutputs : NetworkingOutputs[o] \in names
  BY DEF NetworkingOutputs
<1> HIDE DEF main, module, names
<1>7. BlocksResolve(module)
  BY <1>2, <1>3, <1>4 DEF BlocksResolve
<1>8. OutputsResolve(module)
  BY <1>2, <1>3, <1>6 DEF OutputsResolve
<1>9. OneBlockPerName(module)
  BY <1>2, <1>5 DEF OneBlockPerName
<1>10. QED
  BY <1>7, <1>8, <1>9 DEF main, module, Resolves

(* Jump clusters have an authentication, as the endpoint demands and the     *)
(* command always gives.                                                     *)
Authenticated(r) == Jump(r) => r.msk_jump_cluster_auth_type # ""

(* Every module of a project resolves.                                       *)
LEMMA ModulesResolve ==
  ASSUME NEW r \in Request, Authenticated(r), NEW m \in DOMAIN ModulesOf(r)
  PROVE  Resolves(ModulesOf(r)[m])
<1>1. CASE Public(r)
  <2>1. PICK link : ModulesOf(r) = [cluster_link |-> link] /\ Resolves(link)
    BY <1>1, ClusterLinkResolves DEF ModulesOf, Jump, Public
  <2>2. QED
    BY <2>1
<1>2. CASE Jump(r)
  <2>1. ~Public(r)
    BY <1>2 DEF Jump, Public
  <2>2. PICK host, jump, networking :
          /\ ModulesOf(r) = [jump_cluster_setup_host |-> host, jump_cluster |-> jump,
                             networking |-> networking]
          /\ Resolves(host) /\ Resolves(jump) /\ Resolves(networking)
    BY <1>2, <2>1, HostsResolve, JumpClusterResolves, NetworkingResolves DEF ModulesOf, Authenticated
  <2>3. QED
    BY <2>2
<1>3. CASE ~Public(r) /\ ~Jump(r)
  <2>1. PICK link : ModulesOf(r) = [external_outbound_cluster_link |-> link] /\ Resolves(link)
    BY <1>3, HostsResolve DEF ModulesOf
  <2>2. QED
    BY <2>1
<1>4. QED
  BY <1>1, <1>2, <1>3

(* The root passes each module the variables it declares: its own, and the   *)
(* networking's subnets and keys and the jump clusters' names.               *)
LEMMA CallsMatch ==
  ASSUME NEW r \in Request, NEW m \in DOMAIN ModulesOf(r)
  PROVE  CallMatches(GenerateTerraformModules(r), m)
<1> DEFINE p == GenerateTerraformModules(r)
<1>1. p.calls = Calls(r) /\ p.modules = ModulesOf(r) /\ p.root.declares = RootVariables(r)
  BY DEF GenerateTerraformModules
<1> HIDE DEF p
<1>2. CASE Public(r)
  <2>1. /\ Calls(r) = [cluster_link |-> Call(ClusterLinkVariables, {})]
        /\ ModulesOf(r) = [cluster_link |-> Module(ClusterLinkVariables, ClusterLinkMain, NoOutputs)]
    BY <1>2 DEF Calls, ModulesOf, Jump, Public
  <2>2. m = "cluster_link"
    BY <2>1
  <2>3. /\ p.calls[m].vars = ClusterLinkVariables /\ p.calls[m].outputs = {}
        /\ p.modules[m].declares = ClusterLinkVariables
    BY <1>1, <2>1, <2>2 DEF Call, Module
  <2>4. ClusterLinkVariables \subseteq RootVariables(r)
    BY <1>2 DEF RootVariables, When
  <2>5. QED
    BY <1>1, <2>3, <2>4 DEF CallMatches, p
<1>3. CASE ~Public(r) /\ ~Jump(r)
  <2>1. /\ Calls(r) = [external_outbound_cluster_link |-> Call(ExternalOutboundVariables, {})]
        /\ ModulesOf(r) = [external_outbound_cluster_link |->
                             Module(ExternalOutboundVariables, ExternalOutboundMain, NoOutputs)]
    BY <1>3 DEF Calls, ModulesOf
  <2>2. m = "external_outbound_cluster_link"
    BY <2>1
  <2>3. /\ p.calls[m].vars = ExternalOutboundVariables /\ p.calls[m].outputs = {}
        /\ p.modules[m].declares = ExternalOutboundVariables
    BY <1>1, <2>1, <2>2 DEF Call, Module
  <2>4. ExternalOutboundVariables \subseteq RootVariables(r)
    BY <1>3 DEF RootVariables, When, Public, Jump, External
  <2>5. QED
    BY <1>1, <2>3, <2>4 DEF CallMatches, p
<1>4. CASE Jump(r)
  <2> DEFINE host == Module({v[2] : v \in SetupHostFromModules}, SetupHostMain, NoOutputs)
             jump == Module(JumpClusterVariables(r) \cup {v[2] : v \in JumpClusterFromModules},
                            JumpClusterMain(r), JumpClusterOutputs)
             networking == Module(NetworkingVariables, NetworkingMain(r), NetworkingOutputs)
  <2>1. /\ Calls(r) = [networking |-> Call(NetworkingVariables, {}),
                       jump_cluster_setup_host |-> Call({}, SetupHostFromModules),
                       jump_cluster |-> Call(JumpClusterVariables(r), JumpClusterFromModules)]
        /\ ModulesOf(r) = [jump_cluster_setup_host |-> host, jump_cluster |-> jump,
                           networking |-> networking]
    BY <1>4 DEF Calls, ModulesOf, Jump, Public
  <2>2. NetworkingVariables \cup JumpClusterVariables(r) \subseteq RootVariables(r)
    BY <1>4 DEF RootVariables, When
  <2>3. /\ DOMAIN jump.outputs = {"jump_cluster_instances_private_dns"}
        /\ DOMAIN networking.outputs =
             {"jump_cluster_setup_host_subnet_id", "jump_cluster_broker_subnet_ids",
              "jump_cluster_ssh_key_pair_name", "private_key", "jump_cluster_security_group_ids"}
    BY DEF Module, JumpClusterOutputs, NetworkingOutputs
  <2>4. /\ host.declares = {v[2] : v \in SetupHostFromModules}
        /\ jump.declares = JumpClusterVariables(r) \cup {v[2] : v \in JumpClusterFromModules}
        /\ networking.declares = NetworkingVariables
    BY DEF Module
  <2> HIDE DEF host, jump, networking
  <2>5. \A o \in SetupHostFromModules \cup JumpClusterFromModules :
           \/ o[1] = "networking" /\ o[2] \in DOMAIN networking.outputs
           \/ o[1] = "jump_cluster" /\ o[2] \in DOMAIN jump.outputs
    BY <2>3 DEF SetupHostFromModules, JumpClusterFromModules
  <2>6. /\ p.modules["networking"] = networking /\ p.modules["jump_cluster"] = jump
        /\ p.modules["jump_cluster_setup_host"] = host
        /\ {"networking", "jump_cluster"} \subseteq DOMAIN p.modules
    BY <1>1, <2>1
  <2>7. m \in {"networking", "jump_cluster", "jump_cluster_setup_host"}
    BY <2>1
  <2>8. \A o \in SetupHostFromModules \cup JumpClusterFromModules :
           o[1] \in DOMAIN p.modules /\ o[2] \in DOMAIN p.modules[o[1]].outputs
    BY <2>5, <2>6
  <2>9. CASE m = "networking"
    <3>1. p.calls[m].vars = NetworkingVariables /\ p.calls[m].outputs = {}
      BY <1>1, <2>1, <2>9 DEF Call
    <3>2. p.modules[m].declares = NetworkingVariables
      BY <2>4, <2>6, <2>9
    <3>3. QED
      BY <1>1, <2>2, <3>1, <3>2 DEF CallMatches, p
  <2>10. CASE m = "jump_cluster"
    <3>1. p.calls[m].vars = JumpClusterVariables(r) /\ p.calls[m].outputs = JumpClusterFromModules
      BY <1>1, <2>1, <2>10 DEF Call
    <3>2. p.modules[m].declares = JumpClusterVariables(r) \cup {v[2] : v \in JumpClusterFromModules}
      BY <2>4, <2>6, <2>10
    <3>3. QED
      BY <1>1, <2>2, <2>8, <3>1, <3>2 DEF CallMatches, p
  <2>11. CASE m = "jump_cluster_setup_host"
    <3>1. p.calls[m].vars = {} /\ p.calls[m].outputs = SetupHostFromModules
      BY <1>1, <2>1, <2>11 DEF Call
    <3>2. p.modules[m].declares = {v[2] : v \in SetupHostFromModules}
      BY <2>4, <2>6, <2>11
    <3>3. QED
      BY <1>1, <2>8, <3>1, <3>2 DEF CallMatches, p
  <2>12. QED
    BY <2>7, <2>9, <2>10, <2>11
<1>5. QED
  BY <1>2, <1>3, <1>4

(* For every request whose jump clusters have an authentication, the project *)
(* is one that Terraform accepts and each template gets what it mentions.    *)
THEOREM GeneratedMigrationIsCoherent ==
  ASSUME NEW r \in Request, Authenticated(r)
  PROVE  CoherentMigration(r)
<1> DEFINE p == GenerateTerraformModules(r)
<1>1. /\ p.calls = Calls(r) /\ p.modules = ModulesOf(r) /\ p.root.declares = RootVariables(r)
      /\ p.root.main = RootMain(r) /\ p.root.values = Values(r) /\ p.root.outputs = {}
  BY DEF GenerateTerraformModules
<1>2. DOMAIN Calls(r) = DOMAIN ModulesOf(r)
  <2>1. CASE Public(r)
    BY <2>1 DEF Calls, ModulesOf, Jump, Public
  <2>2. CASE Jump(r)
    BY <2>2 DEF Calls, ModulesOf, Jump, Public
  <2>3. CASE ~Public(r) /\ ~Jump(r)
    BY <2>3 DEF Calls, ModulesOf
  <2>4. QED
    BY <2>1, <2>2, <2>3
<1>3. \A b \in RootMain(r) : b.vars \subseteq RootVariables(r) /\ b.refs = {}
  <2> SUFFICES ASSUME NEW b \in RootMain(r)
               PROVE  b.vars \subseteq RootVariables(r) /\ b.refs = {}
    OBVIOUS
  <2>1. CASE b = AwsProvider /\ ~Public(r)
    BY <2>1 DEF AwsProvider, Block, RootVariables, ProviderVariables, When
  <2>2. CASE b = ConfluentProvider
    BY <2>2 DEF ConfluentProvider, Block, RootVariables, ProviderVariables
  <2>3. CASE b = MskPrivateLinkModule /\ External(r)
    BY <2>3 DEF MskPrivateLinkModule, Block, RootVariables, When
  <2>4. QED
    BY <2>1, <2>2, <2>3 DEF RootMain, When
<1>4. Values(r) \subseteq RootVariables(r)
  BY DEF Values
<1>5. \A m \in DOMAIN ModulesOf(r) :
         /\ BlocksResolve(ModulesOf(r)[m]) /\ OutputsResolve(ModulesOf(r)[m])
         /\ OneBlockPerName(ModulesOf(r)[m]) /\ CallMatches(p, m)
  BY ModulesResolve, CallsMatch DEF Resolves
<1>6. \A t \in Templates(r) : t.used \subseteq t.passed
  BY DEF Templates, SetupHostTemplate, JumpTemplate, ExternalOutboundTemplate
<1> HIDE DEF p
<1>7. Coherent(p)
  BY <1>1, <1>2, <1>3, <1>4, <1>5 DEF Coherent
<1>8. QED
  BY <1>6, <1>7 DEF CoherentMigration, p

(* Nothing in the networking module waits for itself: the subnets, gateways  *)
(* and keys come first, then the NAT gateway and the public route, then the  *)
(* private one and the associations.                                         *)
LEMMA NetworkingHasNoCycle ==
  ASSUME NEW r \in Request
  PROVE  NoCycle(Module(NetworkingVariables, NetworkingMain(r), NetworkingOutputs))
<1> DEFINE gateway == InternetGateway(r)
           ground == {gateway, "data.aws_availability_zones", "aws_security_group", "aws_eip",
                      "data.aws_vpc_endpoint", "tls_private_key"}
           second == ground \cup {"aws_subnet.brokers", "aws_subnet.setup_host"}
           third == second \cup {"aws_nat_gateway", "aws_route_table.public"}
           fourth == third \cup {"aws_route_table.private"}
<1> SUFFICES ASSUME NEW S \in SUBSET NetworkingMain(r),
                    \A b \in S : \E c \in S : c.block \in b.refs
             PROVE  S = {}
  BY DEF NoCycle, Module
<1>1. gateway \in {"data.aws_internet_gateway", "aws_internet_gateway"}
  BY DEF InternetGateway
<1>2. \A b \in S : b.block \in ground => b.refs = {}
  BY <1>1, NetworkingBlocks
<1>3. \A b \in S : b.block \in second => b.refs \subseteq ground
  BY <1>1, NetworkingBlocks
<1>4. \A b \in S : b.block \in third => b.refs \subseteq second
  BY <1>1, NetworkingBlocks
<1>5. \A b \in S : b.block \in fourth => b.refs \subseteq third
  BY <1>1, NetworkingBlocks
<1>6. \A b \in S : b.refs \subseteq fourth
  BY <1>1, NetworkingBlocks
<1> HIDE DEF ground, second, third, fourth
<1>7. \A b \in S : b.block \notin ground
  BY <1>2
<1>8. \A b \in S : b.block \notin second
  BY <1>3, <1>7
<1>9. \A b \in S : b.block \notin third
  BY <1>4, <1>8
<1>10. \A b \in S : b.block \notin fourth
  BY <1>5, <1>9
<1>11. QED
  BY <1>6, <1>10

(* Nor does anything in the other modules.                                   *)
LEMMA InstanceHasNoCycle ==
  ASSUME NEW name, name # "data.aws_ami", NEW declares, NEW used, NEW outputs
  PROVE  NoCycle(Module(declares, {AmiData, Block(name, used, {"data.aws_ami"})}, outputs))
<1> DEFINE main == {AmiData, Block(name, used, {"data.aws_ami"})}
<1>1. \A b \in main : \/ b.block = "data.aws_ami" /\ b.refs = {}
                      \/ b.block = name /\ b.refs = {"data.aws_ami"}
  <2>1. AmiData.block = "data.aws_ami" /\ AmiData.refs = {}
    BY DEF AmiData, Block
  <2>2. /\ Block(name, used, {"data.aws_ami"}).block = name
        /\ Block(name, used, {"data.aws_ami"}).refs = {"data.aws_ami"}
    BY DEF Block
  <2>3. QED
    BY <2>1, <2>2
<1> HIDE DEF main
<1>2. ASSUME NEW S \in SUBSET main, S # {}
      PROVE  \E b \in S : \A c \in S : c.block \notin b.refs
  <2>1. CASE \E b \in S : b.block = "data.aws_ami"
    BY <2>1, <1>1
  <2>2. CASE \A b \in S : b.block # "data.aws_ami"
    BY <1>2, <2>2, <1>1
  <2>3. QED
    BY <2>1, <2>2
<1>3. Module(declares, main, outputs).main = main
  BY DEF Module
<1>4. NoCycle(Module(declares, main, outputs))
  BY <1>2, <1>3 DEF NoCycle
<1>5. QED
  BY <1>4 DEF main

(* Nor does the local of the public link, which its resource uses.           *)
LEMMA ClusterLinkHasNoCycle ==
  NoCycle(Module(ClusterLinkVariables, ClusterLinkMain, NoOutputs))
<1>1. \A b \in ClusterLinkMain :
         \/ b.block = "local.basic_auth_credentials" /\ b.refs = {}
         \/ /\ b.block = "null_resource.confluent_cluster_link"
            /\ b.refs = {"local.basic_auth_credentials"}
  BY DEF ClusterLinkMain, Block
<1>2. ASSUME NEW S \in SUBSET ClusterLinkMain, S # {}
      PROVE  \E b \in S : \A c \in S : c.block \notin b.refs
  <2>1. CASE \E b \in S : b.block = "local.basic_auth_credentials"
    BY <2>1, <1>1
  <2>2. CASE \A b \in S : b.block # "local.basic_auth_credentials"
    BY <1>2, <2>2, <1>1
  <2>3. QED
    BY <2>1, <2>2
<1>3. Module(ClusterLinkVariables, ClusterLinkMain, NoOutputs).main = ClusterLinkMain
  BY DEF Module
<1>4. QED
  BY <1>2, <1>3 DEF NoCycle

(* Every project can be created: no block of a module waits for itself, and  *)
(* the calls follow one another from the networking to the jump clusters and *)
(* on to the host that sets them up.                                         *)
THEOREM GeneratedMigrationHasNoCycle ==
  ASSUME NEW r \in Request
  PROVE  /\ NoModuleCycle(GenerateTerraformModules(r))
         /\ \A m \in DOMAIN ModulesOf(r) : NoCycle(ModulesOf(r)[m])
<1>1. CASE Public(r)
  <2>1. PICK call, link : /\ Calls(r) = [cluster_link |-> call] /\ call.outputs = {}
                          /\ ModulesOf(r) = [cluster_link |-> link] /\ NoCycle(link)
    BY <1>1, ClusterLinkHasNoCycle DEF Calls, ModulesOf, Call, Jump, Public
  <2>2. \A S \in SUBSET DOMAIN Calls(r) : \A c \in S : Calls(r)[c].outputs = {}
    BY <2>1
  <2>3. NoModuleCycle(GenerateTerraformModules(r))
    BY <2>2 DEF NoModuleCycle, GenerateTerraformModules
  <2>4. QED
    BY <2>1, <2>3
<1>2. CASE Jump(r)
  <2>1. Calls(r) = [networking |-> Call(NetworkingVariables, {}),
                    jump_cluster_setup_host |-> Call({}, SetupHostFromModules),
                    jump_cluster |-> Call(JumpClusterVariables(r), JumpClusterFromModules)]
    BY <1>2 DEF Calls, Jump, Public
  <2>2. /\ \A o \in SetupHostFromModules : o[1] \in {"networking", "jump_cluster"}
        /\ \A o \in JumpClusterFromModules : o[1] = "networking"
    BY DEF SetupHostFromModules, JumpClusterFromModules
  <2>3. ASSUME NEW S \in SUBSET DOMAIN Calls(r), S # {}
        PROVE  \E c \in S : \A o \in Calls(r)[c].outputs : o[1] \notin S
    <3>1. S \subseteq {"networking", "jump_cluster", "jump_cluster_setup_host"}
      BY <2>1
    <3>2. /\ Calls(r)["networking"].outputs = {}
          /\ Calls(r)["jump_cluster"].outputs = JumpClusterFromModules
          /\ Calls(r)["jump_cluster_setup_host"].outputs = SetupHostFromModules
      BY <2>1 DEF Call
    <3>3. CASE "networking" \in S
      BY <3>2, <3>3
    <3>4. CASE "networking" \notin S /\ "jump_cluster" \in S
      BY <2>2, <3>2, <3>4
    <3>5. CASE S = {"jump_cluster_setup_host"}
      BY <2>2, <3>2, <3>5
    <3>6. QED
      BY <2>3, <3>1, <3>3, <3>4, <3>5
  <2>4. PICK host, jump, networking :
          /\ ModulesOf(r) = [jump_cluster_setup_host |-> host, jump_cluster |-> jump,
                             networking |-> networking]
          /\ NoCycle(host) /\ NoCycle(jump) /\ NoCycle(networking)
    <3>1. NoCycle(Module({v[2] : v \in SetupHostFromModules}, SetupHostMain, NoOutputs))
      BY InstanceHasNoCycle DEF SetupHostMain, UserDataInstance
    <3>2. NoCycle(Module(JumpClusterVariables(r) \cup {v[2] : v \in JumpClusterFromModules},
                         JumpClusterMain(r), JumpClusterOutputs))
      BY InstanceHasNoCycle DEF JumpClusterMain, JumpInstances
    <3>3. QED
      BY <1>2, <3>1, <3>2, NetworkingHasNoCycle DEF ModulesOf, Jump, Public
  <2>5. NoModuleCycle(GenerateTerraformModules(r))
    BY <2>3 DEF NoModuleCycle, GenerateTerraformModules
  <2>6. \A m \in DOMAIN ModulesOf(r) : NoCycle(ModulesOf(r)[m])
    BY <2>4
  <2>7. QED
    BY <2>5, <2>6
<1>3. CASE ~Public(r) /\ ~Jump(r)
  <2>1. NoCycle(Module(ExternalOutboundVariables, ExternalOutboundMain, NoOutputs))
    BY InstanceHasNoCycle DEF ExternalOutboundMain, UserDataInstance
  <2>2. PICK call, link :
          /\ Calls(r) = [external_outbound_cluster_link |-> call] /\ call.outputs = {}
          /\ ModulesOf(r) = [external_outbound_cluster_link |-> link] /\ NoCycle(link)
    BY <1>3, <2>1 DEF Calls, ModulesOf, Call
  <2>3. \A S \in SUBSET DOMAIN Calls(r) : \A c \in S : Calls(r)[c].outputs = {}
    BY <2>2
  <2>4. NoModuleCycle(GenerateTerraformModules(r))
    BY <2>3 DEF NoModuleCycle, GenerateTerraformModules
  <2>5. QED
    BY <2>2, <2>4
<1>4. QED
  BY <1>1, <1>2, <1>3

-----------------------------------------------------------------------------
(* What has no cycle can be ordered.                                         *)

(* A set of natural numbers that is not empty has a least element.           *)
LEMMA LeastNumber ==
  ASSUME NEW S, S \subseteq Nat, S # {}
  PROVE  \E n \in S : \A m \in S : n <= m
<1> DEFINE Below == {p \in Nat \X Nat : p[1] < p[2]}
<1>1. IsWellFoundedOn(Below, Nat)
  <2>1. Below = OpToRel(<, Nat)
    BY Zenon DEF OpToRel
  <2>2. QED
    BY <2>1, NatLessThanWellFounded, Zenon
<1>2. \A m, n \in Nat : m < n => <<m, n>> \in Below
  OBVIOUS
<1> HIDE DEF Below
<1>3. PICK n \in S : \A m \in S : ~ (<<m, n>> \in Below)
  BY <1>1, WFMin, Zenon
<1>4. \A m \in S : ~ (m < n) /\ m \in Nat /\ n \in Nat
  BY <1>2, <1>3
<1>5. QED
  BY <1>4

(* The blocks that wait for none but those of S.                             *)
Ready(main, S) == {b \in main : b.refs \subseteq {c.block : c \in S}}

(* The rounds in which a module's blocks are settled, f its first n.         *)
AreRounds(f, main, n) ==
  f = [i \in 0..n |-> IF i = 0 THEN {} ELSE Ready(main, f[i - 1])]

LEMMA RoundsExist ==
  ASSUME NEW main, NEW N \in Nat
  PROVE  \E f : AreRounds(f, main, N)
<1> DEFINE without == {n \in Nat : ~ \E f : AreRounds(f, main, n)}
<1> SUFFICES ASSUME without # {} PROVE FALSE
  OBVIOUS
<1>1. PICK n \in without : \A m \in without : n <= m
  BY LeastNumber
<1>2. n \in Nat /\ ~ \E f : AreRounds(f, main, n)
  BY <1>1
<1>3. CASE n = 0
  <2> DEFINE f == [i \in 0..0 |-> {}]
  <2>1. AreRounds(f, main, 0)
    BY DEF AreRounds
  <2>2. QED
    BY <1>2, <1>3, <2>1
<1>4. CASE n # 0
  <2>1. n - 1 \in Nat /\ ~ (n <= n - 1)
    BY <1>2, <1>4
  <2>2. PICK f : AreRounds(f, main, n - 1)
    BY <1>1, <2>1
  <2> DEFINE g == [i \in 0..n |-> IF i = n THEN Ready(main, f[n - 1]) ELSE f[i]]
  <2>3. \A i \in 0..(n - 1) : g[i] = f[i] /\ f[i] = IF i = 0 THEN {} ELSE Ready(main, f[i - 1])
    <3>1. \A i \in 0..(n - 1) : i \in 0..n /\ i # n
      BY <1>2
    <3>2. \A i \in 0..(n - 1) : f[i] = IF i = 0 THEN {} ELSE Ready(main, f[i - 1])
      BY <2>2, Zenon DEF AreRounds
    <3>3. QED
      BY <3>1, <3>2
  <2>4. \A i \in 0..n : g[i] = IF i = 0 THEN {} ELSE Ready(main, g[i - 1])
    <3> SUFFICES ASSUME NEW i \in 0..n PROVE g[i] = IF i = 0 THEN {} ELSE Ready(main, g[i - 1])
      OBVIOUS
    <3>1. CASE i = n
      <4>1. n - 1 \in 0..(n - 1) /\ g[n] = Ready(main, f[n - 1])
        BY <1>2, <2>1
      <4>2. QED
        BY <1>4, <2>3, <3>1, <4>1
    <3>2. CASE i = 0
      <4>1. 0 \in 0..(n - 1)
        BY <2>1
      <4>2. QED
        BY <2>3, <3>2, <4>1
    <3>3. CASE i # n /\ i # 0
      <4>1. i \in 0..(n - 1) /\ i - 1 \in 0..(n - 1)
        BY <1>2, <3>3
      <4>2. QED
        BY <2>3, <3>3, <4>1
    <3>4. QED
      BY <3>1, <3>2, <3>3
  <2>5. g = [i \in 0..n |-> g[i]]
    OBVIOUS
  <2> HIDE DEF g
  <2>6. AreRounds(g, main, n)
    BY <2>4, <2>5 DEF AreRounds
  <2>7. QED
    BY <1>2, <2>6
<1>5. QED
  BY <1>3, <1>4

(* Without a cycle every round settles a block, until all are settled: the   *)
(* blocks of any module without cycles can be created one after another.     *)
LEMMA NoCycleIsOrderable ==
  ASSUME NEW m, IsFiniteSet(m.main), NoCycle(m), BlocksResolve(m)
  PROVE  Orderable(m)
<1> DEFINE main == m.main
           N == Cardinality(main)
           settled == CHOOSE f : AreRounds(f, main, N)
<1>1. N \in Nat
  BY FS_CardinalityType
<1>2. Orderable(m) <=> settled[N] = main
  BY Zenon DEF Orderable, AreRounds, Ready
<1>3. AreRounds(settled, main, N)
  BY <1>1, RoundsExist
<1> HIDE DEF settled
<1>4. settled[0] = {} /\ \A i \in 1..N : settled[i] = Ready(main, settled[i - 1])
  <2>1. \A i \in 0..N : settled[i] = IF i = 0 THEN {} ELSE Ready(main, settled[i - 1])
    BY <1>3, Zenon DEF AreRounds
  <2>2. QED
    BY <1>1, <2>1
<1>5. \A i \in 0..N : settled[i] \subseteq main
  BY <1>1, <1>4 DEF Ready
<1>6. \A i \in 1..N : settled[i - 1] \subseteq settled[i]
  <2> DEFINE shrinks == {i \in 1..N : ~ (settled[i - 1] \subseteq settled[i])}
  <2> SUFFICES ASSUME shrinks # {} PROVE FALSE
    OBVIOUS
  <2>1. PICK i \in shrinks : \A j \in shrinks : i <= j
    <3>1. shrinks \subseteq Nat
      BY <1>1
    <3> HIDE DEF shrinks
    <3>2. QED
      BY <3>1, LeastNumber
  <2>2. i \in 1..N /\ ~ (settled[i - 1] \subseteq settled[i]) /\ settled[i] = Ready(main, settled[i - 1])
    BY <1>4, <2>1
  <2>3. i # 1
    BY <1>4, <2>2
  <2>4. i - 1 \in 1..N /\ ~ (i <= i - 1)
    BY <1>1, <2>2, <2>3
  <2>5. settled[i - 2] \subseteq settled[i - 1] /\ settled[i - 1] = Ready(main, settled[i - 2])
    <3>1. (i - 1) - 1 = i - 2
      BY <2>2
    <3>2. QED
      BY <1>4, <2>1, <2>4, <3>1
  <2>6. Ready(main, settled[i - 2]) \subseteq Ready(main, settled[i - 1])
    BY <2>5 DEF Ready
  <2>7. QED
    BY <2>2, <2>5, <2>6
<1>7. ASSUME NEW i \in 1..N, settled[i - 1] # main
      PROVE  \E b \in settled[i] : b \notin settled[i - 1]
  <2> DEFINE waiting == main \ settled[i - 1]
  <2>1. i - 1 \in 0..N
    BY <1>1
  <2>2. settled[i - 1] \subseteq main
    BY <1>5, <2>1
  <2>3. waiting \in SUBSET main /\ waiting # {}
    BY <1>7, <2>2
  <2>4. PICK b \in waiting : \A c \in waiting : c.block \notin b.refs
    BY <2>3 DEF NoCycle
  <2>5. b.refs \subseteq {c.block : c \in main}
    BY <2>4 DEF BlocksResolve, Defined
  <2>6. b.refs \subseteq {c.block : c \in settled[i - 1]}
    BY <2>4, <2>5
  <2>7. b \in settled[i]
    BY <1>4, <2>4, <2>6 DEF Ready
  <2>8. QED
    BY <2>4, <2>7
<1>8. \A i \in 0..N : settled[i] = main \/ Cardinality(settled[i]) >= i
  <2> DEFINE slow == {i \in 0..N : settled[i] # main /\ ~ (Cardinality(settled[i]) >= i)}
  <2> SUFFICES ASSUME slow # {} PROVE FALSE
    OBVIOUS
  <2>1. PICK i \in slow : \A j \in slow : i <= j
    <3>1. slow \subseteq Nat
      BY <1>1
    <3> HIDE DEF slow
    <3>2. QED
      BY <3>1, LeastNumber
  <2>2. i \in 0..N /\ settled[i] # main /\ ~ (Cardinality(settled[i]) >= i)
    BY <2>1
  <2>3. i # 0
    <3> SUFFICES ASSUME i = 0 PROVE FALSE
      OBVIOUS
    <3>1. Cardinality(settled[i]) = 0
      BY <1>4, FS_EmptySet, Zenon
    <3>2. QED
      BY <2>2, <3>1
  <2>4. i \in 1..N /\ i - 1 \in 0..N /\ ~ (i <= i - 1)
    BY <1>1, <2>2, <2>3
  <2>5. settled[i - 1] \subseteq settled[i] /\ settled[i] \subseteq main
    BY <1>5, <1>6, <2>2, <2>4
  <2>6. settled[i - 1] # main /\ Cardinality(settled[i - 1]) >= i - 1
    <3>1. i - 1 \notin slow
      BY <2>1, <2>4
    <3>2. settled[i - 1] # main
      BY <2>2, <2>5
    <3>3. QED
      BY <2>4, <3>1, <3>2
  <2>7. settled[i - 1] # settled[i]
    BY <1>7, <2>4, <2>6
  <2>8. IsFiniteSet(settled[i])
    BY <2>5, FS_Subset
  <2>9. /\ IsFiniteSet(settled[i - 1]) /\ Cardinality(settled[i - 1]) <= Cardinality(settled[i])
        /\ Cardinality(settled[i]) # Cardinality(settled[i - 1])
    BY <2>5, <2>7, <2>8, FS_Subset
  <2>10. Cardinality(settled[i]) \in Nat /\ Cardinality(settled[i - 1]) \in Nat
    BY <2>8, <2>9, FS_CardinalityType
  <2>11. QED
    BY <2>2, <2>4, <2>6, <2>9, <2>10
<1>9. settled[N] = main
  <2>1. N \in 0..N /\ settled[N] \subseteq main
    BY <1>1, <1>5
  <2>2. CASE Cardinality(settled[N]) >= N
    <3>1. /\ IsFiniteSet(settled[N]) /\ Cardinality(settled[N]) <= N
          /\ N = Cardinality(settled[N]) => main = settled[N]
      BY <2>1, FS_Subset
    <3>2. Cardinality(settled[N]) \in Nat
      BY <3>1, FS_CardinalityType
    <3>3. QED
      BY <1>1, <2>2, <3>1, <3>2
  <2>3. QED
    BY <1>8, <2>1, <2>2
<1>10. QED
  BY <1>2, <1>9

(* Small sets are finite.                                                    *)
LEMMA FourMore ==
  ASSUME NEW S, IsFiniteSet(S), NEW a, NEW b, NEW c, NEW d
  PROVE  IsFiniteSet(S \cup {a, b, c, d})
<1>1. IsFiniteSet(((S \cup {a}) \cup {b}) \cup {c})
  BY FS_AddElement
<1>2. IsFiniteSet((((S \cup {a}) \cup {b}) \cup {c}) \cup {d})
  BY <1>1, FS_AddElement
<1>3. (((S \cup {a}) \cup {b}) \cup {c}) \cup {d} = S \cup {a, b, c, d}
  OBVIOUS
<1>4. QED
  BY <1>2, <1>3

LEMMA TwoBlocks == ASSUME NEW a, NEW b PROVE IsFiniteSet({a, b})
<1>1. IsFiniteSet({} \cup {a, b, b, b})
  BY FS_EmptySet, FourMore
<1>2. {} \cup {a, b, b, b} = {a, b}
  OBVIOUS
<1>3. QED
  BY <1>1, <1>2

LEMMA TwelveBlocks ==
  ASSUME NEW a, NEW b, NEW c, NEW d, NEW e, NEW f, NEW g, NEW h, NEW i, NEW j, NEW k, NEW l
  PROVE  IsFiniteSet({a, b, c, d, e, f, g, h, i, j, k, l})
<1>1. IsFiniteSet({} \cup {a, b, c, d})
  BY FS_EmptySet, FourMore
<1>2. IsFiniteSet(({} \cup {a, b, c, d}) \cup {e, f, g, h})
  BY <1>1, FourMore
<1>3. IsFiniteSet((({} \cup {a, b, c, d}) \cup {e, f, g, h}) \cup {i, j, k, l})
  BY <1>2, FourMore
<1>4. (({} \cup {a, b, c, d}) \cup {e, f, g, h}) \cup {i, j, k, l}
        = {a, b, c, d, e, f, g, h, i, j, k, l}
  OBVIOUS
<1>5. QED
  BY <1>3, <1>4

LEMMA NetworkingIsFinite == ASSUME NEW r PROVE IsFiniteSet(NetworkingMain(r))
<1>1. PICK main : /\ IsFiniteSet(main)
                  /\ NetworkingMain(r) = (main \cup IngressRules) \cup SshKey
  BY TwelveBlocks, Zenon DEF NetworkingMain
<1>2. IngressRules = {} \cup {Block("ingress_rule_80", {}, {"aws_security_group", "data.aws_vpc_endpoint"}),
                              Block("ingress_rule_443", {}, {"aws_security_group", "data.aws_vpc_endpoint"}),
                              Block("ingress_rule_443", {}, {"aws_security_group", "data.aws_vpc_endpoint"}),
                              Block("ingress_rule_9092", {}, {"aws_security_group", "data.aws_vpc_endpoint"})}
  BY DEF IngressRules
<1>3. IsFiniteSet(IngressRules)
  BY <1>2, FS_EmptySet, FourMore, Zenon
<1>4. IsFiniteSet({} \cup SshKey)
  BY FS_EmptySet, FourMore, Zenon DEF SshKey
<1>5. IsFiniteSet(SshKey)
  <2>1. {} \cup SshKey = SshKey
    OBVIOUS
  <2>2. QED
    BY <1>4, <2>1
<1>6. IsFiniteSet((main \cup IngressRules) \cup SshKey)
  BY <1>1, <1>3, <1>5, FS_Union
<1>7. QED
  BY <1>1, <1>6

(* Every module has finitely many blocks.                                    *)
LEMMA ModulesAreFinite ==
  ASSUME NEW r, NEW m \in DOMAIN ModulesOf(r)
  PROVE  IsFiniteSet(ModulesOf(r)[m].main)
<1>1. \A declares, main, outputs : Module(declares, main, outputs).main = main
  BY DEF Module
<1>2. IsFiniteSet(ClusterLinkMain)
  BY TwoBlocks, Zenon DEF ClusterLinkMain
<1>3. /\ IsFiniteSet(SetupHostMain) /\ IsFiniteSet(ExternalOutboundMain)
      /\ IsFiniteSet(JumpClusterMain(r))
  BY TwoBlocks, Zenon DEF SetupHostMain, ExternalOutboundMain, JumpClusterMain
<1>4. CASE Public(r)
  <2>1. PICK link : ModulesOf(r) = [cluster_link |-> link] /\ IsFiniteSet(link.main)
    BY <1>1, <1>2, <1>4 DEF ModulesOf, Jump, Public
  <2>2. QED
    BY <2>1
<1>5. CASE Jump(r)
  <2> DEFINE host == Module({v[2] : v \in SetupHostFromModules}, SetupHostMain, NoOutputs)
             jump == Module(JumpClusterVariables(r) \cup {v[2] : v \in JumpClusterFromModules},
                            JumpClusterMain(r), JumpClusterOutputs)
             networking == Module(NetworkingVariables, NetworkingMain(r), NetworkingOutputs)
  <2>1. ModulesOf(r) = [jump_cluster_setup_host |-> host, jump_cluster |-> jump,
                        networking |-> networking]
    BY <1>5 DEF ModulesOf, Jump, Public
  <2>2. IsFiniteSet(host.main) /\ IsFiniteSet(jump.main) /\ IsFiniteSet(networking.main)
    BY <1>1, <1>3, NetworkingIsFinite
  <2> HIDE DEF host, jump, networking
  <2>3. QED
    BY <2>1, <2>2
<1>6. CASE ~Public(r) /\ ~Jump(r)
  <2>1. PICK link : ModulesOf(r) = [external_outbound_cluster_link |-> link] /\ IsFiniteSet(link.main)
    BY <1>1, <1>3, <1>6 DEF ModulesOf
  <2>2. QED
    BY <2>1
<1>7. QED
  BY <1>4, <1>5, <1>6

(* The modules of every project can be called, and the blocks of each be     *)
(* created, one after another.                                               *)
THEOREM GeneratedMigrationIsOrdered ==
  ASSUME NEW r \in Request, Authenticated(r)
  PROVE  OrderedMigration(r)
<1>1. ASSUME NEW m \in DOMAIN ModulesOf(r) PROVE Orderable(ModulesOf(r)[m])
  <2>1. NoCycle(ModulesOf(r)[m])
    BY GeneratedMigrationHasNoCycle
  <2>2. BlocksResolve(ModulesOf(r)[m])
    BY ModulesResolve DEF Resolves
  <2>3. QED
    BY <2>1, <2>2, ModulesAreFinite, NoCycleIsOrderable
<1>2. GenerateTerraformModules(r).modules = ModulesOf(r)
  BY DEF GenerateTerraformModules
<1>3. QED
  BY <1>1, <1>2, GeneratedMigrationHasNoCycle DEF OrderedMigration

-----------------------------------------------------------------------------
(* The command. A request the generator is given has the authentication its  *)
(* jump clusters need.                                                       *)
LEMMA RequestOfCommandLine ==
  ASSUME NEW f \in CommandLine, NEW c \in SourceCluster
  PROVE  RequestOf(f, c) \in Request /\ Authenticated(RequestOf(f, c))
<1> DEFINE r == RequestOf(f, c)
<1>1. /\ r.has_public_msk_brokers \in BOOLEAN /\ r.use_jump_clusters \in BOOLEAN
      /\ r.has_existing_internet_gateway \in BOOLEAN
      /\ r.msk_jump_cluster_auth_type \in {"", "sasl_scram", "iam"}
  BY DEF RequestOf, CommandLine
<1>2. r.jump_cluster_broker_storage \in Int
  BY DEF RequestOf, CommandLine, SourceCluster
<1>3. r.given \subseteq Fields
  BY DEF RequestOf, When, Fields
<1>4. r \in Request
  <2>1. r = [has_public_msk_brokers |-> r.has_public_msk_brokers,
             use_jump_clusters |-> r.use_jump_clusters,
             has_existing_internet_gateway |-> r.has_existing_internet_gateway,
             msk_jump_cluster_auth_type |-> r.msk_jump_cluster_auth_type,
             jump_cluster_broker_storage |-> r.jump_cluster_broker_storage, given |-> r.given]
    BY DEF RequestOf
  <2> HIDE DEF r
  <2>2. QED
    BY <1>1, <1>2, <1>3, <2>1 DEF Request
<1>5. r.use_jump_clusters => r.msk_jump_cluster_auth_type # ""
  BY DEF RequestOf
<1>6. QED
  BY <1>4, <1>5 DEF Authenticated, Jump

(* The types of the variables; what a run is given is one of the requests    *)
(* the theorems above speak of.                                              *)
TypeOK ==
  /\ phase \in {"idle", "accepted", "writing", "done"} /\ run \in Nat
  /\ flags \in CommandLine /\ cluster \in SourceCluster
  /\ request \in Request /\ Authenticated(request)
  /\ left \in Seq(Places) /\ disk \in [Places -> 0..run]

(* The command line and the cluster before any is read.                      *)
LEMMA Nothing == NoFlags \in CommandLine /\ NoCluster \in SourceCluster
BY DEF NoFlags, CommandLine, NoCluster, SourceCluster

(* The names of a generated directory are files of it.                       *)
FileNames == {"main.tf", "providers.tf", "variables.tf", "outputs.tf", "versions.tf",
              "README.md", "inputs.auto.tfvars", "user_data.tpl"}
Directory(module, names) == [i \in DOMAIN names |-> <<module, names[i]>>]
Elements(s) == {s[i] : i \in DOMAIN s}

(* The files of a directory are its names under that of its module.          *)
LEMMA DirectoryElements ==
  ASSUME NEW module \in {"root", "cluster_link", "jump_cluster_setup_host", "jump_cluster",
                         "networking", "external_outbound_cluster_link"},
         NEW names \in Seq(FileNames)
  PROVE  /\ Directory(module, names) \in Seq(Places)
         /\ Elements(Directory(module, names)) = {<<module, n>> : n \in Elements(names)}
<1>1. \A i \in DOMAIN names : <<module, names[i]>> \in Places
  BY DEF Places, FileNames
<1>2. Directory(module, names) \in [1..Len(names) -> Places]
  BY <1>1 DEF Directory
<1>3. Directory(module, names) \in Seq(Places)
  BY <1>2
<1>4. Elements(Directory(module, names)) = {<<module, n>> : n \in Elements(names)}
  BY DEF Directory, Elements
<1>5. QED
  BY <1>3, <1>4

(* The elements of one sequence after another.                               *)
LEMMA ConcatenationElements ==
  ASSUME NEW T, NEW s \in Seq(T), NEW t \in Seq(T)
  PROVE  s \o t \in Seq(T) /\ Elements(s \o t) = Elements(s) \cup Elements(t)
<1> DEFINE both == s \o t
<1>1. \A i \in DOMAIN s : i \in DOMAIN both /\ both[i] = s[i]
  OBVIOUS
<1>2. \A i \in DOMAIN t : i + Len(s) \in DOMAIN both /\ both[i + Len(s)] = t[i]
  OBVIOUS
<1>3. \A i \in DOMAIN both :
         \/ i \in DOMAIN s /\ both[i] = s[i]
         \/ i - Len(s) \in DOMAIN t /\ both[i] = t[i - Len(s)]
  OBVIOUS
<1>4. both \in Seq(T)
  OBVIOUS
<1> HIDE DEF both
<1>5. \A x \in Elements(both) : x \in Elements(s) \/ x \in Elements(t)
  BY <1>3 DEF Elements
<1>6. \A x \in Elements(s) : x \in Elements(both)
  BY <1>1 DEF Elements
<1>7. \A x \in Elements(t) : x \in Elements(both)
  BY <1>2 DEF Elements
<1>8. Elements(both) = Elements(s) \cup Elements(t)
  BY <1>5, <1>6, <1>7
<1>9. QED
  BY <1>4, <1>8 DEF both

(* Every file a run may write is one of AllFiles, whatever its type.         *)
RootFiles == {"main.tf", "providers.tf", "variables.tf", "README.md", "inputs.auto.tfvars"}
FilesOfModule(m) ==
  CASE m = "cluster_link" -> {"main.tf", "variables.tf"}
    [] m = "external_outbound_cluster_link" -> {"main.tf", "variables.tf", "user_data.tpl"}
    [] m = "jump_cluster_setup_host" -> {"main.tf", "variables.tf", "versions.tf", "user_data.tpl"}
    [] m = "jump_cluster" ->
         {"main.tf", "variables.tf", "outputs.tf", "versions.tf", "user_data.tpl"}
    [] m = "networking" -> {"main.tf", "variables.tf", "outputs.tf", "versions.tf"}
    [] OTHER -> RootFiles
AllFiles == {p \in Places : p[2] \in FilesOfModule(p[1])}
Written(r) == Elements(FilesOf(r))

(* The directory of each module, with the names its generator gives it.      *)
LEMMA ModuleDirectories ==
  LET IsDirectoryOf(m, names) == /\ Directory(m, names) \in Seq(Places)
                                 /\ Elements(Directory(m, names)) = {p \in AllFiles : p[1] = m}
  IN /\ IsDirectoryOf("cluster_link", <<"main.tf", "variables.tf">>)
     /\ IsDirectoryOf("external_outbound_cluster_link", <<"main.tf", "variables.tf", "user_data.tpl">>)
     /\ IsDirectoryOf("jump_cluster_setup_host",
                      <<"main.tf", "variables.tf", "versions.tf", "user_data.tpl">>)
     /\ IsDirectoryOf("jump_cluster", <<"main.tf", "variables.tf", "outputs.tf", "versions.tf",
                                        "user_data.tpl">>)
     /\ IsDirectoryOf("networking", <<"main.tf", "variables.tf", "outputs.tf", "versions.tf">>)
<1> DEFINE IsDirectoryOf(m, names) == /\ Directory(m, names) \in Seq(Places)
                                      /\ Elements(Directory(m, names)) = {p \in AllFiles : p[1] = m}
<1>1. ASSUME NEW m \in {"cluster_link", "jump_cluster_setup_host", "jump_cluster", "networking",
                        "external_outbound_cluster_link"},
             NEW names \in Seq(FileNames), Elements(names) = FilesOfModule(m)
      PROVE  IsDirectoryOf(m, names)
  <2>1. /\ Directory(m, names) \in Seq(Places)
        /\ Elements(Directory(m, names)) = {<<m, n>> : n \in FilesOfModule(m)}
    BY <1>1, DirectoryElements
  <2>2. FilesOfModule(m) \subseteq FileNames
    BY DEF FilesOfModule, FileNames, RootFiles
  <2>3. {<<m, n>> : n \in FilesOfModule(m)} = {p \in AllFiles : p[1] = m}
    BY <2>2 DEF AllFiles, Places, FileNames
  <2>4. QED
    BY <2>1, <2>3
<1>2. /\ <<"main.tf", "variables.tf">> \in Seq(FileNames)
      /\ Elements(<<"main.tf", "variables.tf">>) = FilesOfModule("cluster_link")
  BY DEF FileNames, Elements, FilesOfModule
<1>3. /\ <<"main.tf", "variables.tf", "user_data.tpl">> \in Seq(FileNames)
      /\ Elements(<<"main.tf", "variables.tf", "user_data.tpl">>)
           = FilesOfModule("external_outbound_cluster_link")
  BY DEF FileNames, Elements, FilesOfModule
<1>4. /\ <<"main.tf", "variables.tf", "versions.tf", "user_data.tpl">> \in Seq(FileNames)
      /\ Elements(<<"main.tf", "variables.tf", "versions.tf", "user_data.tpl">>)
           = FilesOfModule("jump_cluster_setup_host")
  BY DEF FileNames, Elements, FilesOfModule
<1>5. /\ <<"main.tf", "variables.tf", "outputs.tf", "versions.tf", "user_data.tpl">> \in Seq(FileNames)
      /\ Elements(<<"main.tf", "variables.tf", "outputs.tf", "versions.tf", "user_data.tpl">>)
           = FilesOfModule("jump_cluster")
  BY DEF FileNames, Elements, FilesOfModule
<1>6. /\ <<"main.tf", "variables.tf", "outputs.tf", "versions.tf">> \in Seq(FileNames)
      /\ Elements(<<"main.tf", "variables.tf", "outputs.tf", "versions.tf">>)
           = FilesOfModule("networking")
  BY DEF FileNames, Elements, FilesOfModule
<1> HIDE DEF IsDirectoryOf
<1>7. /\ IsDirectoryOf("cluster_link", <<"main.tf", "variables.tf">>)
      /\ IsDirectoryOf("external_outbound_cluster_link", <<"main.tf", "variables.tf", "user_data.tpl">>)
      /\ IsDirectoryOf("jump_cluster_setup_host",
                       <<"main.tf", "variables.tf", "versions.tf", "user_data.tpl">>)
      /\ IsDirectoryOf("jump_cluster", <<"main.tf", "variables.tf", "outputs.tf", "versions.tf",
                                         "user_data.tpl">>)
      /\ IsDirectoryOf("networking", <<"main.tf", "variables.tf", "outputs.tf", "versions.tf">>)
  BY <1>1, <1>2, <1>3, <1>4, <1>5, <1>6
<1>8. QED
  BY <1>7 DEF IsDirectoryOf

(* A run writes all of them in the root directory, but for the README.md,    *)
(* and in the modules its root calls.                                        *)
LEMMA WrittenFiles ==
  ASSUME NEW r \in Request
  PROVE  /\ FilesOf(r) \in Seq(Places)
         /\ Written(r) \subseteq AllFiles
         /\ \A p \in AllFiles : /\ p[1] \in {"root"} \cup DOMAIN ModulesOf(r)
                                /\ p[2] # "README.md"
                                => p \in Written(r)
<1> DEFINE first == <<"main.tf", "providers.tf", "variables.tf">>
           readme == IF Jump(r) THEN <<"README.md">> ELSE <<>>
           last == <<"inputs.auto.tfvars">>
           names == first \o readme \o last
           root == Directory("root", names)
<1>1. /\ names \in Seq(FileNames)
      /\ RootFiles \ {"README.md"} \subseteq Elements(names) /\ Elements(names) \subseteq RootFiles
  <2>1. /\ first \in Seq(FileNames)
        /\ Elements(first) = {"main.tf", "providers.tf", "variables.tf"}
    BY DEF FileNames, Elements
  <2>2. readme \in Seq(FileNames) /\ Elements(readme) \subseteq {"README.md"}
    <3>1. <<"README.md">> \in Seq(FileNames) /\ Elements(<<"README.md">>) = {"README.md"}
      BY DEF FileNames, Elements
    <3>2. << >> \in Seq(FileNames) /\ Elements(<< >>) = {}
      BY DEF Elements
    <3>3. QED
      BY <3>1, <3>2
  <2>3. last \in Seq(FileNames) /\ Elements(last) = {"inputs.auto.tfvars"}
    BY DEF FileNames, Elements
  <2> HIDE DEF first, readme, last
  <2> DEFINE most == first \o readme
  <2>4. most \in Seq(FileNames) /\ Elements(most) = Elements(first) \cup Elements(readme)
    BY <2>1, <2>2, ConcatenationElements
  <2>5. names = most \o last
    OBVIOUS
  <2> HIDE DEF names, most
  <2>6. names \in Seq(FileNames) /\ Elements(names) = Elements(most) \cup Elements(last)
    BY <2>3, <2>4, <2>5, ConcatenationElements
  <2>7. QED
    BY <2>1, <2>2, <2>3, <2>4, <2>6 DEF RootFiles
<1> HIDE DEF names
<1>2. /\ root \in Seq(Places)
      /\ Elements(root) = {<<"root", n>> : n \in Elements(names)}
  BY <1>1, DirectoryElements
<1> HIDE DEF root
<1>3. ASSUME NEW rest \in Seq(Places), FilesOf(r) = root \o rest,
             Elements(rest) = {p \in AllFiles : p[1] \in DOMAIN ModulesOf(r)}
      PROVE  /\ FilesOf(r) \in Seq(Places)
             /\ Written(r) \subseteq AllFiles
             /\ \A p \in AllFiles : /\ p[1] \in {"root"} \cup DOMAIN ModulesOf(r)
                                    /\ p[2] # "README.md"
                                    => p \in Written(r)
  <2>1. FilesOf(r) \in Seq(Places) /\ Written(r) = Elements(root) \cup Elements(rest)
    BY <1>2, <1>3, ConcatenationElements DEF Written
  <2>2. FilesOfModule("root") = RootFiles
    BY DEF FilesOfModule
  <2>3. Elements(root) \subseteq AllFiles
    BY <1>1, <1>2, <2>2 DEF AllFiles, Places, RootFiles
  <2>4. ASSUME NEW p \in AllFiles, p[1] = "root", p[2] # "README.md"
        PROVE  p \in Elements(root)
    <3>1. p = <<"root", p[2]>> /\ p[2] \in RootFiles
      BY <2>2, <2>4 DEF AllFiles, Places
    <3>2. QED
      BY <1>1, <1>2, <2>4, <3>1
  <2>5. QED
    BY <1>3, <2>1, <2>3, <2>4
<1>4. CASE Public(r)
  <2> DEFINE rest == Directory("cluster_link", <<"main.tf", "variables.tf">>)
  <2>1. ~Jump(r) /\ DOMAIN ModulesOf(r) = {"cluster_link"}
    BY <1>4 DEF ModulesOf, Jump, Public
  <2>2. FilesOf(r) = root \o rest
    BY <1>4, <2>1 DEF FilesOf, Directory, root, names
  <2>3. /\ rest \in Seq(Places)
        /\ Elements(rest) = {p \in AllFiles : p[1] = "cluster_link"}
    BY ModuleDirectories
  <2> HIDE DEF rest
  <2>4. QED
    BY <1>3, <2>1, <2>2, <2>3
<1>5. CASE ~Public(r) /\ ~Jump(r)
  <2> DEFINE rest == Directory("external_outbound_cluster_link",
                               <<"main.tf", "variables.tf", "user_data.tpl">>)
  <2>1. DOMAIN ModulesOf(r) = {"external_outbound_cluster_link"}
    BY <1>5 DEF ModulesOf
  <2>2. FilesOf(r) = root \o rest
    BY <1>5 DEF FilesOf, Directory, root, names
  <2>3. /\ rest \in Seq(Places)
        /\ Elements(rest) = {p \in AllFiles : p[1] = "external_outbound_cluster_link"}
    BY ModuleDirectories
  <2> HIDE DEF rest
  <2>4. QED
    BY <1>3, <2>1, <2>2, <2>3
<1>6. CASE Jump(r)
  <2> DEFINE host == Directory("jump_cluster_setup_host",
                               <<"main.tf", "variables.tf", "versions.tf", "user_data.tpl">>)
             jump == Directory("jump_cluster", <<"main.tf", "variables.tf", "outputs.tf", "versions.tf",
                                                 "user_data.tpl">>)
             networking == Directory("networking",
                                     <<"main.tf", "variables.tf", "outputs.tf", "versions.tf">>)
  <2>1. ~Public(r) /\ DOMAIN ModulesOf(r) = {"jump_cluster_setup_host", "jump_cluster", "networking"}
    BY <1>6 DEF ModulesOf, Jump, Public
  <2>2. FilesOf(r) = root \o ((host \o jump) \o networking)
    BY <1>6, <2>1 DEF FilesOf, Directory, root, names
  <2>3. /\ host \in Seq(Places) /\ jump \in Seq(Places) /\ networking \in Seq(Places)
        /\ Elements(host) = {p \in AllFiles : p[1] = "jump_cluster_setup_host"}
        /\ Elements(jump) = {p \in AllFiles : p[1] = "jump_cluster"}
        /\ Elements(networking) = {p \in AllFiles : p[1] = "networking"}
    BY ModuleDirectories
  <2> HIDE DEF host, jump, networking
  <2> DEFINE hosts_jump == host \o jump
             rest == hosts_jump \o networking
  <2>4. hosts_jump \in Seq(Places) /\ Elements(hosts_jump) = Elements(host) \cup Elements(jump)
    BY <2>3, ConcatenationElements
  <2> HIDE DEF hosts_jump
  <2>5. rest \in Seq(Places) /\ Elements(rest) = Elements(hosts_jump) \cup Elements(networking)
    BY <2>3, <2>4, ConcatenationElements
  <2>6. FilesOf(r) = root \o rest
    BY <2>2 DEF hosts_jump
  <2> HIDE DEF rest
  <2>7. Elements(rest) = {p \in AllFiles : p[1] \in DOMAIN ModulesOf(r)}
    BY <2>1, <2>3, <2>4, <2>5
  <2>8. QED
    BY <1>3, <2>5, <2>6, <2>7
<1>7. QED
  BY <1>4, <1>5, <1>6

(* TypeOK holds in every state of every sequence of runs.                    *)
THEOREM TypeCorrect == Spec => []TypeOK
<1> USE DEF TypeOK
<1>1. Init => TypeOK
  BY Nothing, RequestOfCommandLine DEF Init
<1>2. TypeOK /\ [Next]_vars => TypeOK'
  <2> SUFFICES ASSUME TypeOK, [Next]_vars PROVE TypeOK'
    OBVIOUS
  <2>1. ASSUME NEW f \in Flags, Start(f) PROVE TypeOK'
    BY <2>1, Nothing, RequestOfCommandLine, CommandAssumption DEF Start
  <2>2. ASSUME NEW c \in Clusters, RunMigrationInfra(c) PROVE TypeOK'
    <3>1. cluster' \in SourceCluster /\ request' \in Request /\ Authenticated(request')
      BY <2>2, RequestOfCommandLine, CommandAssumption DEF RunMigrationInfra
    <3>2. left' \in Seq(Places)
      BY <2>2, <3>1, WrittenFiles DEF RunMigrationInfra
    <3>3. QED
      BY <2>2, <3>1, <3>2 DEF RunMigrationInfra
  <2>3. ASSUME WriteFile PROVE TypeOK'
    BY <2>3 DEF WriteFile
  <2>4. ASSUME Finish PROVE TypeOK'
    BY <2>4 DEF Finish
  <2>5. ASSUME Abort PROVE TypeOK'
    BY <2>5, Nothing, RequestOfCommandLine DEF Abort
  <2>6. CASE UNCHANGED vars
    BY <2>6 DEF vars
  <2>7. QED
    BY <2>1, <2>2, <2>3, <2>4, <2>5, <2>6 DEF Next
<1>3. QED
  BY <1>1, <1>2, PTL DEF Spec

(* Whatever command lines were given, failed or were repeated, and whatever  *)
(* the state file says of the source cluster, a run that succeeded leaves a  *)
(* project Terraform accepts and can order.                                  *)
CompletedIsCoherent ==
  Done => /\ CoherentMigration(request)
          /\ NoModuleCycle(GenerateTerraformModules(request))
          /\ \A m \in DOMAIN ModulesOf(request) : NoCycle(ModulesOf(request)[m])

(* The generator's theorems, for the requests the command makes.             *)
THEOREM CompletedRunsAreCoherent == Spec => []CompletedIsCoherent
<1>1. TypeOK => CompletedIsCoherent
  BY GeneratedMigrationIsCoherent, GeneratedMigrationHasNoCycle DEF TypeOK, CompletedIsCoherent
<1>2. QED
  BY <1>1, TypeCorrect, PTL

(* While files are written each of them is on disk or still to come, and     *)
(* nothing but generated files is ever in the directory.                     *)
DiskInv ==
  /\ phase \in {"writing", "done"} =>
       \A p \in Written(request) : disk[p] = run \/ \E j \in DOMAIN left : left[j] = p
  /\ phase = "writing" => \A j \in DOMAIN left : left[j] \in Written(request)
  /\ phase = "done" => left = <<>>
  /\ \A p \in Places : disk[p] # 0 => p \in AllFiles

(* The disk's invariant, action by action.                                   *)
THEOREM DiskInvariance == Spec => []DiskInv
<1>1. Init => DiskInv
  BY DEF Init, DiskInv
<1>2. TypeOK /\ DiskInv /\ [Next]_vars => DiskInv'
  <2> SUFFICES ASSUME TypeOK, DiskInv, [Next]_vars PROVE DiskInv'
    OBVIOUS
  <2>1. ASSUME NEW f \in Flags, Start(f) PROVE DiskInv'
    BY <2>1 DEF Start, DiskInv
  <2>2. ASSUME NEW c \in Clusters, RunMigrationInfra(c) PROVE DiskInv'
    <3>1. \A p \in Written(request') : \E j \in DOMAIN left' : left'[j] = p
      BY <2>2 DEF RunMigrationInfra, Written, Elements
    <3>2. \A j \in DOMAIN left' : left'[j] \in Written(request')
      BY <2>2 DEF RunMigrationInfra, Written, Elements
    <3>3. QED
      BY <2>2, <3>1, <3>2 DEF RunMigrationInfra, DiskInv
  <2>3. ASSUME WriteFile PROVE DiskInv'
    <3>1. /\ left \in Seq(Places) /\ left # <<>> /\ disk \in [Places -> 0..run]
          /\ phase = "writing"
      BY <2>3 DEF TypeOK, WriteFile
    <3>2. /\ Head(left) = left[1] /\ 1 \in DOMAIN left /\ left[1] \in Places
          /\ \A j \in DOMAIN left : j # 1 => j - 1 \in DOMAIN Tail(left) /\ Tail(left)[j - 1] = left[j]
          /\ \A j \in DOMAIN Tail(left) : j + 1 \in DOMAIN left /\ Tail(left)[j] = left[j + 1]
      BY <3>1
    <3>3. /\ \A p \in Places : disk'[p] = IF p = left[1] THEN run ELSE disk[p]
          /\ left' = Tail(left) /\ request' = request /\ run' = run /\ phase' = phase
      BY <2>3, <3>1, <3>2 DEF WriteFile
    <3>4. Written(request) \subseteq Places /\ Written(request) \subseteq AllFiles
      BY WrittenFiles DEF TypeOK, AllFiles
    <3>5. \A p \in Written(request) : disk'[p] = run \/ \E j \in DOMAIN left' : left'[j] = p
      <4> SUFFICES ASSUME NEW p \in Written(request), p # left[1]
                   PROVE  disk'[p] = run \/ \E j \in DOMAIN left' : left'[j] = p
        BY <3>3, <3>4
      <4>1. CASE disk[p] = run
        BY <4>1, <3>3, <3>4
      <4>2. CASE \E j \in DOMAIN left : left[j] = p
        <5>1. PICK j \in DOMAIN left : left[j] = p
          BY <4>2
        <5>2. j # 1
          BY <5>1
        <5>3. QED
          BY <5>1, <5>2, <3>2, <3>3
      <4>3. QED
        BY <3>1, <4>1, <4>2 DEF DiskInv
    <3>6. \A j \in DOMAIN left' : left'[j] \in Written(request)
      BY <3>1, <3>2, <3>3 DEF DiskInv
    <3>7. \A p \in Places : disk'[p] # 0 => p \in AllFiles
      BY <3>1, <3>2, <3>3, <3>4 DEF DiskInv
    <3>8. QED
      BY <3>1, <3>3, <3>5, <3>6, <3>7 DEF DiskInv
  <2>4. ASSUME Finish PROVE DiskInv'
    BY <2>4 DEF Finish, DiskInv
  <2>5. ASSUME Abort PROVE DiskInv'
    BY <2>5 DEF Abort, DiskInv
  <2>6. CASE UNCHANGED vars
    BY <2>6 DEF vars, DiskInv
  <2>7. QED
    BY <2>1, <2>2, <2>3, <2>4, <2>5, <2>6 DEF Next
<1>3. QED
  BY <1>1, <1>2, TypeCorrect, PTL DEF Spec

(* After a run that succeeded Terraform reads only files of that run, also   *)
(* where an earlier run, failed or not, wrote a project of another type.     *)
THEOREM DirectoryIsOneProject == Spec => []DiskHoldsTheMigration
<1>1. TypeOK /\ DiskInv => DiskHoldsTheMigration
  <2> SUFFICES ASSUME TypeOK, DiskInv, Done PROVE DiskHoldsTheMigration
    BY DEF DiskHoldsTheMigration
  <2>1. \A p \in Written(request) : disk[p] = run
    BY DEF DiskInv, Done
  <2>2. ASSUME NEW p \in Places, p[1] \in {"root"} \cup DOMAIN ModulesOf(request), p[2] # "README.md"
        PROVE  disk[p] \in {0, run}
    BY <2>1, <2>2, WrittenFiles DEF DiskInv, TypeOK
  <2>3. QED
    BY <2>1, <2>2 DEF DiskHoldsTheMigration, Written, Elements
<1>2. QED
  BY <1>1, TypeCorrect, DiskInvariance, PTL

-----------------------------------------------------------------------------
(* The numbers up to m are m.                                                *)
LEMMA CountUpTo == ASSUME NEW m \in Int, m >= 0 PROVE Cardinality(1..m) = m
<1>1. Cardinality(1..m) = IF 1 > m THEN 0 ELSE m - 1 + 1
  BY FS_Interval, 1 \in Int
<1>2. QED
  BY <1>1

(* Below ten the text order of the brokers' names is that of their numbers,  *)
(* so the sorted names are in the brokers' places.                           *)
LEMMA FewAreInOrder ==
  ASSUME NEW n \in 1..9, NEW c, c.listed = 1..n, NEW id \in 1..n
  PROVE  SortedHosts(c)[id] = id
<1> DEFINE S == c.listed
           before(x) == {y \in S : TextRank(y) < TextRank(x)}
           chosen(i) == CHOOSE x \in S : Cardinality(before(x)) = i - 1
<1>1. SortedHosts(c) = [i \in 1..Cardinality(S) |-> chosen(i)]
  BY DEF SortedHosts, InOrder
<1>2. \A x \in S : before(x) = 1..(x - 1)
  BY DEF TextRank
<1>3. \A x \in S : Cardinality(before(x)) = x - 1
  <2> SUFFICES ASSUME NEW x \in 1..n PROVE Cardinality(1..(x - 1)) = x - 1
    BY <1>2
  <2>1. x - 1 \in Int /\ x - 1 >= 0
    OBVIOUS
  <2>2. QED
    BY <2>1, CountUpTo
<1>4. Cardinality(S) = n
  BY CountUpTo
<1> HIDE DEF before
<1>5. chosen(id) = id
  <2>1. \A x \in S : Cardinality(before(x)) = id - 1 => x = id
    BY <1>3
  <2>2. \E x \in S : Cardinality(before(x)) = id - 1
    BY <1>3
  <2>3. QED
    BY <2>1, <2>2
<1> HIDE DEF chosen
<1>6. QED
  BY <1>1, <1>4, <1>5

(* What a run makes of its flags and of the cluster it found.                *)
RunInv ==
  /\ phase # "idle" => flags.type # 0
  /\ phase \in {"writing", "done"} =>
       /\ request = RequestOf(flags, cluster)
       /\ flags.type = 2 => hosts = BuildExtOutboundBrokers(cluster)

(* It stays what it is until the run ends.                                   *)
THEOREM RunInvariance == Spec => []RunInv
<1>1. Init => RunInv
  BY DEF Init, RunInv
<1>2. RunInv /\ [Next]_vars => RunInv'
  <2> SUFFICES ASSUME RunInv, [Next]_vars PROVE RunInv'
    OBVIOUS
  <2>1. ASSUME NEW f \in Flags, Start(f) PROVE RunInv'
    BY <2>1 DEF Start, RunInv, PreRun
  <2>2. ASSUME NEW c \in Clusters, RunMigrationInfra(c) PROVE RunInv'
    BY <2>2 DEF RunMigrationInfra, RunInv
  <2>3. ASSUME WriteFile PROVE RunInv'
    BY <2>3 DEF WriteFile, RunInv
  <2>4. ASSUME Finish PROVE RunInv'
    BY <2>4 DEF Finish, RunInv
  <2>5. ASSUME Abort PROVE RunInv'
    BY <2>5 DEF Abort, RunInv
  <2>6. CASE UNCHANGED vars
    BY <2>6 DEF vars, RunInv
  <2>7. QED
    BY <2>1, <2>2, <2>3, <2>4, <2>5, <2>6 DEF Next
<1>3. QED
  BY <1>1, <1>2, PTL DEF Spec

(* With fewer than ten brokers, all of them named, an external outbound link *)
(* pairs every host with its own broker.                                     *)
THEOREM HostsAreTheirOwn == Spec => []BrokersKeepTheirHosts
<1>1. TypeOK /\ RunInv => BrokersKeepTheirHosts
  <2> DEFINE n == Cardinality(cluster.nodes)
  <2> SUFFICES ASSUME TypeOK, RunInv, Done, External(request), cluster.listed = cluster.nodes,
                      cluster.nodes = 1..n, n < 10, NEW id \in cluster.nodes
               PROVE  hosts[id] = id
    BY DEF BrokersKeepTheirHosts
  <2>1. flags.type = 2 => hosts = BuildExtOutboundBrokers(cluster)
    BY DEF RunInv, Done
  <2>2. flags.type = 2
    <3>1. flags.type \in 1..4
      BY DEF RunInv, Done, TypeOK, CommandLine
    <3>2. flags.type \notin {1, 3, 4}
      <4>1. request = RequestOf(flags, cluster)
        BY DEF RunInv, Done
      <4>2. ~RequestOf(flags, cluster).has_public_msk_brokers
            /\ ~RequestOf(flags, cluster).use_jump_clusters
        BY <4>1 DEF External
      <4>3. QED
        BY <4>2 DEF RequestOf
    <3>3. QED
      BY <3>1, <3>2
  <2>3. hosts[id] = SortedHosts(cluster)[id]
    BY <2>1, <2>2 DEF BuildExtOutboundBrokers
  <2>4. n \in 1..9
    <3>1. cluster.nodes \subseteq 1..99
      BY DEF TypeOK, SourceCluster
    <3>2. IsFiniteSet(1..99)
      <4>1. PICK b \in Int : b = 99
        OBVIOUS
      <4>2. IsFiniteSet(1..b)
        BY FS_Interval
      <4>3. QED
        BY <4>1, <4>2
    <3>3. IsFiniteSet(cluster.nodes)
      BY <3>1, <3>2, FS_Subset
    <3>4. n \in Nat
      BY <3>3, FS_CardinalityType
    <3>5. QED
      BY <3>4
  <2> HIDE DEF n
  <2>5. QED
    BY <2>3, <2>4, FewAreInOrder
<1>2. QED
  BY <1>1, TypeCorrect, RunInvariance, PTL

-----------------------------------------------------------------------------
(* What Terraform is left to ask.                                            *)

(* The fields that the variables of each kind of project take their values   *)
(* from, the target environment of an external link excepted.                *)
LinkFields == {"msk_cluster_id", "cluster_link_name", "target_cluster_id", "target_rest_endpoint"}

Supplied(r) ==
  /\ r.given \subseteq Fields
  /\ Public(r) => LinkFields \cup {"msk_sasl_scram_bootstrap_servers"} \subseteq r.given
  /\ External(r) =>
       LinkFields \cup {"vpc_id", "msk_region", "msk_sasl_scram_bootstrap_servers",
                       "ext_outbound_subnet_id", "ext_outbound_security_group_id",
                       "aws_kafka_brokers"} \subseteq r.given
  /\ Jump(r) =>
       /\ LinkFields \cup {"vpc_id", "msk_region", "target_bootstrap_endpoint",
                           "existing_private_link_vpce_id", "jump_cluster_instance_type",
                           "jump_cluster_broker_subnet_cidr",
                           "jump_cluster_setup_host_subnet_cidr"} \subseteq r.given
       /\ Scram(r) => "msk_sasl_scram_bootstrap_servers" \in r.given
       /\ ~Scram(r) => /\ r.msk_jump_cluster_auth_type = "iam"
                       /\ {"msk_sasl_iam_bootstrap_servers", "jump_cluster_iam_auth_role_name"}
                            \subseteq r.given

(* Every variable but the secrets has a value, and those that are asked for  *)
(* of jump clusters are the ones their README.md announces.                  *)
AsksForSecrets(r) ==
  /\ Jump(r) => Prompted(r) = ReadmeCredentials(r)
  /\ Prompted(r) \subseteq
       Secrets \cup When(External(r) /\ "target_environment_id" \notin r.given,
                        {"target_environment_id"})

LEMMA PublicAsksForSecrets ==
  ASSUME NEW r, Supplied(r), Public(r)
  PROVE  AsksForSecrets(r)
<1>1. ~Jump(r) /\ ~External(r)
  BY DEF Public, Jump, External
<1>2. {"msk_cluster_id", "cluster_link_name", "target_cluster_id", "target_rest_endpoint",
       "msk_sasl_scram_bootstrap_servers"} \subseteq r.given
  BY DEF Supplied, LinkFields
<1>3. RootVariables(r) \subseteq
        Secrets \cup {"target_cluster_rest_endpoint", "target_cluster_id", "cluster_link_name",
                      "msk_cluster_id", "msk_sasl_scram_bootstrap_servers"}
  BY <1>1 DEF RootVariables, ProviderVariables, ClusterLinkVariables, When, Secrets
<1>4. /\ FieldOf(r, "target_cluster_rest_endpoint") = "target_rest_endpoint"
      /\ \A v \in {"target_cluster_id", "cluster_link_name", "msk_cluster_id",
                   "msk_sasl_scram_bootstrap_servers"} : FieldOf(r, v) = v
  BY DEF FieldOf
<1>5. Prompted(r) \subseteq Secrets
  BY <1>2, <1>3, <1>4 DEF Prompted, Values
<1>6. QED
  BY <1>1, <1>5 DEF AsksForSecrets

LEMMA ExternalAsksForSecrets ==
  ASSUME NEW r, Supplied(r), External(r)
  PROVE  AsksForSecrets(r)
<1>1. ~Public(r) /\ ~Jump(r)
  BY DEF Public, Jump, External
<1>2. {"vpc_id", "msk_region", "msk_cluster_id", "cluster_link_name", "target_cluster_id",
       "target_rest_endpoint", "msk_sasl_scram_bootstrap_servers", "ext_outbound_subnet_id",
       "ext_outbound_security_group_id", "aws_kafka_brokers"} \subseteq r.given
  BY DEF Supplied, LinkFields
<1>3. RootVariables(r) \subseteq
        Secrets \cup {"aws_region", "aws_vpc_id", "aws_kafka_brokers", "target_environment_id",
                      "target_cluster_id", "subnet_id", "security_group_id",
                      "target_cluster_rest_endpoint", "cluster_link_name", "msk_cluster_id",
                      "msk_cluster_bootstrap_servers"}
  BY <1>1 DEF RootVariables, ProviderVariables, MskPrivateClusterLinkVariables,
              ExternalOutboundVariables, When, Secrets
<1>4. /\ FieldOf(r, "aws_region") = "msk_region" /\ FieldOf(r, "aws_vpc_id") = "vpc_id"
      /\ FieldOf(r, "subnet_id") = "ext_outbound_subnet_id"
      /\ FieldOf(r, "security_group_id") = "ext_outbound_security_group_id"
      /\ FieldOf(r, "target_cluster_rest_endpoint") = "target_rest_endpoint"
      /\ FieldOf(r, "msk_cluster_bootstrap_servers") = "msk_sasl_scram_bootstrap_servers"
      /\ \A v \in {"aws_kafka_brokers", "target_environment_id", "target_cluster_id",
                   "cluster_link_name", "msk_cluster_id"} : FieldOf(r, v) = v
  BY DEF FieldOf
<1>5. Prompted(r) \subseteq Secrets \cup {"target_environment_id"}
  BY <1>2, <1>3, <1>4 DEF Prompted, Values
<1>6. "target_environment_id" \in r.given => "target_environment_id" \notin Prompted(r)
  BY <1>4 DEF Prompted, Values
<1>7. QED
  BY <1>1, <1>5, <1>6 DEF AsksForSecrets, When

LEMMA JumpAsksForSecrets ==
  ASSUME NEW r, Supplied(r), Jump(r)
  PROVE  AsksForSecrets(r)
<1> DEFINE brokers == IF Scram(r) THEN "msk_sasl_scram_bootstrap_servers" ELSE "msk_sasl_iam_bootstrap_servers"
           asked == {"vpc_id", "jump_cluster_broker_subnet_cidrs", "jump_cluster_setup_host_subnet_cidr",
                     "existing_private_link_vpce_id", "jump_cluster_instance_type",
                     "cluster_link_name", "confluent_cloud_cluster_id",
                     "confluent_cloud_cluster_bootstrap_endpoint",
                     "confluent_cloud_cluster_rest_endpoint", "msk_cluster_id",
                     "msk_cluster_bootstrap_brokers", "aws_region"}
           role == When(~Scram(r), {"jump_cluster_iam_auth_role_name"})
<1>1. /\ ~Public(r) /\ ~External(r)
      /\ r.msk_jump_cluster_auth_type = "iam" <=> ~Scram(r)
  BY DEF Public, Jump, External, Scram, Supplied
<1>2. /\ {"vpc_id", "msk_region", "msk_cluster_id", "cluster_link_name", "target_cluster_id",
          "target_rest_endpoint", "target_bootstrap_endpoint", "existing_private_link_vpce_id",
          "jump_cluster_instance_type", "jump_cluster_broker_subnet_cidr",
          "jump_cluster_setup_host_subnet_cidr"} \subseteq r.given
      /\ ~Scram(r) => "jump_cluster_iam_auth_role_name" \in r.given
  BY DEF Supplied, LinkFields
<1>3. brokers \in r.given
  BY DEF Supplied
<1>4. r.given \cap Secrets = {}
  <2>1. r.given \subseteq Fields
    BY DEF Supplied
  <2>2. QED
    BY <2>1 DEF Fields, Secrets, CloudCredentials, ClusterCredentials, TargetCredentials, MskCredentials
<1> HIDE DEF brokers
<1>5. RootVariables(r) = ReadmeCredentials(r) \cup asked \cup role \cup {"jump_cluster_broker_storage"}
  BY <1>1 DEF RootVariables, ProviderVariables, NetworkingVariables, JumpClusterVariables,
              ReadmeCredentials, When
<1>6. ReadmeCredentials(r) \subseteq Secrets
  BY DEF ReadmeCredentials, Secrets, When
<1>7. /\ FieldOf(r, "aws_region") = "msk_region"
      /\ FieldOf(r, "confluent_cloud_cluster_id") = "target_cluster_id"
      /\ FieldOf(r, "confluent_cloud_cluster_rest_endpoint") = "target_rest_endpoint"
      /\ FieldOf(r, "confluent_cloud_cluster_bootstrap_endpoint") = "target_bootstrap_endpoint"
      /\ FieldOf(r, "jump_cluster_broker_subnet_cidrs") = "jump_cluster_broker_subnet_cidr"
      /\ \A v \in {"vpc_id", "jump_cluster_setup_host_subnet_cidr", "existing_private_link_vpce_id",
                   "jump_cluster_instance_type", "cluster_link_name", "msk_cluster_id",
                   "jump_cluster_iam_auth_role_name"} : FieldOf(r, v) = v
  BY DEF FieldOf
<1>8. FieldOf(r, "msk_cluster_bootstrap_brokers") = brokers
  BY DEF FieldOf, brokers
<1>9. \A v \in Secrets : FieldOf(r, v) = v /\ v # "jump_cluster_broker_storage"
  BY DEF FieldOf, Secrets, CloudCredentials, ClusterCredentials, TargetCredentials, MskCredentials
<1>10. \A v \in asked \cup role : FieldOf(r, v) \in r.given
  BY <1>2, <1>3, <1>7, <1>8 DEF When
<1>11. \A v \in ReadmeCredentials(r) : FieldOf(r, v) \notin r.given /\ v # "jump_cluster_broker_storage"
  BY <1>4, <1>6, <1>9
<1> HIDE DEF asked, role
<1>12. Prompted(r) = ReadmeCredentials(r)
  BY <1>5, <1>10, <1>11 DEF Prompted, Values
<1>13. QED
  BY <1>6, <1>12 DEF AsksForSecrets

(* A request that is supplied leaves Terraform to ask for secrets only.      *)
LEMMA SuppliedAsksForSecrets ==
  ASSUME NEW r, Supplied(r)
  PROVE  AsksForSecrets(r)
<1>1. Public(r) \/ Jump(r) \/ External(r)
  BY DEF Public, Jump, External
<1>2. QED
  BY <1>1, PublicAsksForSecrets, ExternalAsksForSecrets, JumpAsksForSecrets

(* The kind of project each type of migration is.                            *)
LEMMA KindOfType ==
  ASSUME NEW f, NEW c, f.type \in 1..4
  PROVE  LET r == RequestOf(f, c) IN
         /\ Public(r) <=> f.type = 1
         /\ External(r) <=> f.type = 2
         /\ Jump(r) <=> f.type \in {3, 4}
         /\ f.type = 3 => r.msk_jump_cluster_auth_type = "sasl_scram"
         /\ f.type = 4 => r.msk_jump_cluster_auth_type = "iam"
<1> DEFINE r == RequestOf(f, c)
<1>1. r.has_public_msk_brokers <=> f.type = 1
  BY Zenon DEF RequestOf
<1>2. r.use_jump_clusters <=> f.type \in {3, 4}
  BY Zenon DEF RequestOf
<1>3. r.msk_jump_cluster_auth_type
        = CASE f.type = 3 -> "sasl_scram" [] f.type = 4 -> "iam" [] OTHER -> ""
  BY Zenon DEF RequestOf
<1> HIDE DEF r
<1>4. /\ Public(r) <=> f.type = 1
      /\ External(r) <=> f.type = 2
      /\ Jump(r) <=> f.type \in {3, 4}
  BY <1>1, <1>2 DEF Public, Jump, External
<1>5. /\ f.type = 3 => r.msk_jump_cluster_auth_type = "sasl_scram"
      /\ f.type = 4 => r.msk_jump_cluster_auth_type = "iam"
  <2>1. CASE f.type = 3
    BY <1>3, <2>1, 3 # 4
  <2>2. CASE f.type = 4
    BY <1>3, <2>2, 3 # 4
  <2>3. QED
    BY <2>1, <2>2, 3 # 4
<1>6. QED
  BY <1>4, <1>5 DEF r

(* Where MSK reported the brokers, what the command requests is supplied.    *)
LEMMA CommandSupplies ==
  ASSUME NEW f \in CommandLine, NEW c \in SourceCluster, f.type # 0,
         BootstrapOf(f.type) \in c.bootstrap, c.nodes # {}
  PROVE  /\ Supplied(RequestOf(f, c))
         /\ External(RequestOf(f, c)) /\ "security-group-id" \notin f.given
              => "target_environment_id" \in RequestOf(f, c).given
<1> DEFINE r == RequestOf(f, c)
<1>1. f.type \in 1..4
  BY DEF CommandLine
<1>2. /\ Public(r) <=> f.type = 1
      /\ External(r) <=> f.type = 2
      /\ Jump(r) <=> f.type \in {3, 4}
      /\ f.type = 3 => r.msk_jump_cluster_auth_type = "sasl_scram"
      /\ f.type = 4 => r.msk_jump_cluster_auth_type = "iam"
  BY <1>1, KindOfType
<1>3. r.given \subseteq Fields
  BY RequestOfCommandLine DEF Request
<1>4. LinkFields \cup {"vpc_id", "msk_region"} \subseteq r.given
  BY DEF RequestOf, LinkFields
<1>5. f.type # 4 => "msk_sasl_scram_bootstrap_servers" \in r.given
  BY DEF RequestOf, When
<1>6. f.type = 4 => {"msk_sasl_iam_bootstrap_servers", "jump_cluster_iam_auth_role_name"} \subseteq r.given
  BY DEF RequestOf, When
<1>7. f.type = 2 =>
        /\ {"ext_outbound_subnet_id", "ext_outbound_security_group_id", "aws_kafka_brokers"}
             \subseteq r.given
        /\ "security-group-id" \notin f.given => "target_environment_id" \in r.given
  BY DEF RequestOf, When
<1>8. f.type \in {3, 4} =>
        {"target_bootstrap_endpoint", "existing_private_link_vpce_id", "jump_cluster_instance_type",
         "jump_cluster_broker_subnet_cidr", "jump_cluster_setup_host_subnet_cidr"} \subseteq r.given
  BY DEF RequestOf, When
<1> HIDE DEF r
<1>9. Jump(r) => (Scram(r) <=> f.type = 3)
  BY <1>2, 3 # 4 DEF Scram
<1>10. Supplied(r)
  BY <1>2, <1>3, <1>4, <1>5, <1>6, <1>7, <1>8, <1>9 DEF Supplied
<1>11. QED
  BY <1>2, <1>7, <1>10 DEF r

(* Every project the command finishes is one Terraform accepts and can put   *)
(* in order, and where MSK reported the brokers it asks only for secrets:    *)
(* whatever command lines were given, failed or were repeated, and whatever  *)
(* the state file says of the source cluster (parseMigrationInfraOpts and    *)
(* MigrationInfraHCLService).                                                *)
THEOREM CommandGivesCoherentProjects == Spec => []CommandIsCoherent
<1>1. TypeOK /\ RunInv => CommandIsCoherent
  <2> SUFFICES ASSUME TypeOK, RunInv, Done PROVE CommandIsCoherent
    BY DEF CommandIsCoherent
  <2>1. CoherentMigration(request) /\ OrderedMigration(request)
    BY GeneratedMigrationIsCoherent, GeneratedMigrationIsOrdered DEF TypeOK
  <2>2. /\ request = RequestOf(flags, cluster) /\ flags \in CommandLine /\ cluster \in SourceCluster
        /\ flags.type # 0
    BY DEF TypeOK, RunInv, Done
  <2>3. ASSUME BootstrapOf(flags.type) \in cluster.bootstrap, cluster.nodes # {}
        PROVE  /\ Jump(request) => Prompted(request) = ReadmeCredentials(request)
               /\ Prompted(request) \subseteq
                    Secrets \cup When(External(request) /\ "security-group-id" \in flags.given,
                                     {"target_environment_id"})
    <3>1. /\ AsksForSecrets(request)
          /\ External(request) /\ "security-group-id" \notin flags.given
               => "target_environment_id" \in request.given
      BY <2>2, <2>3, CommandSupplies, SuppliedAsksForSecrets
    <3>2. QED
      BY <3>1 DEF AsksForSecrets, When
  <2>4. QED
    BY <2>1, <2>3 DEF CommandIsCoherent
<1>2. QED
  BY <1>1, TypeCorrect, RunInvariance, PTL
=============================================================================
