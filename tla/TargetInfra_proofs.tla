------------------------- MODULE TargetInfra_proofs -------------------------
(* What is proved about the target infrastructure project: for every request *)
(* that creates a cluster, whatever its type and whatever fields are empty,  *)
(* the generated project is coherent and free of cycles, and so is every one *)
(* the command leaves on disk, for any set of command lines and any number   *)
(* of runs. Terraform reads only files of that run there, and what a project *)
(* needs has passed the command's checks.                                    *)
EXTENDS TargetInfra, TLAPS

(* A block has the name it was generated with.                               *)
LEMMA BlockName == \A name, uses, refs : Block(name, uses, refs).block = name
BY DEF Block

(* A block of a given name is defined by the main it is in.                  *)
LEMMA DefinedByBlock ==
  ASSUME NEW main, NEW name, NEW used, NEW refs, Block(name, used, refs) \in main
  PROVE  name \in Defined(main)
<1>1. Block(name, used, refs).block = name
  BY DEF Block
<1>2. QED
  BY <1>1 DEF Defined

(* The private_link module resolves, in both of its shapes: every variable   *)
(* and block its blocks mention is in it.                                    *)
LEMMA PrivateLinkResolves ==
  ASSUME NEW r \in Request
  PROVE  /\ BlocksResolve(PrivateLink(r))
         /\ OutputsResolve(PrivateLink(r))
         /\ OneBlockPerName(PrivateLink(r))
<1> DEFINE pl == PrivateLink(r)
<1>1. CASE Dedicated(r)
  <2>1. pl.main = DedicatedPrivateLinkMain
    BY <1>1 DEF PrivateLink
  <2>2. pl.declares = PrivateLinkInputs \cup {"environment_id"} \cup NetworkOutputs
    BY <1>1 DEF PrivateLink, PrivateLinkVariables, PrivateLinkFromCloud, When
  <2>3. Defined(pl.main) = {"data.aws_caller_identity", "confluent_private_link_access",
            "aws_security_group", "aws_subnet", "aws_vpc_endpoint", "aws_route53_zone",
            "aws_route53_record"}
    BY <2>1 DEF Defined, Block, DedicatedPrivateLinkMain, Endpoint
  <2>4. BlocksResolve(pl)
    <3> SUFFICES ASSUME NEW b \in pl.main
                 PROVE  b.vars \subseteq pl.declares /\ b.refs \subseteq Defined(pl.main)
      BY DEF BlocksResolve
    <3> HIDE DEF pl
    <3> QED
      BY <2>1, <2>2, <2>3 DEF Block, DedicatedPrivateLinkMain, Endpoint, PrivateLinkInputs, NetworkOutputs
  <2>5. OutputsResolve(pl)
    BY <2>3 DEF OutputsResolve, PrivateLink
  <2>6. OneBlockPerName(pl)
    <3> SUFFICES ASSUME NEW b \in pl.main, NEW c \in pl.main, b.block = c.block
                 PROVE  b = c
      BY DEF OneBlockPerName
    <3> HIDE DEF pl
    <3> QED
      BY <2>1, BlockName DEF DedicatedPrivateLinkMain, Endpoint
  <2>7. QED
    BY <2>4, <2>5, <2>6
<1>2. CASE ~Dedicated(r)
  <2>1. pl.main = EnterprisePrivateLinkMain
    BY <1>2 DEF PrivateLink
  <2>2. pl.declares = PrivateLinkInputs \cup {"environment_id"}
    BY <1>2 DEF PrivateLink, PrivateLinkVariables, PrivateLinkFromCloud, When
  <2>3. Defined(pl.main) = {"confluent_private_link_attachment", "data.aws_availability_zones",
            "confluent_private_link_attachment_connection", "aws_security_group", "aws_subnet",
            "aws_vpc_endpoint", "aws_route53_zone", "aws_route53_record"}
    BY <2>1 DEF Defined, Block, EnterprisePrivateLinkMain, Endpoint
  <2>4. BlocksResolve(pl)
    <3> SUFFICES ASSUME NEW b \in pl.main
                 PROVE  b.vars \subseteq pl.declares /\ b.refs \subseteq Defined(pl.main)
      BY DEF BlocksResolve
    <3> HIDE DEF pl
    <3> QED
      BY <2>1, <2>2, <2>3 DEF Block, EnterprisePrivateLinkMain, Endpoint, PrivateLinkInputs
  <2>5. OutputsResolve(pl)
    BY <2>3 DEF OutputsResolve, PrivateLink
  <2>6. OneBlockPerName(pl)
    <3> SUFFICES ASSUME NEW b \in pl.main, NEW c \in pl.main, b.block = c.block
                 PROVE  b = c
      BY DEF OneBlockPerName
    <3> HIDE DEF pl
    <3> QED
      BY <2>1, BlockName DEF EnterprisePrivateLinkMain, Endpoint
  <2>7. QED
    BY <2>4, <2>5, <2>6
<1>3. QED
  BY <1>1, <1>2

(* The blocks of the confluent_cloud module when it has a cluster.           *)
LEMMA ConfluentCloudBlocks ==
  ASSUME NEW r \in Request, CreatesCluster(r)
  PROVE  /\ Environment(r).block \in Defined(ConfluentCloudMain(r))
         /\ CreatesNetwork(r) => "confluent_network" \in Defined(ConfluentCloudMain(r))
         /\ {"confluent_kafka_cluster", "data.confluent_schema_registry_cluster",
             "confluent_service_account", "kafka-api-key", "kafka-cluster-admin",
             "schema-registry-api-key"} \subseteq Defined(ConfluentCloudMain(r))
<1> DEFINE main == ConfluentCloudMain(r)
           names == Defined(main)
<1>1. Environment(r).block \in names
  BY DEF ConfluentCloudMain, Defined
<1>2. CreatesNetwork(r) => "confluent_network" \in names
  BY DefinedByBlock DEF ConfluentCloudMain, Network
<1>3. "confluent_kafka_cluster" \in names
  BY DefinedByBlock DEF ConfluentCloudMain, KafkaCluster
<1>4. "data.confluent_schema_registry_cluster" \in names
  BY DefinedByBlock DEF ConfluentCloudMain, SchemaRegistry
<1>5. "confluent_service_account" \in names
  BY DefinedByBlock DEF ConfluentCloudMain, Access
<1>6. "kafka-api-key" \in names
  BY DefinedByBlock DEF ConfluentCloudMain, Access
<1>7. "kafka-cluster-admin" \in names
  BY DefinedByBlock DEF ConfluentCloudMain, Access
<1>8. "schema-registry-api-key" \in names
  BY DefinedByBlock DEF ConfluentCloudMain, Access
<1>9. QED
  BY <1>1, <1>2, <1>3, <1>4, <1>5, <1>6, <1>7, <1>8

(* The confluent_cloud module resolves when it has a cluster; without one it *)
(* does not, see EveryProjectIsCoherent.                                     *)
LEMMA ConfluentCloudResolves ==
  ASSUME NEW r \in Request, CreatesCluster(r)
  PROVE  /\ BlocksResolve(ConfluentCloud(r))
         /\ OutputsResolve(ConfluentCloud(r))
         /\ OneBlockPerName(ConfluentCloud(r))
<1> DEFINE main == ConfluentCloudMain(r)
           names == Defined(main)
           HasVars(b) == b.vars \subseteq ConfluentCloudVariables(r)
<1>1. \A b \in main : HasVars(b) /\ b.refs \subseteq names
  <2>1. HasVars(Environment(r)) /\ Environment(r).refs \subseteq names
    BY DEF Environment, Block, ConfluentCloudVariables, When
  <2>2. HasVars(SchemaRegistry(r)) /\ SchemaRegistry(r).refs \subseteq names
    BY ConfluentCloudBlocks DEF SchemaRegistry, Block
  <2>3. \A b \in Network(r) : HasVars(b) /\ b.refs \subseteq names
    <3> SUFFICES ASSUME NEW b \in Network(r)
                 PROVE  HasVars(b) /\ b.refs \subseteq names
      OBVIOUS
    <3>1. CreatesNetwork(r) /\ b.vars = {"aws_region"} /\ b.refs = {Environment(r).block}
      BY DEF Network, Block
    <3>2. QED
      BY <3>1, ConfluentCloudBlocks DEF ConfluentCloudVariables
  <2>4. \A b \in KafkaCluster(r) : HasVars(b) /\ b.refs \subseteq names
    BY ConfluentCloudBlocks DEF KafkaCluster, Block, ConfluentCloudVariables, When
  <2>5. \A b \in Access(r) : HasVars(b) /\ b.refs \subseteq names
    BY ConfluentCloudBlocks DEF Access, Block
  <2>6. QED
    BY <2>1, <2>2, <2>3, <2>4, <2>5 DEF ConfluentCloudMain
<1>2. OutputsResolve(ConfluentCloud(r))
  <2> SUFFICES ASSUME NEW o \in ConfluentCloudOutputNames(r)
               PROVE  ConfluentCloudOutputs(r)[o] \in names
    BY DEF OutputsResolve, ConfluentCloud, ConfluentCloudOutputs
  <2>1. o \in NetworkOutputs => CreatesNetwork(r)
    BY DEF ConfluentCloudOutputNames, PlainOutputs, NetworkOutputs, When
  <2>2. QED
    BY <2>1, ConfluentCloudBlocks DEF ConfluentCloudOutputs
<1>3. OneBlockPerName(ConfluentCloud(r))
  BY DEF OneBlockPerName, ConfluentCloud, ConfluentCloudMain, Block,
     Environment, SchemaRegistry, Network, KafkaCluster, Access
<1>4. QED
  BY <1>1, <1>2, <1>3 DEF BlocksResolve, ConfluentCloud

(* Every output the root and the private_link call take from a module is one *)
(* that module has.                                                          *)
LEMMA OutputsExist ==
  ASSUME NEW r \in Request
  PROVE  /\ \A v \in PrivateLinkFromCloud(r) : r.needs_private_link => v \in ConfluentCloudOutputNames(r)
         /\ \A o \in RootOutputs(r) :
               /\ o[1] \in Modules(r)
               /\ o[2] \in DOMAIN GenerateTerraformFiles(r).modules[o[1]].outputs
<1> DEFINE p == GenerateTerraformFiles(r)
<1>1. \A v \in PrivateLinkFromCloud(r) : r.needs_private_link => v \in ConfluentCloudOutputNames(r)
  BY DEF PrivateLinkFromCloud, ConfluentCloudOutputNames, CreatesNetwork, When, PlainOutputs
<1>2. /\ "confluent_cloud" \in Modules(r)
      /\ p.modules["confluent_cloud"].outputs = ConfluentCloudOutputs(r)
  BY DEF GenerateTerraformFiles, Modules, ConfluentCloud
<1>3. r.needs_private_link => /\ "private_link" \in Modules(r)
                              /\ DOMAIN p.modules["private_link"].outputs = {"vpc_endpoint_id"}
  BY DEF GenerateTerraformFiles, Modules, When, PrivateLink
<1>4. DOMAIN ConfluentCloudOutputs(r) = ConfluentCloudOutputNames(r)
  BY DEF ConfluentCloudOutputs
<1>5. QED
  <2> SUFFICES ASSUME NEW o \in RootOutputs(r)
               PROVE  o[1] \in Modules(r) /\ o[2] \in DOMAIN p.modules[o[1]].outputs
    BY <1>1
  <2>1. CASE o[1] = "confluent_cloud" /\ o[2] \in ConfluentCloudOutputNames(r)
    BY <2>1, <1>2, <1>4
  <2>2. CASE o = <<"private_link", "vpc_endpoint_id">> /\ r.needs_private_link
    BY <2>2, <1>3
  <2>3. QED
    BY <2>1, <2>2 DEF RootOutputs, When

(* The arguments of each call are the variables its module declares.         *)
LEMMA CallsMatch ==
  ASSUME NEW r \in Request, NEW m \in Modules(r)
  PROVE  CallMatches(GenerateTerraformFiles(r), m)
<1> DEFINE p == GenerateTerraformFiles(r)
<1>1. CASE m = "confluent_cloud"
  <2>1. /\ p.calls[m] = [vars |-> ConfluentCloudVariables(r), outputs |-> {}]
        /\ p.modules[m].declares = ConfluentCloudVariables(r)
        /\ p.root.declares = RootVariables(r)
    BY <1>1 DEF GenerateTerraformFiles, Call, ConfluentCloud
  <2>2. QED
    BY <2>1 DEF CallMatches, RootVariables
<1>2. CASE m = "private_link" /\ r.needs_private_link
  <2>1. /\ p.calls[m].vars = PrivateLinkInputs
        /\ p.calls[m].outputs = {<<"confluent_cloud", v>> : v \in PrivateLinkFromCloud(r)}
        /\ p.modules[m].declares = PrivateLinkInputs \cup PrivateLinkFromCloud(r)
        /\ p.root.declares = RootVariables(r)
    BY <1>2 DEF GenerateTerraformFiles, Call, PrivateLink, PrivateLinkVariables
  <2>2. /\ "confluent_cloud" \in DOMAIN p.modules
        /\ DOMAIN p.modules["confluent_cloud"].outputs = ConfluentCloudOutputNames(r)
    BY DEF GenerateTerraformFiles, Modules, ConfluentCloud, ConfluentCloudOutputs
  <2>3. \A o \in p.calls[m].outputs :
           /\ o[1] = "confluent_cloud" /\ o[2] \in PrivateLinkFromCloud(r)
    BY <2>1
  <2>4. {o[2] : o \in p.calls[m].outputs} = PrivateLinkFromCloud(r)
    <3>1. \A v \in PrivateLinkFromCloud(r) :
            <<"confluent_cloud", v>> \in p.calls[m].outputs /\ <<"confluent_cloud", v>>[2] = v
      BY <2>1
    <3>2. QED
      BY <2>3, <3>1
  <2>5. p.calls[m].vars \subseteq p.root.declares
    BY <2>1 DEF RootVariables
  <2>6. \A o \in p.calls[m].outputs : o[2] \in ConfluentCloudOutputNames(r)
    BY <2>3, <1>2, OutputsExist
  <2>7. QED
    BY <2>1, <2>2, <2>3, <2>4, <2>5, <2>6 DEF CallMatches
<1>3. QED
  BY <1>1, <1>2 DEF Modules, When

(* For every request that creates a cluster the generated project is one     *)
(* that Terraform accepts: GenerateTerraformFiles never mentions a variable, *)
(* block or output it does not generate, and every call fits its module.     *)
THEOREM GeneratedProjectIsCoherent ==
  ASSUME NEW r \in Request, CreatesCluster(r)
  PROVE  Coherent(GenerateTerraformFiles(r))
<1> DEFINE p == GenerateTerraformFiles(r)
<1>1. DOMAIN p.calls = Modules(r) /\ DOMAIN p.modules = Modules(r)
  BY DEF GenerateTerraformFiles
<1>2. \A b \in p.root.main : b.vars \subseteq p.root.declares /\ b.refs \subseteq Defined(p.root.main)
  <2>1. p.root.main = Providers /\ p.root.declares = RootVariables(r)
    BY DEF GenerateTerraformFiles
  <2>2. QED
    BY <2>1 DEF Providers, Block, RootVariables, TargetClusterProviderVariables, Credentials
<1>3. \A o \in p.root.outputs : o[1] \in DOMAIN p.modules /\ o[2] \in DOMAIN p.modules[o[1]].outputs
  <2>1. p.root.outputs = RootOutputs(r)
    BY DEF GenerateTerraformFiles
  <2>2. QED
    BY <2>1, <1>1, OutputsExist
<1>4. p.root.values \subseteq p.root.declares
  BY DEF GenerateTerraformFiles, Values
<1>5. \A m \in DOMAIN p.modules :
         /\ BlocksResolve(p.modules[m]) /\ OutputsResolve(p.modules[m])
         /\ OneBlockPerName(p.modules[m]) /\ CallMatches(p, m)
  <2> SUFFICES ASSUME NEW m \in Modules(r)
               PROVE  /\ BlocksResolve(p.modules[m]) /\ OutputsResolve(p.modules[m])
                      /\ OneBlockPerName(p.modules[m]) /\ CallMatches(p, m)
    BY <1>1
  <2>1. CASE m = "confluent_cloud"
    <3>1. p.modules[m] = ConfluentCloud(r)
      BY <2>1 DEF GenerateTerraformFiles
    <3>2. QED
      BY <3>1, CallsMatch, ConfluentCloudResolves
  <2>2. CASE m # "confluent_cloud"
    <3>1. p.modules[m] = PrivateLink(r)
      BY <2>2 DEF GenerateTerraformFiles
    <3>2. QED
      BY <3>1, CallsMatch, PrivateLinkResolves
  <2>3. QED
    BY <2>1, <2>2
<1>6. QED
  BY <1>1, <1>2, <1>3, <1>4, <1>5 DEF Coherent

(* What each block of the confluent_cloud module waits for.                  *)
LEMMA ConfluentCloudWaits ==
  ASSUME NEW r \in Request, NEW b \in ConfluentCloudMain(r)
  PROVE  LET env == Environment(r).block
         IN \/ b.block = env /\ b.refs = {}
            \/ b.block = "confluent_network" /\ b.refs = {env}
            \/ b.block = "confluent_service_account" /\ b.refs = {}
            \/ b.block = "confluent_kafka_cluster" /\ b.refs \subseteq {env, "confluent_network"}
            \/ /\ b.block = "kafka-cluster-admin"
               /\ b.refs = {"confluent_service_account", "confluent_kafka_cluster"}
            \/ /\ b.block = "kafka-api-key"
               /\ b.refs = {"confluent_service_account", "confluent_kafka_cluster", env,
                            "kafka-cluster-admin"}
            \/ /\ b.block = "data.confluent_schema_registry_cluster"
               /\ b.refs = {env, "kafka-api-key"}
            \/ /\ b.block \in {"subject-resource-owner", "kafka-data-steward",
                               "schema-registry-api-key"}
               /\ b.refs \subseteq {"confluent_service_account", env,
                                    "data.confluent_schema_registry_cluster"}
<1>1. CASE b = Environment(r)
  BY <1>1 DEF Environment, Block
<1>2. CASE b = SchemaRegistry(r)
  BY <1>2 DEF SchemaRegistry, Block
<1>3. CASE b \in Network(r)
  BY <1>3 DEF Network, Block
<1>4. CASE b \in KafkaCluster(r)
  BY <1>4 DEF KafkaCluster, Block, When
<1>5. CASE b \in Access(r)
  BY <1>5 DEF Access, Block
<1>6. QED
  BY <1>1, <1>2, <1>3, <1>4, <1>5 DEF ConfluentCloudMain

(* Nothing in the confluent_cloud module waits for itself: following what    *)
(* its blocks wait for leads from the keys and bindings down to the cluster, *)
(* the network and the environment.                                          *)
LEMMA ConfluentCloudHasNoCycle ==
  ASSUME NEW r \in Request
  PROVE  NoCycle(ConfluentCloud(r))
<1> DEFINE env == Environment(r).block
<1> SUFFICES ASSUME NEW S \in SUBSET ConfluentCloudMain(r),
                    \A b \in S : \E c \in S : c.block \in b.refs
             PROVE  S = {}
  BY DEF NoCycle, ConfluentCloud
<1> DEFINE names == {b.block : b \in S}
<1>1. env \in {"confluent_environment", "data.confluent_environment"}
  BY DEF Environment, Block
<1>2. \A b \in S : b.block \in names /\ \E n \in names : n \in b.refs
  OBVIOUS
<1>3. \A b \in S :
         \/ b.block = env /\ b.refs = {}
         \/ b.block = "confluent_network" /\ b.refs = {env}
         \/ b.block = "confluent_service_account" /\ b.refs = {}
         \/ b.block = "confluent_kafka_cluster" /\ b.refs \subseteq {env, "confluent_network"}
         \/ /\ b.block = "kafka-cluster-admin"
            /\ b.refs = {"confluent_service_account", "confluent_kafka_cluster"}
         \/ /\ b.block = "kafka-api-key"
            /\ b.refs = {"confluent_service_account", "confluent_kafka_cluster", env,
                         "kafka-cluster-admin"}
         \/ /\ b.block = "data.confluent_schema_registry_cluster"
            /\ b.refs = {env, "kafka-api-key"}
         \/ /\ b.block \in {"subject-resource-owner", "kafka-data-steward",
                            "schema-registry-api-key"}
            /\ b.refs \subseteq {"confluent_service_account", env,
                                 "data.confluent_schema_registry_cluster"}
  BY ConfluentCloudWaits
<1> HIDE DEF env
<1>4. env \notin names /\ "confluent_service_account" \notin names
  BY <1>1, <1>2, <1>3
<1>5. "confluent_network" \notin names
  BY <1>1, <1>2, <1>3, <1>4
<1>6. "confluent_kafka_cluster" \notin names
  <2>1. \A b \in S : b.block = "confluent_kafka_cluster" => b.refs \subseteq {env, "confluent_network"}
    BY <1>1, <1>3
  <2>2. QED
    BY <1>2, <1>4, <1>5, <2>1
<1>7. "kafka-cluster-admin" \notin names
  <2>1. \A b \in S : b.block = "kafka-cluster-admin" =>
           b.refs = {"confluent_service_account", "confluent_kafka_cluster"}
    BY <1>1, <1>3
  <2>2. QED
    BY <1>2, <1>4, <1>6, <2>1
<1>8. "kafka-api-key" \notin names
  <2>1. \A b \in S : b.block = "kafka-api-key" =>
           b.refs = {"confluent_service_account", "confluent_kafka_cluster", env,
                     "kafka-cluster-admin"}
    BY <1>1, <1>3
  <2>2. QED
    BY <1>2, <1>4, <1>6, <1>7, <2>1
<1>9. "data.confluent_schema_registry_cluster" \notin names
  <2>1. \A b \in S : b.block = "data.confluent_schema_registry_cluster" =>
           b.refs = {env, "kafka-api-key"}
    BY <1>1, <1>3
  <2>2. QED
    BY <1>2, <1>4, <1>8, <2>1
<1>10. \A b \in S :
          /\ b.block \in {"subject-resource-owner", "kafka-data-steward", "schema-registry-api-key"}
          /\ b.refs \subseteq {"confluent_service_account", env,
                               "data.confluent_schema_registry_cluster"}
  BY <1>2, <1>3, <1>4, <1>5, <1>6, <1>7, <1>8, <1>9
<1>11. QED
  BY <1>2, <1>4, <1>9, <1>10

(* Nor does anything in the private_link module, in either of its shapes.    *)
LEMMA PrivateLinkHasNoCycle ==
  ASSUME NEW r \in Request
  PROVE  NoCycle(PrivateLink(r))
<1> DEFINE grant == IF Dedicated(r) THEN "confluent_private_link_access"
                    ELSE "confluent_private_link_attachment"
           ground == {"data.aws_caller_identity", "data.aws_availability_zones",
                      "aws_security_group"}
<1> SUFFICES ASSUME NEW S \in SUBSET PrivateLink(r).main,
                    \A b \in S : \E c \in S : c.block \in b.refs
             PROVE  S = {}
  BY DEF NoCycle
<1> DEFINE names == {b.block : b \in S}
<1>1. \A b \in S : b.block \in names /\ \E n \in names : n \in b.refs
  OBVIOUS
<1>2. \A b \in S :
         \/ b.block \in ground /\ b.refs = {}
         \/ b.block = grant /\ b.refs \subseteq ground
         \/ b.block = "aws_subnet" /\ b.refs \subseteq ground
         \/ b.block = "aws_vpc_endpoint" /\ b.refs = {"aws_security_group", "aws_subnet", grant}
         \/ b.block = "aws_route53_zone" /\ b.refs \subseteq {grant}
         \/ b.block = "aws_route53_record" /\ b.refs = {"aws_route53_zone", "aws_vpc_endpoint"}
         \/ /\ b.block = "confluent_private_link_attachment_connection"
            /\ b.refs = {"aws_vpc_endpoint", grant}
  <2>1. CASE Dedicated(r)
    BY <2>1 DEF PrivateLink, DedicatedPrivateLinkMain, Endpoint, Block
  <2>2. CASE ~Dedicated(r)
    BY <2>2 DEF PrivateLink, EnterprisePrivateLinkMain, Endpoint, Block
  <2>3. QED
    BY <2>1, <2>2
<1>3. grant \in {"confluent_private_link_access", "confluent_private_link_attachment"}
  OBVIOUS
<1> HIDE DEF grant
<1>4. \A n \in ground : n \notin names
  <2>1. \A b \in S : b.block \in ground => b.refs = {}
    BY <1>2, <1>3
  <2> HIDE DEF ground
  <2>2. QED
    BY <1>1, <2>1
<1>5. grant \notin names /\ "aws_subnet" \notin names
  <2>1. \A b \in S : b.block \in {grant, "aws_subnet"} => b.refs \subseteq ground
    BY <1>2, <1>3
  <2> HIDE DEF ground
  <2>2. QED
    BY <1>1, <1>4, <2>1
<1>6. "aws_vpc_endpoint" \notin names /\ "aws_route53_zone" \notin names
  <2>1. \A b \in S : b.block = "aws_vpc_endpoint" =>
           b.refs = {"aws_security_group", "aws_subnet", grant}
    BY <1>2, <1>3
  <2>2. \A b \in S : b.block = "aws_route53_zone" => b.refs \subseteq {grant}
    BY <1>2, <1>3
  <2>3. "aws_security_group" \notin names
    BY <1>4
  <2> HIDE DEF ground
  <2>4. "aws_vpc_endpoint" \notin names
    BY <1>1, <1>5, <2>1, <2>3
  <2>5. "aws_route53_zone" \notin names
    BY <1>1, <1>5, <2>2
  <2>6. QED
    BY <2>4, <2>5
<1>7. \A b \in S :
         \/ b.block = "aws_route53_record" /\ b.refs = {"aws_route53_zone", "aws_vpc_endpoint"}
         \/ /\ b.block = "confluent_private_link_attachment_connection"
            /\ b.refs = {"aws_vpc_endpoint", grant}
  <2> HIDE DEF ground
  <2> QED
    BY <1>1, <1>2, <1>4, <1>5, <1>6
<1>8. QED
  BY <1>1, <1>5, <1>6, <1>7

(* The generated project can be ordered: no block of a module waits for      *)
(* itself, and the private link is fed by confluent_cloud and never feeds it.*)
THEOREM GeneratedProjectHasNoCycle ==
  ASSUME NEW r \in Request
  PROVE  /\ NoModuleCycle(GenerateTerraformFiles(r))
         /\ \A m \in DOMAIN GenerateTerraformFiles(r).modules :
               NoCycle(GenerateTerraformFiles(r).modules[m])
<1> DEFINE p == GenerateTerraformFiles(r)
<1>1. NoModuleCycle(p)
  <2> SUFFICES ASSUME NEW S \in SUBSET Modules(r), S # {}
               PROVE  \E c \in S : \A o \in p.calls[c].outputs : o[1] \notin S
    BY DEF NoModuleCycle, GenerateTerraformFiles
  <2>1. CASE "confluent_cloud" \in S
    <3>1. p.calls["confluent_cloud"].outputs = {}
      BY DEF GenerateTerraformFiles, Modules, Call
    <3>2. QED
      BY <2>1, <3>1
  <2>2. CASE "confluent_cloud" \notin S
    <3>1. \A c \in S : c # "confluent_cloud" /\ c \in Modules(r)
      BY <2>2
    <3>2. \A c \in S : \A o \in p.calls[c].outputs : o[1] = "confluent_cloud"
      BY <3>1 DEF GenerateTerraformFiles, Call
    <3>3. QED
      BY <2>2, <3>2
  <2>3. QED
    BY <2>1, <2>2
<1>2. \A m \in Modules(r) : p.modules[m] \in {ConfluentCloud(r), PrivateLink(r)}
  BY DEF GenerateTerraformFiles
<1>3. DOMAIN p.modules = Modules(r)
  BY DEF GenerateTerraformFiles
<1>4. QED
  BY <1>1, <1>2, <1>3, ConfluentCloudHasNoCycle, PrivateLinkHasNoCycle

-----------------------------------------------------------------------------
(* The request of a command line is one the generator is proved for.         *)
LEMMA RequestOfCommandLine ==
  ASSUME NEW f \in CommandLine, NEW from \in Sources(f)
  PROVE  /\ RequestOf(f, from) \in Request
         /\ RequestOf(f, from).needs_cluster = f.needs_cluster
<1>1. from \in SUBSET Fields
  BY DEF Sources, When, Fields
<1>2. RequestOf(f, from).given \in SUBSET Fields
  BY <1>1 DEF RequestOf, When, Fields
<1>3. QED
  BY <1>2 DEF RequestOf, CommandLine, Request

(* The request without flags is one too.                                     *)
LEMMA RequestOfNoFlags == NoFlags \in CommandLine /\ RequestOf(NoFlags, {}) \in Request
<1>1. NoFlags \in CommandLine
  BY ClusterTypesAssumption DEF NoFlags, CommandLine, Availabilities
<1>2. RequestOf(NoFlags, {}).given \in SUBSET Fields
  BY DEF RequestOf, When, Fields
<1>3. QED
  BY <1>1, <1>2 DEF RequestOf, CommandLine, Request

(* The files of a run are files of the output directory.                     *)
LEMMA FilesAreInPlace == ASSUME NEW r \in Request PROVE FilesOf(r) \in Seq(Places)
<1>1. RootFiles \in Seq(Places) /\ SubSeq(RootFiles, 1, 4) \in Seq(Places)
  BY DEF RootFiles, Places, Files
<1>2. /\ ModuleFiles("confluent_cloud") \in Seq(Places)
      /\ ModuleFiles("private_link") \in Seq(Places)
  BY DEF ModuleFiles, Places, Files
<1>3. QED
  BY <1>1, <1>2 DEF FilesOf

(* TypeOK holds in every state of every sequence of runs.                    *)
THEOREM TypeCorrect == Spec => []TypeOK
<1>1. Init => TypeOK
  BY RequestOfNoFlags, FlagsAssumption DEF Init, TypeOK
<1>2. TypeOK /\ [Next]_vars => TypeOK'
  <2> SUFFICES ASSUME TypeOK, [Next]_vars PROVE TypeOK'
    OBVIOUS
  <2> USE DEF TypeOK
  <2>1. ASSUME NEW f \in Flags, Start(f) PROVE TypeOK'
    BY <2>1, RequestOfNoFlags, FlagsAssumption DEF Start
  <2>2. ASSUME RunCreateTargetInfra PROVE TypeOK'
    <3>1. request' \in Request
      BY <2>2, RequestOfCommandLine DEF RunCreateTargetInfra
    <3>2. left' \in Seq(Places)
      BY <2>2, <3>1, FilesAreInPlace DEF RunCreateTargetInfra
    <3>3. QED
      BY <2>2, <3>1, <3>2 DEF RunCreateTargetInfra
  <2>3. ASSUME WriteFile PROVE TypeOK'
    BY <2>3, FlagsAssumption DEF WriteFile
  <2>4. ASSUME Finish PROVE TypeOK'
    BY <2>4 DEF Finish
  <2>5. ASSUME Abort PROVE TypeOK'
    BY <2>5, RequestOfNoFlags DEF Abort
  <2>6. CASE UNCHANGED vars
    BY <2>6 DEF vars
  <2>7. QED
    BY <2>1, <2>2, <2>3, <2>4, <2>5, <2>6 DEF Next
<1>3. QED
  BY <1>1, <1>2, PTL DEF Spec

(* Whatever command lines were given, failed or were repeated, a run that    *)
(* succeeded and creates a cluster leaves a coherent project without cycles. *)
THEOREM CompletedRunsAreCoherent == Spec => []OwnClusterIsCoherent
<1>1. TypeOK => OwnClusterIsCoherent
  BY GeneratedProjectIsCoherent, GeneratedProjectHasNoCycle
  DEF TypeOK, OwnClusterIsCoherent, CoherentProject, Project
<1>2. QED
  BY <1>1, TypeCorrect, PTL

-----------------------------------------------------------------------------
(* The disk. Every file a run may write is one of AllFiles, whatever its     *)
(* flags; a run writes all of those of the root directory and of the modules *)
(* its root calls.                                                           *)
AllFiles == {RootFiles[i] : i \in 1..5}
            \cup {ModuleFiles("confluent_cloud")[i] : i \in 1..4}
            \cup {ModuleFiles("private_link")[i] : i \in 1..4}
Written(r) == {FilesOf(r)[i] : i \in DOMAIN FilesOf(r)}
Requested == \E from \in Sources(flags) : request = RequestOf(flags, from)

(* While files are written each of them is on disk or still to come, and     *)
(* nothing but generated files is ever in the directory.                     *)
DiskInv ==
  /\ phase \in {"accepted", "writing", "done"} => PreRun(flags)
  /\ phase \in {"writing", "done"} =>
       /\ Requested
       /\ \A p \in Written(request) : disk[p] = run \/ \E j \in DOMAIN left : left[j] = p
  /\ phase = "writing" => \A j \in DOMAIN left : left[j] \in Written(request)
  /\ phase = "done" => left = <<>>
  /\ \A p \in Places : disk[p] # 0 => p \in AllFiles

(* The region reaches every request, by its flag or from the state file, so  *)
(* inputs.auto.tfvars is never empty.                                        *)
LEMMA ValuesAreThere ==
  ASSUME NEW f \in CommandLine, NEW from \in Sources(f), PreRun(f)
  PROVE  "aws_region" \in Values(RequestOf(f, from))
<1>1. "aws_region" \in from
  <2>1. CASE "state-file" \in f.given
    BY <2>1 DEF Sources
  <2>2. CASE "state-file" \notin f.given
    BY <2>2 DEF Sources, When, PreRun
  <2>3. QED
    BY <2>1, <2>2
<1>2. "aws_region" \in RequestOf(f, from).given
  BY <1>1 DEF RequestOf
<1>3. "aws_region" \in RootVariables(RequestOf(f, from))
  BY DEF RootVariables, TargetClusterProviderVariables
<1>4. QED
  BY <1>2, <1>3 DEF Values, HasValue, Fields

(* The files of a run by directory.                                          *)
LEMMA WrittenFiles ==
  ASSUME NEW r \in Request
  PROVE  /\ Written(r) \subseteq AllFiles
         /\ Written(r) \subseteq Places
         /\ Values(r) # {} => \A p \in AllFiles : p[1] \in {"root"} \cup Modules(r) => p \in Written(r)
<1> DEFINE root == IF Values(r) # {} THEN RootFiles ELSE SubSeq(RootFiles, 1, 4)
           cloud == ModuleFiles("confluent_cloud")
           link == IF r.needs_private_link THEN ModuleFiles("private_link") ELSE <<>>
           Elems(s) == {s[i] : i \in DOMAIN s}
<1>1. /\ root \in Seq(Places) /\ cloud \in Seq(Places) /\ link \in Seq(Places)
      /\ FilesOf(r) = (root \o cloud) \o link
  <2>1. RootFiles \in Seq(Places) /\ SubSeq(RootFiles, 1, 4) \in Seq(Places)
    BY DEF RootFiles, Places, Files
  <2>2. /\ ModuleFiles("confluent_cloud") \in Seq(Places)
        /\ ModuleFiles("private_link") \in Seq(Places)
    BY DEF ModuleFiles, Places, Files
  <2>3. QED
    BY <2>1, <2>2 DEF FilesOf
<1>2. Elems(root) \subseteq {RootFiles[i] : i \in 1..5}
  BY DEF RootFiles
<1>3. Values(r) # {} => Elems(root) = {RootFiles[i] : i \in 1..5}
  BY DEF RootFiles
<1>4. Elems(cloud) = {ModuleFiles("confluent_cloud")[i] : i \in 1..4}
  BY DEF ModuleFiles
<1>5. Elems(link) = IF r.needs_private_link THEN {ModuleFiles("private_link")[i] : i \in 1..4} ELSE {}
  BY DEF ModuleFiles
<1>6. Written(r) = Elems(root) \cup Elems(cloud) \cup Elems(link)
  <2> HIDE DEF root, cloud, link
  <2>1. \A s, t \in Seq(Places) : Elems(s \o t) = Elems(s) \cup Elems(t)
    <3> SUFFICES ASSUME NEW s \in Seq(Places), NEW t \in Seq(Places)
                 PROVE  Elems(s \o t) = Elems(s) \cup Elems(t)
      OBVIOUS
    <3>1. \A i \in DOMAIN s : i \in DOMAIN (s \o t) /\ (s \o t)[i] = s[i]
      OBVIOUS
    <3>2. \A i \in DOMAIN t : i + Len(s) \in DOMAIN (s \o t) /\ (s \o t)[i + Len(s)] = t[i]
      OBVIOUS
    <3>3. \A i \in DOMAIN (s \o t) :
             \/ i \in DOMAIN s /\ (s \o t)[i] = s[i]
             \/ i - Len(s) \in DOMAIN t /\ (s \o t)[i] = t[i - Len(s)]
      OBVIOUS
    <3>4. QED
      BY <3>1, <3>2, <3>3
  <2>2. root \o cloud \in Seq(Places)
    BY <1>1
  <2> DEFINE first == root \o cloud
  <2>3. Elems(FilesOf(r)) = Elems(first) \cup Elems(link)
    <3>1. first \in Seq(Places) /\ link \in Seq(Places) /\ FilesOf(r) = first \o link
      BY <1>1
    <3> HIDE DEF first, Elems
    <3>2. QED
      BY <2>1, <3>1
  <2>4. Elems(first) = Elems(root) \cup Elems(cloud)
    BY <1>1, <2>1
  <2>5. QED
    BY <2>3, <2>4 DEF Written
<1>7. Written(r) \subseteq AllFiles
  <2> HIDE DEF Elems
  <2> QED
    BY <1>2, <1>4, <1>5, <1>6 DEF AllFiles
<1>8. AllFiles \subseteq Places
  BY DEF AllFiles, RootFiles, ModuleFiles, Places, Files
<1>9. ASSUME Values(r) # {}, NEW p \in AllFiles, p[1] \in {"root"} \cup Modules(r)
      PROVE  p \in Written(r)
  <2> HIDE DEF Elems, root, cloud, link
  <2>1. CASE p \in {RootFiles[i] : i \in 1..5}
    BY <2>1, <1>3, <1>6, <1>9
  <2>2. CASE p \in {ModuleFiles("confluent_cloud")[i] : i \in 1..4}
    BY <2>2, <1>4, <1>6
  <2>3. CASE p \in {ModuleFiles("private_link")[i] : i \in 1..4}
    <3>1. p[1] = "private_link"
      BY <2>3 DEF ModuleFiles
    <3>2. r.needs_private_link
      BY <3>1, <1>9 DEF Modules, When
    <3>3. QED
      BY <2>3, <3>2, <1>5, <1>6
  <2>4. QED
    BY <2>1, <2>2, <2>3 DEF AllFiles
<1>10. QED
  BY <1>7, <1>8, <1>9

(* What a run requested is a request the lemmas above speak of.              *)
LEMMA RequestedHasValues ==
  ASSUME TypeOK, Requested, PreRun(flags)
  PROVE  request \in Request /\ Values(request) # {}
BY ValuesAreThere, RequestOfCommandLine DEF TypeOK, Requested

(* The disk's invariant, action by action.                                   *)
THEOREM DiskInvariance == Spec => []DiskInv
<1>1. Init => DiskInv
  BY DEF Init, DiskInv, Places
<1>2. TypeOK /\ DiskInv /\ [Next]_vars => DiskInv'
  <2> SUFFICES ASSUME TypeOK, DiskInv, [Next]_vars PROVE DiskInv'
    OBVIOUS
  <2>1. ASSUME NEW f \in Flags, Start(f) PROVE DiskInv'
    BY <2>1 DEF Start, DiskInv
  <2>2. ASSUME RunCreateTargetInfra PROVE DiskInv'
    <3>1. Requested'
      BY <2>2 DEF RunCreateTargetInfra, Requested
    <3>2. \A p \in Written(request') : \E j \in DOMAIN left' : left'[j] = p
      BY <2>2 DEF RunCreateTargetInfra, Written
    <3>3. \A j \in DOMAIN left' : left'[j] \in Written(request')
      BY <2>2 DEF RunCreateTargetInfra, Written
    <3>4. QED
      BY <2>2, <3>1, <3>2, <3>3 DEF RunCreateTargetInfra, DiskInv
  <2>3. ASSUME WriteFile PROVE DiskInv'
    <3>1. /\ left \in Seq(Places) /\ left # <<>> /\ disk \in [Places -> 0..run]
          /\ phase = "writing"
      BY <2>3 DEF TypeOK, WriteFile
    <3>2. /\ Head(left) = left[1] /\ 1 \in DOMAIN left /\ left[1] \in Places
          /\ \A j \in DOMAIN left : j # 1 => j - 1 \in DOMAIN Tail(left) /\ Tail(left)[j - 1] = left[j]
          /\ \A j \in DOMAIN Tail(left) : j + 1 \in DOMAIN left /\ Tail(left)[j] = left[j + 1]
      BY <3>1
    <3>3. /\ \A p \in Places : disk'[p] = IF p = left[1] THEN run ELSE disk[p]
          /\ left' = Tail(left) /\ request' = request /\ flags' = flags
          /\ run' = run /\ phase' = phase
      BY <2>3, <3>1, <3>2 DEF WriteFile
    <3>4. Written(request) \subseteq Places /\ Written(request) \subseteq AllFiles
      BY WrittenFiles DEF TypeOK
    <3>5. \A p \in Written(request) : disk'[p] = run \/ \E j \in DOMAIN left' : left'[j] = p
      <4> SUFFICES ASSUME NEW p \in Written(request), p # left[1]
                   PROVE  disk'[p] = run \/ \E j \in DOMAIN left' : left'[j] = p
        BY <3>3, <3>4
      <4>1. CASE disk[p] = run
        BY <4>1, <3>3, <3>4
      <4>2. CASE \E j \in DOMAIN left : left[j] = p
        <5>1. PICK j \in DOMAIN left : left[j] = p
          BY <4>2
        <5>2. j # 1
          BY <5>1
        <5>3. QED
          BY <5>1, <5>2, <3>2, <3>3
      <4>3. QED
        BY <3>1, <4>1, <4>2 DEF DiskInv
    <3>6. \A j \in DOMAIN left' : left'[j] \in Written(request)
      BY <3>1, <3>2, <3>3 DEF DiskInv
    <3>7. \A p \in Places : disk'[p] # 0 => p \in AllFiles
      BY <3>1, <3>2, <3>3, <3>4 DEF DiskInv
    <3>8. Requested' /\ PreRun(flags)
      BY <3>1, <3>3 DEF DiskInv, Requested
    <3>9. QED
      BY <3>1, <3>3, <3>5, <3>6, <3>7, <3>8 DEF DiskInv
  <2>4. ASSUME Finish PROVE DiskInv'
    BY <2>4 DEF Finish, DiskInv, Requested
  <2>5. ASSUME Abort PROVE DiskInv'
    BY <2>5 DEF Abort, DiskInv
  <2>6. CASE UNCHANGED vars
    BY <2>6 DEF vars, DiskInv, Requested
  <2>7. QED
    BY <2>1, <2>2, <2>3, <2>4, <2>5, <2>6 DEF Next
<1>3. QED
  BY <1>1, <1>2, TypeCorrect, PTL DEF Spec

(* Whatever was run before and wherever it failed, after a run that          *)
(* succeeded Terraform reads only files of that run.                         *)
THEOREM DirectoryIsOneProject == Spec => []DiskHoldsTheProject
<1>1. TypeOK /\ DiskInv => DiskHoldsTheProject
  <2> SUFFICES ASSUME TypeOK, DiskInv, Done PROVE DiskHoldsTheProject
    BY DEF DiskHoldsTheProject
  <2>1. \A p \in Written(request) : disk[p] = run
    BY DEF DiskInv, Done
  <2>2. request \in Request /\ Values(request) # {}
    BY RequestedHasValues DEF DiskInv, Done
  <2>3. \A p \in Places : p[1] \in {"root"} \cup Modules(request) => disk[p] \in {0, run}
    BY <2>1, <2>2, WrittenFiles DEF DiskInv
  <2>4. QED
    BY <2>1, <2>3 DEF DiskHoldsTheProject, Written
<1>2. QED
  BY <1>1, TypeCorrect, DiskInvariance, PTL

(* Every finished project with a private link has its subnets as a value,    *)
(* and every multi-zone dedicated cluster has two CKUs at least: preRun      *)
(* covers all the ways to the request.                                       *)
THEOREM FlagsAreEnough == Spec => []FlagsReachTheProject
<1>1. TypeOK /\ DiskInv => FlagsReachTheProject
  <2> SUFFICES ASSUME TypeOK, DiskInv, Done PROVE FlagsReachTheProject
    BY DEF FlagsReachTheProject
  <2>1. PreRun(flags) /\ flags \in CommandLine
    BY DEF DiskInv, Done, TypeOK
  <2>2. PICK from \in Sources(flags) : request = RequestOf(flags, from)
    BY DEF DiskInv, Done, Requested
  <2>3. ASSUME request.needs_private_link
        PROVE  "subnet_cidr_ranges" \in Project.root.values
    <3>1. "subnet_cidr_ranges" \in request.given
      BY <2>1, <2>2, <2>3 DEF PreRun, RequestOf, When
    <3>2. "subnet_cidr_ranges" \in RootVariables(request)
      BY DEF RootVariables, PrivateLinkInputs
    <3>3. "subnet_cidr_ranges" \in Values(request)
      BY <3>1, <3>2 DEF Values, HasValue, Fields
    <3>4. QED
      BY <3>3 DEF Project, GenerateTerraformFiles
  <2>4. ASSUME Dedicated(request), request.cluster_availability = "MULTI_ZONE"
        PROVE  request.cluster_cku >= 2
    <3>1. /\ flags.cluster_type = "dedicated" /\ flags.cluster_availability = "MULTI_ZONE"
          /\ request.cluster_cku = flags.cluster_cku
      BY <2>2, <2>4 DEF RequestOf, Dedicated
    <3>2. flags.needs_cluster
      BY <2>1, <3>1 DEF PreRun, Exclusive, ClusterFlags
    <3>3. QED
      BY <2>1, <3>1, <3>2 DEF PreRun, ClusterFlags
  <2>5. QED
    BY <2>3, <2>4 DEF FlagsReachTheProject
<1>2. QED
  BY <1>1, TypeCorrect, DiskInvariance, PTL
=============================================================================
