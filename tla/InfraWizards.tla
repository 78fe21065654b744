---------------------------- MODULE InfraWizards ----------------------------
(* The wizards and the server they post to: the answers WizardMachine has    *)
(* collected are merged into one request body (useWizardData.ts),            *)
(* handleTargetClusterAssets or handleMigrationAssets refuses it or answers  *)
(* with the generated project, and the answer may be lost on its way back.   *)
(* A form of input fields is filled in one of the ways of Inputs: Cluster    *)
(* and Storage say what the fields that decide something then hold. The      *)
(* wizards of the migration scripts decide nothing a project depends on and  *)
(* are followed to their confirmation only.                                  *)
EXTENDS WizardMachine

CONSTANTS ClusterTypes,  \* the values of cluster_type; "" is the field left out
          Cluster,       \* the ways to fill the cluster fields of a target form
          Storage        \* the ways to fill jump_cluster_broker_storage

Target == INSTANCE TargetProject
Migration == INSTANCE MigrationProject

ASSUME FillingAssumption ==
  /\ {"", "dedicated", "enterprise"} \subseteq ClusterTypes
  /\ DOMAIN Cluster = Inputs /\ DOMAIN Storage = Inputs
  /\ \A i \in Inputs : /\ Cluster[i].cluster_type \in {"dedicated", "enterprise"}
                       /\ Cluster[i].prevent_destroy \in BOOLEAN
                       /\ Cluster[i].cluster_availability \in Target!Availabilities
                       /\ Cluster[i].cluster_cku \in Nat
                       /\ Storage[i] \in Int

VARIABLES request,    \* the last body posted
          reply       \* what the server did with it: "none", "waiting", "refused", "generated"

infraVars == <<machine, request, reply>>

Answered(d, step, answer) == \E i \in DOMAIN d : d[i].step = step /\ d[i].answer = answer
When(condition, names) == IF condition THEN names ELSE {}

(* ------------------------ the target wizard's body --------------------- *)
ClusterForms == {"create_environment", "create_cluster"}
NoCluster == [cluster_type |-> "", cluster_availability |-> "", cluster_cku |-> 0,
              prevent_destroy |-> TRUE]

(* Object.assign in key order: of two answers to one field the later one     *)
(* stays, and a field an enterprise form does not have keeps what an earlier *)
(* dedicated one said.                                                       *)
Fillings(d, types) ==
  {i \in DOMAIN d : d[i].step \in ClusterForms /\ Cluster[d[i].answer].cluster_type \in types}

LastFilling(d, types) ==
  IF Fillings(d, types) = {} THEN NoCluster ELSE Cluster[d[Max(Fillings(d, types))].answer]

AnyType == {"dedicated", "enterprise"}

TargetRequest(d) ==
  [needs_environment |-> Answered(d, "environment_question", "yes"),
   needs_cluster |-> Answered(d, "cluster_question", "yes"),
   needs_private_link |-> Answered(d, "private_link_question", "yes"),
   cluster_type |-> LastFilling(d, AnyType).cluster_type,
   prevent_destroy |-> LastFilling(d, AnyType).prevent_destroy,
   cluster_availability |-> LastFilling(d, {"dedicated"}).cluster_availability,
   cluster_cku |-> LastFilling(d, {"dedicated"}).cluster_cku,
   given |-> When("create_environment" \in Keys(d), {"environment_name", "cluster_name"})
             \cup When("create_cluster" \in Keys(d), {"environment_id", "cluster_name"})
             \cup When("create_private_link" \in Keys(d), {"vpc_id", "subnet_cidr_ranges"})]

(* ---------------------- the migration wizard's body -------------------- *)
LinkFields == {"target_cluster_id", "target_rest_endpoint", "cluster_link_name", "msk_cluster_id"}
JumpFields == LinkFields \cup {"msk_region", "target_environment_id", "target_bootstrap_endpoint"}

\* the required fields of a form; what the state file knows is filled in by default
FormFields ==
  [public_cluster_link_inputs |-> LinkFields \cup {"msk_sasl_scram_bootstrap_servers"},
   external_outbound_cluster_linking_inputs |->
     LinkFields \cup {"target_environment_id", "ext_outbound_subnet_id", "vpc_id", "msk_region",
                      "ext_outbound_security_group_id", "msk_sasl_scram_bootstrap_servers",
                      "aws_kafka_brokers"},
   jump_cluster_networking_inputs |->
     {"vpc_id", "existing_private_link_vpce_id", "jump_cluster_instance_type",
      "jump_cluster_broker_subnet_cidr", "jump_cluster_setup_host_subnet_cidr"},
   msk_jump_cluster_authentication_sasl_scram |->
     JumpFields \cup {"msk_sasl_scram_bootstrap_servers"},
   msk_jump_cluster_authentication_iam |->
     JumpFields \cup {"msk_sasl_iam_bootstrap_servers", "jump_cluster_iam_auth_role_name"}]

MigrationRequest(d) ==
  [has_public_msk_brokers |-> Answered(d, "confluent_cloud_endpoints_question", "public"),
   use_jump_clusters |-> Answered(d, "private_migration_method_question", "jump"),
   has_existing_internet_gateway |-> Answered(d, "private_link_internet_gateway_question", "yes"),
   msk_jump_cluster_auth_type |->
     CASE Answered(d, "msk_jump_cluster_authentication_question", "sasl_scram") -> "sasl_scram"
       [] Answered(d, "msk_jump_cluster_authentication_question", "iam") -> "iam"
       [] OTHER -> "",
   jump_cluster_broker_storage |->
     IF "jump_cluster_networking_inputs" \in Keys(d)
     THEN Storage[d[CHOOSE i \in DOMAIN d : d[i].step = "jump_cluster_networking_inputs"].answer]
     ELSE 0,
   given |-> UNION {FormFields[step] : step \in Keys(d) \cap DOMAIN FormFields}]

-----------------------------------------------------------------------------
Endpoints == {"target_infra", "migration_infra"}
RequestOf(w, d) ==
  [wizard |-> w, body |-> IF w = "target_infra" THEN TargetRequest(d) ELSE MigrationRequest(d)]

InfraInit == Init /\ request = RequestOf("target_infra", <<>>) /\ reply = "none"

\* bound: one request at a time is followed to its end (MigrationPage has the late ones)
Post ==
  /\ wizard \in Endpoints /\ reply # "waiting" /\ Confirm
  /\ request' = RequestOf(wizard, data) /\ reply' = "waiting"

HandleTargetClusterAssets ==
  /\ reply = "waiting" /\ request.wizard = "target_infra"
  /\ IF Target!Accepts(request.body)
     THEN reply' = "generated" /\ request' = [request EXCEPT !.body = Target!WithDefaults(@)]
     ELSE reply' = "refused" /\ UNCHANGED request
  /\ UNCHANGED machine

HandleMigrationAssets ==
  /\ reply = "waiting" /\ request.wizard = "migration_infra"
  /\ reply' = IF Migration!Accepts(request.body) THEN "generated" ELSE "refused"
  /\ UNCHANGED <<machine, request>>

\* an error reply, or one that is lost on its way back: the page can be confirmed again
Lose == reply # "waiting" /\ Fail /\ UNCHANGED <<request, reply>>

\* what the user does on the screen, closing it under a request included
Use ==
  /\ UNCHANGED <<request, reply>>
  /\ \/ \E w \in Offered : Open(w)
     \/ phase = "open" /\ at # Confirmation /\ \E a \in Form.answers : Submit(a)
     \/ Back
     \/ wizard \notin Endpoints /\ Confirm
     \/ Close

InfraNext == Use \/ Post \/ HandleTargetClusterAssets \/ HandleMigrationAssets \/ Lose

InfraSpec == InfraInit /\ [][InfraNext]_infraVars

-----------------------------------------------------------------------------
ForTarget == request.wizard = "target_infra"
Generated == reply = "generated"

(* A generated project is one Terraform accepts: every variable, block,      *)
(* output and template argument it mentions is there, every call passes what *)
(* its module declares, and nothing waits for itself.                        *)
GeneratedIsCoherent ==
  Generated =>
    IF ForTarget
    THEN LET p == Target!GenerateTerraformFiles(request.body) IN
         /\ Target!Coherent(p) /\ Target!NoModuleCycle(p)
         /\ \A m \in DOMAIN p.modules : Target!NoCycle(p.modules[m])
    ELSE Migration!CoherentMigration(request.body) /\ Migration!OrderedMigration(request.body)

(* The server refuses (400) only the target request of a user who asked      *)
(* neither for an environment nor for a cluster, and jump clusters without   *)
(* storage: what the forms require is otherwise all that the two handlers    *)
(* require, in each of their branches.                                       *)
RefusedOnlyIfNothingAsked ==
  reply = "refused" =>
    IF ForTarget THEN ~Target!CreatesCluster(request.body)
    ELSE Migration!Jump(request.body) /\ request.body.jump_cluster_broker_storage <= 0

(* What a wizard asked is in inputs.auto.tfvars: Terraform is left to ask    *)
(* for the secrets, in a target project also for the region no form asks for *)
(* and the private link's variables when there is none; and for those        *)
(* secrets that the README.md of a jump cluster project announces.           *)
AnsweredNotAskedAgain ==
  Generated =>
    IF ForTarget
    THEN Target!Prompted(request.body) \subseteq
           Target!Credentials \cup {"aws_region"}
           \cup When(~request.body.needs_private_link, {"vpc_id", "subnet_cidr_ranges"})
    ELSE /\ Migration!Prompted(request.body) \subseteq Migration!Secrets
         /\ Migration!Jump(request.body) =>
              Migration!Prompted(request.body) = Migration!ReadmeCredentials(request.body)

(* Whatever way the user took through a wizard, changed answers and mixed    *)
(* branches included, what is sent is refused only where nothing was asked,  *)
(* and otherwise gives a coherent project with every answer in it            *)
(* (handleTargetClusterAssets, handleMigrationAssets and the generators).    *)
RequestsAreServed ==
  RefusedOnlyIfNothingAsked /\ GeneratedIsCoherent /\ AnsweredNotAskedAgain
=============================================================================
