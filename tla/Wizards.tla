------------------------------ MODULE Wizards ------------------------------
(* The five migration wizards of `kcp ui` as tables. A wizard is an XState   *)
(* configuration: its first step and, for every form step, the answers the   *)
(* form accepts, the step each answer leads to (NEXT) and the rules that say *)
(* where the Back button leads (BACK, in the order XState tries them).       *)
(* A question form has one answer per transition; a form of input fields is  *)
(* accepted once its required fields are filled, with one of Inputs.         *)

CONSTANT Inputs     \* what can be typed into a form of input fields
ASSUME InputsAssumption == Inputs # {}

Confirmation == "confirmation"
Anywhere == "anywhere"     \* a BACK rule without a guard

Goto(step) == [from |-> Anywhere, to |-> step]
CameFrom(step) == [from |-> step, to |-> step]     \* guard came_from_<step>

Ask(next, back) == [answers |-> DOMAIN next, next |-> next, back |-> back]
Fill(next, back) == Ask([a \in Inputs |-> next], back)

(* ------------------------- target infrastructure ----------------------- *)
EnvironmentQuestion ==
  Ask([yes |-> "create_environment", no |-> "cluster_question"], <<>>)
CreateEnvironment ==
  Fill("private_link_question", <<Goto("environment_question")>>)
ClusterQuestion ==
  Ask([yes |-> "create_cluster", no |-> Confirmation], <<Goto("environment_question")>>)
CreateCluster ==
  Fill("private_link_question", <<Goto("cluster_question")>>)
PrivateLinkQuestion ==
  Ask([yes |-> "create_private_link", no |-> Confirmation],
      <<CameFrom("create_environment"), CameFrom("create_cluster"), Goto("cluster_question")>>)
CreatePrivateLink ==
  Fill(Confirmation, <<Goto("private_link_question")>>)
TargetInfraConfirmation ==
  <<CameFrom("create_private_link"), CameFrom("private_link_question"), Goto("cluster_question")>>

TargetInfra ==
  [first |-> "environment_question",
   forms |-> [environment_question |-> EnvironmentQuestion,
              create_environment |-> CreateEnvironment,
              cluster_question |-> ClusterQuestion,
              create_cluster |-> CreateCluster,
              private_link_question |-> PrivateLinkQuestion,
              create_private_link |-> CreatePrivateLink],
   back |-> TargetInfraConfirmation]

(* ------------------------ migration infrastructure --------------------- *)
EndpointsQuestion ==
  Ask([public |-> "public_cluster_link_inputs",
       private |-> "private_migration_method_question"], <<>>)
PublicClusterLink ==
  Fill(Confirmation, <<Goto("confluent_cloud_endpoints_question")>>)
MethodQuestion ==
  Ask([external |-> "external_outbound_cluster_linking_inputs",
       jump |-> "private_link_internet_gateway_question"],
      <<Goto("confluent_cloud_endpoints_question")>>)
ExternalOutbound ==
  Fill(Confirmation, <<Goto("private_migration_method_question")>>)
InternetGatewayQuestion ==
  Ask([yes |-> "jump_cluster_networking_inputs", no |-> "jump_cluster_networking_inputs"],
      <<Goto("private_migration_method_question")>>)
JumpClusterNetworking ==
  Fill("msk_jump_cluster_authentication_question",
       <<Goto("private_link_internet_gateway_question")>>)
AuthenticationQuestion ==
  Ask([sasl_scram |-> "msk_jump_cluster_authentication_sasl_scram",
       iam |-> "msk_jump_cluster_authentication_iam"],
      <<Goto("jump_cluster_networking_inputs")>>)
SaslScramInputs ==
  Fill(Confirmation, <<Goto("msk_jump_cluster_authentication_question")>>)

(* Mutant of IamInputs: Back skips the authentication question. *)
IamInputsBackTooFar ==
  Fill(Confirmation, <<Goto("jump_cluster_networking_inputs")>>)

IamInputs ==
  Fill(Confirmation, <<Goto("msk_jump_cluster_authentication_question")>>)

(* Mutant of MigrationInfraConfirmation: no rule for the IAM branch. *)
MigrationInfraConfirmationForgetsIam ==
  <<CameFrom("public_cluster_link_inputs"),
    CameFrom("external_outbound_cluster_linking_inputs"),
    CameFrom("msk_jump_cluster_authentication_sasl_scram")>>

MigrationInfraConfirmation ==
  <<CameFrom("public_cluster_link_inputs"),
    CameFrom("external_outbound_cluster_linking_inputs"),
    CameFrom("msk_jump_cluster_authentication_sasl_scram"),
    CameFrom("msk_jump_cluster_authentication_iam")>>

MigrationInfra ==
  [first |-> "confluent_cloud_endpoints_question",
   forms |-> [confluent_cloud_endpoints_question |-> EndpointsQuestion,
              public_cluster_link_inputs |-> PublicClusterLink,
              private_migration_method_question |-> MethodQuestion,
              external_outbound_cluster_linking_inputs |-> ExternalOutbound,
              private_link_internet_gateway_question |-> InternetGatewayQuestion,
              jump_cluster_networking_inputs |-> JumpClusterNetworking,
              msk_jump_cluster_authentication_question |-> AuthenticationQuestion,
              msk_jump_cluster_authentication_sasl_scram |-> SaslScramInputs,
              msk_jump_cluster_authentication_iam |-> IamInputs],
   back |-> MigrationInfraConfirmation]

(* --------------------------- migration scripts ------------------------- *)
\* topic_selection has no BACK transition at all
MirrorTopics ==
  [first |-> "target_cluster_inputs",
   forms |-> [target_cluster_inputs |-> Fill("topic_selection", <<>>),
              topic_selection |-> Fill(Confirmation, <<>>)],
   back |-> <<Goto("target_cluster_inputs")>>]

SchemaRegistries ==
  [first |-> "confluent_cloud_schema_registry_url",
   forms |-> [confluent_cloud_schema_registry_url |-> Fill("subject_selection", <<>>),
              subject_selection |->
                Fill(Confirmation, <<Goto("confluent_cloud_schema_registry_url")>>)],
   back |-> <<Goto("subject_selection")>>]

Acls ==
  [first |-> "target_cluster_inputs",
   forms |-> [target_cluster_inputs |-> Fill("acl_principal_selection", <<>>),
              acl_principal_selection |-> Fill(Confirmation, <<Goto("target_cluster_inputs")>>)],
   back |-> <<Goto("acl_principal_selection")>>]

Wizard == [target_infra |-> TargetInfra, migration_infra |-> MigrationInfra,
           migrate_topics |-> MirrorTopics, migrate_schemas |-> SchemaRegistries,
           migrate_acls |-> Acls]

BackRules(w, step) == IF step = Confirmation THEN Wizard[w].back ELSE Wizard[w].forms[step].back
=============================================================================
