-------------------------------- MODULE Acls --------------------------------
(***************************************************************************)
(* The translation of permissions into the ACLs of Confluent Cloud         *)
(* (src/cmd/create_asset/migrate_acls, src/internal/types/kafka.go) and    *)
(* what the permissions mean on either side: the evaluation AWS IAM makes  *)
(* of a principal's statements, and the one Kafka makes of an account's    *)
(* ACLs.                                                                   *)
(*                                                                         *)
(* The name of a topic, a group or a transactional id is a sequence of     *)
(* tokens; a pattern is one in which the token Star may stand for any      *)
(* number of tokens.  An ARN is a record: the type of the resource it      *)
(* names ("Any" for the bare star), whether its region or account is a     *)
(* star (wild), and the pattern of its last segment.  The ARNs that stop   *)
(* before the name (topic/<cluster>/<star>) have the pattern <<Star>>.     *)
(***************************************************************************)
EXTENDS Naturals, Sequences, SequencesExt

Star == "*"

Anything == <<Star>>

Mapping(operation, type, pattern) == [Operation |-> operation, ResourceType |-> type, RequiresPattern |-> pattern]

(* The eighteen actions of kafka-cluster that have an ACL. *)
AclMap ==
    [AlterCluster                         |-> Mapping("Alter", "Cluster", FALSE),
     AlterClusterDynamicConfiguration     |-> Mapping("AlterConfigs", "Cluster", FALSE),
     AlterGroup                           |-> Mapping("Read", "Group", TRUE),
     AlterTopic                           |-> Mapping("Alter", "Topic", TRUE),
     AlterTopicDynamicConfiguration       |-> Mapping("AlterConfigs", "Topic", TRUE),
     AlterTransactionalId                 |-> Mapping("Write", "TransactionalId", TRUE),
     CreateTopic                          |-> Mapping("Create", "Topic", TRUE),
     DeleteGroup                          |-> Mapping("Delete", "Group", TRUE),
     DeleteTopic                          |-> Mapping("Delete", "Topic", TRUE),
     DescribeCluster                      |-> Mapping("Describe", "Cluster", FALSE),
     DescribeClusterDynamicConfiguration  |-> Mapping("DescribeConfigs", "Cluster", FALSE),
     DescribeGroup                        |-> Mapping("Describe", "Group", TRUE),
     DescribeTopic                        |-> Mapping("Describe", "Topic", TRUE),
     DescribeTopicDynamicConfiguration    |-> Mapping("DescribeConfigs", "Topic", TRUE),
     DescribeTransactionalId              |-> Mapping("Describe", "TransactionalId", TRUE),
     ReadData                             |-> Mapping("Read", "Topic", TRUE),
     WriteData                            |-> Mapping("Write", "Topic", TRUE),
     WriteDataIdempotently                |-> Mapping("IdempotentWrite", "Cluster", TRUE)]

KafkaAction == DOMAIN AclMap

AllActions == "kafka-cluster:*"

CONSTANT MapOrder       \* the order in which Go happens to walk AclMap

ASSUME OrderAssumption == MapOrder \in Seq(KafkaAction) /\ Range(MapOrder) = KafkaAction

(* What a policy consists of. *)
ResourceArn == [type : STRING, wild : BOOLEAN, pattern : Seq(STRING) \ {<<>>}]

Statement == [effect : STRING, actions : Seq(STRING), resources : Seq(ResourceArn)]

Document == [isList : BOOLEAN, statements : Seq(Statement)]

-----------------------------------------------------------------------------
(* The translation. *)

(* Mutant of TranslationExplained: a prefix is taken for a name. *)
determineWithoutPrefix(pattern) == [name |-> pattern, pattern |-> "LITERAL"]

(* A pattern that ends in its only star becomes a prefix; Kafka has no     *)
(* other pattern, so a star elsewhere is kept as a character of the name.  *)
determineResourceNameAndPattern(pattern) ==
    IF /\ pattern # Anything
       /\ Last(pattern) = Star
       /\ Head(pattern) # Star
    THEN [name |-> Front(pattern), pattern |-> "PREFIXED"]
    ELSE [name |-> pattern, pattern |-> "LITERAL"]

parseKafkaResourceFromArn(arn, type) ==
    CASE arn.type # "Any" /\ ~arn.wild /\ type = "Cluster" -> [name |-> <<"kafka-cluster">>, pattern |-> "LITERAL"]
      [] arn.type = type /\ ~arn.wild /\ type # "Cluster" -> determineResourceNameAndPattern(arn.pattern)
      [] OTHER -> [name |-> Anything, pattern |-> "LITERAL"]

(* Of a statement's resources only the first is read. *)
createACLFromMapping(account, action, statement) ==
    LET mapping == AclMap[action]
        resource == IF mapping.RequiresPattern /\ statement.resources # <<>>
                    THEN parseKafkaResourceFromArn(statement.resources[1], mapping.ResourceType)
                    ELSE [name |-> Anything, pattern |-> "LITERAL"]
    IN  [ResourceType |-> mapping.ResourceType, ResourceName |-> resource.name,
         ResourcePatternType |-> resource.pattern, Principal |-> account,
         Operation |-> mapping.Operation, PermissionType |-> statement.effect]

(* An action is looked up by its name; the star stands for every row; any  *)
(* other action, with a star in it or of another service, has no ACL.      *)
translateIAMToKafkaACL(action) ==
    CASE action = AllActions -> MapOrder
      [] action \in KafkaAction -> <<action>>
      [] OTHER -> <<>>

processStatement(account, statement) ==
    LET actions == FlattenSeq([i \in DOMAIN statement.actions |-> translateIAMToKafkaACL(statement.actions[i])])
    IN  [i \in DOMAIN actions |-> createACLFromMapping(account, actions[i], statement)]

processPolicy(account, document) ==
    FlattenSeq([i \in DOMAIN document.statements |-> processStatement(account, document.statements[i])])

(* The attached policies first, then the inline ones. *)
extractKafkaPermissionsFromPrincipalPolicies(account, policies) ==
    FlattenSeq([i \in DOMAIN policies.attached |-> processPolicy(account, policies.attached[i])])
        \o FlattenSeq([i \in DOMAIN policies.inline |-> processPolicy(account, policies.inline[i])])

-----------------------------------------------------------------------------
(* What the permissions mean. *)

(* The pattern matches the name: the name can be cut into one piece per    *)
(* token of the pattern, the piece of a token other than Star being it.    *)
Matches(pattern, name) ==
    \E cut \in [0..Len(pattern) -> 0..Len(name)] :
        /\ cut[0] = 0
        /\ cut[Len(pattern)] = Len(name)
        /\ \A i \in DOMAIN pattern :
               IF pattern[i] = Star THEN cut[i - 1] <= cut[i]
               ELSE cut[i] = cut[i - 1] + 1 /\ name[cut[i]] = pattern[i]

(* IAM: the actions a statement's actions stand for. *)
Covered(action) ==
    CASE action \in KafkaAction -> {action}
      [] action \in {AllActions, Star} -> KafkaAction
      [] action = "kafka-cluster:Read*" -> {"ReadData"}
      [] OTHER -> {}

CoveredBy(statement) == UNION {Covered(action) : action \in Range(statement.actions)}

Applies(statement, action, name) ==
    /\ action \in CoveredBy(statement)
    /\ \E arn \in Range(statement.resources) :
           \/ arn.type = "Any"
           \/ arn.type = AclMap[action].ResourceType /\ (arn.type = "Cluster" \/ Matches(arn.pattern, name))

(* IAM allows what some statement allows and none denies. *)
IamAllows(statements, action, name) ==
    /\ \E s \in statements : s.effect = "ALLOW" /\ Applies(s, action, name)
    /\ ~ \E s \in statements : s.effect = "DENY" /\ Applies(s, action, name)

Concerns(acl, action, name) ==
    /\ acl.ResourceType = AclMap[action].ResourceType
    /\ acl.Operation = AclMap[action].Operation
    /\ \/ acl.ResourceName = Anything
       \/ acl.ResourceType = "Cluster"
       \/ acl.ResourcePatternType = "PREFIXED" /\ IsPrefix(acl.ResourceName, name)
       \/ acl.ResourcePatternType = "LITERAL" /\ acl.ResourceName = name

(* So does Kafka, of ACLs. *)
KafkaAllows(acls, action, name) ==
    /\ \E acl \in acls : acl.PermissionType = "ALLOW" /\ Concerns(acl, action, name)
    /\ ~ \E acl \in acls : acl.PermissionType = "DENY" /\ Concerns(acl, action, name)

(* The statement says of the action something an ACL can say and the       *)
(* translation keeps: the action by its name or as one of all, on one      *)
(* resource of its type, in any region and account or in one of each, with *)
(* at most a star that ends the name.                                      *)
Translatable(statement, action) ==
    /\ \E a \in Range(statement.actions) : a = action \/ a = AllActions
    /\ Len(statement.resources) = 1
    /\ LET arn == statement.resources[1] IN
           \/ arn.type = "Any"
           \/ /\ arn.type = AclMap[action].ResourceType
              /\ ~arn.wild
              /\ arn.pattern = Anything \/ Star \notin Range(Front(arn.pattern))

=============================================================================
