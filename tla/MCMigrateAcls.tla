---------------------------- MODULE MCMigrateAcls ----------------------------
(* Two roles whose names clean to one, a role of that name in another AWS  *)
(* account, a user, and a user with a path; the policies are a choice of   *)
(* statements, translatable and not.                                       *)
EXTENDS MigrateAcls, TLC

MCMapOrder == FoldSet(LAMBDA a, rows : Append(rows, a), <<>>, KafkaAction)

Allow(actions, resources) == [effect |-> "ALLOW", actions |-> actions, resources |-> resources]
Deny(actions, resources) == [effect |-> "DENY", actions |-> actions, resources |-> resources]

Everything == [type |-> "Any", wild |-> FALSE, pattern |-> Anything]
Topic(pattern) == [type |-> "Topic", wild |-> FALSE, pattern |-> pattern]
Group(pattern) == [type |-> "Group", wild |-> FALSE, pattern |-> pattern]
AnyRegion(arn) == [arn EXCEPT !.wild = TRUE]
Cluster == [type |-> "Cluster", wild |-> FALSE, pattern |-> Anything]

ListOf(statements) == [isList |-> TRUE, statements |-> statements]
Attached(statements) == [attached |-> <<ListOf(statements)>>, inline |-> <<>>]
Both(attached, inline) == [attached |-> <<ListOf(attached)>>, inline |-> <<ListOf(inline)>>]

ReadPrefix == Allow(<<"ReadData", "DescribeTopic">>, <<Topic(<<"a", Star>>)>>)
DenyOne == Deny(<<"ReadData", "WriteData">>, <<Topic(<<"a", "b">>)>>)
Groups == Allow(<<"AlterGroup">>, <<Group(<<"b">>)>>)
All == Allow(<<AllActions>>, <<Everything>>)
Idempotent == Allow(<<"WriteDataIdempotently", "DescribeCluster">>, <<Cluster>>)
Several == Allow(<<"ReadData", "AlterGroup">>, <<Topic(<<"a">>), Group(Anything)>>)
Glob == Allow(<<"kafka-cluster:Read*">>, <<Topic(Anything)>>)
DenySuffix == Deny(<<"WriteData">>, <<Topic(<<Star, "b">>)>>)
Regions == Allow(<<"DescribeTopic">>, <<AnyRegion(Topic(<<"a">>))>>)
Others == Allow(<<"s3:GetObject">>, <<Everything>>)

Policies ==
    {Both(<<ReadPrefix, Groups>>, <<DenyOne>>), Both(<<All>>, <<DenySuffix, DenyOne>>),
     Attached(<<Idempotent, ReadPrefix>>), Attached(<<Several>>), Attached(<<Glob, Groups>>),
     Attached(<<Regions, Others>>), Attached(<<Others>>),
     [attached |-> <<[isList |-> FALSE, statements |-> <<ReadPrefix>>]>>, inline |-> <<>>]}

MCWorlds ==
    {(<<"role", "svc.a">> :> p) @@ (<<"role", "svc-a">> :> q) @@ (<<"user", "ann">> :> r) :
        p \in Policies, q \in {Attached(<<Groups>>), Attached(<<Others>>)}, r \in {Attached(<<ReadPrefix>>), Attached(<<All>>)}}

MCClean == [n \in {"svc.a", "svc-a"} |-> "svc_a"] @@ [n \in {"ann", "team"} |-> n]

MCNames == {<<"a">>, <<"b">>, <<"a", "b">>, <<"b", "b">>}

SessionOf(account, role) == [kind |-> "assumed-role", aws |-> account, segments |-> <<role, "i-1">>]
Session(role) == SessionOf("1", role)
RoleArn(name) == [kind |-> "role", aws |-> "1", segments |-> <<name>>]
UserArn(path) == [kind |-> "user", aws |-> "1", segments |-> path]

IamClient(arn) == [auth |-> "IAM", arn |-> arn]
Clients(arns) == [source |-> "clients", clients |-> arns, target |-> "lkc-1", skip |-> FALSE]

RecordedAcl(principal, type, permission) ==
    [ResourceType |-> type, ResourceName |-> <<"a">>, ResourcePatternType |-> "LITERAL",
     Principal |-> principal, Operation |-> "Read", PermissionType |-> permission]

StateAcls == <<RecordedAcl("svc.a", "Topic", "ALLOW"), RecordedAcl("svc-a", "Topic", "ALLOW"), RecordedAcl("ann", "Group", "DENY"),
               RecordedAcl("svc.a", "Group", "ALLOW")>>

MCRequests ==
    {[source |-> "arn", arn |-> RoleArn("svc.a"), target |-> "lkc-1", skip |-> TRUE],
     [source |-> "arn", arn |-> RoleArn("svc-a"), target |-> "lkc-2", skip |-> FALSE],
     [source |-> "arn", arn |-> UserArn(<<"team", "ann">>), target |-> "lkc-2", skip |-> FALSE],
     Clients(<<IamClient(Session("svc.a")), [auth |-> "SASL_SCRAM", arn |-> UserArn(<<"ann">>)]>>),
     Clients(<<IamClient(Session("svc.a")), IamClient(UserArn(<<"ann">>)), IamClient(Session("svc.a"))>>),
     Clients(<<IamClient(Session("svc-a")), IamClient(Session("svc.a")), IamClient(UserArn(<<"ann">>))>>),
     Clients(<<IamClient(UserArn(<<"team", "ann">>)), IamClient(Session("svc.a"))>>),
     Clients(<<IamClient(SessionOf("2", "svc.a")), IamClient(Session("svc.a"))>>),
     [source |-> "kafka", acls |-> StateAcls, target |-> "lkc-1", skip |-> FALSE],
     [source |-> "kafka", acls |-> <<>>, target |-> "lkc-1", skip |-> FALSE],
     [source |-> "page", acls |-> StateAcls, selected |-> {"svc.a", "ann"}, target |-> "lkc-1", skip |-> TRUE]}

=============================================================================
