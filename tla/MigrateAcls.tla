----------------------------- MODULE MigrateAcls -----------------------------
(***************************************************************************)
(* The commands `kcp create-asset migrate-acls iam` and `... kafka`        *)
(* (src/cmd/create_asset/migrate_acls) and the page's request for the same *)
(* files (handleMigrateAclsAssets of src/cmd/ui/api/api.go): the           *)
(* principals are collected, the policies of each are read from AWS, their *)
(* statements translated, and the Terraform files written one by one.      *)
(* Reading can fail, a document can have a shape the code does not expect, *)
(* a file may fail to be written or the command be stopped; and a          *)
(* directory may hold the files of an earlier run.                         *)
(*                                                                         *)
(* An ARN is a record: its kind, its AWS account and the segments after    *)
(* the kind.  A role's or a user's path comes before its name; a session's *)
(* after it.  An account without further words is the one of Confluent     *)
(* Cloud that ACLs are for.                                                *)
(***************************************************************************)
EXTENDS Acls

CONSTANTS
    Clean,          \* cleanPrincipalName, as a function on names
    Worlds,         \* the policies of the AWS account a command runs in: [<<kind, name>> -> policies]
    Requests,       \* what may be asked of the commands and of the page
    Names,          \* names of topics, groups and transactional ids
    MaxRuns         \* bound: the commands and requests of one behaviour

NoFiles == "no files"

None == <<>>        \* no account has ACLs

VARIABLES
    iam,        \* the world: the policies of every role and user
    asked,      \* the requests made, in order
    stage,      \* "idle", "reading", "main", "inputs" or "report"
    queue,      \* the principals whose policies are still to be read
    found,      \* allAclsByPrincipal: account -> its ACLs in order
    disk        \* output directory -> what its files hold

migrateVars == <<iam, asked, stage, queue, found, disk>>

PrincipalArn ==
    [kind : {"role", "user", "assumed-role", "federated-user"}, aws : STRING, segments : Seq(STRING) \ {<<>>}]

Client == [auth : STRING, arn : PrincipalArn]

Acl == [ResourceType : STRING, ResourceName : Seq(STRING), ResourcePatternType : STRING,
        Principal : STRING, Operation : STRING, PermissionType : STRING]

ASSUME MigrateAssumption ==
    /\ \A world \in Worlds :
          /\ DOMAIN world \subseteq {"role", "user"} \X STRING
          /\ \A p \in DOMAIN world : world[p] \in [attached : Seq(Document), inline : Seq(Document)]
    /\ \A request \in Requests :
          \/ request.source = "arn" /\ request.arn \in PrincipalArn
          \/ request.source = "clients" /\ request.clients \in Seq(Client)
          \/ request.source \in {"kafka", "page"} /\ request.acls \in Seq(Acl)
    /\ Names \subseteq Seq(STRING)

-----------------------------------------------------------------------------
(* Principals. *)

Role(arn) == IF arn.kind = "assumed-role" THEN "role" ELSE arn.kind

Cut(arn) == [kind |-> Role(arn), aws |-> arn.aws, segments |-> <<arn.segments[1]>>]

(* The elements of s that are in S: `if ... { append }' in a loop. *)
Keeping(s, S) ==
    LET kept[i \in 0..Len(s)] ==
          IF i = 0 THEN <<>>
          ELSE IF s[i] \in S THEN Append(kept[i - 1], s[i]) ELSE kept[i - 1]
    IN  kept[Len(s)]

(* evaluatePrincipal: sessions become roles, what follows the first segment *)
(* is cut, and a principal is listed once; roles of one name in two AWS     *)
(* accounts are two principals.                                             *)
evaluatePrincipal(clients) ==
    LET ofIam == Keeping(clients, {c \in Range(clients) : c.auth = "IAM"})
        principals[i \in 0..Len(ofIam)] ==
            IF i = 0 THEN <<>>
            ELSE IF Cut(ofIam[i].arn) \in Range(principals[i - 1]) THEN principals[i - 1]
            ELSE Append(principals[i - 1], Cut(ofIam[i].arn))
    IN  principals[Len(ofIam)]

PrincipalArns(request) ==
    CASE request.source = "arn" -> <<request.arn>>
      [] request.source = "clients" -> evaluatePrincipal(request.clients)
      [] OTHER -> <<>>

(* The account is named after the first segment, the policies are those of *)
(* the last: of the role or user with that name in the AWS account the     *)
(* command runs in, whichever the ARN is of.                               *)
Account(arn) == Clean[arn.segments[1]]

extractPrincipalFromArn(arn) == <<arn.kind, Last(arn.segments)>>

(* The directory of a command that is given none, and the page's files. *)
Dir(request) ==
    CASE request.source = "arn" -> <<Account(request.arn), "_iam_acls">>
      [] request.source = "clients" -> <<"client-discovery-acls">>
      [] request.source = "kafka" -> <<"cluster", "_kafka_acls">>
      [] OTHER -> <<"browser">>

(* Every inline and every attached policy of the principal, the latter in  *)
(* its default version.                                                    *)
GetPrincipalPolicies(arn) == iam[extractPrincipalFromArn(arn)]

InIam(arn) == extractPrincipalFromArn(arn) \in DOMAIN iam

AclsOf(arn) == extractKafkaPermissionsFromPrincipalPolicies(Account(arn), GetPrincipalPolicies(arn))

(* The documents parse into lists of statements. *)
WellFormed(policies) == \A document \in Range(policies.attached \o policies.inline) : document.isList

-----------------------------------------------------------------------------
MigrateInit ==
    /\ iam \in Worlds
    /\ asked = <<>>
    /\ stage = "idle"
    /\ queue = <<>>
    /\ found = None
    /\ disk = None

Request == Last(asked)

Put(f, key, value) == [k \in DOMAIN f \cup {key} |-> IF k = key THEN value ELSE f[k]]

Get(f, key, default) == IF key \in DOMAIN f THEN f[key] ELSE default

Ask(request) ==
    /\ stage = "idle"
    /\ Len(asked) < MaxRuns
    /\ asked' = Append(asked, request)

Abort == stage' = "idle" /\ queue' = <<>> /\ found' = None

(* The ACLs of a list by their principal, each under the name the key       *)
(* gives it, in the list's order.                                           *)
GroupBy(acls, key) ==
    [a \in {key[acl.Principal] : acl \in Range(acls)} |->
        Keeping(acls, {acl \in Range(acls) : key[acl.Principal] = a})]

(* parseMigrateIamAclsOpts. *)
StartIam(request) ==
    /\ request.source \in {"arn", "clients"}
    /\ Ask(request)
    /\ stage' = "reading"
    /\ queue' = PrincipalArns(request)
    /\ UNCHANGED <<iam, found, disk>>

(* Add the ACLs of one principal to those of its account. *)
Collect(account, acls) == Put(found, account, Get(found, account, <<>>) \o acls)

(* The policies of the next principal are read and translated; nothing is  *)
(* recorded of a principal without ACLs.                                   *)
ReadPolicies ==
    /\ stage = "reading"
    /\ queue # <<>>
    /\ InIam(Head(queue)) /\ WellFormed(GetPrincipalPolicies(Head(queue)))
    /\ LET account == Account(Head(queue))
           acls == AclsOf(Head(queue))
       IN  found' = IF acls = <<>> THEN found ELSE Collect(account, acls)
    /\ queue' = Tail(queue)
    /\ UNCHANGED <<iam, asked, stage, disk>>

(* Mutant of EveryPrincipalIsWritten: a principal that fails is skipped. *)
ReadFailsOnce ==
    /\ stage = "reading"
    /\ queue # <<>>
    /\ queue' = Tail(queue)
    /\ UNCHANGED <<iam, asked, stage, found, disk>>

(* The principal is not in IAM, a call fails or a document does not parse: *)
(* the command ends.                                                       *)
ReadFails ==
    /\ stage = "reading"
    /\ queue # <<>>
    /\ Abort
    /\ UNCHANGED <<iam, asked, disk>>

(* A document whose Statement is one object instead of a list: the type    *)
(* assertion panics.                                                       *)
Panic ==
    /\ stage = "reading"
    /\ queue # <<>>
    /\ InIam(Head(queue)) /\ ~WellFormed(GetPrincipalPolicies(Head(queue)))
    /\ Abort
    /\ UNCHANGED <<iam, asked, disk>>

(* No ACL of any principal: the command ends and writes nothing. *)
AllRead ==
    /\ stage = "reading"
    /\ queue = <<>>
    /\ IF found = None THEN Abort ELSE stage' = "main" /\ UNCHANGED <<queue, found>>
    /\ UNCHANGED <<iam, asked, disk>>

(* The ACLs of the state file; the command refuses a cluster without any. *)
StartKafka(request) ==
    /\ request.source = "kafka"
    /\ Ask(request)
    /\ IF request.acls = <<>> THEN UNCHANGED <<stage, found>>
       ELSE stage' = "main" /\ found' = GroupBy(request.acls, Clean)
    /\ UNCHANGED <<iam, queue, disk>>

FilesOf(dir) == Get(disk, dir, [main |-> None, inputs |-> NoFiles, report |-> None])

writeMain ==
    /\ stage = "main"
    /\ disk' = Put(disk, Dir(Request), [FilesOf(Dir(Request)) EXCEPT !.main = found])
    /\ stage' = "inputs"
    /\ UNCHANGED <<iam, asked, queue, found>>

(* providers.tf, variables.tf and inputs.auto.tfvars. *)
writeInputs ==
    /\ stage = "inputs"
    /\ disk' = Put(disk, Dir(Request), [FilesOf(Dir(Request)) EXCEPT !.inputs = Request.target])
    /\ IF Request.skip THEN Abort ELSE stage' = "report" /\ UNCHANGED <<queue, found>>
    /\ UNCHANGED <<iam, asked>>

(* The report has the rows of main.tf, account by account. *)
writeReport ==
    /\ stage = "report"
    /\ disk' = Put(disk, Dir(Request), [FilesOf(Dir(Request)) EXCEPT !.report = found])
    /\ Abort
    /\ UNCHANGED <<iam, asked>>

(* A file cannot be written, or the command is stopped. *)
Stop ==
    /\ stage \in {"main", "inputs", "report"}
    /\ Abort
    /\ UNCHANGED <<iam, asked, disk>>

(* The page: the ACLs of the principals selected, under their raw names,   *)
(* all files in one answer.                                                *)
handleMigrateAclsAssets(request) ==
    /\ request.source = "page"
    /\ Ask(request)
    /\ LET selected == {acl \in Range(request.acls) : acl.Principal \in request.selected}
           main == GroupBy(Keeping(request.acls, selected), [p \in request.selected |-> p])
       IN  disk' = Put(disk, Dir(request), [main |-> main, inputs |-> request.target, report |-> None])
    /\ UNCHANGED <<iam, stage, queue, found>>

MigrateNext ==
    \/ \E request \in Requests :
           StartIam(request) \/ StartKafka(request) \/ handleMigrateAclsAssets(request)
    \/ ReadPolicies \/ ReadFails \/ Panic \/ AllRead
    \/ writeMain \/ writeInputs \/ writeReport \/ Stop

MigrateSpec == MigrateInit /\ [][MigrateNext]_migrateVars

-----------------------------------------------------------------------------
(* The role or user a client acts as. *)
Identity(arn) ==
    <<Role(arn), IF arn.kind = "assumed-role" THEN arn.segments[1] ELSE Last(arn.segments)>>

Asked(dir) == {r \in Range(asked) : Dir(r) = dir}

(* The ARNs a request names, as they were given. *)
Arns(request) ==
    CASE request.source = "arn" -> {request.arn}
      [] request.source = "clients" -> {c.arn : c \in {d \in Range(request.clients) : d.auth = "IAM"}}
      [] OTHER -> {}

Statements(policies) ==
    UNION {Range(d.statements) : d \in Range(policies.attached \o policies.inline)}

(* What the translation cannot carry over: the action is the subject of a  *)
(* statement that is not translatable.                                     *)
Lossy(statements, action) == \E s \in statements : action \in CoveredBy(s) /\ ~Translatable(s, action)

(* processPolicy, createACLFromMapping, parseKafkaResourceFromArn and      *)
(* determineResourceNameAndPattern: with the generated ACLs an account may *)
(* do, to every topic, group and transactional id, exactly what IAM allows *)
(* the role or user it was made for -- denials, prefixes, stars and the    *)
(* statements of several policies taken together -- unless a statement     *)
(* about the action is one of those the translation is known to lose: one  *)
(* with several resources, a resource of another type, a star inside a     *)
(* name, in the region or in an action, or unless several principals share *)
(* the account's name or a client's path was taken for its name.  Roles of *)
(* one name in two AWS accounts are one to IAM's answers, and here.        *)
TranslationExplained ==
    \A dir \in DOMAIN disk : \A account \in DOMAIN disk[dir].main :
        LET owners == {arn \in UNION {Arns(r) : r \in Asked(dir)} : Account(arn) = account}
        IN  \A arn \in owners :
                \/ \E other \in owners : Identity(other) # Identity(arn)
                \/ /\ dir = <<"client-discovery-acls">>
                   /\ \E other \in owners : other.kind # "assumed-role" /\ Len(other.segments) > 1
                \/ LET statements == Statements(iam[Identity(arn)])
                       acls == Range(disk[dir].main[account])
                   IN  \A action \in KafkaAction, name \in Names :
                           \/ Lossy(statements, action)
                           \/ KafkaAllows(acls, action, name) <=> IamAllows(statements, action, name)

(* The ACLs of a main.tf, each with the account it is for. *)
Contents(main) == UNION {{<<account, acl>> : acl \in Range(main[account])} : account \in DOMAIN main}

(* The ACLs a request asks for, each with the account it is for. *)
Expected(request) ==
    CASE request.source = "kafka" -> {<<Clean[acl.Principal], acl>> : acl \in Range(request.acls)}
      [] request.source = "page" ->
             {<<acl.Principal, acl>> : acl \in {a \in Range(request.acls) : a.Principal \in request.selected}}
      [] OTHER -> UNION {{<<Account(arn), acl>> : acl \in Range(AclsOf(arn))} : arn \in Range(PrincipalArns(request))}

(* False of a request one of whose principals is not in IAM. *)
Readable(request) == \A arn \in Range(PrincipalArns(request)) : InIam(arn)

(* Run of both generators and handleMigrateAclsAssets: whatever fails and  *)
(* wherever a run ends, main.tf of a directory holds, account by account,  *)
(* every ACL of every principal of one of the requests made for it, and    *)
(* nothing else: a principal that could not be read never goes missing     *)
(* silently, and two principals with one account name keep the ACLs of     *)
(* both.                                                                   *)
EveryPrincipalIsWritten ==
    \A dir \in DOMAIN disk : disk[dir].main # None =>
        \E request \in Asked(dir) :
            /\ Readable(request)
            /\ Expected(request) = Contents(disk[dir].main)

(* generateMigrateACLsMainTf names a resource after the permission, the    *)
(* type, the operation and the ACL's place in its account's list.          *)
Address(acl, i) == <<acl.PermissionType, acl.ResourceType, acl.Operation, i>>

(* docs/README.md:1210 and :1228 "with a Terraform resource per            *)
(* principal/user for creating an equivalent Confluent Cloud service       *)
(* account with individual ACL resources", and the commands' own help "as  *)
(* individual Terraform resources": every ACL of main.tf has an address of *)
(* its own.                                                                *)
AclsAreIndividual ==
    \A dir \in DOMAIN disk : LET main == disk[dir].main IN
        \A a, b \in DOMAIN main : \A i \in DOMAIN main[a], j \in DOMAIN main[b] :
            Address(main[a][i], i) = Address(main[b][j], j) => a = b /\ i = j

=============================================================================
