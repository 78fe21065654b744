--------------------------- MODULE MigrationInfra ---------------------------
(* `kcp create-asset migration-infra`: the command checks its flags, looks   *)
(* the source cluster up in the state file, makes a request of the two,      *)
(* generates the project of the migration type and writes it, one file after *)
(* another, into the output directory. A write can fail, or the process can  *)
(* die, between any two files; the command may then be given again, for      *)
(* another type too. A file's contents are the number of the run that wrote  *)
(* it. A type is the number after --type, 0 for anything ToMigrationType     *)
(* refuses. A command line without the six base flags is refused by cobra    *)
(* whatever else it holds, and is left out.                                  *)
EXTENDS MigrationProject, Sequences

CONSTANTS Flags,      \* the command lines that are tried
          Clusters,   \* what the state file may say of the source cluster
          MaxRuns     \* bound: how often the command is given

FlagNames == {"target-environment-id", "subnet-id", "security-group-id",
              "target-bootstrap-endpoint", "existing-private-link-vpce-id",
              "jump-cluster-setup-host-subnet-cidr", "jump-cluster-iam-auth-role-name"}
CommandLine ==
  [type : 0..4, existing_internet_gateway : BOOLEAN, given : SUBSET FlagNames,
   cidrs : Nat,         \* how many --jump-cluster-broker-subnet-cidr, 0 for none
   storage : Nat]       \* --jump-cluster-broker-storage, 0 by default

\* bootstrap: the kinds of broker string MSK reported; listed: the brokers the SASL/SCRAM
\* one names; nodes: the brokers with a subnet; brokers: their number in the metrics, 0 when
\* those were skipped; volume: the EBS size, 0 where there is none
SourceCluster ==
  [provisioned : BOOLEAN, scanned : BOOLEAN, networking : SUBSET {"subnet_ids", "security_groups"},
   bootstrap : SUBSET {"public_scram", "scram", "iam"}, listed : SUBSET (1..99),
   nodes : SUBSET (1..99), brokers : Nat, volume : Nat]

ASSUME CommandAssumption ==
  Flags \subseteq CommandLine /\ Clusters \subseteq SourceCluster /\ MaxRuns \in Nat \ {0}

VARIABLES phase,      \* "idle", "accepted", "writing" or "done"
          flags,      \* the command line of the run under way
          cluster,    \* the source cluster it found
          request,    \* what the generator is given
          hosts,      \* aws_kafka_brokers: for each broker the host of its endpoint
          left,       \* the files that are still to be written, in order
          disk,       \* the output directory: the run that wrote each file, 0 for none
          run         \* the number of the run

vars == <<phase, flags, cluster, request, hosts, left, disk, run>>

-----------------------------------------------------------------------------
(* Mutant of FilesOf: the values of a cluster link are not written. *)
FilesOfNoValues(r) ==
  LET root == <<"main.tf", "providers.tf", "variables.tf">>
              \o (IF Public(r) THEN <<>> ELSE <<"inputs.auto.tfvars">>)
  IN [i \in DOMAIN root |-> <<"root", root[i]>>]

\* buildTerraformProject: the files whose text is not empty. Some value is always there.
FilesOf(r) ==
  LET In(module, names) == [i \in DOMAIN names |-> <<module, names[i]>>]
      root == <<"main.tf", "providers.tf", "variables.tf">>
              \o (IF Jump(r) THEN <<"README.md">> ELSE <<>>) \o <<"inputs.auto.tfvars">>
  IN In("root", root) \o
     CASE Public(r) -> In("cluster_link", <<"main.tf", "variables.tf">>)
       [] Jump(r) -> In("jump_cluster_setup_host",
                        <<"main.tf", "variables.tf", "versions.tf", "user_data.tpl">>)
                     \o In("jump_cluster", <<"main.tf", "variables.tf", "outputs.tf", "versions.tf",
                                             "user_data.tpl">>)
                     \o In("networking", <<"main.tf", "variables.tf", "outputs.tf", "versions.tf">>)
       [] OTHER -> In("external_outbound_cluster_link", <<"main.tf", "variables.tf", "user_data.tpl">>)

Places ==
  ({"root", "cluster_link", "jump_cluster_setup_host", "jump_cluster", "networking",
    "external_outbound_cluster_link"})
  \X {"main.tf", "providers.tf", "variables.tf", "outputs.tf", "versions.tf", "README.md",
      "inputs.auto.tfvars", "user_data.tpl"}

(* Mutant of PreRun: the jump clusters' flags are required for SASL/SCRAM only. *)
PreRunNoIamFlags(f) ==
  /\ f.type # 0
  /\ f.type # 1 => "target-environment-id" \in f.given
  /\ f.type = 3 => /\ {"target-bootstrap-endpoint", "existing-private-link-vpce-id",
                       "jump-cluster-setup-host-subnet-cidr"} \subseteq f.given
                   /\ f.cidrs > 0

PreRun(f) ==
  /\ f.type # 0
  /\ f.type # 1 => "target-environment-id" \in f.given
  /\ f.type \in {3, 4} => /\ {"target-bootstrap-endpoint", "existing-private-link-vpce-id",
                              "jump-cluster-setup-host-subnet-cidr"} \subseteq f.given
                          /\ f.cidrs > 0
  /\ f.type = 4 => "jump-cluster-iam-auth-role-name" \in f.given

BootstrapOf(type) == CASE type = 1 -> "public_scram" [] type = 4 -> "iam" [] OTHER -> "scram"

\* slices.Sort compares the names b-1., b-10., b-2. as text
TextRank(id) == IF id < 10 THEN id * 100 ELSE (id \div 10) * 100 + (id % 10) + 1

\* the elements of S in the order of their ranks
InOrder(S, Rank(_)) ==
  [i \in 1..Cardinality(S) |-> CHOOSE x \in S : Cardinality({y \in S : Rank(y) < Rank(x)}) = i - 1]

(* Mutant of SortedHosts: the names stay in the order MSK returned them in. *)
SortedHostsAsReturned(c) == InOrder(c.listed, LAMBDA id : 100 - id)

\* an empty string is split into one empty name, here 0
SortedHosts(c) == IF c.listed = {} THEN <<0>> ELSE InOrder(c.listed, TextRank)

\* what parseMigrationInfraOpts stops at: an error it returns, or a value it assumes is there
Usable(f, c) ==
  /\ c.provisioned /\ c.scanned
  /\ f.type = 2 => /\ "subnet-id" \in f.given \/ "subnet_ids" \in c.networking
                   /\ "security-group-id" \in f.given \/ "security_groups" \in c.networking
                   /\ \A id \in c.nodes : id <= Len(SortedHosts(c))
  /\ f.type \in {3, 4} => /\ f.cidrs = c.brokers
                          /\ f.storage # 0 \/ c.volume # 0

RequestOf(f, c) ==
  [has_public_msk_brokers |-> f.type = 1, use_jump_clusters |-> f.type \in {3, 4},
   has_existing_internet_gateway |-> f.existing_internet_gateway,
   msk_jump_cluster_auth_type |-> CASE f.type = 3 -> "sasl_scram" [] f.type = 4 -> "iam" [] OTHER -> "",
   jump_cluster_broker_storage |->
     IF f.type \notin {3, 4} THEN 0 ELSE IF f.storage = 0 THEN c.volume ELSE f.storage,
   given |->
     {"vpc_id", "msk_region", "msk_cluster_id", "cluster_link_name", "target_cluster_id",
      "target_rest_endpoint"}
     \cup When(BootstrapOf(f.type) \in c.bootstrap,
               {IF f.type = 4 THEN "msk_sasl_iam_bootstrap_servers"
                ELSE "msk_sasl_scram_bootstrap_servers"})
     \cup When(f.type = 2, {"ext_outbound_subnet_id", "ext_outbound_security_group_id"}
                           \cup When(c.nodes # {}, {"aws_kafka_brokers"}))
     \* the environment is copied inside the branch of the default security group
     \cup When(f.type = 2 /\ "security-group-id" \notin f.given, {"target_environment_id"})
     \cup When(f.type \in {3, 4},
               {"target_environment_id", "target_bootstrap_endpoint",
                "existing_private_link_vpce_id", "jump_cluster_instance_type",
                "jump_cluster_broker_subnet_cidr", "jump_cluster_setup_host_subnet_cidr"})
     \cup When(f.type = 4, {"jump_cluster_iam_auth_role_name"})]

(* Mutant of BuildExtOutboundBrokers: the broker's number is not made an index. *)
BuildExtOutboundBrokersOffByOne(c) ==
  [id \in c.nodes |-> SortedHosts(c)[IF id < Len(SortedHosts(c)) THEN id + 1 ELSE id]]

BuildExtOutboundBrokers(c) == [id \in c.nodes |-> SortedHosts(c)[id]]

-----------------------------------------------------------------------------
NoFlags == [type |-> 0, existing_internet_gateway |-> FALSE, given |-> {}, cidrs |-> 0, storage |-> 0]
NoCluster == [provisioned |-> FALSE, scanned |-> FALSE, networking |-> {}, bootstrap |-> {},
              listed |-> {}, nodes |-> {}, brokers |-> 0, volume |-> 0]
NoHosts == [id \in {} |-> id]

Init ==
  /\ phase = "idle" /\ run = 0 /\ left = <<>> /\ hosts = NoHosts
  /\ flags = NoFlags /\ cluster = NoCluster /\ request = RequestOf(NoFlags, NoCluster)
  /\ disk = [p \in Places |-> 0]

Start(f) ==
  /\ phase \in {"idle", "done"} /\ run < MaxRuns
  /\ PreRun(f)
  /\ phase' = "accepted" /\ flags' = f /\ run' = run + 1
  /\ cluster' = NoCluster /\ request' = RequestOf(NoFlags, NoCluster) /\ hosts' = NoHosts
  /\ UNCHANGED <<left, disk>>

RunMigrationInfra(c) ==
  /\ phase = "accepted" /\ Usable(flags, c)
  /\ cluster' = c /\ request' = RequestOf(flags, c)
  /\ hosts' = IF flags.type = 2 THEN BuildExtOutboundBrokers(c) ELSE NoHosts
  /\ left' = FilesOf(request') /\ phase' = "writing"
  /\ UNCHANGED <<flags, disk, run>>

WriteFile ==
  /\ phase = "writing" /\ left # <<>>
  /\ disk' = [disk EXCEPT ![Head(left)] = run]
  /\ left' = Tail(left)
  /\ UNCHANGED <<phase, flags, cluster, request, hosts, run>>

Finish == phase = "writing" /\ left = <<>> /\ phase' = "done"
          /\ UNCHANGED <<flags, cluster, request, hosts, left, disk, run>>

\* an unreadable state file, an unknown or unusable cluster, a failed write, a killed process
Abort ==
  /\ phase \in {"accepted", "writing"} /\ phase' = "idle"
  /\ left' = <<>> /\ hosts' = NoHosts /\ flags' = NoFlags /\ cluster' = NoCluster
  /\ request' = RequestOf(NoFlags, NoCluster)
  /\ UNCHANGED <<disk, run>>

Next == \/ \E f \in Flags : Start(f)
        \/ \E c \in Clusters : RunMigrationInfra(c)
        \/ WriteFile
        \/ Finish
        \/ Abort

Spec == Init /\ [][Next]_vars

-----------------------------------------------------------------------------
Done == phase = "done"

(* Every project the command finishes is one Terraform accepts with its user *)
(* data templates, one set of variables, blocks, outputs and template        *)
(* arguments for each type; and where MSK reported the brokers Terraform     *)
(* asks for nothing the flags and the state file could tell: only secrets,   *)
(* those the README.md of a jump cluster project announces. The exception is *)
(* the required --target-environment-id of type 2, which is copied to the    *)
(* request only when --security-group-id is not given.                       *)
CommandIsCoherent ==
  Done =>
    /\ CoherentMigration(request) /\ OrderedMigration(request)
    /\ BootstrapOf(flags.type) \in cluster.bootstrap /\ cluster.nodes # {} =>
         /\ Jump(request) => Prompted(request) = ReadmeCredentials(request)
         /\ Prompted(request) \subseteq
              Secrets \cup When(External(request) /\ "security-group-id" \in flags.given,
                                {"target_environment_id"})

(* After a run that succeeded, Terraform reads only files of that run from   *)
(* the root directory and from the modules the root calls, also when an      *)
(* earlier run, failed or not, wrote a project of another type there.        *)
DiskHoldsTheMigration ==
  Done => /\ \A i \in DOMAIN FilesOf(request) : disk[FilesOf(request)[i]] = run
          /\ \A p \in Places : /\ p[1] \in {"root"} \cup DOMAIN ModulesOf(request)
                               /\ p[2] # "README.md"
                               => disk[p] \in {0, run}

(* The endpoints of an external outbound link pair each broker's host with   *)
(* its own address, though hosts come from the bootstrap string and          *)
(* addresses from the node list: sorting brings them together while MSK      *)
(* names every broker and there are fewer than ten.                          *)
BrokersKeepTheirHosts ==
  Done /\ External(request) /\ cluster.listed = cluster.nodes
       /\ cluster.nodes = 1..Cardinality(cluster.nodes) /\ Cardinality(cluster.nodes) < 10
    => \A id \in cluster.nodes : hosts[id] = id
=============================================================================
