---------------------------- MODULE TargetInfra ----------------------------
(* `kcp create-asset target-infra`: the command checks its flags, may take   *)
(* the region and the VPC from a cluster of the state file, generates the    *)
(* project and writes it, one file after another, into the output directory. *)
(* A write can fail, or the process can die, between any two files; the      *)
(* command may then be given again, with the same flags or others. The       *)
(* contents of a file are the number of the run that wrote it.               *)
(* Flags are [needs_..., cluster_..., prevent_destroy, given]: `given` holds *)
(* the string and list flags that are not empty.                             *)
EXTENDS TargetProject, Sequences

CONSTANTS Flags,      \* the command lines that are tried
          MaxRuns     \* bound: how often the command is given

FlagNames == {"state-file", "cluster-arn", "aws-region", "vpc-id", "env-name", "env-id",
              "cluster-name", "cluster-id", "subnet-cidrs"}
CommandLine ==
  [needs_environment : BOOLEAN, needs_cluster : BOOLEAN, needs_private_link : BOOLEAN,
   cluster_type : ClusterTypes, cluster_availability : Availabilities \ {""},
   cluster_cku : Nat, prevent_destroy : BOOLEAN, given : SUBSET FlagNames]

ASSUME FlagsAssumption == Flags \subseteq CommandLine /\ MaxRuns \in Nat \ {0}

VARIABLES phase,      \* "idle", "accepted", "writing" or "done"
          flags,      \* the command line of the run under way
          request,    \* what the generator is given
          left,       \* the files that are still to be written, in order
          disk,       \* the output directory: the run that wrote each file, 0 for none
          run         \* the number of the run

vars == <<phase, flags, request, left, disk, run>>

RootFiles == <<<<"root", "main.tf">>, <<"root", "providers.tf">>, <<"root", "variables.tf">>,
               <<"root", "outputs.tf">>, <<"root", "inputs.auto.tfvars">>>>
ModuleFiles(m) == <<<<m, "main.tf">>, <<m, "variables.tf">>, <<m, "outputs.tf">>, <<m, "versions.tf">>>>

(* Mutant of FilesOf: a project without values leaves out inputs.auto.tfvars *)
(* and so does one for an existing environment.                              *)
FilesOfNewEnvironmentsOnly(r) ==
  (IF r.needs_environment THEN RootFiles ELSE SubSeq(RootFiles, 1, 4))
  \o ModuleFiles("confluent_cloud")
  \o (IF r.needs_private_link THEN ModuleFiles("private_link") ELSE <<>>)

\* inputs.auto.tfvars is written only when it is not empty
FilesOf(r) ==
  (IF Values(r) # {} THEN RootFiles ELSE SubSeq(RootFiles, 1, 4))
  \o ModuleFiles("confluent_cloud")
  \o (IF r.needs_private_link THEN ModuleFiles("private_link") ELSE <<>>)

Files == {"main.tf", "providers.tf", "variables.tf", "outputs.tf", "inputs.auto.tfvars",
          "versions.tf"}
Places == {"root", "confluent_cloud", "private_link"} \X Files

-----------------------------------------------------------------------------
Exclusive(f) ==
  /\ ~({"env-name", "env-id"} \subseteq f.given)
  /\ ~({"cluster-id", "cluster-name"} \subseteq f.given)
  /\ ~("cluster-id" \in f.given /\ f.cluster_type # "")

ClusterFlags(f) ==
  IF f.needs_cluster
  THEN /\ "cluster-name" \in f.given /\ f.cluster_type # ""
       /\ f.cluster_cku >= 1
       /\ f.cluster_availability = "MULTI_ZONE" => f.cluster_cku >= 2
  ELSE "cluster-id" \in f.given

(* Mutant of PreRun: the subnets of the private link are not required. *)
PreRunNoSubnets(f) ==
  /\ Exclusive(f)
  /\ IF "state-file" \in f.given THEN "cluster-arn" \in f.given
     ELSE {"aws-region", "vpc-id"} \subseteq f.given
  /\ IF f.needs_environment THEN "env-name" \in f.given ELSE "env-id" \in f.given
  /\ ClusterFlags(f)

PreRun(f) ==
  /\ Exclusive(f)
  /\ IF "state-file" \in f.given THEN "cluster-arn" \in f.given
     ELSE {"aws-region", "vpc-id"} \subseteq f.given
  /\ IF f.needs_environment THEN "env-name" \in f.given ELSE "env-id" \in f.given
  /\ ClusterFlags(f)
  /\ f.needs_private_link => "subnet-cidrs" \in f.given

\* the request of a command line, with the region and VPC that are in `from`;
\* --cluster-id is in no field of it
RequestOf(f, from) ==
  [needs_environment |-> f.needs_environment, needs_cluster |-> f.needs_cluster,
   needs_private_link |-> f.needs_private_link, cluster_type |-> f.cluster_type,
   cluster_availability |-> f.cluster_availability, cluster_cku |-> f.cluster_cku,
   prevent_destroy |-> f.prevent_destroy,
   given |-> from \cup When("env-name" \in f.given, {"environment_name"})
                  \cup When("env-id" \in f.given, {"environment_id"})
                  \cup When("cluster-name" \in f.given, {"cluster_name"})
                  \cup When("subnet-cidrs" \in f.given, {"subnet_cidr_ranges"})]

\* a cluster of the state file replaces both flags; a serverless one has no VPC
Sources(f) ==
  IF "state-file" \in f.given THEN {{"aws_region", "vpc_id"}, {"aws_region"}}
  ELSE {When("aws-region" \in f.given, {"aws_region"}) \cup When("vpc-id" \in f.given, {"vpc_id"})}

NoFlags == [needs_environment |-> FALSE, needs_cluster |-> FALSE, needs_private_link |-> FALSE,
            cluster_type |-> "", cluster_availability |-> "SINGLE_ZONE", cluster_cku |-> 1,
            prevent_destroy |-> TRUE, given |-> {}]

Init ==
  /\ phase = "idle" /\ run = 0 /\ left = <<>>
  /\ flags = NoFlags /\ request = RequestOf(NoFlags, {})
  /\ disk = [p \in Places |-> 0]

Start(f) ==
  /\ phase \in {"idle", "done"} /\ run < MaxRuns
  /\ PreRun(f)
  /\ phase' = "accepted" /\ flags' = f /\ run' = run + 1
  /\ request' = RequestOf(NoFlags, {})
  /\ UNCHANGED <<left, disk>>

RunCreateTargetInfra ==
  /\ phase = "accepted"
  /\ \E from \in Sources(flags) : request' = RequestOf(flags, from)
  /\ left' = FilesOf(request')
  /\ phase' = "writing"
  /\ UNCHANGED <<flags, disk, run>>

WriteFile ==
  /\ phase = "writing" /\ left # <<>>
  /\ disk' = [disk EXCEPT ![Head(left)] = run]
  /\ left' = Tail(left)
  /\ UNCHANGED <<phase, flags, request, run>>

Finish == phase = "writing" /\ left = <<>> /\ phase' = "done"
          /\ UNCHANGED <<flags, request, left, disk, run>>

\* an unreadable state file, an unknown cluster, a failed write, a killed process
Abort ==
  /\ phase \in {"accepted", "writing"}
  /\ phase' = "idle" /\ left' = <<>> /\ flags' = NoFlags /\ request' = RequestOf(NoFlags, {})
  /\ UNCHANGED <<disk, run>>

Next == \/ \E f \in Flags : Start(f)
        \/ RunCreateTargetInfra
        \/ WriteFile
        \/ Finish
        \/ Abort

Spec == Init /\ [][Next]_vars

-----------------------------------------------------------------------------
TypeOK ==
  /\ phase \in {"idle", "accepted", "writing", "done"} /\ run \in 0..MaxRuns
  /\ flags \in CommandLine /\ request \in Request
  /\ left \in Seq(Places) /\ disk \in [Places -> 0..run]

Done == phase = "done"
Project == GenerateTerraformFiles(request)
CoherentProject ==
  /\ Coherent(Project) /\ NoModuleCycle(Project)
  /\ \A m \in DOMAIN Project.modules : NoCycle(Project.modules[m])

(* A project with a cluster of its own is one that Terraform accepts,        *)
(* whatever flags asked for it.                                              *)
OwnClusterIsCoherent == Done /\ CreatesCluster(request) => CoherentProject

(* What a finished project needs has passed preRun and reached the request:  *)
(* a private link has its subnets in inputs.auto.tfvars whichever way the    *)
(* region and the VPC are found, and a multi-zone cluster has the two CKUs   *)
(* of "MULTI_ZONE requires >= 2", though flags are checked only when a       *)
(* cluster is asked for: an unasked one is never dedicated.                  *)
FlagsReachTheProject ==
  Done =>
    /\ request.needs_private_link => "subnet_cidr_ranges" \in Project.root.values
    /\ CreatesCluster(request) /\ Dedicated(request)
         /\ request.cluster_availability = "MULTI_ZONE" => request.cluster_cku >= 2

(* After a run that succeeded, what Terraform loads from the directory is    *)
(* all of that run: every file of the root directory, which Terraform reads  *)
(* whether or not this run would write it, and of the modules the root       *)
(* calls. Files of earlier runs, failed ones too, are left only in the       *)
(* directories of modules that are no longer called.                         *)
DiskHoldsTheProject ==
  Done => /\ \A i \in DOMAIN FilesOf(request) : disk[FilesOf(request)[i]] = run
          /\ \A p \in Places : p[1] \in {"root"} \cup Modules(request) => disk[p] \in {0, run}
=============================================================================
