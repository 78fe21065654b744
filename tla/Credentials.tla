---------------------------- MODULE Credentials ----------------------------
(***************************************************************************)
(* creds.yaml: `discover` writes the authentication options it finds on    *)
(* each cluster, a person picks one and types its secret, `scan clusters`  *)
(* connects with it, and a later `discover` merges what the person left    *)
(* with what AWS offers by then (internal/types/credentials.go and         *)
(* cmd/discover/discoverer.go).                                            *)
(*                                                                         *)
(* The file maps each listed cluster to the methods it offers, with their  *)
(* `use` flag and secret.  A discovery loads the file when it starts and   *)
(* writes it when it ends; AWS and the person do not wait for it.          *)
(***************************************************************************)
EXTENDS Naturals

CONSTANTS
  Region,
  Cluster,    \* cluster ARNs
  RegionOf,   \* the region of each cluster
  Secret,     \* what a person can type: certificates, a user name and password
  Blank,      \* the empty strings of a fresh entry
  NoChoice,   \* nobody picked a method for the cluster
  AwsConfig,  \* the settings clusters may have in AWS
  ConfigsOf   \* those each cluster may have

ClusterType == {"PROVISIONED", "SERVERLESS"}
ClientAuth == {"iam", "sasl_scram", "tls", "unauthenticated"}
InTransit == {"TLS", "TLS_PLAINTEXT", "PLAINTEXT"}

\* What DescribeCluster says of the ways to authenticate.
AwsSettings ==
  [type : ClusterType, client_auth : SUBSET ClientAuth, in_transit : InTransit]

Method == {"unauthenticated_plaintext", "unauthenticated_tls", "iam",
           "sasl_scram", "tls"}

ASSUME CredentialsAssumption ==
  /\ RegionOf \in [Cluster -> Region]
  /\ AwsConfig \subseteq AwsSettings
  /\ ConfigsOf \in [Cluster -> SUBSET AwsConfig]
  /\ Blank \notin Secret
  /\ NoChoice \notin Method

-----------------------------------------------------------------------------
(* The entry of one cluster: its methods, each with a flag and a secret.   *)

Entry == [use : BOOLEAN, secret : Secret \cup {Blank}]

AuthMethodConfig == UNION {[O -> Entry] : O \in SUBSET Method}

\* The methods getAvailableClusterAuthOptions finds on a cluster.
Available(cfg) ==
  IF cfg.type = "SERVERLESS" THEN {"iam"}
  ELSE (cfg.client_auth \cap {"iam", "sasl_scram", "tls"})
         \cup {m \in {"unauthenticated_plaintext", "unauthenticated_tls"} :
                 /\ "unauthenticated" \in cfg.client_auth
                 /\ m = "unauthenticated_tls" => cfg.in_transit # "PLAINTEXT"
                 /\ m = "unauthenticated_plaintext" => cfg.in_transit # "TLS"}

\* unauthenticated_plaintext > iam > sasl_scram > unauthenticated_tls > tls
DefaultRank ==
  [m \in Method |-> CASE m = "unauthenticated_plaintext" -> 1
                      [] m = "iam" -> 2
                      [] m = "sasl_scram" -> 3
                      [] m = "unauthenticated_tls" -> 4
                      [] m = "tls" -> 5]

IsDefault(m, O) == m \in O /\ \A n \in O : DefaultRank[m] <= DefaultRank[n]

NewClusterAuth(cfg) ==
  [m \in Available(cfg) |->
     [use |-> IsDefault(m, Available(cfg)), secret |-> Blank]]

\* Mutant of MergeWith: the flag survives, the secret does not.
MergeWithBlankSecret(new, old) ==
  [m \in DOMAIN new |-> IF m \in DOMAIN old
                          THEN [use |-> old[m].use, secret |-> new[m].secret]
                          ELSE new[m]]

\* Mutant of MergeWith: an existing flag is restored only when it is set.
MergeWithOnlySetFlags(new, old) ==
  [m \in DOMAIN new |-> IF m \in DOMAIN old
                          THEN [use |-> new[m].use \/ old[m].use,
                                secret |-> old[m].secret]
                          ELSE new[m]]

\* Every field of a method both sides have comes from the existing one.
MergeWith(new, old) ==
  [m \in DOMAIN new |-> IF m \in DOMAIN old THEN old[m] ELSE new[m]]

Enabled(cfg) == {m \in DOMAIN cfg : cfg[m].use}

\* GetAuthMethods lists the enabled methods in this order.
SelectionRank ==
  [m \in Method |-> CASE m = "unauthenticated_plaintext" -> 1
                      [] m = "unauthenticated_tls" -> 2
                      [] m = "iam" -> 3
                      [] m = "sasl_scram" -> 4
                      [] m = "tls" -> 5]

GetSelectedAuthType(cfg) ==
  CHOOSE m \in Enabled(cfg) :
    \A n \in Enabled(cfg) : SelectionRank[m] <= SelectionRank[n]

SingleMethod(cfg) == \A m, n \in Enabled(cfg) : m = n

\* Credentials.Validate: more than one enabled method is an error.
Validate(creds) == \A c \in DOMAIN creds : SingleMethod(creds[c])

\* Mutant of UpsertRegion: the new region takes the place of all the others.
UpsertRegionAlone(creds, r, fresh) ==
  [c \in DOMAIN fresh |-> IF c \in DOMAIN creds THEN MergeWith(fresh[c], creds[c])
                          ELSE fresh[c]]

\* Mutant of UpsertRegion: the existing clusters are not merged in.
UpsertRegionUnmerged(creds, r, fresh) ==
  [c \in {d \in DOMAIN creds : RegionOf[d] # r} \cup DOMAIN fresh |->
     IF c \in DOMAIN fresh THEN fresh[c] ELSE creds[c]]

\* Credentials.UpsertRegion with MergeClusterConfigs.
UpsertRegion(creds, r, fresh) ==
  [c \in {d \in DOMAIN creds : RegionOf[d] # r} \cup DOMAIN fresh |->
     IF c \notin DOMAIN fresh THEN creds[c]
     ELSE IF c \in DOMAIN creds THEN MergeWith(fresh[c], creds[c])
     ELSE fresh[c]]

-----------------------------------------------------------------------------
VARIABLES
  status,   \* of each cluster in AWS: "planned", "active" or "deleted"
  aws,      \* its settings there
  exists,   \* creds.yaml exists
  file,     \* its content: the listed clusters, each with its entry
  run,      \* a discovery is "idle" or "running"
  base,     \* the credentials it loaded
  working,  \* the credentials it builds
  left,     \* the regions of its command line it has still to visit
  done,     \* the regions it has upserted
  choice    \* history: the method a person picked, until a run writes over an entry edited meanwhile

awsVars == <<status, aws>>
fileVars == <<exists, file, choice>>
runVars == <<run, base, working, left, done>>
vars == <<awsVars, fileVars, runVars>>

NoCredentials == [c \in {} |-> {}]

Files == UNION {[S -> AuthMethodConfig] : S \in SUBSET Cluster}

Init ==
  /\ status \in [Cluster -> {"planned", "active"}]
  /\ aws \in [Cluster -> AwsConfig]
  /\ \A c \in Cluster : aws[c] \in ConfigsOf[c]
  /\ exists = FALSE
  /\ file = NoCredentials
  /\ run = "idle"
  /\ base = NoCredentials
  /\ working = NoCredentials
  /\ left = {}
  /\ done = {}
  /\ choice = [c \in Cluster |-> NoChoice]

-----------------------------------------------------------------------------
(* AWS. *)

CreateCluster(c) ==
  /\ status[c] = "planned"
  /\ status' = [status EXCEPT ![c] = "active"]
  /\ UNCHANGED <<aws, fileVars, runVars>>

DeleteCluster(c) ==
  /\ status[c] = "active"
  /\ status' = [status EXCEPT ![c] = "deleted"]
  /\ UNCHANGED <<aws, fileVars, runVars>>

\* The type of a cluster never changes.
ChangeSecurity(c, cfg) ==
  /\ status[c] = "active"
  /\ cfg # aws[c]
  /\ cfg.type = aws[c].type
  /\ aws' = [aws EXCEPT ![c] = cfg]
  /\ UNCHANGED <<status, fileVars, runVars>>

-----------------------------------------------------------------------------
(* The person who edits creds.yaml. *)

SetFlags(c, S) ==
  file' = [file EXCEPT ![c] = [m \in DOMAIN file[c] |->
                                 [file[c][m] EXCEPT !.use = m \in S]]]

SelectMethod(c, m) ==
  /\ c \in DOMAIN file
  /\ m \in DOMAIN file[c]
  /\ SetFlags(c, {m})
  /\ choice' = [choice EXCEPT ![c] = m]
  /\ UNCHANGED <<awsVars, exists, runVars>>

\* No method enabled is valid and means: skip this cluster.
SkipCluster(c) ==
  /\ c \in DOMAIN file
  /\ SetFlags(c, {})
  /\ choice' = [choice EXCEPT ![c] = NoChoice]
  /\ UNCHANGED <<awsVars, exists, runVars>>

\* By mistake, a second method.
EnableAnother(c, m) ==
  /\ c \in DOMAIN file
  /\ m \in DOMAIN file[c]
  /\ SetFlags(c, Enabled(file[c]) \cup {m})
  /\ choice' = [choice EXCEPT ![c] = NoChoice]
  /\ UNCHANGED <<awsVars, exists, runVars>>

TypeSecret(c, m, s) ==
  /\ c \in DOMAIN file
  /\ m \in DOMAIN file[c] \cap {"sasl_scram", "tls"}
  /\ file' = [file EXCEPT ![c] = [file[c] EXCEPT ![m] =
                                    [use |-> file[c][m].use, secret |-> s]]]
  /\ UNCHANGED <<awsVars, exists, choice, runVars>>

DeleteFile ==
  /\ exists
  /\ exists' = FALSE
  /\ file' = NoCredentials
  /\ choice' = [c \in Cluster |-> NoChoice]
  /\ UNCHANGED <<awsVars, runVars>>

-----------------------------------------------------------------------------
(* One run of `discover` over the regions rs. *)

\* A file that does not validate stops the command; a missing one does not.
StartDiscover(rs) ==
  /\ run = "idle"
  /\ rs # {}
  /\ Validate(file)
  /\ run' = "running"
  /\ base' = file
  /\ working' = file
  /\ left' = rs
  /\ done' = {}
  /\ UNCHANGED <<awsVars, fileVars>>

\* A client that cannot be made, or a failed listing: the region is skipped.
RegionFails(r) ==
  /\ run = "running"
  /\ r \in left
  /\ left' = left \ {r}
  /\ UNCHANGED <<awsVars, fileVars, run, base, working, done>>

\* The clusters of F cannot be described and are left out of the region.
DiscoverRegion(r, F) ==
  /\ run = "running"
  /\ r \in left
  /\ LET found == {c \in Cluster : RegionOf[c] = r /\ status[c] = "active"} \ F
         fresh == [c \in found |-> NewClusterAuth(aws[c])]
     IN working' = UpsertRegion(working, r, fresh)
  /\ left' = left \ {r}
  /\ done' = done \cup {r}
  /\ UNCHANGED <<awsVars, fileVars, run, base>>

EndRun ==
  /\ run' = "idle"
  /\ base' = NoCredentials
  /\ working' = NoCredentials
  /\ left' = {}
  /\ done' = {}

\* The file is replaced whatever it holds by now; so is what was typed into
\* it since the run loaded it.  A write that is cut off is in Discovery, not
\* here: a person restores such a file or starts a new one.
WriteCredentials ==
  /\ run = "running"
  /\ left = {}
  /\ exists' = TRUE
  /\ file' = working
  /\ choice' = [c \in Cluster |->
                  IF /\ c \in DOMAIN file /\ c \in DOMAIN base /\ c \in DOMAIN working
                     /\ file[c] = base[c]
                     /\ choice[c] \in DOMAIN working[c]
                  THEN choice[c] ELSE NoChoice]
  /\ EndRun
  /\ UNCHANGED awsVars

\* Interrupted, or kcp-state.json, written first, could not be written.
AbandonDiscover ==
  /\ run = "running"
  /\ EndRun
  /\ UNCHANGED <<awsVars, fileVars>>

AwsStep ==
  \E c \in Cluster :
    \/ CreateCluster(c) \/ DeleteCluster(c)
    \/ \E cfg \in ConfigsOf[c] : ChangeSecurity(c, cfg)

PersonStep ==
  \/ \E c \in Cluster :
       \/ SkipCluster(c)
       \/ \E m \in Method :
            \/ SelectMethod(c, m) \/ EnableAnother(c, m)
            \/ \E s \in Secret : TypeSecret(c, m, s)
  \/ DeleteFile

DiscoverStep ==
  \/ \E rs \in SUBSET Region : StartDiscover(rs)
  \/ \E r \in Region : RegionFails(r) \/ \E F \in SUBSET Cluster : DiscoverRegion(r, F)
  \/ WriteCredentials
  \/ AbandonDiscover

Next == AwsStep \/ PersonStep \/ DiscoverStep

Spec == Init /\ [][Next]_vars

-----------------------------------------------------------------------------
TypeOK ==
  /\ status \in [Cluster -> {"planned", "active", "deleted"}]
  /\ aws \in [Cluster -> AwsConfig]
  /\ exists \in BOOLEAN
  /\ \A f \in {file, base, working} :
       DOMAIN f \subseteq Cluster /\ f \in [DOMAIN f -> AuthMethodConfig]
  /\ run \in {"idle", "running"}
  /\ left \in SUBSET Region
  /\ done \in SUBSET (Region \ left)
  /\ choice \in [Cluster -> Method \cup {NoChoice}]

(* A method that a cluster offered before and offers now keeps its flag and *)
(* its secret through any discovery (MergeWith).                            *)
ChoicesKept ==
  run = "running" =>
    \A c \in DOMAIN base \cap DOMAIN working :
      \A m \in DOMAIN base[c] \cap DOMAIN working[c] : working[c][m] = base[c][m]

(* Clusters of a region that is not visited, or cannot be read, stay listed *)
(* with the same entry, and none appears (Credentials.UpsertRegion).        *)
UntouchedRegionsKept ==
  run = "running" =>
    \A c \in Cluster : RegionOf[c] \notin done =>
      /\ c \in DOMAIN working <=> c \in DOMAIN base
      /\ c \in DOMAIN base => working[c] = base[c]

(* A discovery can leave two methods enabled on a cluster, never more: one  *)
(* was enabled in the file, the other was not offered then and outranks it. *)
ConflictExplained ==
  run = "running" =>
    \A c \in DOMAIN working : ~SingleMethod(working[c]) =>
      /\ c \in DOMAIN base
      /\ \E old \in Enabled(base[c]), new \in Method \ DOMAIN base[c] :
           /\ Enabled(working[c]) = {old, new}
           /\ DefaultRank[new] < DefaultRank[old]

(* Whatever discoveries and AWS changes come after it, the method a person  *)
(* picked is the one a scan of a valid file connects with, for as long as   *)
(* the cluster offers it.  A discovery under way while the person edits the *)
(* cluster's entry writes over it: such a choice is not covered.            *)
ChoiceRespected ==
  Validate(file) =>
    \A c \in DOMAIN file : choice[c] # NoChoice =>
      /\ choice[c] \in Enabled(file[c])
      /\ GetSelectedAuthType(file[c]) = choice[c]
=============================================================================
