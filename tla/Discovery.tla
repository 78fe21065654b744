----------------------------- MODULE Discovery -----------------------------
(***************************************************************************)
(* kcp discover (cmd/discover): for each region of the command line the    *)
(* region's configurations, costs and clusters are read, then each cluster *)
(* with a dozen calls to AWS, one after the other, and at the end the      *)
(* state file and the credentials file are written.                        *)
(*                                                                         *)
(* AWS is the environment: a call can fail, and a cluster can be scaled or *)
(* deleted between any two calls.  The process can be killed at any point, *)
(* and the user edits creds.yaml whenever he likes.  A paged listing is    *)
(* one step: it is read to its end, and an error on any page is its error. *)
(* ListConnectors alone is not: the code reads its first page.             *)
(*                                                                         *)
(* A file is written in place, by os.WriteFile: it is truncated, then      *)
(* filled.  A write that fails or is killed in between leaves a part of    *)
(* the text.  A part of kcp-state.json does not parse; a part of           *)
(* creds.yaml may, as fewer clusters or with less of a cluster.            *)
(*                                                                         *)
(* RegionOf, Serverless, HasPolicy and Listeners are facts about the       *)
(* clusters, ConnectorInfo and FirstPage about the MSK Connect connectors  *)
(* of the account.                                                         *)
(*                                                                         *)
(* Authentication methods do not change here and any cluster may have a    *)
(* secret; Credentials has both in detail.                                 *)
(***************************************************************************)
EXTENDS Naturals, FiniteSets

CONSTANTS
  Region, Cluster, RegionOf,
  Serverless,             \* the serverless clusters
  HasPolicy,              \* the clusters with a cluster policy
  Listeners,              \* the bootstrap strings AWS has for each cluster
  Connector, ConnectorInfo,
  FirstPage,              \* the connectors in the first page of ListConnectors
  Options,                \* the combinations of --skip flags in use
  MaxBrokers,             \* bound: brokers of a cluster
  MaxRuns,                \* bound: how often the command is run
  MaxChanges              \* bound: how often AWS scales or deletes a cluster

Listener == {"public_iam", "iam", "tls", "plaintext", "scram"}

\* The calls whose answer is recorded as it is, in the order of the code.
Part == {"bootstrap", "vpc", "operations", "nodes", "secrets", "policy", "versions"}
ServerlessCannot == {"nodes", "secrets", "versions"}

\* The secrets of a cluster's entry in creds.yaml.
Secret == {"absent", "blank", "typed"}

Controller == 0
Broker == 1..MaxBrokers

ASSUME DiscoveryAssumption ==
  /\ RegionOf \in [Cluster -> Region]
  /\ Serverless \subseteq Cluster
  /\ HasPolicy \subseteq Cluster
  /\ Listeners \in [Cluster -> SUBSET Listener]
  /\ ConnectorInfo \in
       [Connector -> [auth : {"iam", "none", "other"},
                      encryption : {"tls", "plaintext", "other"},
                      servers : SUBSET (Cluster \X Listener)]]
  /\ FirstPage \subseteq Connector
  /\ Options \subseteq [costs : BOOLEAN, topics : BOOLEAN, metrics : BOOLEAN]
  /\ MaxBrokers \in Nat \ {0} /\ MaxRuns \in Nat /\ MaxChanges \in Nat

VARIABLES
  aws,       \* each cluster: whether it exists and how many brokers it has
  changes,   \* how many changes AWS has made
  files,     \* kcp-state.json and creds.yaml, as far as they parse
  text,      \* whether each is whole, parses as a part of what was written,
             \* or is broken and does not parse
  runs,      \* how often the command has been started
  step,      \* what the command does next
  skip,      \* its --skip-costs, --skip-topics and --skip-metrics
  mem,       \* the state and the credentials it has in memory
  left,      \* the regions it has still to read
  region, todo, found,  \* its current region: clusters to read, entries read
  cluster, entry,       \* its current cluster and what is known of it
  \* History, which the properties speak of:
  upserted,  \* regions this run has read in full
  faulted,   \* clusters for which AWS failed a call of this run, or whose
             \* scan met a connector of an unsupported type
  changed,   \* whether AWS changed the current cluster since it was described
  late,      \* clusters whose secret was typed while the command ran
  cut,       \* regions in which the files may differ: written to the state
             \* file only, or lost in a write that was cut off
  before     \* the files before the current write of one began

history == <<upserted, faulted, changed, late, cut, before>>
command == <<runs, step, skip, mem, left, region, todo, found, cluster, entry>>
vars == <<aws, changes, files, text, command, history>>

-----------------------------------------------------------------------------
\* metrics: the broker count the metrics were read for, if they were read.
NoEntry ==
  [brokers |-> 0, read |-> {}, empty |-> {}, nodes |-> {}, subnets |-> {},
   connectors |-> {}, topics |-> 0, metrics |-> {}, steady |-> TRUE]

NoFiles == [state |-> [c \in Cluster |-> NoEntry], creds |-> [c \in Cluster |-> "absent"]]

NoSkip == [costs |-> FALSE, topics |-> FALSE, metrics |-> FALSE]

\* The local variables of the loops, out of use.
Forget(rg, c, e, f) ==
  /\ rg = CHOOSE r \in Region : TRUE
  /\ c = CHOOSE d \in Cluster : TRUE
  /\ e = NoEntry /\ f = [d \in Cluster |-> NoEntry]

Recorded(entries) == {c \in Cluster : entries[c].read # {}}

\* What AWS answers a call about cluster c, unless the call fails.
Answer(c, part) ==
  IF ~aws[c].exists THEN "not_found"
  ELSE IF c \in Serverless /\ part \in ServerlessCannot THEN "serverless"
  ELSE IF part = "policy" /\ c \notin HasPolicy THEN "not_found"
  ELSE IF part = "vpc" /\ c \in Serverless THEN "serverless_vpc"
  ELSE "ok"

\* The errors that the scan functions turn into an empty result.
Tolerated(part, answer) ==
  \/ part \in {"nodes", "secrets", "versions"} /\ answer = "serverless"
  \/ part = "vpc" /\ answer = "serverless_vpc"
  \/ part = "policy" /\ answer = "not_found"

\* ListNodes of a provisioned cluster: its brokers and a controller.
NodesOf(c) == {Controller} \cup 1..aws[c].brokers

\* Mutant of CombinedSubnets: every node is taken for a broker.
CombinedSubnetsOfAll(nodes) == nodes

\* createCombinedSubnetBrokerInfo: one entry per broker node, with its subnet.
CombinedSubnets(nodes) == nodes \ {Controller}

\* The bootstrap strings that a connector's authentication is compared with;
\* the switch of discoverMatchingConnectors and GetAllBootstrapBrokersForAuthType.
ListenersFor(k) ==
  CASE ConnectorInfo[k].auth = "iam" -> {"public_iam", "iam"}
    [] ConnectorInfo[k].auth = "none" -> {ConnectorInfo[k].encryption}
    [] OTHER -> {}

Unsupported(k) ==
  \/ ConnectorInfo[k].auth = "other"
  \/ ConnectorInfo[k].auth = "none" /\ ConnectorInfo[k].encryption = "other"

Matches(k, c) ==
  \E l \in ListenersFor(k) \cap Listeners[c] : <<c, l>> \in ConnectorInfo[k].servers

\* Mutant of Following: the policy is read last.
FollowingPolicyLast ==
  [describe |-> "bootstrap", bootstrap |-> "vpc", vpc |-> "operations",
   operations |-> "nodes", nodes |-> "secrets", secrets |-> "versions",
   versions |-> "policy", policy |-> "networking",
   networking |-> "connectors", connectors |-> "topics", topics |-> "metrics"]

\* The order of the calls about a cluster.
Following ==
  [describe |-> "bootstrap", bootstrap |-> "vpc", vpc |-> "operations",
   operations |-> "nodes", nodes |-> "secrets", secrets |-> "policy",
   policy |-> "versions", versions |-> "networking",
   networking |-> "connectors", connectors |-> "topics", topics |-> "metrics"]

\* The steps at which the cluster has been described.
Described == Part \cup {"networking", "connectors", "topics", "metrics"}

-----------------------------------------------------------------------------
Init ==
  /\ aws = [c \in Cluster |-> [exists |-> TRUE,
                              brokers |-> IF c \in Serverless THEN 0 ELSE 1]]
  /\ changes = 0 /\ runs = 0 /\ step = "idle"
  /\ files = NoFiles /\ mem = NoFiles /\ before = NoFiles
  /\ text = [state |-> "whole", creds |-> "whole"]
  /\ skip = NoSkip
  /\ left = {} /\ todo = {} /\ Forget(region, cluster, entry, found)
  /\ upserted = {} /\ faulted = {} /\ changed = FALSE /\ late = {} /\ cut = {}

\* AWS deletes a cluster, or adds a broker to one or removes it.
Change(c, now) ==
  /\ changes < MaxChanges /\ aws[c].exists /\ now # aws[c]
  /\ c \in Serverless => ~now.exists
  /\ ~now.exists => now.brokers = aws[c].brokers
  /\ aws' = [aws EXCEPT ![c] = now]
  /\ changes' = changes + 1
  /\ changed' = (changed \/ (c = cluster /\ step \in Described))
  /\ UNCHANGED <<files, text, command, upserted, faulted, late, cut, before>>

\* The user fills in the secret of a cluster in creds.yaml.
TypeSecret(c) ==
  /\ files.creds[c] = "blank"
  /\ files' = [files EXCEPT !.creds[c] = "typed"]
  /\ late' = IF step = "idle" THEN late ELSE late \cup {c}
  /\ UNCHANGED <<aws, changes, text, command, upserted, faulted, changed, cut, before>>

\* The user removes a file with which the command does not start.
RemoveFile(f) ==
  /\ step = "idle" /\ text[f] = "broken"
  /\ text' = [text EXCEPT ![f] = "whole"]
  /\ UNCHANGED <<aws, changes, files, command, history>>

\* kcp discover --region R: parseDiscoverOpts loads both files, if they are
\* there; it fails if one is there and does not parse.
Start(R, o) ==
  /\ step = "idle" /\ runs < MaxRuns
  /\ \A f \in {"state", "creds"} : text[f] # "broken"
  /\ runs' = runs + 1 /\ skip' = o /\ left' = R
  /\ mem' = files
  /\ step' = "regions"
  /\ UNCHANGED <<aws, changes, files, text, region, todo, found, cluster, entry, history>>

InRegion ==
  UNCHANGED <<aws, changes, files, text, runs, skip, mem, cluster, entry, history>>

\* The clients of the region are made and its configurations read.  Here and
\* in the next two steps an error skips the region.
ReadConfigurations(r, ok) ==
  /\ step = "regions" /\ r \in left
  /\ left' = left \ {r}
  /\ IF ok THEN region' = r /\ step' = "costs" ELSE UNCHANGED <<region, step>>
  /\ UNCHANGED <<todo, found>> /\ InRegion

\* GetCostsForTimeRange, unless --skip-costs.
ReadCosts(ok) ==
  /\ step = "costs"
  /\ skip.costs => ok
  /\ step' = IF ok THEN "list" ELSE "regions"
  /\ UNCHANGED <<left, region, todo, found>> /\ InRegion

ListClusters(ok) ==
  /\ step = "list"
  /\ IF ok
       THEN /\ todo' = {c \in Cluster : RegionOf[c] = region /\ aws[c].exists}
            /\ found' = [c \in Cluster |-> NoEntry]
            /\ step' = "clusters"
       ELSE step' = "regions" /\ UNCHANGED <<todo, found>>
  /\ UNCHANGED <<left, region>> /\ InRegion

\* Discover for the next cluster of the list.
StartCluster(c) ==
  /\ step = "clusters" /\ c \in todo
  /\ todo' = todo \ {c} /\ cluster' = c /\ entry' = NoEntry
  /\ step' = "describe" /\ changed' = FALSE
  /\ UNCHANGED <<aws, changes, files, text, runs, skip, mem, left, region, found,
                 upserted, faulted, late, cut, before>>

\* Discover returns an error: the cluster is logged and left out.
Drop(fault) ==
  /\ step' = "clusters" /\ entry' = NoEntry /\ changed' = FALSE
  /\ faulted' = IF fault THEN faulted \cup {cluster} ELSE faulted
  /\ UNCHANGED found

\* The call is answered and e is what is known of the cluster now.
Continue(e) ==
  /\ entry' = e
  /\ step' = Following[step]
  /\ UNCHANGED <<found, faulted, changed>>

InCluster ==
  UNCHANGED <<aws, changes, files, text, runs, skip, mem, left, region, todo,
              cluster, upserted, late, cut, before>>

\* describeCluster: the description tells the type and the broker count.
Describe(fault) ==
  /\ step = "describe"
  /\ IF fault \/ ~aws[cluster].exists
       THEN Drop(fault)
       ELSE Continue([entry EXCEPT !.brokers = aws[cluster].brokers])
  /\ InCluster

\* Bootstrap brokers, VPC connections, operations, nodes, SCRAM secrets,
\* cluster policy and compatible versions.
ReadPart(part, fault) ==
  /\ step = part
  /\ LET answer == Answer(cluster, part)
     IN IF fault THEN Drop(TRUE)
        ELSE IF answer = "ok"
          THEN Continue([entry EXCEPT
                 !.read = @ \cup {part},
                 !.nodes = IF part = "nodes" THEN NodesOf(cluster) ELSE @])
        ELSE IF Tolerated(part, answer)
          THEN Continue([entry EXCEPT !.empty = @ \cup {part}])
        ELSE Drop(FALSE)
  /\ InCluster

\* scanNetworkingInfo: two DescribeSubnets calls, none for serverless.
ReadNetworking(fault) ==
  /\ step = "networking"
  /\ IF cluster \in Serverless THEN ~fault /\ Continue(entry)
     ELSE IF fault THEN Drop(TRUE)
     ELSE Continue([entry EXCEPT !.subnets = CombinedSubnets(entry.nodes)])
  /\ InCluster

\* discoverMatchingConnectors: the connectors of D cannot be described and are
\* passed over; any other with an unsupported type fails the cluster.
ReadConnectors(D, fault) ==
  /\ step = "connectors"
  /\ IF fault THEN Drop(TRUE)
     ELSE IF \E k \in FirstPage \ D : Unsupported(k) THEN Drop(TRUE)
     ELSE Continue([entry EXCEPT !.connectors = {k \in FirstPage \ D : Matches(k, cluster)}])
  /\ InCluster

\* discoverTopics: an error is logged and no topic is recorded.
ReadTopics(fault) ==
  /\ step = "topics"
  /\ skip.topics => ~fault
  /\ Continue([entry EXCEPT
       !.topics = IF skip.topics \/ fault \/ ~aws[cluster].exists THEN 0 ELSE runs])
  /\ InCluster

\* discoverMetrics describes the cluster again, and every query must succeed.
\* With the metrics in, or skipped, the cluster is one of the region's.
ReadMetrics(fault) ==
  /\ step = "metrics"
  /\ skip.metrics => ~fault
  /\ IF ~skip.metrics /\ (fault \/ ~aws[cluster].exists)
       THEN Drop(fault)
       ELSE /\ found' = [found EXCEPT ![cluster] =
                 IF skip.metrics THEN entry
                 ELSE [entry EXCEPT
                        !.metrics = {aws[cluster].brokers}, !.steady = ~changed]]
            /\ step' = "clusters" /\ entry' = NoEntry /\ changed' = FALSE
            /\ UNCHANGED faulted
  /\ InCluster

\* UpsertRegion of the state: the entry found, with the topics of an earlier
\* run when this one has none; a cluster that was not found is gone.
UpsertedEntry(c) ==
  IF found[c].read = {} \/ found[c].topics # 0 THEN found[c]
  ELSE [found[c] EXCEPT !.topics = mem.state[c].topics]

\* Mutant of UpsertedSecret: the secret of an earlier run is not looked up.
UpsertedSecretAnew(c) == IF found[c].read = {} THEN "absent" ELSE "blank"

\* Mutant of UpsertedSecret: entries of clusters that are gone are kept.
UpsertedSecretOfAll(c) ==
  IF mem.creds[c] # "absent" THEN mem.creds[c]
  ELSE IF found[c].read = {} THEN "absent" ELSE "blank"

\* captureCredentialOptions and UpsertRegion of the credentials: every cluster
\* found has an entry, with the secret it had in the file.
UpsertedSecret(c) ==
  IF found[c].read = {} THEN "absent"
  ELSE IF mem.creds[c] = "absent" THEN "blank" ELSE mem.creds[c]

\* All clusters of the region are read: the region is put in both.
UpsertRegion ==
  /\ step = "clusters" /\ todo = {}
  /\ LET here == {c \in Cluster : RegionOf[c] = region}
     IN mem' =
          [state |-> [c \in Cluster |-> IF c \in here THEN UpsertedEntry(c) ELSE mem.state[c]],
           creds |-> [c \in Cluster |-> IF c \in here THEN UpsertedSecret(c) ELSE mem.creds[c]]]
  /\ upserted' = upserted \cup {region}
  /\ step' = "regions" /\ Forget(region', cluster', entry', found')
  /\ UNCHANGED <<aws, changes, files, text, runs, skip, left, todo, faulted, changed,
                 late, cut, before>>

\* The run ends, with an error or without, or the process is killed.
End ==
  /\ step' = "idle" /\ left' = {} /\ todo' = {}
  /\ Forget(region', cluster', entry', found')
  /\ skip' = NoSkip /\ mem' = files'
  /\ upserted' = {} /\ faulted' = {} /\ changed' = FALSE /\ late' = {} /\ before' = NoFiles
  /\ UNCHANGED <<aws, changes, runs>>

\* What a secret, or an entry without one, is in a part of the text: a secret
\* cut off in the middle counts as blank.
CutOff(secret) == IF secret = "typed" THEN Secret ELSE {"absent", secret}

\* The run ends where it is: with an error, or killed.  A file that is being
\* filled is left with a part of its text.
Stop ==
  /\ CASE step = "state_file" -> UNCHANGED <<files, text>>
       [] step = "creds_file" ->
            \/ text' = [text EXCEPT !.creds = "broken"] /\ UNCHANGED files
            \/ /\ text' = [text EXCEPT !.creds = "part"]
               /\ \E part \in [Cluster -> Secret] \ {mem.creds} :
                    /\ \A c \in Cluster : part[c] \in CutOff(mem.creds[c])
                    /\ files' = [files EXCEPT !.creds = part]
       [] OTHER -> UNCHANGED <<files, text>>
  /\ cut' = IF step \in {"state_file", "creds_file"} THEN Region ELSE cut
  /\ End

\* Everything but the files and the step stays.
Writing ==
  UNCHANGED <<aws, changes, runs, skip, mem, left, region, todo, found, cluster, entry,
              upserted, faulted, changed, late>>

\* WriteToFile of the state: the file is truncated, unless it cannot be opened.
OpenState(ok) ==
  /\ step = "regions" /\ left = {}
  /\ IF ok
       THEN /\ files' = [files EXCEPT !.state = NoFiles.state]
            /\ text' = [text EXCEPT !.state = "broken"]
            /\ before' = files /\ step' = "state_file"
            /\ Writing /\ UNCHANGED cut
       ELSE Stop

\* The state is written to the file, or the command ends with the error.
FillState(ok) ==
  /\ step = "state_file"
  /\ IF ok
       THEN /\ files' = [files EXCEPT !.state = mem.state]
            /\ text' = [text EXCEPT !.state = "whole"]
            /\ cut' = cut \cup upserted
            /\ before' = NoFiles /\ step' = "credentials"
            /\ Writing
       ELSE Stop

\* WriteToFile of the credentials, only if the state was written; an empty
\* file parses, as one without clusters.
OpenCredentials(ok) ==
  /\ step = "credentials"
  /\ IF ok
       THEN /\ files' = [files EXCEPT !.creds = NoFiles.creds]
            /\ text' = [text EXCEPT !.creds = "part"]
            /\ before' = files /\ step' = "creds_file"
            /\ Writing /\ UNCHANGED cut
       ELSE Stop

FillCredentials(ok) ==
  /\ step = "creds_file"
  /\ IF ok
       THEN /\ files' = [files EXCEPT !.creds = mem.creds]
            /\ text' = [text EXCEPT !.creds = "whole"]
            /\ cut' = cut \ upserted
            /\ End
       ELSE Stop

Kill == step # "idle" /\ Stop

Environment ==
  \/ \E c \in Cluster, exists \in BOOLEAN, n \in Broker \cup {0} :
       Change(c, [exists |-> exists, brokers |-> n])
  \/ \E c \in Cluster : TypeSecret(c)
  \/ \E f \in {"state", "creds"} : RemoveFile(f)
  \/ Kill

ScanCluster ==
  \E fault \in BOOLEAN :
    \/ Describe(fault)
    \/ \E part \in Part : ReadPart(part, fault)
    \/ ReadNetworking(fault)
    \/ \E D \in SUBSET FirstPage : ReadConnectors(D, fault)
    \/ ReadTopics(fault)
    \/ ReadMetrics(fault)

Next ==
  \/ \E R \in SUBSET Region \ {{}}, o \in Options : Start(R, o)
  \/ \E ok \in BOOLEAN :
       (\E r \in Region : ReadConfigurations(r, ok)) \/ ReadCosts(ok) \/ ListClusters(ok)
  \/ \E c \in Cluster : StartCluster(c)
  \/ ScanCluster
  \/ UpsertRegion
  \/ \E ok \in BOOLEAN :
       OpenState(ok) \/ FillState(ok) \/ OpenCredentials(ok) \/ FillCredentials(ok)
  \/ Environment

Spec == Init /\ [][Next]_vars

-----------------------------------------------------------------------------
\* An entry of the state file is the whole of a cluster: everything was read
\* but what its kind does not have, however calls failed and AWS changed while
\* it was read.  A cluster deleted meanwhile cannot pass for one without a
\* policy, though both answer the policy call alike.
EntriesAreWhole ==
  \A c \in Recorded(files.state) :
    LET e == files.state[c]
        lacks == (IF c \in Serverless THEN ServerlessCannot \cup {"vpc"} ELSE {})
                   \cup (IF c \in HasPolicy THEN {} ELSE {"policy"})
    IN e.empty = lacks /\ e.read = Part \ lacks

\* The three places of an entry that speak of the brokers, the description,
\* the subnets joined with the node list and the metrics read after a second
\* description, agree unless AWS changed the cluster while it was read.  The
\* migration generator combines the last two.
BrokerCountsAgree ==
  \A c \in Recorded(files.state) :
    LET e == files.state[c]
    IN e.steady =>
         \A n \in e.metrics : e.brokers = n /\ Cardinality(e.subnets) = e.brokers

\* What the files hold for the properties below: a file that is being written
\* holds what it held before, until it is known whether the write succeeds.
View ==
  [state |-> IF step = "state_file" THEN before.state ELSE files.state,
   creds |-> IF step = "creds_file" THEN before.creds ELSE files.creds]

\* A typed secret, or a recorded cluster, leaves its file only if AWS failed
\* a call about the cluster, or deleted it, or some connector of the account
\* has an unsupported type, or the secret was typed after the command had
\* loaded the file, or if it is that file whose write is cut off, halfway
\* through.  The topics of a cluster that stays are not lost.  A write that
\* fails to begin, a kill at any other point and a cut-off write of the other
\* file take nothing.
NothingLeavesUnexplained ==
  [][\A c \in Cluster :
       LET explained == c \in faulted \/ ~aws[c].exists
       IN /\ View.creds[c] = "typed" =>
               \/ View'.creds[c] = "typed"
               \/ explained \/ c \in late
               \/ step = "creds_file" /\ text'.creds # "whole"
          /\ c \in Recorded(View.state) =>
               \/ c \in Recorded(View'.state)
                    /\ (View.state[c].topics # 0 => View'.state[c].topics # 0)
               \/ explained
               \/ step = "state_file" /\ text'.state # "whole"]_vars

\* The two files list the same clusters of a region, unless the last run that
\* read the region wrote the state and not the credentials, or a write of
\* either file was cut off halfway through since then; the next complete run
\* that reads the region heals that, also from a part of creds.yaml that
\* parses and from a file that was removed.
FilesAgree ==
  \A c \in Cluster : RegionOf[c] \notin cut =>
    (c \in Recorded(View.state) <=> View.creds[c] # "absent")
=============================================================================
