-------------------------- MODULE Discovery_proofs --------------------------
(***************************************************************************)
(* What is proved about kcp discover, for any regions, clusters,           *)
(* connectors and options, any number of runs and changes in AWS: types,   *)
(* that recorded entries are whole, that the three places which speak of   *)
(* the brokers agree, that the two files list the same clusters, and that  *)
(* what leaves the files does so for one of the stated reasons.            *)
(***************************************************************************)
EXTENDS Discovery, FiniteSetTheorems, TLAPS

Nodes == {Controller} \cup Broker

Entry ==
  [brokers : Nodes, read : SUBSET Part, empty : SUBSET Part, nodes : SUBSET Nodes,
   subnets : SUBSET Nodes, connectors : SUBSET Connector, topics : Nat,
   metrics : SUBSET Nodes, steady : BOOLEAN]

Files == [state : [Cluster -> Entry], creds : [Cluster -> Secret]]

(* The steps at which the files are written, one after the other.          *)
Writes == {"state_file", "credentials", "creds_file"}

Step == Described \cup Writes \cup {"idle", "regions", "costs", "list", "clusters", "describe"}

(* The clusters in AWS, the two files and their copies, and what is known  *)
(* of the current cluster have their types.                                *)
TypeOK ==
  /\ aws \in [Cluster -> [exists : BOOLEAN, brokers : Nodes]]
  /\ changes \in Nat /\ runs \in Nat
  /\ files \in Files /\ mem \in Files /\ before \in Files
  /\ text \in [state : {"whole", "part", "broken"}, creds : {"whole", "part", "broken"}]
  /\ step \in Step /\ skip \in [costs : BOOLEAN, topics : BOOLEAN, metrics : BOOLEAN]
  /\ todo \subseteq Cluster
  /\ found \in [Cluster -> Entry] /\ entry \in Entry
  /\ step \in Described \cup {"describe"} => cluster \in Cluster
  /\ changed \in BOOLEAN

-----------------------------------------------------------------------------
(* The inductive invariants. *)

(* The copies agree on the clusters of the regions this run has put in     *)
(* both, and are the files' on the others, a file being written counting   *)
(* as what it was; once the state file is written it is the copy, and its  *)
(* regions count as cut off.                                               *)
FilesInv ==
  /\ FilesAgree
  /\ step = "idle" => upserted = {}
  /\ step # "idle" =>
       \A c \in Cluster :
         IF RegionOf[c] \in upserted
           THEN mem.state[c].read # {} <=> mem.creds[c] # "absent"
           ELSE /\ mem.state[c] = View.state[c]
                /\ mem.creds[c] = "absent" <=> View.creds[c] = "absent"
  /\ step \in {"credentials", "creds_file"} => files.state = mem.state /\ upserted \subseteq cut

(* The calls answered when the command is at a step. *)
AnsweredAt(s) ==
  CASE s = "bootstrap" -> {}
    [] s = "vpc" -> {"bootstrap"}
    [] s = "operations" -> {"bootstrap", "vpc"}
    [] s = "nodes" -> {"bootstrap", "vpc", "operations"}
    [] s = "secrets" -> {"bootstrap", "vpc", "operations", "nodes"}
    [] s = "policy" -> {"bootstrap", "vpc", "operations", "nodes", "secrets"}
    [] s = "versions" -> {"bootstrap", "vpc", "operations", "nodes", "secrets", "policy"}
    [] OTHER -> Part

(* What a cluster of its kind does not have, the policy aside. *)
KindLacks(c) == IF c \in Serverless THEN ServerlessCannot \cup {"vpc"} ELSE {}

Lacks(c) == KindLacks(c) \cup (IF c \in HasPolicy THEN {} ELSE {"policy"})

Whole(c, e) == e.empty = Lacks(c) /\ e.read = Part \ Lacks(c)

(* What is known of the current cluster at step s.  Every call so far was  *)
(* answered one way or the other.  An empty policy may be a deleted        *)
(* cluster's, but then reading the compatible versions fails.              *)
Known(s, e) ==
  LET answered == AnsweredAt(s)
  IN /\ e.read \cup e.empty = answered
     /\ e.read \cap e.empty = {}
     /\ KindLacks(cluster) \cap answered \subseteq e.empty
     /\ e.empty \subseteq KindLacks(cluster) \cup {"policy"}
     /\ "policy" \in answered /\ cluster \notin HasPolicy => "policy" \in e.empty
     /\ "policy" \in e.empty =>
          cluster \notin HasPolicy \/ (s = "versions" /\ ~aws[cluster].exists)

RecordedWhole(entries) == \A c \in Cluster : entries[c].read # {} => Whole(c, entries[c])

EntryInv ==
  /\ step = "describe" => entry = NoEntry
  /\ step \in Described => Known(step, entry)
  /\ RecordedWhole(found) /\ RecordedWhole(mem.state) /\ RecordedWhole(files.state)

(* What is known of the brokers at step s: as long as AWS leaves the       *)
(* current cluster alone it is what AWS would still say.                   *)
BrokersAt(s, e) ==
  /\ e.metrics = {}
  /\ s \in Part \cup {"networking"} => e.subnets = {}
  /\ ~changed => e.brokers = aws[cluster].brokers
  /\ s \in {"secrets", "policy", "versions", "networking"} /\ ~changed /\ cluster \notin Serverless =>
       e.nodes = NodesOf(cluster)
  /\ s \in {"connectors", "topics", "metrics"} /\ ~changed => e.subnets = 1..e.brokers

Agrees(e) ==
  e.steady => \A n \in e.metrics : e.brokers = n /\ e.subnets = 1..e.brokers

AllAgree(entries) == \A c \in Cluster : Agrees(entries[c])

BrokerInv ==
  /\ \A c \in Serverless : aws[c].brokers = 0
  /\ step = "describe" => entry = NoEntry
  /\ step \in Described => BrokersAt(step, entry)
  /\ AllAgree(found) /\ AllAgree(mem.state) /\ AllAgree(files.state)

Explained(c) == c \in faulted \/ ~aws[c].exists

(* What a run has done so far to a recorded cluster or a typed secret is   *)
(* explained: regions put in the copies have kept them or a reason not to, *)
(* no region is read twice, and in the current region every cluster is     *)
(* still to be read, read, being read, or explained.                       *)
LeaveInv ==
  /\ step # "idle" =>
       /\ left \cap upserted = {}
       /\ step \notin {"regions"} \cup Writes => region \notin upserted \cup left
       /\ \A c \in Cluster : View.creds[c] = "typed" =>
            mem.creds[c] = "typed" \/ c \in late \/ (RegionOf[c] \in upserted /\ Explained(c))
       /\ step \notin {"credentials", "creds_file"} =>
            \A c \in Cluster : RegionOf[c] \in upserted /\ View.state[c].read # {} =>
              \/ /\ mem.state[c].read # {}
                 /\ View.state[c].topics # 0 => mem.state[c].topics # 0
              \/ Explained(c)
  /\ step \in Described \cup {"describe", "clusters"} =>
       \A c \in Cluster : RegionOf[c] = region =>
         c \in todo \/ found[c].read # {} \/ Explained(c) \/ (step # "clusters" /\ c = cluster)
  /\ step = "state_file" => text.state = "broken"

-----------------------------------------------------------------------------
(* Types. *)

LEMMA NothingTyped == NoEntry \in Entry /\ NoFiles \in Files
BY DEF NoEntry, NoFiles, Files, Secret, Entry, Nodes, Controller

LEMMA NodesNatural == Nodes = 0..MaxBrokers
BY DiscoveryAssumption DEF Nodes, Controller, Broker

(* The call after one about the current cluster is another one about it.   *)
LEMMA FollowingStep == ASSUME NEW s \in Described \cup {"describe"}, s # "metrics"
                       PROVE  Following[s] \in Described
BY DEF Following, Described, Part

LEMMA FoundTyped ==
  ASSUME NEW R, NEW c, NEW e, NEW f, Forget(R, c, e, f)
  PROVE  e \in Entry /\ f \in [Cluster -> Entry]
BY NothingTyped DEF Forget

(* A step about the current cluster ends its scan or goes on with it.       *)
LEMMA ScanStep ==
  ASSUME ScanCluster
  PROVE  /\ InCluster
         /\ step \in Described \cup {"describe"}
         /\ step' = "clusters" \/ step' \in Described
<1> PICK fault \in BOOLEAN :
      \/ Describe(fault)
      \/ \E part \in Part : ReadPart(part, fault)
      \/ ReadNetworking(fault)
      \/ \E D \in SUBSET FirstPage : ReadConnectors(D, fault)
      \/ ReadTopics(fault)
      \/ ReadMetrics(fault)
  BY DEF ScanCluster
<1>1. InCluster
  BY DEF Describe, ReadPart, ReadNetworking, ReadConnectors, ReadTopics, ReadMetrics
<1>2. step \in Described \cup {"describe"}
  BY DEF Describe, ReadPart, ReadNetworking, ReadConnectors, ReadTopics, ReadMetrics, Described
<1>3. CASE ReadMetrics(fault)
  BY <1>1, <1>2, <1>3 DEF ReadMetrics, Drop
<1>4. CASE ~ReadMetrics(fault)
  <2>1. step # "metrics"
    BY <1>4 DEF Describe, ReadPart, ReadNetworking, ReadConnectors, ReadTopics, Part
  <2>2. step' = "clusters" \/ step' = Following[step]
    BY <1>4 DEF Describe, ReadPart, ReadNetworking, ReadConnectors, ReadTopics, Drop, Continue
  <2>3. QED
    BY <1>1, <1>2, <2>1, <2>2, FollowingStep
<1>5. QED
  BY <1>3, <1>4

(* What the steps about one cluster do to its entry is to keep its type.   *)
LEMMA ScanTyped ==
  ASSUME TypeOK, ScanCluster
  PROVE  TypeOK'
<1> PICK fault \in BOOLEAN :
      \/ Describe(fault)
      \/ \E part \in Part : ReadPart(part, fault)
      \/ ReadNetworking(fault)
      \/ \E D \in SUBSET FirstPage : ReadConnectors(D, fault)
      \/ ReadTopics(fault)
      \/ ReadMetrics(fault)
  BY DEF ScanCluster
<1>0. /\ step \in Described \cup {"describe"} => aws[cluster].brokers \in Nodes
      /\ step \in Described \cup {"describe"} => NodesOf(cluster) \subseteq Nodes
  BY NodesNatural, DiscoveryAssumption DEF TypeOK, NodesOf, Controller
<1>1. InCluster /\ Drop(TRUE) => TypeOK'
  BY NothingTyped DEF TypeOK, InCluster, Drop, Step, Described, Part
<1>2. InCluster /\ Drop(FALSE) => TypeOK'
  BY NothingTyped DEF TypeOK, InCluster, Drop, Step, Described, Part
<1>3. ASSUME NEW e \in Entry, InCluster, Continue(e), step \in Described \cup {"describe"}, step # "metrics"
      PROVE  TypeOK'
  BY <1>3, FollowingStep DEF TypeOK, InCluster, Continue, Step
<1>4. CASE Describe(fault)
  <2>1. [entry EXCEPT !.brokers = aws[cluster].brokers] \in Entry
    BY <1>0, <1>4 DEF Describe, TypeOK, Entry, Described
  <2>2. QED
    BY <1>1, <1>2, <1>3, <1>4, <2>1 DEF Describe, Described
<1>5. ASSUME NEW part \in Part, ReadPart(part, fault)
      PROVE  TypeOK'
  <2> DEFINE e == [entry EXCEPT !.read = @ \cup {part}, !.nodes = IF part = "nodes" THEN NodesOf(cluster) ELSE @]
             n == [entry EXCEPT !.empty = @ \cup {part}]
  <2>1. step \in Described /\ step # "metrics"
    BY <1>5 DEF ReadPart, Described, Part
  <2>2. e \in Entry /\ n \in Entry
    BY <1>0, <2>1 DEF TypeOK, Entry
  <2>3. Drop(TRUE) \/ Drop(FALSE) \/ Continue(e) \/ Continue(n)
    BY <1>5 DEF ReadPart
  <2>4. InCluster
    BY <1>5 DEF ReadPart
  <2> HIDE DEF e, n
  <2>5. QED
    BY <1>1, <1>2, <1>3, <2>1, <2>2, <2>3, <2>4
<1>6. CASE ReadNetworking(fault)
  <2>1. [entry EXCEPT !.subnets = CombinedSubnets(entry.nodes)] \in Entry /\ entry \in Entry
    BY DEF TypeOK, Entry, CombinedSubnets
  <2>2. step \in Described /\ step # "metrics" /\ InCluster
    BY <1>6 DEF ReadNetworking, Described
  <2>3. QED
    BY <1>1, <1>3, <1>6, <2>1, <2>2 DEF ReadNetworking
<1>7. ASSUME NEW D \in SUBSET FirstPage, ReadConnectors(D, fault)
      PROVE  TypeOK'
  <2> DEFINE e == [entry EXCEPT !.connectors = {k \in FirstPage \ D : Matches(k, cluster)}]
  <2>1. e \in Entry
    BY DiscoveryAssumption DEF TypeOK, Entry
  <2>2. step \in Described /\ step # "metrics" /\ InCluster /\ (Drop(TRUE) \/ Continue(e))
    BY <1>7 DEF ReadConnectors, Described
  <2> HIDE DEF e
  <2>3. QED
    BY <1>1, <1>3, <2>1, <2>2
<1>8. CASE ReadTopics(fault)
  <2> DEFINE e == [entry EXCEPT !.topics = IF skip.topics \/ fault \/ ~aws[cluster].exists THEN 0 ELSE runs]
  <2>1. e \in Entry
    BY DEF TypeOK, Entry
  <2>2. step \in Described /\ step # "metrics" /\ InCluster /\ Continue(e)
    BY <1>8 DEF ReadTopics, Described
  <2> HIDE DEF e
  <2>3. QED
    BY <1>3, <2>1, <2>2
<1>9. CASE ReadMetrics(fault)
  <2> DEFINE e == [entry EXCEPT !.metrics = {aws[cluster].brokers}, !.steady = ~changed]
             f == IF skip.metrics THEN entry ELSE e
  <2>1. step = "metrics" /\ InCluster
    BY <1>9 DEF ReadMetrics
  <2>2. {aws[cluster].brokers} \in SUBSET Nodes
    BY <1>0, <2>1 DEF Described
  <2>3. e \in Entry
    BY <2>2 DEF TypeOK, Entry
  <2>4. f \in Entry
    BY <2>3 DEF TypeOK
  <2>5. \/ Drop(fault)
        \/ /\ found' = [found EXCEPT ![cluster] = f]
           /\ step' = "clusters" /\ entry' = NoEntry /\ changed' = FALSE
    BY <1>9 DEF ReadMetrics
  <2> HIDE DEF f
  <2>6. QED
    BY <1>1, <1>2, <2>1, <2>4, <2>5, NothingTyped DEF TypeOK, InCluster, Step, Described
<1>10. QED
  BY <1>4, <1>5, <1>6, <1>7, <1>8, <1>9

LEMMA EndTyped ==
  ASSUME TypeOK, End, files' \in Files, text' \in [state : {"whole", "part", "broken"}, creds : {"whole", "part", "broken"}]
  PROVE  TypeOK'
BY FoundTyped, NothingTyped DEF TypeOK, End, Step, Writes, NoSkip, Described, Part

LEMMA StopTyped ==
  ASSUME TypeOK, Stop
  PROVE  TypeOK'
<1>1. End
  BY DEF Stop
<1>2. files' \in Files
  BY DEF Stop, TypeOK, Files
<1>3. text' \in [state : {"whole", "part", "broken"}, creds : {"whole", "part", "broken"}]
  BY DEF Stop, TypeOK
<1>4. QED
  BY <1>1, <1>2, <1>3, EndTyped

(* A run that stops leaves the state file as it is; creds.yaml only loses   *)
(* something, and only if it was being filled.                             *)
LEMMA StopFiles ==
  ASSUME TypeOK, Stop
  PROVE  /\ End /\ files'.state = files.state
         /\ step # "creds_file" => files' = files
         /\ step = "creds_file" => text'.creds # "whole"
         /\ step # "creds_file" => text' = text
         /\ cut' = IF step \in {"state_file", "creds_file"} THEN Region ELSE cut
BY DEF Stop, TypeOK, Files

LEMMA TypeInit == Init => TypeOK
<1> SUFFICES ASSUME Init PROVE TypeOK
  OBVIOUS
<1>1. 1 \in Nodes /\ 0 \in Nodes
  BY NodesNatural, DiscoveryAssumption
<1>2. files \in Files /\ mem \in Files /\ before \in Files
  BY NothingTyped DEF Init
<1>3. QED
  BY <1>1, <1>2, FoundTyped DEF Init, TypeOK, Step, NoSkip, Described, Part

LEMMA TypeNext == TypeOK /\ [Next]_vars => TypeOK'
<1> SUFFICES ASSUME TypeOK, [Next]_vars PROVE TypeOK'
  OBVIOUS
<1> USE DEF Step, Writes, Described, Part
<1>1. ASSUME NEW R \in SUBSET Region \ {{}}, NEW o \in Options, Start(R, o)
      PROVE  TypeOK'
  <2>1. o \in [costs : BOOLEAN, topics : BOOLEAN, metrics : BOOLEAN]
    BY DiscoveryAssumption
  <2>2. QED
    BY <1>1, <2>1 DEF Start, TypeOK, history
<1>2. ASSUME NEW ok \in BOOLEAN, NEW r \in Region, ReadConfigurations(r, ok)
      PROVE  TypeOK'
  BY <1>2 DEF ReadConfigurations, InRegion, TypeOK, history
<1>3. ASSUME NEW ok \in BOOLEAN, ReadCosts(ok)
      PROVE  TypeOK'
  BY <1>3 DEF ReadCosts, InRegion, TypeOK, history
<1>4. ASSUME NEW ok \in BOOLEAN, ListClusters(ok)
      PROVE  TypeOK'
  BY <1>4, NothingTyped DEF ListClusters, InRegion, TypeOK, history
<1>5. ASSUME NEW c \in Cluster, StartCluster(c)
      PROVE  TypeOK'
  BY <1>5, NothingTyped DEF StartCluster, TypeOK
<1>6. CASE ScanCluster
  BY <1>6, ScanTyped
<1>7. CASE UpsertRegion
  <2>1. \A c \in Cluster : UpsertedEntry(c) \in Entry /\ UpsertedSecret(c) \in Secret
    <3>1. \A c \in Cluster : found[c] \in Entry /\ mem.state[c].topics \in Nat
      BY DEF TypeOK, Files, Entry
    <3>2. \A e \in Entry, t \in Nat : [e EXCEPT !.topics = t] \in Entry
      BY DEF Entry
    <3>3. \A c \in Cluster : UpsertedEntry(c) \in Entry
      BY <3>1, <3>2 DEF UpsertedEntry
    <3>4. \A c \in Cluster : UpsertedSecret(c) \in Secret
      BY DEF TypeOK, UpsertedSecret, Files, Secret
    <3>5. QED
      BY <3>3, <3>4
  <2>2. mem' \in Files
    BY <1>7, <2>1 DEF UpsertRegion, TypeOK, Files
  <2>3. QED
    BY <1>7, <2>2, FoundTyped DEF UpsertRegion, TypeOK
<1>8. ASSUME NEW ok \in BOOLEAN, OpenState(ok) \/ FillState(ok) \/ OpenCredentials(ok)
      PROVE  TypeOK'
  <2>1. CASE ok
    <3>1. files' \in Files /\ before' \in Files
      BY <1>8, <2>1, NothingTyped DEF OpenState, FillState, OpenCredentials, TypeOK, Files
    <3>2. text' \in [state : {"whole", "part", "broken"}, creds : {"whole", "part", "broken"}]
      BY <1>8, <2>1 DEF OpenState, FillState, OpenCredentials, TypeOK
    <3>3. Writing /\ step' \in Writes
      BY <1>8, <2>1 DEF OpenState, FillState, OpenCredentials, Writes
    <3>4. QED
      BY <3>1, <3>2, <3>3 DEF Writing, TypeOK, Writes
  <2>2. CASE ~ok
    BY <1>8, <2>2, StopTyped DEF OpenState, FillState, OpenCredentials
  <2>3. QED
    BY <2>1, <2>2
<1>9. ASSUME NEW ok \in BOOLEAN, FillCredentials(ok)
      PROVE  TypeOK'
  <2>1. CASE ok
    <3>1. files' \in Files /\ End
      BY <1>9, <2>1 DEF FillCredentials, TypeOK, Files
    <3>2. text' \in [state : {"whole", "part", "broken"}, creds : {"whole", "part", "broken"}]
      BY <1>9, <2>1 DEF FillCredentials, TypeOK
    <3>3. QED
      BY <3>1, <3>2, EndTyped
  <2>2. CASE ~ok
    BY <1>9, <2>2, StopTyped DEF FillCredentials
  <2>3. QED
    BY <2>1, <2>2
<1>10. ASSUME NEW c \in Cluster, NEW exists \in BOOLEAN, NEW n \in Broker \cup {0},
              Change(c, [exists |-> exists, brokers |-> n])
       PROVE  TypeOK'
  <2>1. changed' \in BOOLEAN
    BY <1>10 DEF Change, TypeOK
  <2>2. QED
    BY <1>10, <2>1 DEF Change, TypeOK, Nodes, Controller, command
<1>11. ASSUME NEW c \in Cluster, TypeSecret(c)
       PROVE  TypeOK'
  BY <1>11 DEF TypeSecret, TypeOK, Files, Secret, command
<1>12. CASE Kill
  BY <1>12, StopTyped DEF Kill
<1>13. ASSUME NEW f \in {"state", "creds"}, RemoveFile(f)
       PROVE  TypeOK'
  BY <1>13 DEF RemoveFile, TypeOK, command, history
<1>14. CASE UNCHANGED vars
  BY <1>14 DEF TypeOK, vars, command, history
<1>15. QED
  BY <1>1, <1>2, <1>3, <1>4, <1>5, <1>6, <1>7, <1>8, <1>9, <1>10, <1>11, <1>12, <1>13, <1>14
     DEF Next, Environment

(* Whatever fails and whatever AWS does, the files and their copies hold   *)
(* entries and secrets, and what is known of a cluster is an entry.        *)
THEOREM TypeCorrect == Spec => []TypeOK
BY TypeInit, TypeNext, PTL DEF Spec

-----------------------------------------------------------------------------
(* The two files. *)

LEMMA FilesInit == Init => FilesInv
BY DEF Init, FilesInv, FilesAgree, View, Recorded, NoFiles, NoEntry

(* Outside the writes of a file the files are what they hold. *)
LEMMA ViewStays ==
  ASSUME UNCHANGED <<files, before>>,
         step \notin {"state_file", "creds_file"}, step' \notin {"state_file", "creds_file"}
  PROVE  View' = View
BY DEF View

(* The steps that read leave files, copies and upserted regions alone.     *)
LEMMA FilesReading ==
  ASSUME FilesInv, step \notin {"idle"} \cup Writes, step' \notin {"idle"} \cup Writes,
         UNCHANGED <<files, before, mem, upserted, cut>>
  PROVE  FilesInv'
BY DEF FilesInv, FilesAgree, View, Recorded, Writes

LEMMA FilesNext == TypeOK /\ FilesInv /\ [Next]_vars => FilesInv'
<1> SUFFICES ASSUME TypeOK, FilesInv, [Next]_vars PROVE FilesInv'
  OBVIOUS
<1>1. ASSUME NEW R \in SUBSET Region \ {{}}, NEW o \in Options, Start(R, o)
      PROVE  FilesInv'
  BY <1>1 DEF Start, FilesInv, FilesAgree, View, Recorded, history
<1>2. ASSUME NEW ok \in BOOLEAN,
             (\E r \in Region : ReadConfigurations(r, ok)) \/ ReadCosts(ok) \/ ListClusters(ok)
      PROVE  FilesInv'
  BY <1>2, FilesReading DEF ReadConfigurations, ReadCosts, ListClusters, InRegion, history, Writes
<1>3. ASSUME NEW c \in Cluster, StartCluster(c)
      PROVE  FilesInv'
  BY <1>3, FilesReading DEF StartCluster, Writes
<1>4. CASE ScanCluster
  BY <1>4, ScanStep, FilesReading DEF InCluster, Described, Part, Writes
<1>5. CASE UpsertRegion
  <2>1. ASSUME NEW c \in Cluster, RegionOf[c] = region
        PROVE  mem'.state[c].read # {} <=> mem'.creds[c] # "absent"
    <3>1. mem'.state[c] = UpsertedEntry(c) /\ mem'.creds[c] = UpsertedSecret(c)
      BY <1>5, <2>1 DEF UpsertRegion
    <3>2. UpsertedEntry(c).read = found[c].read
      BY DEF UpsertedEntry, TypeOK, Entry
    <3>3. QED
      BY <3>1, <3>2 DEF UpsertedSecret
  <2>2. ASSUME NEW c \in Cluster, RegionOf[c] # region
        PROVE  mem'.state[c] = mem.state[c] /\ mem'.creds[c] = mem.creds[c]
    BY <1>5, <2>2 DEF UpsertRegion
  <2>3. step = "clusters" /\ step' = "regions"
    BY <1>5 DEF UpsertRegion
  <2>4. upserted' = upserted \cup {region} /\ UNCHANGED <<files, before, cut>>
    BY <1>5 DEF UpsertRegion
  <2>5. View' = View
    BY <2>3, <2>4, ViewStays
  <2> HIDE DEF View
  <2>6. QED
    BY <2>1, <2>2, <2>3, <2>4, <2>5 DEF FilesInv, FilesAgree, Recorded
<1>6. CASE Stop
  <2>1. End /\ step' = "idle" /\ upserted' = {} /\ files'.state = files.state
    BY <1>6, StopFiles DEF End
  <2>2. CASE step \in {"state_file", "creds_file"}
    <3>1. cut' = Region /\ \A c \in Cluster : RegionOf[c] \in Region
      BY <1>6, <2>2, StopFiles, DiscoveryAssumption
    <3>2. QED
      BY <2>1, <3>1 DEF FilesInv, FilesAgree
  <2>3. CASE step \notin {"state_file", "creds_file"}
    <3>1. files' = files /\ cut' = cut
      BY <1>6, <2>3, StopFiles
    <3>2. QED
      BY <2>1, <2>3, <3>1 DEF FilesInv, FilesAgree, View, Recorded
  <2>4. QED
    BY <2>2, <2>3
<1>7. ASSUME NEW ok \in BOOLEAN, OpenState(ok) \/ OpenCredentials(ok)
      PROVE  FilesInv'
  <2>1. CASE ok
    <3>1. /\ View'.state = View.state /\ View'.creds = View.creds
          /\ step' = "creds_file" => step = "credentials" /\ files'.state = files.state
          /\ step \notin {"idle", "state_file", "creds_file"} /\ step' \in {"state_file", "creds_file"}
      BY <1>7, <2>1 DEF OpenState, OpenCredentials, View, TypeOK, Files
    <3>2. UNCHANGED <<mem, upserted, cut>>
      BY <1>7, <2>1 DEF OpenState, OpenCredentials, Writing
    <3> HIDE DEF View
    <3>3. QED
      BY <3>1, <3>2 DEF FilesInv, FilesAgree, Recorded
  <2>2. CASE ~ok
    BY <1>6, <1>7, <2>2 DEF OpenState, OpenCredentials
  <2>3. QED
    BY <2>1, <2>2
<1>8. ASSUME NEW ok \in BOOLEAN, FillState(ok)
      PROVE  FilesInv'
  <2>1. CASE ok
    <3>1. /\ files'.state = mem.state /\ files'.creds = files.creds
          /\ cut' = cut \cup upserted /\ step' = "credentials" /\ step = "state_file"
          /\ UNCHANGED <<mem, upserted>>
      BY <1>8, <2>1 DEF FillState, Writing, TypeOK, Files
    <3>2. /\ View'.state = mem.state /\ View'.creds = View.creds
      BY <3>1 DEF View
    <3> HIDE DEF View
    <3>3. QED
      BY <3>1, <3>2 DEF FilesInv, FilesAgree, Recorded
  <2>2. CASE ~ok
    BY <1>6, <1>8, <2>2 DEF FillState
  <2>3. QED
    BY <2>1, <2>2
<1>9. ASSUME NEW ok \in BOOLEAN, FillCredentials(ok)
      PROVE  FilesInv'
  <2>1. CASE ok
    <3>1. files'.state = mem.state /\ files'.creds = mem.creds
      BY <1>9, <2>1 DEF FillCredentials, FilesInv, TypeOK, Files
    <3>2. /\ step = "creds_file" /\ step' = "idle" /\ upserted' = {} /\ mem' = files'
          /\ cut' = cut \ upserted
      BY <1>9, <2>1 DEF FillCredentials, End
    <3>3. View.state = files.state /\ View'.state = mem.state /\ View'.creds = mem.creds
      BY <3>1, <3>2 DEF View
    <3>4. files.state = mem.state
      BY <3>2 DEF FilesInv
    <3> HIDE DEF View
    <3>5. ASSUME NEW c \in Cluster, RegionOf[c] \notin cut'
          PROVE  mem.state[c].read # {} <=> mem.creds[c] # "absent"
      <4>1. CASE RegionOf[c] \in upserted
        BY <3>2, <4>1 DEF FilesInv
      <4>2. CASE RegionOf[c] \notin upserted
        BY <3>2, <3>5, <4>2 DEF FilesInv, FilesAgree, Recorded
      <4>3. QED
        BY <4>1, <4>2
    <3>6. QED
      BY <3>2, <3>3, <3>5 DEF FilesInv, FilesAgree, Recorded
  <2>2. CASE ~ok
    BY <1>6, <1>9, <2>2 DEF FillCredentials
  <2>3. QED
    BY <2>1, <2>2
<1>10. ASSUME NEW c \in Cluster, TypeSecret(c)
       PROVE  FilesInv'
  <2>1. /\ files'.state = files.state
        /\ \A d \in Cluster : files'.creds[d] = "absent" <=> files.creds[d] = "absent"
    BY <1>10 DEF TypeSecret, TypeOK, Files
  <2>2. UNCHANGED <<step, mem, upserted, cut, before>>
    BY <1>10 DEF TypeSecret, command
  <2>3. /\ View'.state = View.state
        /\ \A d \in Cluster : View'.creds[d] = "absent" <=> View.creds[d] = "absent"
    BY <2>1, <2>2 DEF View
  <2> HIDE DEF View
  <2>4. QED
    BY <2>1, <2>2, <2>3 DEF FilesInv, FilesAgree, Recorded
<1>11. CASE UNCHANGED <<files, before, step, mem, upserted, cut>>
  BY <1>11 DEF FilesInv, FilesAgree, View, Recorded
<1>12. CASE \E c \in Cluster, exists \in BOOLEAN, n \in Broker \cup {0} :
             Change(c, [exists |-> exists, brokers |-> n])
  BY <1>11, <1>12 DEF Change, command
<1>13. CASE UNCHANGED vars \/ \E f \in {"state", "creds"} : RemoveFile(f)
  BY <1>11, <1>13 DEF vars, RemoveFile, command, history
<1>14. QED
  BY <1>1, <1>2, <1>3, <1>4, <1>5, <1>6, <1>7, <1>8, <1>9, <1>10, <1>12, <1>13 DEF Next, Environment, Kill

(* The two files list the same clusters of every region that was not cut   *)
(* off in or between the two writes, however many runs failed, were killed *)
(* or met a changed AWS, and whatever was typed meanwhile.                 *)
THEOREM FilesStayInStep == Spec => []FilesAgree
<1>1. TypeOK /\ FilesInv /\ [Next]_vars => (TypeOK /\ FilesInv)'
  BY TypeNext, FilesNext
<1>2. FilesInv => FilesAgree
  BY DEF FilesInv
<1>3. QED
  BY TypeInit, FilesInit, <1>1, <1>2, PTL DEF Spec

-----------------------------------------------------------------------------
(* Whole entries. *)

LEMMA NothingRecorded ==
  ASSUME NEW f, f = [c \in Cluster |-> NoEntry]
  PROVE  RecordedWhole(f)
BY DEF RecordedWhole, NoEntry

LEMMA EntryInit == Init => EntryInv
BY NothingRecorded DEF Init, EntryInv, Described, Part, Forget, NoFiles

(* At the last step the entry is whole. *)
LEMMA KnownWhole ==
  ASSUME NEW s, s = "metrics", NEW e, Known(s, e)
  PROVE  Whole(cluster, e)
<1>1. AnsweredAt(s) = Part
  BY DEF AnsweredAt
<1>2. e.empty = Lacks(cluster)
  BY <1>1 DEF Known, Lacks, KindLacks, Part, ServerlessCannot
<1>3. QED
  BY <1>1, <1>2 DEF Known, Whole

(* A call answered is one more that is known. *)
LEMMA AnsweredNext ==
  ASSUME NEW s \in Part
  PROVE  /\ AnsweredAt(Following[s]) = AnsweredAt(s) \cup {s}
         /\ s \notin AnsweredAt(s)
         /\ "policy" \in AnsweredAt(s) => s = "versions"
         /\ Following[s] = "versions" <=> s = "policy"
BY DEF AnsweredAt, Following, Part

LEMMA PartKnown ==
  ASSUME TypeOK, NEW part \in Part, step = part, Known(part, entry), NEW fault \in BOOLEAN,
         ReadPart(part, fault), ~(step' = "clusters")
  PROVE  Known(Following[part], entry')
<1> DEFINE answer == Answer(cluster, part)
<1>1. Following[part] # "clusters" /\ Following[part] \in Described
  BY FollowingStep DEF Described, Part
<1>2. ~fault /\ (answer = "ok" \/ Tolerated(part, answer))
  BY <1>1 DEF ReadPart, Drop, Continue
<1>3. /\ AnsweredAt(Following[part]) = AnsweredAt(part) \cup {part}
      /\ part \notin AnsweredAt(part)
      /\ "policy" \in AnsweredAt(part) => part = "versions"
      /\ Following[part] = "versions" <=> part = "policy"
  BY AnsweredNext
<1>4. CASE answer = "ok"
  <2>1. entry'.read = entry.read \cup {part} /\ entry'.empty = entry.empty
    BY <1>2, <1>4 DEF ReadPart, Continue, TypeOK, Entry
  <2>2. /\ part \notin KindLacks(cluster) /\ aws[cluster].exists
        /\ part = "policy" => cluster \in HasPolicy
    BY <1>4 DEF Answer, KindLacks
  <2> HIDE DEF answer
  <2>3. QED
    BY <1>3, <2>1, <2>2 DEF Known
<1>5. CASE answer # "ok"
  <2>1. entry'.read = entry.read /\ entry'.empty = entry.empty \cup {part}
    BY <1>2, <1>5 DEF ReadPart, Continue, TypeOK, Entry
  <2>2. /\ part \in KindLacks(cluster) \cup {"policy"}
        /\ part # "policy" => aws[cluster].exists
        /\ part = "policy" => ~aws[cluster].exists \/ cluster \notin HasPolicy
    BY <1>2, <1>5 DEF Tolerated, Answer, KindLacks, ServerlessCannot
  <2> HIDE DEF answer
  <2>3. QED
    BY <1>3, <2>1, <2>2 DEF Known
<1>6. QED
  BY <1>4, <1>5

(* The steps after the calls change neither what was read nor what was not. *)
LEMMA KnownStays ==
  ASSUME NEW s \in {"networking", "connectors", "topics"}, Known(s, entry), NEW e,
         e.read = entry.read, e.empty = entry.empty
  PROVE  Known(Following[s], e)
<1>1. AnsweredAt(s) = Part /\ AnsweredAt(Following[s]) = Part /\ s # "versions" /\ Following[s] # "versions"
  BY DEF AnsweredAt, Following
<1>2. QED
  BY <1>1 DEF Known

LEMMA ScanEntry ==
  ASSUME TypeOK, EntryInv, ScanCluster
  PROVE  EntryInv'
<1> PICK fault \in BOOLEAN :
      \/ Describe(fault)
      \/ \E part \in Part : ReadPart(part, fault)
      \/ ReadNetworking(fault)
      \/ \E D \in SUBSET FirstPage : ReadConnectors(D, fault)
      \/ ReadTopics(fault)
      \/ ReadMetrics(fault)
  BY DEF ScanCluster
<1>0. UNCHANGED <<aws, cluster, files, mem>>
  BY ScanStep DEF InCluster
<1>1. ASSUME step' = "clusters", found' = found
      PROVE  EntryInv'
  BY <1>0, <1>1 DEF EntryInv, RecordedWhole, Whole, Described, Part
<1>2. ASSUME step' \in Described, found' = found, Known(step', entry')
      PROVE  EntryInv'
  <2>1. Known(step, entry)'
    BY <1>0, <1>2 DEF Known
  <2>2. step' # "describe"
    BY <1>2 DEF Described, Part
  <2>3. QED
    BY <1>0, <1>2, <2>1, <2>2 DEF EntryInv, RecordedWhole, Whole
<1>3. CASE Describe(fault)
  <2>1. CASE fault \/ ~aws[cluster].exists
    BY <1>1, <1>3, <2>1 DEF Describe, Drop
  <2>2. CASE ~(fault \/ ~aws[cluster].exists)
    <3>1. /\ step = "describe" /\ step' = "bootstrap" /\ found' = found
          /\ entry'.read = {} /\ entry'.empty = {}
      BY <1>3, <2>2 DEF Describe, Continue, Following, EntryInv, NoEntry
    <3>2. Known(step', entry')
      BY <3>1 DEF Known, AnsweredAt
    <3>3. QED
      BY <1>2, <3>1, <3>2 DEF Described, Part
  <2>3. QED
    BY <2>1, <2>2
<1>4. ASSUME NEW part \in Part, ReadPart(part, fault)
      PROVE  EntryInv'
  <2>1. step = part /\ Known(part, entry) /\ found' = found
    BY <1>4 DEF ReadPart, EntryInv, Described, Drop, Continue
  <2>2. CASE step' = "clusters"
    BY <1>1, <2>1, <2>2
  <2>3. CASE step' # "clusters"
    <3>1. step' = Following[part] /\ step' \in Described
      BY <1>4, <2>1, <2>3, FollowingStep DEF ReadPart, Drop, Continue, Described, Part
    <3>2. QED
      BY <1>2, <1>4, <2>1, <2>3, <3>1, PartKnown
  <2>4. QED
    BY <2>2, <2>3
<1>5. ASSUME NEW s \in {"networking", "connectors", "topics"}, NEW e, step = s, Continue(e),
             e.read = entry.read, e.empty = entry.empty
      PROVE  EntryInv'
  <2>1. Known(s, entry)
    BY <1>5 DEF EntryInv, Described
  <2>2. Known(Following[s], e)
    BY <1>5, <2>1, KnownStays
  <2>3. step' = Following[s] /\ entry' = e /\ found' = found /\ step' \in Described
    BY <1>5, FollowingStep DEF Continue, Described
  <2>4. QED
    BY <1>2, <2>2, <2>3
<1>6. CASE ReadNetworking(fault)
  <2> DEFINE e == [entry EXCEPT !.subnets = CombinedSubnets(entry.nodes)]
  <2>1. step = "networking" /\ (Drop(TRUE) \/ Continue(entry) \/ Continue(e))
    BY <1>6 DEF ReadNetworking
  <2>2. e.read = entry.read /\ e.empty = entry.empty
    BY DEF TypeOK, Entry
  <2>3. Drop(TRUE) => EntryInv'
    BY <1>1 DEF Drop
  <2> HIDE DEF e
  <2>4. QED
    BY <1>5, <2>1, <2>2, <2>3
<1>7. ASSUME NEW D \in SUBSET FirstPage, ReadConnectors(D, fault)
      PROVE  EntryInv'
  <2> DEFINE e == [entry EXCEPT !.connectors = {k \in FirstPage \ D : Matches(k, cluster)}]
  <2>1. step = "connectors" /\ (Drop(TRUE) \/ Continue(e))
    BY <1>7 DEF ReadConnectors
  <2>2. e.read = entry.read /\ e.empty = entry.empty
    BY DEF TypeOK, Entry
  <2>3. Drop(TRUE) => EntryInv'
    BY <1>1 DEF Drop
  <2> HIDE DEF e
  <2>4. QED
    BY <1>5, <2>1, <2>2, <2>3
<1>8. CASE ReadTopics(fault)
  <2> DEFINE e == [entry EXCEPT !.topics = IF skip.topics \/ fault \/ ~aws[cluster].exists THEN 0 ELSE runs]
  <2>1. step = "topics" /\ Continue(e)
    BY <1>8 DEF ReadTopics
  <2>2. e.read = entry.read /\ e.empty = entry.empty
    BY DEF TypeOK, Entry
  <2> HIDE DEF e
  <2>3. QED
    BY <1>5, <2>1, <2>2
<1>9. CASE ReadMetrics(fault)
  <2>1. CASE found' = found
    BY <1>1, <1>9, <2>1 DEF ReadMetrics, Drop
  <2>2. CASE found' # found
    <3>1. Whole(cluster, entry)
      BY <1>9, KnownWhole DEF ReadMetrics, EntryInv, Described
    <3>2. found'[cluster].read = entry.read /\ found'[cluster].empty = entry.empty
      <4> DEFINE e == [entry EXCEPT
                        !.metrics = {aws[cluster].brokers}, !.steady = ~changed]
      <4>1. e.read = entry.read /\ e.empty = entry.empty
        BY DEF TypeOK, Entry
      <4>2. found'[cluster] = entry \/ found'[cluster] = e
        BY <1>9, <2>2 DEF ReadMetrics, Drop, TypeOK, Described
      <4> HIDE DEF e
      <4>3. QED
        BY <4>1, <4>2
    <3>3. \A c \in Cluster : c # cluster => found'[c] = found[c]
      BY <1>9, <2>2 DEF ReadMetrics, Drop, TypeOK
    <3>4. RecordedWhole(found')
      BY <3>1, <3>2, <3>3 DEF RecordedWhole, Whole, EntryInv
    <3>5. step' = "clusters"
      BY <1>9 DEF ReadMetrics, Drop
    <3>6. QED
      BY <1>0, <3>4, <3>5 DEF EntryInv, RecordedWhole, Whole, Described, Part
  <2>3. QED
    BY <2>1, <2>2
<1>10. QED
  BY <1>3, <1>4, <1>6, <1>7, <1>8, <1>9

LEMMA EntryNext == TypeOK /\ EntryInv /\ [Next]_vars => EntryInv'
<1> SUFFICES ASSUME TypeOK, EntryInv, [Next]_vars PROVE EntryInv'
  OBVIOUS
(* A step outside the scan of a cluster shows only what it records.        *)
<1>0. ASSUME step' \notin Described, step' = "describe" => entry' = NoEntry,
             RecordedWhole(found'), RecordedWhole(mem'.state), RecordedWhole(files'.state)
      PROVE  EntryInv'
  BY <1>0 DEF EntryInv, RecordedWhole, Whole
<1>1. ASSUME NEW R \in SUBSET Region \ {{}}, NEW o \in Options, Start(R, o)
      PROVE  EntryInv'
  BY <1>0, <1>1 DEF Start, EntryInv, Described, Part, history
<1>2. ASSUME NEW ok \in BOOLEAN,
             (\E r \in Region : ReadConfigurations(r, ok)) \/ ReadCosts(ok) \/ ListClusters(ok)
      PROVE  EntryInv'
  <2>1. found' = found \/ found' = [c \in Cluster |-> NoEntry]
    BY <1>2 DEF ReadConfigurations, ReadCosts, ListClusters, InRegion
  <2>2. RecordedWhole(found')
    BY <2>1, NothingRecorded DEF EntryInv
  <2>3. step' \notin Described \cup {"describe"}
    BY <1>2 DEF ReadConfigurations, ReadCosts, ListClusters, InRegion, Described, Part
  <2>4. UNCHANGED <<mem, files>>
    BY <1>2 DEF ReadConfigurations, ReadCosts, ListClusters, InRegion
  <2>5. QED
    BY <1>0, <2>2, <2>3, <2>4 DEF EntryInv
<1>3. ASSUME NEW c \in Cluster, StartCluster(c)
      PROVE  EntryInv'
  BY <1>0, <1>3 DEF StartCluster, EntryInv, Described, Part
<1>4. CASE ScanCluster
  BY <1>4, ScanEntry
<1>5. CASE UpsertRegion
  <2>1. \A c \in Cluster : /\ UpsertedEntry(c).read = found[c].read
                           /\ UpsertedEntry(c).empty = found[c].empty
    BY DEF UpsertedEntry, TypeOK, Entry
  <2>2. \A c \in Cluster : mem'.state[c] = mem.state[c] \/ mem'.state[c] = UpsertedEntry(c)
    BY <1>5 DEF UpsertRegion
  <2>3. RecordedWhole(mem'.state)
    BY <2>1, <2>2 DEF RecordedWhole, Whole, EntryInv
  <2>4. RecordedWhole(found') /\ step' = "regions" /\ files' = files
    BY <1>5, NothingRecorded DEF UpsertRegion, Forget
  <2>5. QED
    BY <1>0, <2>3, <2>4 DEF EntryInv, Described, Part
<1>6. ASSUME End, RecordedWhole(files'.state)
      PROVE  EntryInv'
  BY <1>0, <1>6, NothingRecorded DEF End, Forget, Described, Part
<1>7. CASE Stop
  BY <1>6, <1>7, StopFiles DEF EntryInv
<1>8. ASSUME NEW ok \in BOOLEAN, OpenState(ok) \/ FillState(ok) \/ OpenCredentials(ok)
      PROVE  EntryInv'
  <2>1. CASE ok
    <3>1. /\ files'.state \in {NoFiles.state, files.state, mem.state}
          /\ step' \in Writes /\ Writing
      BY <1>8, <2>1 DEF OpenState, FillState, OpenCredentials, TypeOK, Files, Writes
    <3>2. RecordedWhole(NoFiles.state)
      BY NothingRecorded DEF NoFiles
    <3>3. RecordedWhole(files'.state)
      BY <3>1, <3>2 DEF EntryInv
    <3>4. QED
      BY <1>0, <3>1, <3>3 DEF EntryInv, Writing, Writes, Described, Part
  <2>2. CASE ~ok
    BY <1>7, <1>8, <2>2 DEF OpenState, FillState, OpenCredentials
  <2>3. QED
    BY <2>1, <2>2
<1>9. ASSUME NEW ok \in BOOLEAN, FillCredentials(ok)
      PROVE  EntryInv'
  <2>1. CASE ok
    <3>1. files'.state = files.state /\ End
      BY <1>9, <2>1 DEF FillCredentials, TypeOK, Files
    <3>2. QED
      BY <1>6, <3>1 DEF EntryInv
  <2>2. CASE ~ok
    BY <1>7, <1>9, <2>2 DEF FillCredentials
  <2>3. QED
    BY <2>1, <2>2
<1>10. ASSUME NEW c \in Cluster, TypeSecret(c)
       PROVE  EntryInv'
  <2>1. files'.state = files.state /\ UNCHANGED <<aws, step, mem, found, cluster, entry>>
    BY <1>10 DEF TypeSecret, TypeOK, Files, command
  <2>2. Known(step, entry) => Known(step, entry)'
    BY <2>1 DEF Known
  <2>3. QED
    BY <2>1, <2>2 DEF EntryInv, RecordedWhole, Whole
<1>11. ASSUME NEW c \in Cluster, NEW exists \in BOOLEAN, NEW n \in Broker \cup {0},
              Change(c, [exists |-> exists, brokers |-> n])
       PROVE  EntryInv'
  <2>1. UNCHANGED <<files, step, mem, found, cluster, entry>>
    BY <1>11 DEF Change, command
  <2>2. step \in Described /\ ~aws[cluster].exists => ~aws'[cluster].exists
    BY <1>11 DEF Change, TypeOK
  <2>3. step \in Described => Known(step, entry)'
    BY <2>1, <2>2 DEF Known, EntryInv
  <2>4. QED
    BY <2>1, <2>3 DEF EntryInv, RecordedWhole, Whole
<1>12. CASE UNCHANGED vars \/ \E f \in {"state", "creds"} : RemoveFile(f)
  <2>1. UNCHANGED <<aws, files, step, mem, found, cluster, entry>>
    BY <1>12 DEF vars, command, RemoveFile
  <2>2. QED
    BY <2>1 DEF EntryInv, RecordedWhole, Whole, Known
<1>13. QED
  BY <1>1, <1>2, <1>3, <1>4, <1>5, <1>7, <1>8, <1>9, <1>10, <1>11, <1>12 DEF Next, Environment, Kill

(* An entry of the state file is the whole of a cluster, however calls     *)
(* failed and AWS changed while it was read.                               *)
THEOREM RecordsAreWhole == Spec => []EntriesAreWhole
<1>1. TypeOK /\ EntryInv /\ [Next]_vars => (TypeOK /\ EntryInv)'
  BY TypeNext, EntryNext
<1>2. EntryInv => EntriesAreWhole
  BY DEF EntryInv, EntriesAreWhole, RecordedWhole, Recorded, Whole, Lacks, KindLacks
<1>3. QED
  BY TypeInit, EntryInit, <1>1, <1>2, PTL DEF Spec

-----------------------------------------------------------------------------
(* The brokers. *)

LEMMA NothingAgrees ==
  ASSUME NEW f, f = [c \in Cluster |-> NoEntry]
  PROVE  AllAgree(f)
BY DEF AllAgree, Agrees, NoEntry

LEMMA BrokerInit == Init => BrokerInv
<1> SUFFICES ASSUME Init PROVE BrokerInv
  OBVIOUS
<1>1. \A c \in Serverless : aws[c].brokers = 0
  BY DiscoveryAssumption DEF Init
<1>2. QED
  BY <1>1, NothingAgrees DEF Init, BrokerInv, Described, Part, Forget, NoFiles

(* The subnets joined with the nodes are those of the brokers. *)
LEMMA SubnetsOfBrokers ==
  ASSUME NEW c \in Cluster, aws[c].brokers \in Nodes
  PROVE  CombinedSubnets(NodesOf(c)) = 1..aws[c].brokers
BY NodesNatural, DiscoveryAssumption DEF CombinedSubnets, NodesOf, Controller

LEMMA ScanBrokers ==
  ASSUME TypeOK, BrokerInv, ScanCluster
  PROVE  BrokerInv'
<1> PICK fault \in BOOLEAN :
      \/ Describe(fault)
      \/ \E part \in Part : ReadPart(part, fault)
      \/ ReadNetworking(fault)
      \/ \E D \in SUBSET FirstPage : ReadConnectors(D, fault)
      \/ ReadTopics(fault)
      \/ ReadMetrics(fault)
  BY DEF ScanCluster
<1>0. UNCHANGED <<aws, cluster, files, mem>> /\ cluster \in Cluster /\ aws[cluster].brokers \in Nodes
  BY ScanStep DEF InCluster, TypeOK
<1>1. ASSUME step' = "clusters", AllAgree(found')
      PROVE  BrokerInv'
  BY <1>0, <1>1 DEF BrokerInv, AllAgree, Agrees, Described, Part
<1>2. ASSUME step' \in Described, found' = found, changed' = changed, BrokersAt(step', entry')
      PROVE  BrokerInv'
  <2>1. BrokersAt(step, entry)'
    BY <1>0, <1>2 DEF BrokersAt, NodesOf
  <2>2. step' # "describe"
    BY <1>2 DEF Described, Part
  <2>3. QED
    BY <1>0, <1>2, <2>1, <2>2 DEF BrokerInv, AllAgree, Agrees
<1>3. ASSUME NEW s \in Described \cup {"describe"}, s # "metrics", NEW e, step = s, Continue(e),
             BrokersAt(Following[s], e)
      PROVE  BrokerInv'
  BY <1>2, <1>3, FollowingStep DEF Continue
<1>4. Drop(TRUE) \/ Drop(FALSE) => BrokerInv'
  BY <1>1 DEF Drop, BrokerInv
<1>5. CASE Describe(fault)
  <2> DEFINE e == [entry EXCEPT !.brokers = aws[cluster].brokers]
  <2>1. step = "describe" /\ (Drop(TRUE) \/ Drop(FALSE) \/ Continue(e))
    BY <1>5 DEF Describe
  <2>2. e.brokers = aws[cluster].brokers /\ e.subnets = {} /\ e.metrics = {}
    BY <2>1 DEF BrokerInv, NoEntry
  <2>3. Following["describe"] = "bootstrap"
    BY DEF Following
  <2> HIDE DEF e
  <2>4. BrokersAt(Following["describe"], e)
    BY <2>2, <2>3 DEF BrokersAt
  <2>5. QED
    BY <1>3, <1>4, <2>1, <2>4
<1>6. ASSUME NEW part \in Part, ReadPart(part, fault)
      PROVE  BrokerInv'
  <2> DEFINE e == [entry EXCEPT !.read = @ \cup {part}, !.nodes = IF part = "nodes" THEN NodesOf(cluster) ELSE @]
             n == [entry EXCEPT !.empty = @ \cup {part}]
  <2>0. \/ Drop(TRUE) \/ Drop(FALSE) \/ Continue(e)
        \/ Continue(n) /\ Tolerated(part, Answer(cluster, part))
    BY <1>6 DEF ReadPart
  <2>1. step = part /\ part \in Described /\ part # "metrics"
    BY <1>6 DEF ReadPart, Described, Part
  <2>2. BrokersAt(part, entry)
    BY <2>1 DEF BrokerInv
  <2>3. /\ Following[part] \in Part \cup {"networking"}
        /\ Following[part] \in {"secrets", "policy", "versions", "networking"} =>
             part \in {"nodes", "secrets", "policy", "versions"}
    BY DEF Following, Part
  <2>4. /\ e.metrics = entry.metrics /\ e.brokers = entry.brokers /\ e.subnets = entry.subnets
        /\ e.nodes = IF part = "nodes" THEN NodesOf(cluster) ELSE entry.nodes
        /\ n.metrics = entry.metrics /\ n.brokers = entry.brokers /\ n.subnets = entry.subnets
        /\ n.nodes = entry.nodes
    BY DEF TypeOK, Entry
  <2>5. Tolerated(part, Answer(cluster, part)) /\ part = "nodes" => cluster \in Serverless
    BY DEF Tolerated, Answer
  <2> HIDE DEF e, n
  <2>6. BrokersAt(Following[part], e)
    BY <2>1, <2>2, <2>3, <2>4 DEF BrokersAt, Part
  <2>7. Tolerated(part, Answer(cluster, part)) => BrokersAt(Following[part], n)
    BY <2>1, <2>2, <2>3, <2>4, <2>5 DEF BrokersAt, Part
  <2>8. QED
    BY <1>3, <1>4, <2>0, <2>1, <2>6, <2>7
<1>7. CASE ReadNetworking(fault)
  <2> DEFINE e == [entry EXCEPT !.subnets = CombinedSubnets(entry.nodes)]
  <2>1. /\ step = "networking" /\ "networking" \in Described
        /\ Drop(TRUE) \/ (Continue(entry) /\ cluster \in Serverless)
           \/ (Continue(e) /\ cluster \notin Serverless)
    BY <1>7 DEF ReadNetworking, Described
  <2>2. BrokersAt("networking", entry)
    BY <2>1 DEF BrokerInv
  <2>3. Following["networking"] = "connectors"
    BY DEF Following
  <2>4. /\ e.metrics = entry.metrics /\ e.brokers = entry.brokers
        /\ e.subnets = CombinedSubnets(entry.nodes)
    BY DEF TypeOK, Entry
  <2>5. ~changed /\ cluster \notin Serverless => e.subnets = 1..e.brokers
    BY <1>0, <2>2, <2>4, SubnetsOfBrokers DEF BrokersAt
  <2>6. ~changed /\ cluster \in Serverless => entry.subnets = 1..entry.brokers
    <3>1. cluster \in Serverless => aws[cluster].brokers = 0
      BY DEF BrokerInv
    <3>2. entry.subnets = {} /\ 1..0 = {}
      BY <2>2 DEF BrokersAt
    <3>3. QED
      BY <2>2, <3>1, <3>2 DEF BrokersAt
  <2> HIDE DEF e
  <2>7. cluster \notin Serverless => BrokersAt(Following["networking"], e)
    BY <2>2, <2>3, <2>4, <2>5 DEF BrokersAt, Part
  <2>8. cluster \in Serverless => BrokersAt(Following["networking"], entry)
    BY <2>2, <2>3, <2>6 DEF BrokersAt, Part
  <2>9. QED
    BY <1>3, <1>4, <2>1, <2>7, <2>8
<1>8. ASSUME NEW D \in SUBSET FirstPage, ReadConnectors(D, fault)
      PROVE  BrokerInv'
  <2> DEFINE e == [entry EXCEPT !.connectors = {k \in FirstPage \ D : Matches(k, cluster)}]
  <2>1. step = "connectors" /\ "connectors" \in Described /\ (Drop(TRUE) \/ Continue(e))
    BY <1>8 DEF ReadConnectors, Described
  <2>2. e.metrics = entry.metrics /\ e.brokers = entry.brokers /\ e.subnets = entry.subnets
    BY DEF TypeOK, Entry
  <2> HIDE DEF e
  <2>3. BrokersAt(Following["connectors"], e)
    BY <2>1, <2>2 DEF BrokersAt, BrokerInv, Following, Part
  <2>4. QED
    BY <1>3, <1>4, <2>1, <2>3
<1>9. CASE ReadTopics(fault)
  <2> DEFINE e == [entry EXCEPT !.topics = IF skip.topics \/ fault \/ ~aws[cluster].exists THEN 0 ELSE runs]
  <2>1. step = "topics" /\ "topics" \in Described /\ Continue(e)
    BY <1>9 DEF ReadTopics, Described
  <2>2. e.metrics = entry.metrics /\ e.brokers = entry.brokers /\ e.subnets = entry.subnets
    BY DEF TypeOK, Entry
  <2> HIDE DEF e
  <2>3. BrokersAt(Following["topics"], e)
    BY <2>1, <2>2 DEF BrokersAt, BrokerInv, Following, Part
  <2>4. QED
    BY <1>3, <2>1, <2>3
<1>10. CASE ReadMetrics(fault)
  <2> DEFINE e == [entry EXCEPT !.metrics = {aws[cluster].brokers}, !.steady = ~changed]
  <2>1. step = "metrics" /\ "metrics" \in Described
    BY <1>10 DEF ReadMetrics, Described
  <2>2. BrokersAt("metrics", entry)
    BY <2>1 DEF BrokerInv
  <2>3. Agrees(entry)
    BY <2>2 DEF Agrees, BrokersAt
  <2>4. /\ e.metrics = {aws[cluster].brokers} /\ e.steady = ~changed
        /\ e.brokers = entry.brokers /\ e.subnets = entry.subnets
    BY DEF TypeOK, Entry
  <2> HIDE DEF e
  <2>5. Agrees(e)
    BY <2>2, <2>4 DEF Agrees, BrokersAt
  <2>6. step' = "clusters"
    BY <1>10 DEF ReadMetrics, Drop
  <2>7. found' = found \/ found' = [found EXCEPT ![cluster] = entry]
          \/ found' = [found EXCEPT ![cluster] = e]
    BY <1>10 DEF ReadMetrics, Drop, e
  <2>8. AllAgree(found')
    BY <2>3, <2>5, <2>7 DEF AllAgree, BrokerInv, TypeOK
  <2>9. QED
    BY <1>1, <2>6, <2>8
<1>11. QED
  BY <1>5, <1>6, <1>7, <1>8, <1>9, <1>10

LEMMA BrokerNext == TypeOK /\ BrokerInv /\ [Next]_vars => BrokerInv'
<1> SUFFICES ASSUME TypeOK, BrokerInv, [Next]_vars PROVE BrokerInv'
  OBVIOUS
(* A step outside the scan of a cluster shows only what it records.        *)
<1>0. ASSUME step' \notin Described, step' = "describe" => entry' = NoEntry, aws' = aws,
             AllAgree(found'), AllAgree(mem'.state), AllAgree(files'.state)
      PROVE  BrokerInv'
  BY <1>0 DEF BrokerInv, AllAgree, Agrees, NoEntry
<1>1. ASSUME NEW R \in SUBSET Region \ {{}}, NEW o \in Options, Start(R, o)
      PROVE  BrokerInv'
  BY <1>0, <1>1 DEF Start, BrokerInv, Described, Part, history
<1>2. ASSUME NEW ok \in BOOLEAN,
             (\E r \in Region : ReadConfigurations(r, ok)) \/ ReadCosts(ok) \/ ListClusters(ok)
      PROVE  BrokerInv'
  <2>1. found' = found \/ found' = [c \in Cluster |-> NoEntry]
    BY <1>2 DEF ReadConfigurations, ReadCosts, ListClusters, InRegion
  <2>2. AllAgree(found')
    BY <2>1, NothingAgrees DEF BrokerInv
  <2>3. step' \notin Described \cup {"describe"}
    BY <1>2 DEF ReadConfigurations, ReadCosts, ListClusters, InRegion, Described, Part
  <2>4. UNCHANGED <<aws, mem, files>>
    BY <1>2 DEF ReadConfigurations, ReadCosts, ListClusters, InRegion
  <2>5. QED
    BY <1>0, <2>2, <2>3, <2>4 DEF BrokerInv
<1>3. ASSUME NEW c \in Cluster, StartCluster(c)
      PROVE  BrokerInv'
  BY <1>0, <1>3 DEF StartCluster, BrokerInv, Described, Part
<1>4. CASE ScanCluster
  BY <1>4, ScanBrokers
<1>5. CASE UpsertRegion
  <2>1. \A c \in Cluster : /\ UpsertedEntry(c).brokers = found[c].brokers
                           /\ UpsertedEntry(c).metrics = found[c].metrics
                           /\ UpsertedEntry(c).subnets = found[c].subnets
                           /\ UpsertedEntry(c).steady = found[c].steady
    BY DEF UpsertedEntry, TypeOK, Entry
  <2>2. \A c \in Cluster : mem'.state[c] = mem.state[c] \/ mem'.state[c] = UpsertedEntry(c)
    BY <1>5 DEF UpsertRegion
  <2>3. AllAgree(mem'.state)
    BY <2>1, <2>2 DEF AllAgree, Agrees, BrokerInv
  <2>4. AllAgree(found') /\ step' = "regions" /\ UNCHANGED <<aws, files>>
    BY <1>5, NothingAgrees DEF UpsertRegion, Forget
  <2>5. QED
    BY <1>0, <2>3, <2>4 DEF BrokerInv, Described, Part
<1>6. ASSUME End, AllAgree(files'.state)
      PROVE  BrokerInv'
  BY <1>0, <1>6, NothingAgrees DEF End, Forget, Described, Part
<1>7. CASE Stop
  BY <1>6, <1>7, StopFiles DEF BrokerInv
<1>8. ASSUME NEW ok \in BOOLEAN, OpenState(ok) \/ FillState(ok) \/ OpenCredentials(ok)
      PROVE  BrokerInv'
  <2>1. CASE ok
    <3>1. /\ files'.state \in {NoFiles.state, files.state, mem.state}
          /\ step' \in Writes /\ Writing
      BY <1>8, <2>1 DEF OpenState, FillState, OpenCredentials, TypeOK, Files, Writes
    <3>2. AllAgree(NoFiles.state)
      BY NothingAgrees DEF NoFiles
    <3>3. AllAgree(files'.state)
      BY <3>1, <3>2 DEF BrokerInv
    <3>4. QED
      BY <1>0, <3>1, <3>3 DEF BrokerInv, Writing, Writes, Described, Part
  <2>2. CASE ~ok
    BY <1>7, <1>8, <2>2 DEF OpenState, FillState, OpenCredentials
  <2>3. QED
    BY <2>1, <2>2
<1>9. ASSUME NEW ok \in BOOLEAN, FillCredentials(ok)
      PROVE  BrokerInv'
  <2>1. CASE ok
    <3>1. files'.state = files.state /\ End
      BY <1>9, <2>1 DEF FillCredentials, TypeOK, Files
    <3>2. QED
      BY <1>6, <3>1 DEF BrokerInv
  <2>2. CASE ~ok
    BY <1>7, <1>9, <2>2 DEF FillCredentials
  <2>3. QED
    BY <2>1, <2>2
<1>10. ASSUME files'.state = files.state, UNCHANGED <<aws, step, mem, found, cluster, entry, changed>>
       PROVE  BrokerInv'
  <2>1. BrokersAt(step, entry) => BrokersAt(step, entry)'
    BY <1>10 DEF BrokersAt, NodesOf
  <2>2. QED
    BY <1>10, <2>1 DEF BrokerInv, AllAgree, Agrees, NoEntry
<1>11. ASSUME NEW c \in Cluster, TypeSecret(c)
       PROVE  BrokerInv'
  BY <1>10, <1>11 DEF TypeSecret, TypeOK, Files, command
<1>12. ASSUME NEW c \in Cluster, NEW exists \in BOOLEAN, NEW n \in Broker \cup {0},
              Change(c, [exists |-> exists, brokers |-> n])
       PROVE  BrokerInv'
  <2>1. UNCHANGED <<files, step, mem, found, cluster, entry>>
    BY <1>12 DEF Change, command
  <2>2. \A d \in Serverless : aws'[d].brokers = 0
    BY <1>12, DiscoveryAssumption DEF Change, TypeOK, BrokerInv
  <2>3. step \in Described => changed' \/ (changed' = changed /\ aws'[cluster] = aws[cluster])
    BY <1>12 DEF Change, TypeOK
  <2>4. step \in Described => BrokersAt(step, entry)'
    BY <2>1, <2>3 DEF BrokersAt, BrokerInv, NodesOf
  <2>5. QED
    BY <2>1, <2>2, <2>4 DEF BrokerInv, AllAgree, Agrees, NoEntry
<1>13. CASE UNCHANGED vars \/ \E f \in {"state", "creds"} : RemoveFile(f)
  BY <1>10, <1>13 DEF vars, RemoveFile, command, history
<1>14. QED
  BY <1>1, <1>2, <1>3, <1>4, <1>5, <1>7, <1>8, <1>9, <1>11, <1>12, <1>13 DEF Next, Environment, Kill

(* The description, the subnets and the metrics of an entry agree on the   *)
(* brokers unless AWS changed the cluster while it was read.               *)
THEOREM PlacesAgree == Spec => []BrokerCountsAgree
<1>1. TypeOK /\ BrokerInv /\ [Next]_vars => (TypeOK /\ BrokerInv)'
  BY TypeNext, BrokerNext
<1>2. TypeOK /\ BrokerInv => BrokerCountsAgree
  <2>1. \A n \in Nodes : Cardinality(1..n) = n
    BY NodesNatural, DiscoveryAssumption, FS_Interval
  <2>2. TypeOK => \A c \in Cluster : files.state[c].brokers \in Nodes
    BY DEF TypeOK, Files, Entry
  <2>3. QED
    BY <2>1, <2>2 DEF BrokerInv, BrokerCountsAgree, AllAgree, Agrees, Recorded
<1>3. QED
  BY TypeInit, BrokerInit, <1>1, <1>2, PTL DEF Spec

-----------------------------------------------------------------------------
(* What leaves the files. *)

LEMMA LeaveInit == Init => LeaveInv
BY DEF Init, LeaveInv, Described, Part, NoFiles

(* A scan that ends has recorded the cluster, or AWS failed a call about   *)
(* it, or it is gone.                                                      *)
LEMMA ScanExplained ==
  ASSUME TypeOK, EntryInv, ScanCluster
  PROVE  /\ faulted \subseteq faulted'
         /\ \A c \in Cluster : found[c].read # {} => found'[c].read # {}
         /\ step' = "clusters" => found'[cluster].read # {} \/ cluster \in faulted' \/ ~aws[cluster].exists
<1> PICK fault \in BOOLEAN :
      \/ Describe(fault)
      \/ \E part \in Part : ReadPart(part, fault)
      \/ ReadNetworking(fault)
      \/ \E D \in SUBSET FirstPage : ReadConnectors(D, fault)
      \/ ReadTopics(fault)
      \/ ReadMetrics(fault)
  BY DEF ScanCluster
<1>1. CASE ReadMetrics(fault)
  <2>1. CASE ~skip.metrics /\ (fault \/ ~aws[cluster].exists)
    BY <1>1, <2>1 DEF ReadMetrics, Drop
  <2>2. CASE ~(~skip.metrics /\ (fault \/ ~aws[cluster].exists))
    <3> DEFINE e == [entry EXCEPT
                      !.metrics = {aws[cluster].brokers}, !.steady = ~changed]
    <3>1. entry.read # {}
      <4>1. Whole(cluster, entry)
        BY <1>1, KnownWhole DEF ReadMetrics, EntryInv, Described
      <4>2. QED
        BY <4>1 DEF Whole, Lacks, KindLacks, Part, ServerlessCannot
    <3>2. e.read = entry.read
      BY DEF TypeOK, Entry
    <3>3. found' = [found EXCEPT ![cluster] = entry] \/ found' = [found EXCEPT ![cluster] = e]
      BY <1>1, <2>2 DEF ReadMetrics, Drop
    <3>4. cluster \in Cluster /\ faulted' = faulted
      BY <1>1, <2>2 DEF ReadMetrics, Drop, TypeOK, Described
    <3> HIDE DEF e
    <3>5. QED
      BY <3>1, <3>2, <3>3, <3>4 DEF TypeOK
  <2>3. QED
    BY <2>1, <2>2
<1>2. ASSUME found' = found, Drop(TRUE)
      PROVE  cluster \in faulted' /\ faulted \subseteq faulted'
  BY <1>2 DEF Drop
<1>3. CASE Describe(fault)
  BY <1>3, FollowingStep DEF Describe, Drop, Continue, Described, Part
<1>4. ASSUME NEW part \in Part, ReadPart(part, fault)
      PROVE  /\ found' = found /\ faulted \subseteq faulted'
             /\ step' = "clusters" => cluster \in faulted' \/ ~aws[cluster].exists
  <2>1. found' = found /\ faulted \subseteq faulted'
    BY <1>4 DEF ReadPart, Drop, Continue
  <2>2. Following[part] # "clusters"
    BY FollowingStep DEF Described, Part
  <2>3. aws[cluster].exists => Answer(cluster, part) = "ok" \/ Tolerated(part, Answer(cluster, part))
    BY DEF Answer, Tolerated, ServerlessCannot
  <2>4. QED
    BY <1>4, <2>1, <2>2, <2>3 DEF ReadPart, Drop, Continue
<1>5. CASE ReadNetworking(fault) \/ ReadTopics(fault) \/ \E D \in SUBSET FirstPage : ReadConnectors(D, fault)
  <2>1. found' = found /\ (Drop(TRUE) \/ (faulted' = faulted /\ step' = Following[step]))
    <3>1. Drop(TRUE) \/ \E e : Continue(e)
      BY <1>5 DEF ReadNetworking, ReadTopics, ReadConnectors
    <3>2. QED
      BY <3>1 DEF Drop, Continue
  <2>2. Following[step] # "clusters"
    BY <1>5, FollowingStep DEF ReadNetworking, ReadTopics, ReadConnectors, Described, Part
  <2>3. QED
    BY <1>2, <2>1, <2>2
<1>6. QED
  BY <1>1, <1>3, <1>4, <1>5

LEMMA LeaveNext == TypeOK /\ FilesInv /\ EntryInv /\ LeaveInv /\ [Next]_vars => LeaveInv'
<1> SUFFICES ASSUME TypeOK, FilesInv, EntryInv, LeaveInv, [Next]_vars PROVE LeaveInv'
  OBVIOUS
<1> USE DEF Writes
<1>1. ASSUME NEW R \in SUBSET Region \ {{}}, NEW o \in Options, Start(R, o)
      PROVE  LeaveInv'
  <2>1. /\ step = "idle" /\ step' = "regions" /\ mem' = files /\ UNCHANGED upserted
        /\ View'.state = files.state /\ View'.creds = files.creds
    BY <1>1 DEF Start, View, history
  <2>2. upserted' = {}
    BY <2>1 DEF FilesInv
  <2> HIDE DEF View
  <2>3. QED
    BY <2>1, <2>2 DEF LeaveInv, Described, Part
<1>2. ASSUME NEW ok \in BOOLEAN,
             (\E r \in Region : ReadConfigurations(r, ok)) \/ ReadCosts(ok) \/ ListClusters(ok)
      PROVE  LeaveInv'
  <2>1. /\ UNCHANGED <<aws, files, text, mem, cluster, history>>
        /\ step \in {"regions", "costs", "list"} /\ step' \in {"regions", "costs", "list", "clusters"}
        /\ left' \subseteq left
    BY <1>2 DEF ReadConfigurations, ReadCosts, ListClusters, InRegion
  <2>2. step' \in {"costs", "list", "clusters"} => region' \notin upserted \cup left'
    BY <1>2 DEF ReadConfigurations, ReadCosts, ListClusters, LeaveInv
  <2>3. step' = "clusters" =>
          \A c \in Cluster : RegionOf[c] = region' => c \in todo' \/ ~aws[c].exists
    BY <1>2 DEF ReadConfigurations, ReadCosts, ListClusters
  <2>4. View' = View
    BY <2>1, ViewStays DEF history
  <2> HIDE DEF View
  <2>5. QED
    BY <2>1, <2>2, <2>3, <2>4 DEF LeaveInv, Explained, Described, Part, history
<1>3. ASSUME NEW c \in Cluster, StartCluster(c)
      PROVE  LeaveInv'
  <2>1. View' = View
    BY <1>3, ViewStays DEF StartCluster
  <2> HIDE DEF View
  <2>2. QED
    BY <1>3, <2>1 DEF StartCluster, LeaveInv, Explained, Described, Part
<1>6. CASE ScanCluster
  <2>1. /\ UNCHANGED <<aws, files, mem, left, region, todo, cluster, upserted, late>>
        /\ step \in Described \cup {"describe"}
        /\ step' = "clusters" \/ step' \in Described
    BY <1>6, ScanStep DEF InCluster
  <2>2. step \notin {"idle", "regions", "clusters"} \cup Writes
        /\ step' \notin {"idle", "regions"} \cup Writes
    BY <2>1 DEF Described, Part
  <2>3. \A c \in Cluster : Explained(c) => Explained(c)'
    BY <1>6, <2>1, ScanExplained DEF Explained
  <2>4. step' = "clusters" => found'[cluster].read # {} \/ Explained(cluster)'
    BY <1>6, <2>1, ScanExplained DEF Explained
  <2>5. View' = View
    BY <1>6, <2>1, <2>2, ScanStep, ViewStays DEF InCluster
  <2>6. \A c \in Cluster : found[c].read # {} => found'[c].read # {}
    BY <1>6, ScanExplained
  <2> HIDE DEF View
  <2>7. QED
    BY <2>1, <2>2, <2>3, <2>4, <2>5, <2>6 DEF LeaveInv
<1>7. CASE UpsertRegion
  <2>1. /\ step = "clusters" /\ todo = {} /\ step' = "regions"
        /\ upserted' = upserted \cup {region}
        /\ UNCHANGED <<aws, left, faulted, late>> /\ View' = View
    BY <1>7, ViewStays DEF UpsertRegion
  <2> HIDE DEF View
  <2>2. region \notin upserted \cup left
    BY <2>1 DEF LeaveInv
  <2>3. \A c \in Cluster : RegionOf[c] = region => found[c].read # {} \/ Explained(c)
    BY <2>1 DEF LeaveInv
  <2>4. ASSUME NEW c \in Cluster, RegionOf[c] = region
        PROVE  /\ mem'.state[c] = UpsertedEntry(c) /\ mem'.creds[c] = UpsertedSecret(c)
               /\ mem.state[c] = View.state[c]
               /\ View.creds[c] = "typed" => mem.creds[c] = "typed" \/ c \in late
    BY <1>7, <2>1, <2>2, <2>4 DEF UpsertRegion, FilesInv, LeaveInv
  <2>5. \A c \in Cluster : /\ UpsertedEntry(c).read = found[c].read
                           /\ found[c].read # {} /\ mem.state[c].topics # 0 => UpsertedEntry(c).topics # 0
    BY DEF UpsertedEntry, TypeOK, Entry
  <2>6. \A c \in Cluster : Explained(c) <=> Explained(c)'
    BY <2>1 DEF Explained
  <2>7. ASSUME NEW c \in Cluster, RegionOf[c] # region
        PROVE  mem'.state[c] = mem.state[c] /\ mem'.creds[c] = mem.creds[c]
    BY <1>7, <2>7 DEF UpsertRegion
  <2>8. \A c \in Cluster : View'.creds[c] = "typed" =>
           mem'.creds[c] = "typed" \/ c \in late' \/ (RegionOf[c] \in upserted' /\ Explained(c)')
    BY <2>1, <2>3, <2>4, <2>6, <2>7 DEF LeaveInv, UpsertedSecret
  <2>9. \A c \in Cluster : RegionOf[c] \in upserted' /\ View'.state[c].read # {} =>
          \/ /\ mem'.state[c].read # {}
             /\ View'.state[c].topics # 0 => mem'.state[c].topics # 0
          \/ Explained(c)'
    BY <2>1, <2>3, <2>4, <2>5, <2>6, <2>7 DEF LeaveInv
  <2>10. QED
    BY <2>1, <2>2, <2>8, <2>9 DEF LeaveInv, Described, Part
<1>8. ASSUME End
      PROVE  LeaveInv'
  BY <1>8 DEF End, LeaveInv, Described, Part
<1>9. CASE Stop
  BY <1>8, <1>9 DEF Stop
<1>10. ASSUME NEW ok \in BOOLEAN, OpenState(ok) \/ FillState(ok) \/ OpenCredentials(ok)
       PROVE  LeaveInv'
  <2>1. CASE ok
    <3>1. Writing /\ step \in {"regions"} \cup Writes /\ step' \in Writes
      BY <1>10, <2>1 DEF OpenState, FillState, OpenCredentials
    <3>2. View'.creds = View.creds
      BY <1>10, <2>1 DEF OpenState, FillState, OpenCredentials, View, TypeOK, Files
    <3>3. step' = "state_file" => step = "regions" /\ View'.state = View.state /\ text'.state = "broken"
      BY <1>10, <2>1 DEF OpenState, FillState, OpenCredentials, View, TypeOK
    <3> HIDE DEF View
    <3>4. QED
      BY <3>1, <3>2, <3>3 DEF Writing, LeaveInv, Explained, Described, Part
  <2>2. CASE ~ok
    BY <1>9, <1>10, <2>2 DEF OpenState, FillState, OpenCredentials
  <2>3. QED
    BY <2>1, <2>2
<1>11. ASSUME NEW ok \in BOOLEAN, FillCredentials(ok)
       PROVE  LeaveInv'
  BY <1>8, <1>9, <1>11 DEF FillCredentials
<1>12. ASSUME NEW c \in Cluster, TypeSecret(c)
       PROVE  LeaveInv'
  <2>1. files'.state = files.state /\ \A d \in Cluster : d # c => files'.creds[d] = files.creds[d]
    BY <1>12 DEF TypeSecret, TypeOK, Files
  <2>2. /\ UNCHANGED <<aws, step, text, mem, left, region, todo, found, cluster, upserted, faulted, before>>
        /\ step # "idle" => late' = late \cup {c}
    BY <1>12 DEF TypeSecret, command
  <2>3. View'.state = View.state /\ \A d \in Cluster : d # c => View'.creds[d] = View.creds[d]
    BY <2>1, <2>2 DEF View
  <2> HIDE DEF View
  <2>4. QED
    BY <2>1, <2>2, <2>3 DEF LeaveInv, Explained
<1>13. ASSUME NEW c \in Cluster, NEW exists \in BOOLEAN, NEW n \in Broker \cup {0},
              Change(c, [exists |-> exists, brokers |-> n])
       PROVE  LeaveInv'
  <2>1. UNCHANGED <<files, before, text, step, mem, left, region, todo, found, cluster, upserted, faulted, late>>
    BY <1>13 DEF Change, command
  <2>2. \A d \in Cluster : Explained(d) => Explained(d)'
    BY <1>13 DEF Change, TypeOK, Explained
  <2>3. View' = View
    BY <2>1 DEF View
  <2> HIDE DEF View
  <2>4. QED
    BY <2>1, <2>2, <2>3 DEF LeaveInv
<1>14. CASE UNCHANGED vars
  BY <1>14 DEF vars, command, history, LeaveInv, View, Explained
<1>15. ASSUME NEW f \in {"state", "creds"}, RemoveFile(f)
       PROVE  LeaveInv'
  BY <1>15 DEF RemoveFile, command, history, LeaveInv, Described, Part
<1>16. QED
  BY <1>1, <1>2, <1>3, <1>6, <1>7, <1>9, <1>10, <1>11, <1>12, <1>13, <1>14, <1>15 DEF Next, Environment, Kill

(* Nothing of a cluster leaves the files in a step, or it is explained.    *)
KeptOrExplained(c) ==
  LET explained == c \in faulted \/ ~aws[c].exists
  IN /\ View.creds[c] = "typed" =>
          \/ View'.creds[c] = "typed"
          \/ explained \/ c \in late
          \/ step = "creds_file" /\ text'.creds # "whole"
     /\ c \in Recorded(View.state) =>
          \/ c \in Recorded(View'.state)
               /\ (View.state[c].topics # 0 => View'.state[c].topics # 0)
          \/ explained
          \/ step = "state_file" /\ text'.state # "whole"

(* A step that leaves the files alone, that truncates one, or in which a   *)
(* secret is typed takes nothing out of them; filling a file takes what    *)
(* LeaveInv explains, and being stopped in it whatever it was to hold.     *)
LEMMA NothingLeavesInAStep ==
  ASSUME TypeOK, FilesInv, LeaveInv, [Next]_vars, NEW c \in Cluster
  PROVE  KeptOrExplained(c)
<1>1. CASE View'.state = View.state /\ View'.creds = View.creds
  <2> HIDE DEF View
  <2>1. QED
    BY <1>1 DEF KeptOrExplained, Recorded
<1>2. ASSUME NEW d \in Cluster, TypeSecret(d)
      PROVE  KeptOrExplained(c)
  <2>1. View'.state = View.state /\ (View.creds[c] = "typed" => View'.creds[c] = "typed")
    BY <1>2 DEF TypeSecret, TypeOK, Files, View, command
  <2> HIDE DEF View
  <2>2. QED
    BY <2>1 DEF KeptOrExplained, Recorded
<1>3. CASE Stop
  <2>1. step' = "idle"
    BY <1>3 DEF Stop, End
  <2>2. CASE step \notin {"state_file", "creds_file"}
    <3>1. View'.state = View.state /\ View'.creds = View.creds
      BY <1>3, <2>1, <2>2, StopFiles DEF View
    <3>2. QED
      BY <1>1, <3>1
  <2>3. CASE step = "state_file"
    <3>1. text'.state = "broken" /\ View'.creds = View.creds
      BY <1>3, <2>1, <2>3, StopFiles DEF View, LeaveInv
    <3> HIDE DEF View
    <3>2. QED
      BY <2>3, <3>1 DEF KeptOrExplained
  <2>4. CASE step = "creds_file"
    <3>1. text'.creds # "whole" /\ View'.state = View.state
      BY <1>3, <2>1, <2>4, StopFiles DEF View
    <3> HIDE DEF View
    <3>2. QED
      BY <2>4, <3>1 DEF KeptOrExplained, Recorded
  <2>5. QED
    BY <2>2, <2>3, <2>4
<1>4. CASE OpenState(TRUE) \/ OpenCredentials(TRUE)
  BY <1>1, <1>4 DEF OpenState, OpenCredentials, View, TypeOK, Files
<1>5. CASE FillState(TRUE)
  <2>1. step = "state_file" /\ View'.creds = View.creds /\ View'.state = mem.state
    BY <1>5 DEF FillState, View, TypeOK, Files
  <2> HIDE DEF View
  <2>2. IF RegionOf[c] \in upserted
          THEN View.state[c].read # {} =>
                 \/ mem.state[c].read # {} /\ (View.state[c].topics # 0 => mem.state[c].topics # 0)
                 \/ Explained(c)
          ELSE mem.state[c] = View.state[c]
    BY <2>1 DEF LeaveInv, FilesInv
  <2>3. QED
    BY <2>1, <2>2 DEF KeptOrExplained, Recorded, Explained
<1>6. CASE FillCredentials(TRUE)
  <2>1. step = "creds_file" /\ View'.state = View.state /\ View'.creds = mem.creds
    BY <1>6 DEF FillCredentials, End, View, TypeOK, Files
  <2> HIDE DEF View
  <2>2. View.creds[c] = "typed" => mem.creds[c] = "typed" \/ c \in late \/ Explained(c)
    BY <2>1 DEF LeaveInv
  <2>3. QED
    BY <2>1, <2>2 DEF KeptOrExplained, Recorded, Explained
<1>7. CASE UNCHANGED <<files, before>> /\ (step' = step \/ (step \notin Writes /\ step' \notin Writes))
  BY <1>1, <1>7 DEF View, Writes
<1>8. CASE ScanCluster
  BY <1>7, <1>8, ScanStep DEF InCluster, Writes, Described, Part
<1>9. ASSUME NEW ok \in BOOLEAN, OpenState(ok) \/ FillState(ok) \/ OpenCredentials(ok) \/ FillCredentials(ok)
      PROVE  KeptOrExplained(c)
  BY <1>3, <1>4, <1>5, <1>6, <1>9 DEF OpenState, FillState, OpenCredentials, FillCredentials
<1>10. CASE \/ \E R \in SUBSET Region \ {{}}, o \in Options : Start(R, o)
            \/ \E ok \in BOOLEAN :
                 (\E r \in Region : ReadConfigurations(r, ok)) \/ ReadCosts(ok) \/ ListClusters(ok)
            \/ \E d \in Cluster : StartCluster(d)
            \/ UpsertRegion
  BY <1>7, <1>10
     DEF Start, ReadConfigurations, ReadCosts, ListClusters, InRegion, StartCluster, UpsertRegion, Writes, history
<1>11. CASE \/ \E d \in Cluster, exists \in BOOLEAN, n \in Broker \cup {0} :
                Change(d, [exists |-> exists, brokers |-> n])
            \/ \E f \in {"state", "creds"} : RemoveFile(f)
            \/ UNCHANGED vars
  BY <1>7, <1>11 DEF Change, RemoveFile, vars, command, history
<1>12. QED
  BY <1>2, <1>3, <1>8, <1>9, <1>10, <1>11 DEF Next, Environment, Kill

(* A typed secret, a recorded cluster or its topics leave the files only   *)
(* for one of the reasons stated, in any number of runs, whichever of the  *)
(* calls and writes fail and wherever the runs are stopped.                *)
THEOREM LossesAreExplained == Spec => NothingLeavesUnexplained
<1>1. TypeOK /\ FilesInv /\ EntryInv /\ LeaveInv /\ [Next]_vars => (TypeOK /\ FilesInv /\ EntryInv /\ LeaveInv)'
  BY TypeNext, FilesNext, EntryNext, LeaveNext
<1> DEFINE Kept == \A c \in Cluster : KeptOrExplained(c)
<1>2. TypeOK /\ FilesInv /\ LeaveInv /\ [Next]_vars => [Kept]_vars
  BY NothingLeavesInAStep
<1>3. Spec => [][Kept]_vars
  BY TypeInit, FilesInit, EntryInit, LeaveInit, <1>1, <1>2, PTL DEF Spec
<1>4. QED
  BY <1>3 DEF NothingLeavesUnexplained, KeptOrExplained

=============================================================================
