----------------------------- MODULE StateData -----------------------------
(***************************************************************************)
(* The content of kcp-state.json (internal/types/state.go) and the         *)
(* operations on it.  A piece of information is represented by the number  *)
(* of the command that fetched it, 0 when the file does not have it, so    *)
(* that a merge can be seen to keep, replace or lose it.                   *)
(***************************************************************************)
EXTENDS Naturals

CONSTANTS
  Region, Cluster,
  RegionOf,               \* the region of each cluster
  Topic, Acl, Connector,  \* names of what a Kafka cluster can hold
  Client,                 \* composite keys of the clients in broker logs
  Url,                    \* schema registries
  MaxCommands,            \* bound: how many commands are run
  MaxTime                 \* bound: time stamps in the broker logs

ClusterId == "cluster_id"

\* What KafkaAdminClientInformation says of a cluster, piece by piece.
Fact == Topic \cup Acl \cup Connector \cup {ClusterId}

ASSUME StateDataAssumption ==
  /\ RegionOf \in [Cluster -> Region]
  /\ MaxCommands \in Nat /\ MaxTime \in Nat
  /\ ClusterId \notin Topic \cup Acl \cup Connector
  /\ Topic \cap Connector = {} /\ Topic \cap Acl = {} /\ Acl \cap Connector = {}

Stamp == 0..MaxCommands

DiscoveredCluster ==
  [aws : Stamp, admin : [Fact -> Stamp], clients : [Client -> 0..MaxTime]]

NoFacts == [f \in Fact |-> 0]
NoClients == [k \in Client |-> 0]

\* A cluster the file does not list.
Absent == [aws |-> 0, admin |-> NoFacts, clients |-> NoClients]

Content ==
  [regions : [Region -> Stamp], costs : [Region -> Stamp],
   clusters : [Cluster -> DiscoveredCluster], registries : [Url -> Stamp]]

EmptyState ==
  [regions |-> [r \in Region |-> 0], costs |-> [r \in Region |-> 0],
   clusters |-> [c \in Cluster |-> Absent], registries |-> [u \in Url |-> 0]]

Listed(d) == {c \in Cluster : d.clusters[c].aws # 0}

\* The commands whose results are in the file.
Sources(d) ==
  ({d.regions[r] : r \in Region} \cup {d.costs[r] : r \in Region}
    \cup {d.registries[u] : u \in Url} \cup {d.clusters[c].aws : c \in Cluster}
    \cup UNION {{d.clusters[c].admin[f] : f \in Fact} : c \in Cluster}) \ {0}

-----------------------------------------------------------------------------
\* NewStateFrom copies the regions and nothing else.
NewStateFrom(d) == [d EXCEPT !.registries = [u \in Url |-> 0]]

\* Mutant of MergeFrom: the new information replaces the old.
MergeFromNothing(new, old) == new

\* MergeFrom: topics, ACLs, connectors and cluster id alike, the new value
\* where there is one and the old value elsewhere.
MergeFrom(new, old) == [f \in Fact |-> IF new[f] # 0 THEN new[f] ELSE old[f]]

\* RefreshClusters: the new cluster with the old admin information merged in.
RefreshClusters(old, fresh) ==
  IF fresh.aws = 0 THEN Absent
  ELSE [fresh EXCEPT !.admin = MergeFrom(@, old.admin)]

\* UpsertRegion: fresh gives a cluster or Absent for each cluster of region r.
UpsertRegion(d, r, at, costs, fresh) ==
  [d EXCEPT
     !.regions[r] = at,
     !.costs[r] = costs,
     !.clusters = [c \in Cluster |-> IF RegionOf[c] = r
                                       THEN RefreshClusters(d.clusters[c], fresh[c])
                                       ELSE d.clusters[c]]]

\* dedupDiscoveredClients keeps the entry with the latest time stamp.
DedupDiscoveredClients(old, new) ==
  [k \in Client |-> IF new[k] > old[k] THEN new[k] ELSE old[k]]

\* SetSelfManagedConnectors replaces the list of connectors by K.
SetSelfManagedConnectors(admin, K, at) ==
  [f \in Fact |-> IF f \notin Connector THEN admin[f]
                  ELSE IF f \in K THEN at ELSE 0]
=============================================================================
