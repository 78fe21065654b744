----------------------------- MODULE StateStore -----------------------------
(***************************************************************************)
(* What the commands that share kcp-state.json promise, each as one change *)
(* of the file: what it may add, replace and drop, and that it leaves the  *)
(* rest as it was.  A command that fails leaves the file as it was, or     *)
(* unreadable if it was interrupted while it wrote.                        *)
(***************************************************************************)
EXTENDS StateData

VARIABLES
  kind,     \* "missing", "data" or "bad" (cannot be parsed)
  content,  \* the content, EmptyState unless kind = "data"
  count     \* commands started

storeVars == <<kind, content, count>>

Command == {"discover", "scan_clusters", "scan_client_inventory",
            "scan_schema_registry", "scan_self_managed_connectors"}

SameRegion(old, new, r) ==
  /\ new.regions[r] = old.regions[r]
  /\ new.costs[r] = old.costs[r]
  /\ \A c \in Cluster : RegionOf[c] = r => new.clusters[c] = old.clusters[c]

\* Region r is replaced; what scans found on a cluster that is found again
\* stays, or is replaced where it is found again.
RegionReplaced(old, new, r, i) ==
  /\ new.regions[r] = i
  /\ new.costs[r] \in {0, i}
  /\ \A c \in Cluster :
       RegionOf[c] = r /\ new.clusters[c] # Absent =>
         /\ new.clusters[c].aws = i
         /\ new.clusters[c].clients = NoClients
         /\ \A f \in Fact : \/ new.clusters[c].admin[f] = old.clusters[c].admin[f]
                            \/ new.clusters[c].admin[f] = i /\ f \in Topic

\* A discovery replaces regions, keeps the others, and leaves no registry.
Discovered(old, new, i) ==
  /\ new.registries = EmptyState.registries
  /\ \A r \in Region : SameRegion(old, new, r) \/ RegionReplaced(old, new, r, i)

\* A clusters scan replaces the admin information of clusters it can read.
ClustersScanned(old, new, i) ==
  /\ [new EXCEPT !.clusters = old.clusters] = old
  /\ \A c \in Cluster : new.clusters[c] # old.clusters[c] =>
       /\ c \in Listed(old)
       /\ [new.clusters[c] EXCEPT !.admin = NoFacts] = [old.clusters[c] EXCEPT !.admin = NoFacts]
       /\ \A f \in Fact : new.clusters[c].admin[f] \in {0, i}
       /\ new.clusters[c].admin[ClusterId] = i

\* A client inventory scan of a cluster adds to its clients, or renews them.
ClientsFound(old, new) ==
  \E c \in Listed(old) :
    /\ [new EXCEPT !.clusters[c].clients = NoClients] = [old EXCEPT !.clusters[c].clients = NoClients]
    /\ \A n \in Client : new.clusters[c].clients[n] >= old.clusters[c].clients[n]

RegistryScanned(old, new, i) == \E u \in Url : new = [old EXCEPT !.registries[u] = i]

\* A connector scan replaces the connectors of a cluster.
ConnectorsScanned(old, new, i) ==
  \E c \in Listed(old) :
    /\ [new EXCEPT !.clusters[c].admin = NoFacts] = [old EXCEPT !.clusters[c].admin = NoFacts]
    /\ \A f \in Fact \ Connector : new.clusters[c].admin[f] = old.clusters[c].admin[f]
    /\ \A f \in Connector : new.clusters[c].admin[f] \in {0, i}

\* Command number i of kind k may turn the content old into new.
Allowed(k, old, new, i) ==
  \/ k = "discover" /\ Discovered(old, new, i)
  \/ k = "scan_clusters" /\ ClustersScanned(old, new, i)
  \/ k = "scan_client_inventory" /\ ClientsFound(old, new)
  \/ k = "scan_schema_registry" /\ RegistryScanned(old, new, i)
  \/ k = "scan_self_managed_connectors" /\ ConnectorsScanned(old, new, i)

Init ==
  /\ kind = "missing"
  /\ content = EmptyState
  /\ count = 0

Begin ==
  /\ kind # "bad"
  /\ count < MaxCommands
  /\ count' = count + 1
  /\ UNCHANGED <<kind, content>>

\* One of the commands that were started; only a discovery starts from no file.
Commit ==
  /\ count > 0
  /\ kind # "bad"
  /\ kind' = "data"
  /\ content' \in Content
  /\ \E k \in Command, i \in 1..count : /\ kind = "missing" => k = "discover"
                                        /\ Allowed(k, content, content', i)
  /\ UNCHANGED count

Interrupt ==
  /\ count > 0
  /\ kind' = "bad"
  /\ content' = EmptyState
  /\ UNCHANGED count

Remove ==
  /\ kind = "bad"
  /\ kind' = "missing"
  /\ UNCHANGED <<content, count>>

Next == Begin \/ Commit \/ Interrupt \/ Remove

Spec == Init /\ [][Next]_storeVars
=============================================================================
