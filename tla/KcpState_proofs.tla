-------------------------- MODULE KcpState_proofs --------------------------
(***************************************************************************)
(* Proofs about KcpState, for any number of terminals, commands, regions,  *)
(* clusters, topics and registries.                                        *)
(***************************************************************************)
EXTENDS KcpState, TLAPS

\* A cluster that is not listed has no information of its own.
WellFormed(d) == \A c \in Cluster : d.clusters[c].aws = 0 => d.clusters[c] = Absent

\* Everything in the content d was fetched by one of the commands S.
From(d, S) ==
  /\ \A r \in Region : d.regions[r] \in S /\ d.costs[r] \in S
  /\ \A c \in Cluster : d.clusters[c].aws \in S
  /\ \A c \in Cluster : \A f \in Fact : d.clusters[c].admin[f] \in S
  /\ \A u \in Url : d.registries[u] \in S

Single == {"scan_client_inventory", "scan_schema_registry", "scan_self_managed_connectors"}

\* Command k, number i, has turned the content old into new and has still to
\* visit l: it has done part of what Allowed describes, and nothing of what is
\* in l.
Progress(k, i, old, l, new) ==
  \/ k \in Single /\ new = old /\ \E x : l = {x}
  \/ /\ Store!Allowed(k, old, new, i)
     /\ k = "discover" => \A r \in Region \cap l : Store!SameRegion(old, new, r)
     /\ k = "scan_clusters" => \A c \in Cluster \cap l : new.clusters[c] = old.clusters[c]
     /\ k \in Single => l = {}

\* The registries of the copy: what a scan of one of them may change.
Registries(k, i, old, new) ==
  CASE k = "discover" -> new.registries = EmptyState.registries
    [] k = "scan_schema_registry" ->
         \A u \in Url : new.registries[u] \in {old.registries[u], i}
    [] OTHER -> new.registries = old.registries

CopyInv(k, i, old, l, S, new) ==
  /\ new \in Content /\ WellFormed(new) /\ From(new, S \cup {0, i})
  /\ Progress(k, i, old, l, new)
  /\ Registries(k, i, old, new)
  /\ k = "scan_self_managed_connectors" => Cluster \cap l \subseteq Listed(new)

\* A file that a command has loaded, or may load.
Loaded(f, S) ==
  /\ f \in File /\ (f.kind # "data" => f.data = EmptyState)
  /\ WellFormed(f.data) /\ From(f.data, S \cup {0})

ProcInv(p) ==
  /\ phase[p] # "idle" => id[p] \in 1..clock
  /\ phase[p] = "idle" => id[p] = 0
  /\ phase[p] = "writing" => left[p] = {}
  /\ base[p].kind # "bad"
  /\ cmd[p] # "discover" => base[p].kind = "data"
  /\ Loaded(base[p], committed)
  /\ CopyInv(cmd[p], id[p], base[p].data, left[p], committed, copy[p])

\* As long as nothing was overwritten unseen, a writer is alone, the file is
\* unreadable meanwhile, and the registries it loaded are those of the scans.
SerialInv ==
  ~overlapped =>
    /\ file.kind = "data" => file.data.registries = lastScan
    /\ \A p \in Proc : phase[p] = "writing" =>
         /\ file = Bad
         /\ base[p].kind = "data" => base[p].data.registries = lastScan
         /\ \A q \in Proc : phase[q] = "writing" => q = p

TypeInv ==
  /\ clock \in Stamp
  /\ phase \in [Proc -> {"idle", "working", "writing"}]
  /\ cmd \in [Proc -> Command]
  /\ id \in [Proc -> Stamp]
  /\ base \in [Proc -> File]
  /\ copy \in [Proc -> Content]
  /\ left \in [Proc -> SUBSET (Region \cup Cluster \cup Url)]
  /\ mixed \in SUBSET Proc
  /\ committed \in SUBSET Stamp
  /\ overlapped \in BOOLEAN
  /\ lastScan \in [Url -> Stamp]

IInv == TypeInv /\ Loaded(file, committed) /\ (\A p \in Proc : ProcInv(p)) /\ SerialInv

-----------------------------------------------------------------------------
(* No command has the number 0. *)
LEMMA ZeroStamp == 0 \in Stamp /\ 0 \in 0..MaxTime /\ Stamp \subseteq Nat /\ 0..MaxTime \subseteq Nat
  BY StateDataAssumption DEF Stamp

(* The empty state is a content, and any command may have it. *)
LEMMA EmptyContent ==
  /\ EmptyState \in Content
  /\ WellFormed(EmptyState)
  /\ \A S : From(EmptyState, S \cup {0})
<1>1. 0 \in Stamp /\ 0 \in 0..MaxTime
  BY ZeroStamp
<1>2. Absent \in DiscoveredCluster
  BY <1>1 DEF Absent, NoFacts, NoClients, DiscoveredCluster
<1>3. EmptyState \in Content
  BY <1>1, <1>2 DEF EmptyState, Content
<1>4. WellFormed(EmptyState)
  BY DEF WellFormed, EmptyState
<1>5. ASSUME NEW S PROVE From(EmptyState, S \cup {0})
  BY DEF From, EmptyState, Absent, NoFacts
<1>6. QED
  BY <1>3, <1>4, <1>5

(* StateStore, instantiated, speaks of the same data. *)
LEMMA SameNames ==
  /\ Store!ClusterId = ClusterId /\ Store!Fact = Fact
  /\ Store!NoFacts = NoFacts /\ Store!NoClients = NoClients /\ Store!Absent = Absent
  /\ Store!EmptyState = EmptyState
  /\ \A d : Store!Listed(d) = Listed(d)
  BY DEF Store!ClusterId, ClusterId, Store!Fact, Fact, Store!NoFacts, NoFacts, Store!NoClients,
         NoClients, Store!Absent, Absent, Store!EmptyState, EmptyState, Store!Listed, Listed

(* What was fetched by some commands was fetched by more of them. *)
LEMMA FromMonotone ==
  ASSUME NEW d, NEW S, NEW T, S \subseteq T, From(d, S)
  PROVE  From(d, T)
  BY DEF From

(* Sources and From say the same. *)
LEMMA SourcesFrom ==
  ASSUME NEW d, NEW S, From(d, S \cup {0})
  PROVE  Sources(d) \subseteq S
  BY DEF From, Sources

-----------------------------------------------------------------------------
WithAdmin(d, c, A) == [d EXCEPT !.clusters[c].admin = A]
WithClients(d, c, K) == [d EXCEPT !.clusters[c].clients = K]

(* Assigning the admin information of a cluster. *)
LEMMA AdminSet ==
  ASSUME NEW d \in Content, NEW c \in Cluster, NEW A \in [Fact -> Stamp],
         NEW e, e = WithAdmin(d, c, A)
  PROVE  /\ e \in Content
         /\ e.regions = d.regions /\ e.costs = d.costs /\ e.registries = d.registries
         /\ e.clusters[c].aws = d.clusters[c].aws
         /\ e.clusters[c].clients = d.clusters[c].clients
         /\ e.clusters[c].admin = A
         /\ \A x \in Cluster : x # c => e.clusters[x] = d.clusters[x]
<1>1. d.clusters[c] \in DiscoveredCluster
  BY DEF Content
<1>2. [d.clusters[c] EXCEPT !.admin = A] \in DiscoveredCluster
  BY <1>1 DEF DiscoveredCluster
<1>3. /\ e = [d EXCEPT !.clusters = [d.clusters EXCEPT ![c] = [d.clusters[c] EXCEPT !.admin = A]]]
      /\ d.clusters \in [Cluster -> DiscoveredCluster]
  BY DEF WithAdmin, Content
<1>4. e.clusters = [d.clusters EXCEPT ![c] = [d.clusters[c] EXCEPT !.admin = A]]
  BY <1>3 DEF Content
<1>5. e \in Content
  BY <1>2, <1>3 DEF Content
<1>6. e.regions = d.regions /\ e.costs = d.costs /\ e.registries = d.registries
  BY <1>3 DEF Content
<1>7. /\ e.clusters[c] = [d.clusters[c] EXCEPT !.admin = A]
      /\ \A x \in Cluster : x # c => e.clusters[x] = d.clusters[x]
  BY <1>3, <1>4
<1>8. /\ e.clusters[c].aws = d.clusters[c].aws
      /\ e.clusters[c].clients = d.clusters[c].clients
      /\ e.clusters[c].admin = A
  BY <1>1, <1>7 DEF DiscoveredCluster
<1>9. QED
  BY <1>5, <1>6, <1>7, <1>8

(* ... twice is assigning it once. *)
LEMMA AdminSetTwice ==
  ASSUME NEW d \in Content, NEW c \in Cluster, NEW A, NEW B
  PROVE  WithAdmin(WithAdmin(d, c, A), c, B) = WithAdmin(d, c, B)
<1> DEFINE o == d.clusters[c]
           e == [d.clusters EXCEPT ![c] = [o EXCEPT !.admin = A]]
<1>1. d.clusters \in [Cluster -> DiscoveredCluster] /\ o \in DiscoveredCluster
  BY DEF Content
<1>2. WithAdmin(d, c, A) = [d EXCEPT !.clusters = e]
  BY DEF WithAdmin
<1>3. [d EXCEPT !.clusters = e].clusters = e
  BY DEF Content
<1>4. WithAdmin(WithAdmin(d, c, A), c, B)
        = [[d EXCEPT !.clusters = e] EXCEPT !.clusters = [e EXCEPT ![c] = [e[c] EXCEPT !.admin = B]]]
  BY <1>2, <1>3 DEF WithAdmin
<1>5. [e EXCEPT ![c] = [e[c] EXCEPT !.admin = B]] = [d.clusters EXCEPT ![c] = [o EXCEPT !.admin = B]]
  <2>1. e[c] = [o EXCEPT !.admin = A]
    BY <1>1
  <2>2. [e[c] EXCEPT !.admin = B] = [o EXCEPT !.admin = B]
    BY <2>1, <1>1 DEF DiscoveredCluster
  <2>3. QED
    BY <2>2, <1>1
<1>6. QED
  BY <1>4, <1>5 DEF WithAdmin, Content

(* Assigning the clients of a cluster. *)
LEMMA ClientsSet ==
  ASSUME NEW d \in Content, NEW c \in Cluster, NEW K \in [Client -> 0..MaxTime],
         NEW e, e = WithClients(d, c, K)
  PROVE  /\ e \in Content
         /\ e.regions = d.regions /\ e.costs = d.costs /\ e.registries = d.registries
         /\ e.clusters[c].aws = d.clusters[c].aws
         /\ e.clusters[c].clients = K
         /\ e.clusters[c].admin = d.clusters[c].admin
         /\ \A x \in Cluster : x # c => e.clusters[x] = d.clusters[x]
<1>1. d.clusters[c] \in DiscoveredCluster
  BY DEF Content
<1>2. [d.clusters[c] EXCEPT !.clients = K] \in DiscoveredCluster
  BY <1>1 DEF DiscoveredCluster
<1>3. /\ e = [d EXCEPT !.clusters = [d.clusters EXCEPT ![c] = [d.clusters[c] EXCEPT !.clients = K]]]
      /\ d.clusters \in [Cluster -> DiscoveredCluster]
  BY DEF WithClients, Content
<1>4. e.clusters = [d.clusters EXCEPT ![c] = [d.clusters[c] EXCEPT !.clients = K]]
  BY <1>3 DEF Content
<1>5. e \in Content
  BY <1>2, <1>3 DEF Content
<1>6. e.regions = d.regions /\ e.costs = d.costs /\ e.registries = d.registries
  BY <1>3 DEF Content
<1>7. /\ e.clusters[c] = [d.clusters[c] EXCEPT !.clients = K]
      /\ \A x \in Cluster : x # c => e.clusters[x] = d.clusters[x]
  BY <1>3, <1>4
<1>8. /\ e.clusters[c].aws = d.clusters[c].aws
      /\ e.clusters[c].clients = K
      /\ e.clusters[c].admin = d.clusters[c].admin
  BY <1>1, <1>7 DEF DiscoveredCluster
<1>9. QED
  BY <1>5, <1>6, <1>7, <1>8

(* ... twice is assigning them once. *)
LEMMA ClientsSetTwice ==
  ASSUME NEW d \in Content, NEW c \in Cluster, NEW K, NEW M
  PROVE  WithClients(WithClients(d, c, K), c, M) = WithClients(d, c, M)
<1> DEFINE o == d.clusters[c]
           e == [d.clusters EXCEPT ![c] = [o EXCEPT !.clients = K]]
<1>1. d.clusters \in [Cluster -> DiscoveredCluster] /\ o \in DiscoveredCluster
  BY DEF Content
<1>2. WithClients(d, c, K) = [d EXCEPT !.clusters = e]
  BY DEF WithClients
<1>3. [d EXCEPT !.clusters = e].clusters = e
  BY DEF Content
<1>4. WithClients(WithClients(d, c, K), c, M)
        = [[d EXCEPT !.clusters = e] EXCEPT !.clusters = [e EXCEPT ![c] = [e[c] EXCEPT !.clients = M]]]
  BY <1>2, <1>3 DEF WithClients
<1>5. [e EXCEPT ![c] = [e[c] EXCEPT !.clients = M]] = [d.clusters EXCEPT ![c] = [o EXCEPT !.clients = M]]
  <2>1. e[c] = [o EXCEPT !.clients = K]
    BY <1>1
  <2>2. [e[c] EXCEPT !.clients = M] = [o EXCEPT !.clients = M]
    BY <2>1, <1>1 DEF DiscoveredCluster
  <2>3. QED
    BY <2>2, <1>1
<1>6. QED
  BY <1>4, <1>5 DEF WithClients, Content

-----------------------------------------------------------------------------
(* A command passes over a region or a cluster. *)
LEMMA Skipped ==
  ASSUME NEW k \in {"discover", "scan_clusters"}, NEW i, NEW old, NEW l, NEW S, NEW d, NEW x,
         CopyInv(k, i, old, l, S, d)
  PROVE  CopyInv(k, i, old, l \ {x}, S, d)
<1>1. k \notin Single /\ k # "scan_self_managed_connectors"
  BY DEF Single
<1>2. Progress(k, i, old, l \ {x}, d)
  BY <1>1 DEF CopyInv, Progress
<1>3. QED
  BY <1>1, <1>2 DEF CopyInv

\* The clusters of a region as DiscoverRegion finds them.
Fresh(i, found, topics) ==
  [c \in Cluster |->
     IF c \in found
       THEN [aws |-> i, clients |-> NoClients,
             admin |-> [f \in Fact |-> IF f \in topics[c] THEN i ELSE 0]]
       ELSE Absent]

(* A region that was found, cluster by cluster. *)
LEMMA RefreshedCluster ==
  ASSUME NEW i \in Stamp \ {0}, NEW c \in Cluster, NEW o \in DiscoveredCluster,
         NEW found, NEW topics \in [found -> SUBSET Topic]
  PROVE  LET e == RefreshClusters(o, Fresh(i, found, topics)[c]) IN
         /\ e \in DiscoveredCluster
         /\ e.aws \in {0, i}
         /\ e.aws = 0 => e = Absent
         /\ e # Absent => e.aws = i /\ e.clients = NoClients
         /\ \A f \in Fact : e.admin[f] \in {0, i, o.admin[f]}
         /\ e # Absent => \A f \in Fact : \/ e.admin[f] = o.admin[f]
                                          \/ e.admin[f] = i /\ f \in Topic
<1> DEFINE fresh == Fresh(i, found, topics)[c]
           e == RefreshClusters(o, fresh)
<1>1. 0 \in Stamp /\ NoClients \in [Client -> 0..MaxTime] /\ Absent \in DiscoveredCluster
  BY ZeroStamp DEF NoClients, Absent, NoFacts, DiscoveredCluster
<1>2. CASE c \notin found
  <2>1. fresh = Absent
    BY <1>2 DEF Fresh
  <2>2. e = Absent
    BY <2>1 DEF RefreshClusters, Absent
  <2>3. QED
    BY <1>1, <2>2 DEF Absent, NoFacts
<1>3. CASE c \in found
  <2> DEFINE A == [f \in Fact |-> IF f \in topics[c] THEN i ELSE 0]
  <2>1. fresh = [aws |-> i, clients |-> NoClients, admin |-> A]
    BY <1>3 DEF Fresh
  <2>2. e = [aws |-> i, clients |-> NoClients, admin |-> MergeFrom(A, o.admin)]
    BY <2>1 DEF RefreshClusters
  <2>3. topics[c] \subseteq Topic
    BY <1>3
  <2>4. o.admin \in [Fact -> Stamp]
    BY DEF DiscoveredCluster
  <2>5. /\ MergeFrom(A, o.admin) \in [Fact -> Stamp]
        /\ \A f \in Fact : \/ MergeFrom(A, o.admin)[f] = o.admin[f]
                           \/ MergeFrom(A, o.admin)[f] = i /\ f \in Topic
    BY <2>3, <2>4 DEF MergeFrom
  <2>6. e \in DiscoveredCluster
    BY <1>1, <2>2, <2>5 DEF DiscoveredCluster
  <2>7. e.aws = i /\ e.clients = NoClients /\ e.admin = MergeFrom(A, o.admin) /\ i # 0
    BY <2>2
  <2>8. /\ e.aws \in {0, i} /\ e.aws # 0
        /\ \A f \in Fact : e.admin[f] \in {0, i, o.admin[f]}
        /\ \A f \in Fact : e.admin[f] = o.admin[f] \/ (e.admin[f] = i /\ f \in Topic)
    <3> HIDE DEF e
    <3>1. QED
      BY <2>5, <2>7
  <2>9. QED
    BY <2>6, <2>7, <2>8
<1>4. QED
  BY <1>2, <1>3

(* A region is upserted. *)
LEMMA Upserted ==
  ASSUME NEW i \in Stamp \ {0}, NEW costs \in {0, i}, NEW r \in Region, NEW l, r \in l,
         NEW old, NEW S, NEW d, CopyInv("discover", i, old, l, S, d),
         NEW found, NEW topics \in [found -> SUBSET Topic]
  PROVE  CopyInv("discover", i, old, l \ {r}, S,
                 UpsertRegion(d, r, i, costs, Fresh(i, found, topics)))
<1> DEFINE fresh == Fresh(i, found, topics)
           e == UpsertRegion(d, r, i, costs, fresh)
<1>1. 0 \in Stamp
  BY ZeroStamp
<1>2. d \in Content /\ WellFormed(d) /\ From(d, S \cup {0, i})
  BY DEF CopyInv
<1>3. \A c \in Cluster : d.clusters[c] \in DiscoveredCluster
  BY <1>2 DEF Content
<1>4. /\ e.regions = [d.regions EXCEPT ![r] = i]
      /\ e.costs = [d.costs EXCEPT ![r] = costs]
      /\ e.registries = d.registries
      /\ e.clusters = [c \in Cluster |-> IF RegionOf[c] = r
                                            THEN RefreshClusters(d.clusters[c], fresh[c])
                                            ELSE d.clusters[c]]
  BY <1>2 DEF UpsertRegion, Content
<1>5. \A c \in Cluster : RegionOf[c] = r => e.clusters[c] = RefreshClusters(d.clusters[c], fresh[c])
  BY <1>4
<1>6. \A c \in Cluster : RegionOf[c] # r => e.clusters[c] = d.clusters[c]
  BY <1>4
<1>7. e \in Content
  <2>1. e.clusters \in [Cluster -> DiscoveredCluster]
    BY <1>3, <1>4, RefreshedCluster
  <2>2. e.regions \in [Region -> Stamp] /\ e.costs \in [Region -> Stamp] /\ e.registries \in [Url -> Stamp]
    BY <1>1, <1>2, <1>4 DEF Content
  <2>3. e = [d EXCEPT !.regions = e.regions, !.costs = e.costs, !.clusters = e.clusters]
    BY <1>2, <1>4 DEF UpsertRegion, Content
  <2>4. QED
    BY <1>2, <2>1, <2>2, <2>3 DEF Content
<1>8. WellFormed(e)
  <2> SUFFICES ASSUME NEW c \in Cluster, e.clusters[c].aws = 0 PROVE e.clusters[c] = Absent
    BY DEF WellFormed
  <2>1. QED
    BY <1>2, <1>3, <1>5, <1>6, RefreshedCluster DEF WellFormed
<1>9. From(e, S \cup {0, i})
  <2>1. \A q \in Region : e.regions[q] \in S \cup {0, i} /\ e.costs[q] \in S \cup {0, i}
    BY <1>2, <1>4 DEF From, Content
  <2>2. ASSUME NEW c \in Cluster
        PROVE  /\ e.clusters[c].aws \in S \cup {0, i}
               /\ \A f \in Fact : e.clusters[c].admin[f] \in S \cup {0, i}
    <3>1. CASE RegionOf[c] = r
      <4>1. e.clusters[c].aws \in {0, i}
        BY <3>1, <1>3, <1>5, RefreshedCluster
      <4>2. \A f \in Fact : e.clusters[c].admin[f] \in {0, i, d.clusters[c].admin[f]}
        BY <3>1, <1>3, <1>5, RefreshedCluster
      <4>3. QED
        BY <4>1, <4>2, <1>2 DEF From
    <3>2. CASE RegionOf[c] # r
      BY <3>2, <1>2, <1>6 DEF From
    <3>3. QED
      BY <3>1, <3>2
  <2>3. QED
    BY <2>1, <2>2, <1>2, <1>4 DEF From
<1>10. Progress("discover", i, old, l \ {r}, e)
  <2>1. /\ Store!Discovered(old, d, i)
        /\ \A q \in Region \cap l : Store!SameRegion(old, d, q)
    BY DEF CopyInv, Progress, Store!Allowed, Single
  <2>2. ASSUME NEW q \in Region, q # r
        PROVE  /\ Store!SameRegion(old, d, q) => Store!SameRegion(old, e, q)
               /\ Store!RegionReplaced(old, d, q, i) => Store!RegionReplaced(old, e, q, i)
    <3>1. e.regions[q] = d.regions[q] /\ e.costs[q] = d.costs[q]
      BY <2>2, <1>2, <1>4 DEF Content
    <3>2. \A c \in Cluster : RegionOf[c] = q => e.clusters[c] = d.clusters[c]
      BY <2>2, <1>6
    <3>3. QED
      BY <3>1, <3>2 DEF Store!SameRegion, Store!RegionReplaced
  <2>3. Store!RegionReplaced(old, e, r, i)
    <3>1. e.regions[r] = i /\ e.costs[r] \in {0, i}
      BY <1>2, <1>4 DEF Content
    <3>2. ASSUME NEW c \in Cluster, RegionOf[c] = r, e.clusters[c] # Absent
          PROVE  /\ e.clusters[c].aws = i
                 /\ e.clusters[c].clients = NoClients
                 /\ \A f \in Fact : \/ e.clusters[c].admin[f] = old.clusters[c].admin[f]
                                    \/ e.clusters[c].admin[f] = i /\ f \in Topic
      <4>1. old.clusters[c] = d.clusters[c]
        BY <2>1, <3>2 DEF Store!SameRegion
      <4>2. QED
        BY <3>2, <4>1, <1>3, <1>5, RefreshedCluster
    <3> HIDE DEF e
    <3>3. QED
      BY <3>1, <3>2, SameNames DEF Store!RegionReplaced
  <2>4. Store!Discovered(old, e, i)
    BY <2>1, <2>2, <2>3, <1>4, SameNames DEF Store!Discovered
  <2>5. \A q \in Region \cap (l \ {r}) : Store!SameRegion(old, e, q)
    BY <2>1, <2>2
  <2>6. QED
    BY <2>4, <2>5 DEF Progress, Store!Allowed, Single
<1>11. QED
  BY <1>4, <1>7, <1>8, <1>9, <1>10 DEF CopyInv, Registries

\* The admin information as ScanCluster reads it.
AdminRead(i, read) == [f \in Fact |-> IF f \in read \cup {ClusterId} THEN i ELSE 0]

(* The admin information of a cluster is read. *)
LEMMA ClusterScanned ==
  ASSUME NEW i \in Stamp, NEW l, NEW c \in Cluster, c \in l, NEW old \in Content, NEW S, NEW d,
         CopyInv("scan_clusters", i, old, l, S, d), c \in Listed(d), NEW read
  PROVE  CopyInv("scan_clusters", i, old, l \ {c}, S, WithAdmin(d, c, AdminRead(i, read)))
<1> DEFINE A == AdminRead(i, read)
           e == WithAdmin(d, c, A)
<1>1. d \in Content /\ WellFormed(d) /\ From(d, S \cup {0, i})
  BY DEF CopyInv
<1>d. d \in Content
  BY <1>1
<1>2. A \in [Fact -> Stamp]
  BY ZeroStamp DEF AdminRead
<1>e. e = WithAdmin(d, c, A) /\ \A f \in Fact : A[f] \in {0, i}
  BY DEF AdminRead
<1> HIDE DEF A, e
<1>3. /\ e \in Content
      /\ e.regions = d.regions /\ e.costs = d.costs /\ e.registries = d.registries
      /\ \A x \in Cluster : x # c => e.clusters[x] = d.clusters[x]
  BY <1>d, <1>2, <1>e, AdminSet
<1>4. d.clusters[c] \in DiscoveredCluster /\ d.clusters[c].aws # 0
  BY <1>1 DEF Content, Listed
<1>5. /\ e.clusters[c].aws = d.clusters[c].aws /\ e.clusters[c].aws # 0
      /\ e.clusters[c].clients = d.clusters[c].clients
      /\ e.clusters[c].admin = A
  BY <1>d, <1>2, <1>4, <1>e, AdminSet
<1>6. WellFormed(e)
  BY <1>1, <1>3, <1>5 DEF WellFormed
<1>7. From(e, S \cup {0, i})
  <2>1. \A f \in Fact : e.clusters[c].admin[f] \in {0, i}
    BY <1>5, <1>e
  <2>2. QED
    BY <1>1, <1>3, <1>5, <2>1 DEF From
<1>8. Progress("scan_clusters", i, old, l \ {c}, e)
  <2>1. /\ Store!ClustersScanned(old, d, i)
        /\ \A x \in Cluster \cap l : d.clusters[x] = old.clusters[x]
    BY DEF CopyInv, Progress, Store!Allowed, Single
  <2>2. [e EXCEPT !.clusters = old.clusters] = old
    <3>1. d.regions = old.regions /\ d.costs = old.costs /\ d.registries = old.registries
      BY <1>1, <2>1 DEF Store!ClustersScanned, Content
    <3>2. QED
      BY <1>3, <3>1 DEF Content
  <2>3. ASSUME NEW x \in Cluster, e.clusters[x] # old.clusters[x]
        PROVE  /\ x \in Listed(old)
               /\ [e.clusters[x] EXCEPT !.admin = NoFacts] = [old.clusters[x] EXCEPT !.admin = NoFacts]
               /\ \A f \in Fact : e.clusters[x].admin[f] \in {0, i}
               /\ e.clusters[x].admin[ClusterId] = i
    <3>1. CASE x = c
      <4>1. d.clusters[c] = old.clusters[c]
        BY <2>1
      <4>2. c \in Listed(old)
        BY <4>1 DEF Listed
      <4>3. e.clusters[c] \in DiscoveredCluster
        BY <1>3 DEF Content
      <4>4. [e.clusters[c] EXCEPT !.admin = NoFacts] = [old.clusters[c] EXCEPT !.admin = NoFacts]
        BY <1>4, <1>5, <4>1, <4>3 DEF DiscoveredCluster
      <4>5. ClusterId \in Fact
        BY DEF Fact
      <4>6. A[ClusterId] = i
        BY <4>5 DEF A, AdminRead
      <4>7. QED
        BY <3>1, <1>5, <1>e, <4>2, <4>4, <4>6
    <3>2. CASE x # c
      <4>1. e.clusters[x] = d.clusters[x]
        BY <3>2, <1>3
      <4>2. QED
        BY <2>1, <2>3, <4>1, SameNames DEF Store!ClustersScanned
    <3>3. QED
      BY <3>1, <3>2
  <2>4. Store!ClustersScanned(old, e, i)
    BY <2>2, <2>3, SameNames DEF Store!ClustersScanned
  <2>5. \A x \in Cluster \cap (l \ {c}) : e.clusters[x] = old.clusters[x]
    BY <2>1, <1>3
  <2>6. QED
    BY <2>4, <2>5 DEF Progress, Store!Allowed, Single
<1>9. Registries("scan_clusters", i, old, e)
  BY <1>3 DEF CopyInv, Registries
<1>10. CopyInv("scan_clusters", i, old, l \ {c}, S, e)
  BY <1>3, <1>6, <1>7, <1>8, <1>9 DEF CopyInv
<1>11. QED
  BY <1>10 DEF e, A

(* What a command of one target has to visit, and its copy before the visit. *)
LEMMA OneTarget ==
  ASSUME NEW k \in Single, NEW i, NEW old, NEW l, NEW S, NEW d, NEW x \in l,
         CopyInv(k, i, old, l, S, d)
  PROVE  d = old /\ l \ {x} = {}
  BY DEF CopyInv, Progress

(* Of two entries for a client the later one is kept. *)
LEMMA LatestKept ==
  ASSUME NEW o \in [Client -> 0..MaxTime], NEW n \in [Client -> 0..MaxTime]
  PROVE  /\ DedupDiscoveredClients(o, n) \in [Client -> 0..MaxTime]
         /\ \A k \in Client : DedupDiscoveredClients(o, n)[k] >= o[k]
<1>1. ASSUME NEW k \in Client PROVE DedupDiscoveredClients(o, n)[k] >= o[k]
  <2>1. o[k] \in Nat /\ n[k] \in Nat
    BY ZeroStamp
  <2>2. QED
    BY <2>1 DEF DedupDiscoveredClients
<1>2. QED
  BY <1>1 DEF DedupDiscoveredClients

(* The clients in the broker logs are merged. *)
LEMMA ClientsMerged ==
  ASSUME NEW i \in Stamp, NEW l, NEW c \in Cluster, c \in l, NEW old \in Content, NEW S, NEW d,
         CopyInv("scan_client_inventory", i, old, l, S, d), c \in Listed(d),
         NEW seen \in [Client -> 0..MaxTime]
  PROVE  CopyInv("scan_client_inventory", i, old, l \ {c}, S,
                 [d EXCEPT !.clusters[c].clients =
                    DedupDiscoveredClients(d.clusters[c].clients, seen)])
<1> DEFINE K == DedupDiscoveredClients(d.clusters[c].clients, seen)
           e == WithClients(d, c, K)
<1>1. d \in Content /\ WellFormed(d) /\ From(d, S \cup {0, i}) /\ d = old /\ l \ {c} = {}
  <2>1. d = old /\ l \ {c} = {}
    BY OneTarget DEF Single
  <2>2. QED
    BY <2>1 DEF CopyInv
<1>2. d.clusters[c] \in DiscoveredCluster
  BY <1>1 DEF Content
<1>3. d.clusters[c].clients \in [Client -> 0..MaxTime]
  BY <1>2 DEF DiscoveredCluster
<1>4. /\ K \in [Client -> 0..MaxTime]
      /\ \A n \in Client : K[n] >= d.clusters[c].clients[n]
  BY <1>3, LatestKept
<1>e. e = WithClients(d, c, K)
  OBVIOUS
<1> HIDE DEF K, e
<1>5. /\ e \in Content
      /\ e.regions = d.regions /\ e.costs = d.costs /\ e.registries = d.registries
      /\ \A x \in Cluster : x # c => e.clusters[x] = d.clusters[x]
  BY <1>1, <1>4, <1>e, ClientsSet
<1>6. /\ e.clusters[c].aws = d.clusters[c].aws /\ e.clusters[c].aws # 0
      /\ e.clusters[c].clients = K
      /\ e.clusters[c].admin = d.clusters[c].admin
  <2>1. d.clusters[c].aws # 0
    BY DEF Listed
  <2>2. QED
    BY <2>1, <1>1, <1>4, <1>e, ClientsSet
<1>7. [e EXCEPT !.clusters[c].clients = NoClients] = [d EXCEPT !.clusters[c].clients = NoClients]
  <2>1. WithClients(e, c, NoClients) = WithClients(d, c, NoClients)
    BY <1>1, <1>e, ClientsSetTwice
  <2>2. QED
    BY <2>1 DEF WithClients
<1>8. WellFormed(e) /\ From(e, S \cup {0, i})
  BY <1>1, <1>5, <1>6 DEF WellFormed, From
<1>9. Progress("scan_client_inventory", i, old, l \ {c}, e)
  BY <1>1, <1>4, <1>6, <1>7, SameNames DEF Progress, Store!Allowed, Store!ClientsFound, Single
<1>10. Registries("scan_client_inventory", i, old, e)
  BY <1>1, <1>5 DEF Registries
<1>11. CopyInv("scan_client_inventory", i, old, l \ {c}, S, e)
  BY <1>5, <1>8, <1>9, <1>10 DEF CopyInv
<1>12. QED
  BY <1>11 DEF e, K, WithClients

(* A schema registry is read. *)
LEMMA RegistryRead ==
  ASSUME NEW i \in Stamp, NEW l, NEW u \in Url, u \in l, NEW old \in Content, NEW S, NEW d,
         CopyInv("scan_schema_registry", i, old, l, S, d)
  PROVE  CopyInv("scan_schema_registry", i, old, l \ {u}, S, [d EXCEPT !.registries[u] = i])
<1> DEFINE e == [d EXCEPT !.registries[u] = i]
<1>1. d \in Content /\ WellFormed(d) /\ From(d, S \cup {0, i}) /\ d = old /\ l \ {u} = {}
  <2>1. d = old /\ l \ {u} = {}
    BY OneTarget DEF Single
  <2>2. QED
    BY <2>1 DEF CopyInv
<1>2. /\ e \in Content
      /\ e.regions = d.regions /\ e.costs = d.costs /\ e.clusters = d.clusters
      /\ e.registries = [d.registries EXCEPT ![u] = i]
  BY <1>1 DEF Content
<1>3. \A v \in Url : e.registries[v] \in {d.registries[v], i}
  BY <1>1, <1>2 DEF Content
<1>4. Progress("scan_schema_registry", i, old, l \ {u}, e)
  BY <1>1 DEF Progress, Store!Allowed, Store!RegistryScanned, Single
<1> HIDE DEF e
<1>5. WellFormed(e) /\ From(e, S \cup {0, i})
  BY <1>1, <1>2, <1>3 DEF WellFormed, From
<1>6. Registries("scan_schema_registry", i, old, e)
  BY <1>1, <1>3 DEF Registries
<1>7. CopyInv("scan_schema_registry", i, old, l \ {u}, S, e)
  BY <1>2, <1>4, <1>5, <1>6 DEF CopyInv
<1>8. QED
  BY <1>7 DEF e

(* The connectors of a cluster are read. *)
LEMMA ConnectorsRead ==
  ASSUME NEW i \in Stamp, NEW l, NEW c \in Cluster, c \in l, NEW old \in Content, NEW S, NEW d,
         CopyInv("scan_self_managed_connectors", i, old, l, S, d), NEW K \in SUBSET Connector
  PROVE  CopyInv("scan_self_managed_connectors", i, old, l \ {c}, S,
                 [d EXCEPT !.clusters[c].admin =
                    SetSelfManagedConnectors(d.clusters[c].admin, K, i)])
<1> DEFINE A == SetSelfManagedConnectors(d.clusters[c].admin, K, i)
           e == WithAdmin(d, c, A)
<1>1. d \in Content /\ WellFormed(d) /\ From(d, S \cup {0, i}) /\ d = old /\ l \ {c} = {}
  <2>1. d = old /\ l \ {c} = {}
    BY OneTarget DEF Single
  <2>2. QED
    BY <2>1 DEF CopyInv
<1>2. d.clusters[c] \in DiscoveredCluster /\ c \in Listed(d)
  BY <1>1 DEF Content, CopyInv
<1>3. d.clusters[c].admin \in [Fact -> Stamp] /\ 0 \in Stamp
  <2>1. d.clusters[c].admin \in [Fact -> Stamp]
    BY <1>2 DEF DiscoveredCluster
  <2>2. 0 \in Stamp
    BY ZeroStamp
  <2>3. QED
    BY <2>1, <2>2
<1>4. /\ A \in [Fact -> Stamp]
      /\ \A f \in Fact \ Connector : A[f] = d.clusters[c].admin[f]
      /\ \A f \in Connector : A[f] \in {0, i}
      /\ \A f \in Fact : A[f] \in {0, i, d.clusters[c].admin[f]}
  BY <1>3 DEF SetSelfManagedConnectors, Fact
<1>e. e = WithAdmin(d, c, A)
  OBVIOUS
<1> HIDE DEF A, e
<1>5. /\ e \in Content
      /\ e.regions = d.regions /\ e.costs = d.costs /\ e.registries = d.registries
      /\ \A x \in Cluster : x # c => e.clusters[x] = d.clusters[x]
  BY <1>1, <1>4, <1>e, AdminSet
<1>6. /\ e.clusters[c].aws = d.clusters[c].aws /\ e.clusters[c].aws # 0
      /\ e.clusters[c].clients = d.clusters[c].clients
      /\ e.clusters[c].admin = A
  <2>1. d.clusters[c].aws # 0
    BY <1>2 DEF Listed
  <2>2. QED
    BY <2>1, <1>1, <1>4, <1>e, AdminSet
<1>7. [e EXCEPT !.clusters[c].admin = NoFacts] = [d EXCEPT !.clusters[c].admin = NoFacts]
  <2>1. WithAdmin(e, c, NoFacts) = WithAdmin(d, c, NoFacts)
    BY <1>1, <1>e, AdminSetTwice
  <2>2. QED
    BY <2>1 DEF WithAdmin
<1>8. WellFormed(e) /\ From(e, S \cup {0, i})
  <2>1. WellFormed(e)
    BY <1>1, <1>5, <1>6 DEF WellFormed
  <2>2. \A f \in Fact : d.clusters[c].admin[f] \in S \cup {0, i}
    BY <1>1 DEF From
  <2>3. \A f \in Fact : e.clusters[c].admin[f] \in S \cup {0, i}
    BY <2>2, <1>4, <1>6
  <2>4. QED
    BY <2>1, <2>3, <1>1, <1>5, <1>6 DEF From
<1>9. Progress("scan_self_managed_connectors", i, old, l \ {c}, e)
  BY <1>1, <1>2, <1>4, <1>6, <1>7, SameNames
     DEF Progress, Store!Allowed, Store!ConnectorsScanned, Single
<1>10. Registries("scan_self_managed_connectors", i, old, e)
  BY <1>1, <1>5 DEF Registries
<1>11. CopyInv("scan_self_managed_connectors", i, old, l \ {c}, S, e)
  BY <1>1, <1>5, <1>8, <1>9, <1>10 DEF CopyInv
<1>12. QED
  BY <1>11 DEF e, A, WithAdmin

-----------------------------------------------------------------------------
(* A terminal at rest. *)
LEMMA Idle ==
  ASSUME NEW S
  PROVE  /\ Missing \in File /\ Bad \in File
         /\ Loaded(Missing, S) /\ Loaded(Bad, S)
         /\ CopyInv("discover", 0, EmptyState, {}, S, EmptyState)
<1>1. Missing \in File /\ Bad \in File /\ Missing.data = EmptyState /\ Bad.data = EmptyState
  BY EmptyContent DEF Missing, Bad, File
<1>2. Loaded(Missing, S) /\ Loaded(Bad, S)
  BY <1>1, EmptyContent DEF Loaded
<1>3. Store!Discovered(EmptyState, EmptyState, 0)
  BY SameNames DEF Store!Discovered, Store!SameRegion
<1>4. Progress("discover", 0, EmptyState, {}, EmptyState)
  BY <1>3 DEF Progress, Store!Allowed, Single
<1>5. Registries("discover", 0, EmptyState, EmptyState)
  BY DEF Registries
<1>6. From(EmptyState, S \cup {0, 0})
  BY EmptyContent
<1>7. QED
  BY <1>1, <1>2, <1>4, <1>5, <1>6, EmptyContent DEF CopyInv

(* A command that has just loaded the file. *)
LEMMA Started ==
  ASSUME NEW S, NEW f, Loaded(f, S), NEW k \in Command, NEW i, NEW l,
         k \in Single => \E x : l = {x},
         k = "scan_self_managed_connectors" => Cluster \cap l \subseteq Listed(f.data)
  PROVE  CopyInv(k, i, f.data, l, S, IF k = "discover" THEN NewStateFrom(f.data) ELSE f.data)
<1> DEFINE old == f.data
           d == IF k = "discover" THEN NewStateFrom(old) ELSE old
<1>1. old \in Content /\ WellFormed(old) /\ From(old, S \cup {0})
  BY DEF Loaded, File
<1>2. From(old, S \cup {0, i})
  <2>1. S \cup {0} \subseteq S \cup {0, i}
    OBVIOUS
  <2>2. QED
    BY <1>1, <2>1, FromMonotone
<1>3. CASE k = "discover"
  <2>1. /\ d.registries = EmptyState.registries
        /\ d.regions = old.regions /\ d.costs = old.costs /\ d.clusters = old.clusters
    BY <1>1, <1>3 DEF NewStateFrom, EmptyState, Content
  <2>2. d \in Content
    BY <1>1, <1>3, ZeroStamp DEF NewStateFrom, Content
  <2>3. \A u \in Url : d.registries[u] = 0
    BY <2>1 DEF EmptyState
  <2> HIDE DEF d, old
  <2>4. WellFormed(d) /\ From(d, S \cup {0, i})
    BY <1>1, <1>2, <2>1, <2>3 DEF WellFormed, From
  <2>5. \A r \in Region : Store!SameRegion(old, d, r)
    BY <2>1 DEF Store!SameRegion
  <2>6. Progress("discover", i, old, l, d)
    BY <2>1, <2>5, SameNames DEF Progress, Store!Allowed, Store!Discovered, Single
  <2>7. CopyInv("discover", i, old, l, S, d)
    BY <2>1, <2>2, <2>4, <2>6 DEF CopyInv, Registries
  <2>8. QED
    BY <1>3, <2>7 DEF d, old
<1>4. CASE k = "scan_clusters"
  <2>1. Store!ClustersScanned(old, old, i)
    <3>1. [old EXCEPT !.clusters = old.clusters] = old
      BY <1>1 DEF Content
    <3>2. QED
      BY <3>1 DEF Store!ClustersScanned
  <2> HIDE DEF old
  <2>2. Progress("scan_clusters", i, old, l, old)
    BY <2>1 DEF Progress, Store!Allowed, Single
  <2>3. CopyInv("scan_clusters", i, old, l, S, old)
    BY <1>1, <1>2, <2>2 DEF CopyInv, Registries
  <2>4. QED
    BY <1>4, <2>3 DEF old
<1>5. CASE k \in Single
  <2>1. Progress(k, i, old, l, old)
    BY <1>5 DEF Progress
  <2>2. Registries(k, i, old, old) /\ k # "discover"
    BY <1>5 DEF Registries, Single
  <2>3. QED
    BY <1>1, <1>2, <1>5, <2>1, <2>2 DEF CopyInv
<1>6. QED
  BY <1>3, <1>4, <1>5 DEF Command, Store!Command, Single

(* Commands that end elsewhere do not disturb a terminal. *)
LEMMA MoreCommitted ==
  ASSUME NEW S, NEW T, S \subseteq T, NEW f, NEW k, NEW i, NEW old, NEW l, NEW d
  PROVE  /\ Loaded(f, S) => Loaded(f, T)
         /\ CopyInv(k, i, old, l, S, d) => CopyInv(k, i, old, l, T, d)
<1>1. From(f.data, S \cup {0}) => From(f.data, T \cup {0})
  BY FromMonotone
<1>2. From(d, S \cup {0, i}) => From(d, T \cup {0, i})
  BY FromMonotone
<1>3. QED
  BY <1>1, <1>2 DEF Loaded, CopyInv

(* ... nor does anything else that leaves its variables alone. *)
LEMMA OtherTerminal ==
  ASSUME NEW q, ProcInv(q), committed \subseteq committed',
         clock \in Nat, clock' \in {clock, clock + 1}, id[q] \in Nat,
         phase'[q] = phase[q], cmd'[q] = cmd[q], id'[q] = id[q],
         base'[q] = base[q], copy'[q] = copy[q], left'[q] = left[q]
  PROVE  ProcInv(q)'
<1>1. Loaded(base'[q], committed')
  BY MoreCommitted DEF ProcInv
<1>2. CopyInv(cmd'[q], id'[q], base'[q].data, left'[q], committed', copy'[q])
  BY MoreCommitted DEF ProcInv
<1>3. id'[q] \in 1..clock => id'[q] \in 1..clock'
  OBVIOUS
<1>4. QED
  BY <1>1, <1>2, <1>3 DEF ProcInv

\* Only the variables of terminal p change, among those of the terminals.
OnlyOf(p) ==
  \A q \in Proc : q # p =>
    /\ phase'[q] = phase[q] /\ cmd'[q] = cmd[q] /\ id'[q] = id[q]
    /\ base'[q] = base[q] /\ copy'[q] = copy[q] /\ left'[q] = left[q]

(* A step of a terminal that leaves it in order leaves all in order. *)
LEMMA OneTerminal ==
  ASSUME IInv, NEW p \in Proc, OnlyOf(p), ProcInv(p)',
         committed \subseteq committed', clock' \in {clock, clock + 1}
  PROVE  \A q \in Proc : ProcInv(q)'
<1>1. clock \in Nat /\ \A q \in Proc : id[q] \in Nat
  BY ZeroStamp DEF IInv, TypeInv
<1>2. ASSUME NEW q \in Proc, q # p PROVE ProcInv(q)'
  BY <1>1, <1>2, OtherTerminal DEF IInv, OnlyOf
<1>3. QED
  BY <1>2

-----------------------------------------------------------------------------
(* The invariant holds before the first command. *)
LEMMA InitInv == Init => IInv
<1> SUFFICES ASSUME Init PROVE IInv
  OBVIOUS
<1>1. Missing \in File /\ Loaded(Missing, {}) /\ EmptyState \in Content
  BY Idle, EmptyContent
<1>2. TypeInv
  BY <1>1, ZeroStamp DEF Init, TypeInv, Command, Store!Command
<1>3. ASSUME NEW p \in Proc PROVE ProcInv(p)
  <2>1. base[p].data = EmptyState /\ base[p].kind = "missing"
    BY DEF Init, Missing
  <2>2. QED
    BY <1>1, <2>1, Idle DEF Init, ProcInv
<1>4. SerialInv
  BY DEF Init, SerialInv, Missing
<1>5. QED
  BY <1>1, <1>2, <1>3, <1>4 DEF IInv, Init

(* A command starts. *)
LEMMA LoadInv ==
  ASSUME IInv, NEW p \in Proc, NEW k \in Command,
         NEW targets \in SUBSET (Region \cup Cluster \cup Url), Load(p, k, targets),
         k \in Single => \E x : targets = {x},
         k = "scan_self_managed_connectors" => Cluster \cap targets \subseteq Listed(file.data)
  PROVE  IInv'
<1> DEFINE d == IF k = "discover" THEN NewStateFrom(file.data) ELSE file.data
<1>1. TypeInv /\ Loaded(file, committed) /\ SerialInv
  BY DEF IInv
<1>2. CopyInv(k, clock + 1, file.data, targets, committed, d)
  BY <1>1, Started
<1>3. d \in Content
  BY <1>2 DEF CopyInv
<1>4. clock \in Nat /\ clock + 1 \in Stamp /\ clock + 1 \in 1..(clock + 1)
  BY <1>1, StateDataAssumption DEF TypeInv, Stamp, Load
<1>5. /\ phase' = [phase EXCEPT ![p] = "working"]
      /\ cmd' = [cmd EXCEPT ![p] = k]
      /\ id' = [id EXCEPT ![p] = clock + 1]
      /\ base' = [base EXCEPT ![p] = file]
      /\ copy' = [copy EXCEPT ![p] = d]
      /\ left' = [left EXCEPT ![p] = targets]
      /\ clock' = clock + 1 /\ CanLoad(k) /\ phase[p] = "idle"
      /\ UNCHANGED <<file, mixed, committed, overlapped, lastScan>>
  BY DEF Load, history
<1> HIDE DEF d
<1>6. TypeInv'
  BY <1>1, <1>3, <1>4, <1>5 DEF TypeInv, Loaded
<1>7. /\ phase'[p] = "working" /\ cmd'[p] = k /\ id'[p] = clock + 1 /\ base'[p] = file
      /\ copy'[p] = d /\ left'[p] = targets /\ OnlyOf(p)
  BY <1>1, <1>5 DEF TypeInv, OnlyOf
<1>8. ProcInv(p)'
  BY <1>1, <1>2, <1>4, <1>5, <1>7 DEF ProcInv, CanLoad
<1>9. \A q \in Proc : ProcInv(q)'
  BY <1>5, <1>7, <1>8, OneTerminal
<1>10. SerialInv'
  BY <1>1, <1>5, <1>7 DEF SerialInv, OnlyOf
<1>11. QED
  BY <1>1, <1>5, <1>6, <1>9, <1>10 DEF IInv, Loaded

(* A command visits a region, a cluster or a registry. *)
LEMMA WorkInv ==
  ASSUME IInv, NEW p \in Proc, NEW k, NEW x, Working(p, k, x), NEW d,
         copy' = [copy EXCEPT ![p] = d],
         CopyInv(k, id[p], base[p].data, left[p] \ {x}, committed, d)
  PROVE  IInv'
<1>1. TypeInv /\ Loaded(file, committed) /\ SerialInv /\ ProcInv(p)
  BY DEF IInv
<1>2. d \in Content
  BY DEF CopyInv
<1>3. /\ phase[p] = "working" /\ cmd[p] = k
      /\ left' = [left EXCEPT ![p] = left[p] \ {x}]
      /\ UNCHANGED <<file, clock, phase, cmd, id, base, mixed, committed, overlapped, lastScan>>
  BY DEF Working, history
<1>4. left[p] \ {x} \in SUBSET (Region \cup Cluster \cup Url)
  BY <1>1 DEF TypeInv
<1>5. TypeInv'
  BY <1>1, <1>2, <1>3, <1>4 DEF TypeInv
<1>6. copy'[p] = d /\ left'[p] = left[p] \ {x} /\ OnlyOf(p)
  BY <1>1, <1>3 DEF TypeInv, OnlyOf
<1>7. ProcInv(p)'
  BY <1>1, <1>3, <1>6 DEF ProcInv
<1>8. \A q \in Proc : ProcInv(q)'
  BY <1>3, <1>6, <1>7, OneTerminal
<1>9. SerialInv'
  BY <1>1, <1>3, <1>6 DEF SerialInv
<1>10. QED
  BY <1>1, <1>3, <1>5, <1>8, <1>9 DEF IInv, Loaded

(* A terminal after its command. *)
LEMMA Ended ==
  ASSUME TypeInv, NEW p \in Proc, End(p), clock' = clock, committed' \in SUBSET Stamp
  PROVE  /\ phase'[p] = "idle" /\ ProcInv(p)' /\ OnlyOf(p)
         /\ phase' \in [Proc -> {"idle", "working", "writing"}]
         /\ cmd' \in [Proc -> Command] /\ id' \in [Proc -> Stamp] /\ base' \in [Proc -> File]
         /\ copy' \in [Proc -> Content]
         /\ left' \in [Proc -> SUBSET (Region \cup Cluster \cup Url)]
<1>1. /\ phase'[p] = "idle" /\ cmd'[p] = "discover" /\ id'[p] = 0 /\ base'[p] = Missing
      /\ copy'[p] = EmptyState /\ left'[p] = {} /\ OnlyOf(p)
  BY DEF TypeInv, End, OnlyOf
<1>2. base'[p].kind = "missing" /\ base'[p].data = EmptyState
  BY <1>1 DEF Missing
<1>3. ProcInv(p)'
  BY <1>1, <1>2, Idle DEF ProcInv
<1>4. "discover" \in Command /\ Missing \in File /\ EmptyState \in Content /\ 0 \in Stamp
  BY Idle, EmptyContent, ZeroStamp DEF Command, Store!Command
<1>5. QED
  BY <1>1, <1>3, <1>4 DEF TypeInv, End

(* A command truncates the file. *)
LEMMA TruncateInv ==
  ASSUME IInv, NEW p \in Proc, Truncate(p)
  PROVE  IInv'
<1>1. TypeInv /\ SerialInv /\ ProcInv(p)
  BY DEF IInv
<1>2. /\ phase[p] = "working" /\ left[p] = {} /\ file' = Bad
      /\ phase' = [phase EXCEPT ![p] = "writing"]
      /\ overlapped' = (overlapped \/ file # base[p])
      /\ UNCHANGED <<clock, cmd, id, base, copy, left, committed, lastScan>>
  BY DEF Truncate
<1>3. TypeInv' /\ Loaded(file, committed)'
  BY <1>1, <1>2, Idle DEF TypeInv, Truncate
<1>4. phase'[p] = "writing" /\ OnlyOf(p)
  BY <1>1, <1>2 DEF TypeInv, OnlyOf
<1>5. ProcInv(p)'
  BY <1>1, <1>2, <1>4 DEF ProcInv
<1>6. \A q \in Proc : ProcInv(q)'
  BY <1>2, <1>4, <1>5, OneTerminal
<1>7. SerialInv'
  <2> SUFFICES ASSUME ~overlapped' PROVE SerialInv'
    BY DEF SerialInv
  <2>1. ~overlapped /\ file = base[p]
    BY <1>1, <1>2 DEF TypeInv
  <2>2. file.kind # "bad"
    BY <2>1, <1>1 DEF ProcInv
  <2>3. \A q \in Proc : phase[q] # "writing"
    BY <1>1, <2>1, <2>2 DEF SerialInv, Bad
  <2>4. file'.kind # "data"
    BY <1>2 DEF Bad
  <2>5. \A q \in Proc : phase'[q] = "writing" => q = p
    BY <2>3, <1>4 DEF OnlyOf
  <2>6. base'[p] = file /\ lastScan' = lastScan
    BY <2>1, <1>2
  <2>7. file.kind = "data" => file.data.registries = lastScan
    BY <1>1, <2>1 DEF SerialInv
  <2>8. QED
    BY <1>2, <2>4, <2>5, <2>6, <2>7 DEF SerialInv
<1>8. QED
  BY <1>3, <1>6, <1>7 DEF IInv

(* The registries a command writes, if it had loaded those of the last scans. *)
LEMMA RegistriesWritten ==
  ASSUME NEW k \in Command, NEW i, NEW old \in Content, NEW d \in Content, NEW ls \in [Url -> Stamp],
         Registries(k, i, old, d), k # "discover" => old.registries = ls
  PROVE  d.registries =
           CASE k = "discover" -> [u \in Url |-> 0]
             [] k = "scan_schema_registry" ->
                  [u \in Url |-> IF d.registries[u] = i THEN i ELSE ls[u]]
             [] OTHER -> ls
<1>1. d.registries \in [Url -> Stamp]
  BY DEF Content
<1>2. CASE k = "discover"
  BY <1>2 DEF Registries, EmptyState
<1>3. CASE k = "scan_schema_registry"
  <2>1. \A u \in Url : d.registries[u] = IF d.registries[u] = i THEN i ELSE ls[u]
    BY <1>3 DEF Registries
  <2>2. d.registries = [u \in Url |-> IF d.registries[u] = i THEN i ELSE ls[u]]
    BY <1>1, <2>1
  <2>3. QED
    BY <1>3, <2>2
<1>4. CASE k # "discover" /\ k # "scan_schema_registry"
  BY <1>4 DEF Registries
<1>5. QED
  BY <1>2, <1>3, <1>4

(* A command's bytes land in the file. *)
LEMMA FillInv ==
  ASSUME IInv, NEW p \in Proc, Fill(p)
  PROVE  IInv'
<1>1. TypeInv /\ SerialInv /\ ProcInv(p)
  BY DEF IInv
<1>2. /\ phase[p] = "writing" /\ End(p) /\ clock' = clock /\ overlapped' = overlapped
      /\ committed' = committed \cup {id[p]}
      /\ mixed' = {q \in Proc \ {p} : phase[q] = "writing"}
      /\ file' = [kind |-> "data", data |-> copy[p]] \/ file' = Bad
  BY DEF Fill
<1>3. committed' \in SUBSET Stamp /\ copy[p] \in Content /\ id[p] \in Stamp /\ cmd[p] \in Command
      /\ base[p] \in File /\ lastScan \in [Url -> Stamp]
  BY <1>1, <1>2 DEF TypeInv
<1>4. CopyInv(cmd[p], id[p], base[p].data, left[p], committed, copy[p])
  BY <1>1 DEF ProcInv
<1>5. Loaded(file, committed)'
  <2>1. CASE file' = Bad
    BY <2>1, Idle
  <2>2. CASE file' = [kind |-> "data", data |-> copy[p]]
    <3>1. file' \in File /\ file'.kind = "data" /\ file'.data = copy[p]
      BY <1>3, <2>2 DEF File
    <3>2. committed' \cup {0} = committed \cup {0, id[p]}
      BY <1>2
    <3>3. WellFormed(copy[p]) /\ From(copy[p], committed' \cup {0})
      BY <1>4, <3>2 DEF CopyInv
    <3>4. QED
      BY <3>1, <3>3 DEF Loaded
  <2>3. QED
    BY <1>2, <2>1, <2>2
<1>6. /\ phase'[p] = "idle" /\ ProcInv(p)' /\ OnlyOf(p)
      /\ phase' \in [Proc -> {"idle", "working", "writing"}]
      /\ cmd' \in [Proc -> Command] /\ id' \in [Proc -> Stamp] /\ base' \in [Proc -> File]
      /\ copy' \in [Proc -> Content]
      /\ left' \in [Proc -> SUBSET (Region \cup Cluster \cup Url)]
  BY <1>1, <1>2, <1>3, Ended
<1>7. lastScan' \in [Url -> Stamp]
  <2>1. 0 \in Stamp
    BY ZeroStamp
  <2>2. CASE cmd[p] = "discover"
    BY <2>1, <2>2 DEF Fill
  <2>3. CASE cmd[p] = "scan_schema_registry"
    BY <1>3, <2>3 DEF Fill
  <2>4. CASE cmd[p] # "discover" /\ cmd[p] # "scan_schema_registry"
    BY <1>3, <2>4 DEF Fill
  <2>5. QED
    BY <2>2, <2>3, <2>4
<1>8. TypeInv'
  BY <1>1, <1>2, <1>3, <1>6, <1>7 DEF TypeInv
<1>9. \A q \in Proc : ProcInv(q)'
  BY <1>2, <1>6, OneTerminal
<1>10. SerialInv'
  <2> SUFFICES ASSUME ~overlapped PROVE SerialInv'
    BY <1>2 DEF SerialInv
  <2>1. \A q \in Proc : phase'[q] # "writing"
    BY <1>1, <1>2, <1>6 DEF SerialInv, OnlyOf
  <2>2. cmd[p] # "discover" => base[p].data.registries = lastScan
    BY <1>1, <1>2 DEF SerialInv, ProcInv
  <2>3. Registries(cmd[p], id[p], base[p].data, copy[p])
    BY <1>4 DEF CopyInv
  <2>4. base[p].data \in Content
    BY <1>3 DEF File
  <2>5. copy[p].registries = lastScan'
    BY <1>3, <2>2, <2>3, <2>4, RegistriesWritten DEF Fill
  <2>6. file'.kind = "data" => file'.data.registries = lastScan'
    BY <1>2, <2>5 DEF Bad
  <2>7. QED
    BY <2>1, <2>6 DEF SerialInv
<1>11. QED
  BY <1>5, <1>8, <1>9, <1>10 DEF IInv

(* A command fails or is interrupted. *)
LEMMA StopInv ==
  ASSUME IInv, NEW p \in Proc, Stop(p)
  PROVE  IInv'
<1>1. TypeInv /\ SerialInv /\ Loaded(file, committed)
  BY DEF IInv
<1>2. /\ End(p) /\ mixed' = mixed \ {p}
      /\ UNCHANGED <<file, clock, committed, overlapped, lastScan>>
  BY DEF Stop, history
<1>3. committed' \in SUBSET Stamp
  BY <1>1, <1>2 DEF TypeInv
<1>4. /\ phase'[p] = "idle" /\ ProcInv(p)' /\ OnlyOf(p)
      /\ phase' \in [Proc -> {"idle", "working", "writing"}]
      /\ cmd' \in [Proc -> Command] /\ id' \in [Proc -> Stamp] /\ base' \in [Proc -> File]
      /\ copy' \in [Proc -> Content]
      /\ left' \in [Proc -> SUBSET (Region \cup Cluster \cup Url)]
  BY <1>1, <1>2, <1>3, Ended
<1>5. TypeInv'
  BY <1>1, <1>2, <1>4 DEF TypeInv
<1>6. \A q \in Proc : ProcInv(q)'
  BY <1>2, <1>4, OneTerminal
<1>7. SerialInv'
  BY <1>1, <1>2, <1>4 DEF SerialInv, OnlyOf
<1>8. QED
  BY <1>1, <1>2, <1>5, <1>6, <1>7 DEF IInv, Loaded

(* A person removes the unreadable file. *)
LEMMA RemoveInv ==
  ASSUME IInv, RemoveFile
  PROVE  IInv'
<1>1. TypeInv /\ (\A p \in Proc : ProcInv(p))
  BY DEF IInv
<1>2. /\ file' = Missing /\ lastScan' = [u \in Url |-> 0]
      /\ \A p \in Proc : phase[p] # "writing"
      /\ UNCHANGED <<clock, phase, cmd, id, base, copy, left, mixed, committed, overlapped>>
  BY DEF RemoveFile, procVars
<1>3. TypeInv' /\ Loaded(file, committed)'
  BY <1>1, <1>2, Idle, ZeroStamp DEF TypeInv
<1>4. \A p \in Proc : ProcInv(p)'
  BY <1>1, <1>2 DEF ProcInv
<1>5. SerialInv'
  BY <1>2 DEF SerialInv, Missing
<1>6. QED
  BY <1>3, <1>4, <1>5 DEF IInv

(* A command goes one step further on its copy. *)
LEMMA WorkStepInv ==
  ASSUME IInv, NEW p \in Proc, Work(p)
  PROVE  IInv'
<1> DEFINE old == base[p].data
           Visited(k, x, d) == CopyInv(k, id[p], old, left[p] \ {x}, committed, d)
<1>1. TypeInv /\ ProcInv(p)
  BY DEF IInv
<1>2. copy \in [Proc -> Content] /\ copy[p] \in Content /\ id[p] \in Stamp /\ old \in Content
  BY <1>1 DEF TypeInv, File
<1>3. CopyInv(cmd[p], id[p], old, left[p], committed, copy[p])
  BY <1>1 DEF ProcInv
<1>4. ASSUME NEW k, NEW x, Working(p, k, x)
      PROVE  x \in left[p] /\ cmd[p] = k /\ id[p] \in Stamp \ {0}
  <2>1. x \in left[p] /\ cmd[p] = k /\ phase[p] = "working"
    BY <1>4 DEF Working
  <2>2. id[p] \in 1..clock
    BY <2>1, <1>1 DEF ProcInv
  <2>3. QED
    BY <1>2, <2>1, <2>2
<1>5. ASSUME NEW k \in {"discover", "scan_clusters"}, NEW x, Working(p, k, x), UNCHANGED copy
      PROVE  IInv'
  <2>0. CopyInv(k, id[p], old, left[p], committed, copy[p])
    BY <1>3, <1>4, <1>5
  <2> HIDE DEF old
  <2>1. CopyInv(k, id[p], old, left[p] \ {x}, committed, copy[p])
    BY <2>0, Skipped
  <2> USE DEF old
  <2>2. copy' = [copy EXCEPT ![p] = copy[p]]
    BY <1>2, <1>5
  <2>3. QED
    BY <1>5, <2>1, <2>2, WorkInv
<1>6. ASSUME NEW r \in Region, NEW found \in SUBSET {c \in Cluster : RegionOf[c] = r},
             NEW topics \in [found -> SUBSET Topic], NEW withCosts \in BOOLEAN,
             DiscoverRegion(p, r, found, topics, withCosts)
      PROVE  IInv'
  <2> DEFINE costs == IF withCosts THEN id[p] ELSE 0
             d == UpsertRegion(copy[p], r, id[p], costs, Fresh(id[p], found, topics))
  <2>1. Working(p, "discover", r) /\ copy' = [copy EXCEPT ![p] = d]
    BY <1>6 DEF DiscoverRegion, Fresh
  <2>2. costs \in {0, id[p]}
    OBVIOUS
  <2> HIDE DEF costs
  <2>3. CopyInv("discover", id[p], old, left[p] \ {r}, committed, d)
    BY <1>3, <1>4, <2>1, <2>2, Upserted
  <2> HIDE DEF d
  <2>4. QED
    BY <2>1, <2>3, WorkInv
<1>7. ASSUME NEW c \in Cluster, NEW read, ScanCluster(p, c, read)
      PROVE  IInv'
  <2> DEFINE d == WithAdmin(copy[p], c, AdminRead(id[p], read))
  <2>1. Working(p, "scan_clusters", c) /\ c \in Listed(copy[p]) /\ copy' = [copy EXCEPT ![p] = d]
    BY <1>7 DEF ScanCluster, WithAdmin, AdminRead
  <2>a. /\ CopyInv("scan_clusters", id[p], old, left[p], committed, copy[p])
        /\ c \in left[p] /\ id[p] \in Stamp /\ old \in Content
    BY <1>2, <1>3, <1>4, <2>1
  <2>2. CopyInv("scan_clusters", id[p], old, left[p] \ {c}, committed, d)
    BY <2>1, <2>a, ClusterScanned
  <2> HIDE DEF d
  <2>3. QED
    BY <2>1, <2>2, WorkInv
<1>8. ASSUME NEW c \in Cluster, NEW seen \in [Client -> 0..MaxTime], FindClients(p, c, seen)
      PROVE  IInv'
  <2> DEFINE d == [copy[p] EXCEPT !.clusters[c].clients =
                     DedupDiscoveredClients(copy[p].clusters[c].clients, seen)]
  <2>1. /\ Working(p, "scan_client_inventory", c) /\ c \in Listed(copy[p])
        /\ copy' = [copy EXCEPT ![p] = d]
    BY <1>8 DEF FindClients
  <2>2. CopyInv("scan_client_inventory", id[p], old, left[p] \ {c}, committed, d)
    BY <1>2, <1>3, <1>4, <2>1, ClientsMerged
  <2> HIDE DEF d
  <2>3. QED
    BY <2>1, <2>2, WorkInv
<1>9. ASSUME NEW c \in Cluster, NEW K \in SUBSET Connector, ReadConnectors(p, c, K)
      PROVE  IInv'
  <2> DEFINE d == [copy[p] EXCEPT !.clusters[c].admin =
                     SetSelfManagedConnectors(copy[p].clusters[c].admin, K, id[p])]
  <2>1. Working(p, "scan_self_managed_connectors", c) /\ copy' = [copy EXCEPT ![p] = d]
    BY <1>9 DEF ReadConnectors
  <2>a. /\ CopyInv("scan_self_managed_connectors", id[p], old, left[p], committed, copy[p])
        /\ c \in left[p] /\ id[p] \in Stamp /\ old \in Content
    BY <1>2, <1>3, <1>4, <2>1
  <2>2. CopyInv("scan_self_managed_connectors", id[p], old, left[p] \ {c}, committed, d)
    BY <2>a, ConnectorsRead
  <2> HIDE DEF d
  <2>3. QED
    BY <2>1, <2>2, WorkInv
<1>10. ASSUME NEW u \in Url, ReadRegistry(p, u)
       PROVE  IInv'
  <2> DEFINE d == [copy[p] EXCEPT !.registries[u] = id[p]]
  <2>1. Working(p, "scan_schema_registry", u) /\ copy' = [copy EXCEPT ![p] = d]
    BY <1>10 DEF ReadRegistry
  <2>2. CopyInv("scan_schema_registry", id[p], old, left[p] \ {u}, committed, d)
    BY <1>2, <1>3, <1>4, <2>1, RegistryRead
  <2> HIDE DEF d
  <2>3. QED
    BY <2>1, <2>2, WorkInv
<1>11. ASSUME NEW r \in Region, RegionFails(p, r) PROVE IInv'
  BY <1>5, <1>11 DEF RegionFails
<1>12. ASSUME NEW c \in Cluster, SkipCluster(p, c) PROVE IInv'
  BY <1>5, <1>12 DEF SkipCluster
<1>13. QED
  BY <1>6, <1>7, <1>8, <1>9, <1>10, <1>11, <1>12 DEF Work

(* A command of any kind starts. *)
LEMMA StartStepInv ==
  ASSUME IInv, NEW p \in Proc, Start(p)
  PROVE  IInv'
<1>1. Single \subseteq Command /\ {"discover", "scan_clusters"} \subseteq Command
  BY DEF Single, Command, Store!Command
<1>2. "discover" \notin Single /\ "scan_clusters" \notin Single
  BY DEF Single
<1>3. ASSUME NEW rs \in SUBSET Region, StartDiscover(p, rs) PROVE IInv'
  <2>1. Load(p, "discover", rs) /\ rs \in SUBSET (Region \cup Cluster \cup Url)
    BY <1>3 DEF StartDiscover
  <2>2. QED
    BY <2>1, <1>1, <1>2, LoadInv
<1>4. ASSUME NEW cs \in SUBSET Cluster, StartScanClusters(p, cs) PROVE IInv'
  <2>1. Load(p, "scan_clusters", cs) /\ cs \in SUBSET (Region \cup Cluster \cup Url)
    BY <1>4 DEF StartScanClusters
  <2>2. QED
    BY <2>1, <1>1, <1>2, LoadInv
<1>5. ASSUME NEW c \in Cluster, StartClientInventory(p, c) PROVE IInv'
  <2>1. Load(p, "scan_client_inventory", {c}) /\ {c} \in SUBSET (Region \cup Cluster \cup Url)
    BY <1>5 DEF StartClientInventory
  <2>2. \E x : {c} = {x}
    OBVIOUS
  <2>3. "scan_client_inventory" \in Command
    BY <1>1 DEF Single
  <2>4. QED
    BY <2>1, <2>2, <2>3, LoadInv
<1>6. ASSUME NEW c \in Cluster, StartConnectors(p, c) PROVE IInv'
  <2>1. /\ Load(p, "scan_self_managed_connectors", {c})
        /\ {c} \in SUBSET (Region \cup Cluster \cup Url)
        /\ c \in Listed(file.data)
    BY <1>6 DEF StartConnectors
  <2>2. (\E x : {c} = {x}) /\ Cluster \cap {c} \subseteq Listed(file.data)
    BY <2>1
  <2>3. "scan_self_managed_connectors" \in Command
    BY <1>1 DEF Single
  <2>4. QED
    BY <2>1, <2>2, <2>3, LoadInv
<1>7. ASSUME NEW u \in Url, StartSchemaRegistry(p, u) PROVE IInv'
  <2>1. Load(p, "scan_schema_registry", {u}) /\ {u} \in SUBSET (Region \cup Cluster \cup Url)
    BY <1>7 DEF StartSchemaRegistry
  <2>2. \E x : {u} = {x}
    OBVIOUS
  <2>3. "scan_schema_registry" \in Command
    BY <1>1 DEF Single
  <2>4. QED
    BY <2>1, <2>2, <2>3, LoadInv
<1>8. QED
  BY <1>3, <1>4, <1>5, <1>6, <1>7 DEF Start

(* Nothing happens. *)
LEMMA StutterInv ==
  ASSUME IInv, UNCHANGED vars
  PROVE  IInv'
<1>1. /\ UNCHANGED <<file, clock, phase, cmd, id, base, copy, left, mixed>>
      /\ UNCHANGED <<committed, overlapped, lastScan>>
  BY DEF vars, procVars, history
<1>2. TypeInv' /\ Loaded(file, committed)' /\ SerialInv'
  BY <1>1 DEF IInv, TypeInv, Loaded, SerialInv
<1>3. ASSUME NEW p \in Proc PROVE ProcInv(p)'
  BY <1>1 DEF IInv, ProcInv
<1>4. QED
  BY <1>2, <1>3 DEF IInv

-----------------------------------------------------------------------------
(* In every state of every sequence of overlapping, failing and interrupted  *)
(* commands, the copy of each is what it loaded with part of its own change, *)
(* and the file, the copies and what was loaded hold finished results only.  *)
THEOREM Invariance == Spec => []IInv
<1>1. IInv /\ [Next]_vars => IInv'
  <2> SUFFICES ASSUME IInv, [Next]_vars PROVE IInv'
    OBVIOUS
  <2>1. ASSUME NEW p \in Proc, Start(p) PROVE IInv'
    BY <2>1, StartStepInv
  <2>2. ASSUME NEW p \in Proc, Work(p) PROVE IInv'
    BY <2>2, WorkStepInv
  <2>3. ASSUME NEW p \in Proc, Truncate(p) PROVE IInv'
    BY <2>3, TruncateInv
  <2>4. ASSUME NEW p \in Proc, Fill(p) PROVE IInv'
    BY <2>4, FillInv
  <2>5. ASSUME NEW p \in Proc, Stop(p) PROVE IInv'
    BY <2>5, StopInv
  <2>6. CASE RemoveFile
    BY <2>6, RemoveInv
  <2>7. CASE UNCHANGED vars
    BY <2>7, StutterInv
  <2>8. QED
    BY <2>1, <2>2, <2>3, <2>4, <2>5, <2>6, <2>7 DEF Next
<1>2. QED
  BY InitInv, <1>1, PTL DEF Spec

(* Types, and: a cluster that a command's copy of the state does not list    *)
(* has no information there.                                                 *)
THEOREM TypeCorrect == Spec => []TypeOK
<1>1. IInv => TypeOK
  <2> SUFFICES ASSUME IInv PROVE TypeOK
    OBVIOUS
  <2>1. \A p \in Proc : \A c \in Cluster \ Listed(copy[p]) : copy[p].clusters[c] = Absent
    BY DEF IInv, ProcInv, CopyInv, WellFormed, Listed
  <2>2. QED
    BY <2>1 DEF IInv, TypeInv, Loaded, TypeOK
<1>2. QED
  BY <1>1, Invariance, PTL

(* Half-way through and at its end, a command has changed nothing of the     *)
(* state it loaded but what StateStore says it is about.                     *)
THEOREM ChangesOnlyItsOwn == Spec => []Footprint
<1>1. IInv => Footprint
  <2> SUFFICES ASSUME IInv, NEW p \in Proc,
                      ~Store!Allowed(cmd[p], base[p].data, copy[p], id[p]), phase[p] # "idle"
               PROVE  phase[p] = "working" /\ copy[p] = base[p].data
    BY DEF Footprint
  <2>1. ProcInv(p) /\ phase[p] \in {"idle", "working", "writing"}
    BY DEF IInv, TypeInv
  <2>2. copy[p] = base[p].data /\ \E x : left[p] = {x}
    BY <2>1 DEF ProcInv, CopyInv, Progress
  <2>3. phase[p] # "writing"
    BY <2>1, <2>2 DEF ProcInv
  <2>4. QED
    BY <2>1, <2>2, <2>3
<1>2. QED
  BY <1>1, Invariance, PTL

(* Whatever overlaps, fails or is interrupted, the file holds only results   *)
(* of commands that came to their end.                                       *)
THEOREM HoldsCommittedResults == Spec => []OnlyCommittedResults
<1>1. IInv => OnlyCommittedResults
  BY SourcesFrom DEF IInv, Loaded, OnlyCommittedResults
<1>2. QED
  BY <1>1, Invariance, PTL

(* As long as no command has written over a file it had not loaded, every    *)
(* schema registry is as its last scan since the last discovery left it.     *)
THEOREM KeepsRegistryScans == Spec => []RegistryScansKept
<1>1. IInv => RegistryScansKept
  BY DEF IInv, SerialInv, RegistryScansKept
<1>2. QED
  BY <1>1, Invariance, PTL

-----------------------------------------------------------------------------
(* The file as the promise has it. *)

(* Both instances of StateStore allow the same. *)
LEMMA SameAllowed ==
  \A k, old, new, i : Store!Allowed(k, old, new, i) => Promise!Allowed(k, old, new, i)
<1> SUFFICES ASSUME NEW k, NEW old, NEW new, NEW i, Store!Allowed(k, old, new, i)
             PROVE  Promise!Allowed(k, old, new, i)
  OBVIOUS
<1>1. Store!Discovered(old, new, i) => Promise!Discovered(old, new, i)
  BY DEF Store!Discovered, Promise!Discovered, Store!SameRegion, Promise!SameRegion,
         Store!RegionReplaced, Promise!RegionReplaced, Store!Fact, Promise!Fact,
         Store!ClusterId, Promise!ClusterId, Store!Absent, Promise!Absent,
         Store!NoFacts, Promise!NoFacts, Store!NoClients, Promise!NoClients,
         Store!EmptyState, Promise!EmptyState
<1>2. Store!ClustersScanned(old, new, i) => Promise!ClustersScanned(old, new, i)
  BY DEF Store!ClustersScanned, Promise!ClustersScanned, Store!Fact, Promise!Fact,
         Store!ClusterId, Promise!ClusterId, Store!NoFacts, Promise!NoFacts,
         Store!Listed, Promise!Listed
<1>3. Store!ClientsFound(old, new) => Promise!ClientsFound(old, new)
  BY DEF Store!ClientsFound, Promise!ClientsFound, Store!NoClients, Promise!NoClients,
         Store!Listed, Promise!Listed
<1>4. Store!RegistryScanned(old, new, i) => Promise!RegistryScanned(old, new, i)
  BY DEF Store!RegistryScanned, Promise!RegistryScanned
<1>5. Store!ConnectorsScanned(old, new, i) => Promise!ConnectorsScanned(old, new, i)
  BY DEF Store!ConnectorsScanned, Promise!ConnectorsScanned, Store!Fact, Promise!Fact,
         Store!ClusterId, Promise!ClusterId, Store!NoFacts, Promise!NoFacts,
         Store!Listed, Promise!Listed
<1>6. QED
  BY <1>1, <1>2, <1>3, <1>4, <1>5 DEF Store!Allowed, Promise!Allowed

(* Steps that leave the file and its writer alone. *)
LEMMA SameAbsFile ==
  ASSUME SerialInv, ~overlapped, file' = file,
         \A q \in Proc : phase'[q] = "writing" => phase[q] = "writing",
         \A q \in Proc : phase[q] = "writing" => phase'[q] = "writing" /\ base'[q] = base[q]
  PROVE  AbsFile' = AbsFile
<1>1. CASE \A q \in Proc : phase[q] # "writing"
  BY <1>1 DEF AbsFile
<1>2. ASSUME NEW w \in Proc, phase[w] = "writing" PROVE AbsFile' = AbsFile
  <2>1. \A q \in Proc : phase[q] = "writing" => q = w
    BY <1>2 DEF SerialInv
  <2>2. AbsFile = base[w]
    BY <1>2, <2>1 DEF AbsFile
  <2>3. phase'[w] = "writing" /\ \A q \in Proc : phase'[q] = "writing" => q = w
    BY <1>2, <2>1
  <2>4. AbsFile' = base'[w]
    BY <2>3 DEF AbsFile
  <2>5. QED
    BY <1>2, <2>2, <2>4
<1>3. QED
  BY <1>1, <1>2

(* A command starts: it has found a file that parses, or none. *)
LEMMA StartIsBegin ==
  ASSUME IInv, ~overlapped, NEW p \in Proc, Start(p)
  PROVE  Promise!Begin
<1>1. PICK k, targets : Load(p, k, targets)
  BY DEF Start, StartDiscover, StartScanClusters, StartClientInventory, StartConnectors,
         StartSchemaRegistry
<1>2. /\ file.kind # "bad" /\ clock < MaxCommands /\ clock' = clock + 1
      /\ phase[p] = "idle" /\ file' = file
      /\ phase' = [phase EXCEPT ![p] = "working"] /\ base' = [base EXCEPT ![p] = file]
  BY <1>1 DEF Load, CanLoad
<1>3. TypeInv /\ SerialInv
  BY DEF IInv
<1>4. \A q \in Proc : phase[q] # "writing"
  BY <1>2, <1>3 DEF SerialInv, Bad
<1>5. AbsFile = file
  BY <1>4 DEF AbsFile
<1>6. AbsFile' = AbsFile
  BY <1>2, <1>3, <1>4, SameAbsFile DEF TypeInv
<1>7. QED
  BY <1>2, <1>5, <1>6 DEF Promise!Begin

(* Work on a copy does not show. *)
LEMMA WorkIsHidden ==
  ASSUME IInv, ~overlapped, NEW p \in Proc, Work(p)
  PROVE  UNCHANGED <<AbsFile, clock>>
<1>1. UNCHANGED <<file, clock, phase, base>>
  BY DEF Work, RegionFails, DiscoverRegion, SkipCluster, ScanCluster, FindClients,
         ReadConnectors, ReadRegistry, Working
<1>2. AbsFile' = AbsFile
  BY <1>1, SameAbsFile DEF IInv
<1>3. QED
  BY <1>1, <1>2

(* Nor does the truncation: others cannot load the file, and it will be      *)
(* filled from what was in it.                                               *)
LEMMA TruncateIsHidden ==
  ASSUME IInv, ~overlapped', NEW p \in Proc, Truncate(p)
  PROVE  UNCHANGED <<AbsFile, clock>>
<1>1. TypeInv /\ SerialInv /\ ProcInv(p)
  BY DEF IInv
<1>2. /\ ~overlapped /\ file = base[p] /\ clock' = clock /\ base' = base
      /\ phase' = [phase EXCEPT ![p] = "writing"]
  BY <1>1 DEF Truncate, TypeInv
<1>3. file.kind # "bad"
  BY <1>1, <1>2 DEF ProcInv
<1>4. \A q \in Proc : phase[q] # "writing"
  BY <1>1, <1>2, <1>3 DEF SerialInv, Bad
<1>5. AbsFile = base[p]
  BY <1>2, <1>4 DEF AbsFile
<1>6. phase'[p] = "writing" /\ \A q \in Proc : phase'[q] = "writing" => q = p
  BY <1>1, <1>2, <1>4 DEF TypeInv
<1>7. AbsFile' = base'[p]
  BY <1>6 DEF AbsFile
<1>8. QED
  BY <1>2, <1>5, <1>7

(* The writer, when it ends, is the only one. *)
LEMMA WriterEnds ==
  ASSUME IInv, ~overlapped, NEW p \in Proc, phase[p] = "writing",
         phase' = [phase EXCEPT ![p] = "idle"]
  PROVE  /\ AbsFile = base[p] /\ AbsFile' = file'
         /\ file = Bad /\ clock > 0
<1>1. TypeInv /\ SerialInv /\ ProcInv(p)
  BY DEF IInv
<1>2. file = Bad /\ \A q \in Proc : phase[q] = "writing" => q = p
  BY <1>1 DEF SerialInv
<1>3. AbsFile = base[p]
  BY <1>2 DEF AbsFile
<1>4. \A q \in Proc : phase'[q] # "writing"
  BY <1>1, <1>2 DEF TypeInv
<1>5. AbsFile' = file'
  BY <1>4 DEF AbsFile
<1>6. clock > 0
  BY <1>1, ZeroStamp DEF ProcInv, TypeInv
<1>7. QED
  BY <1>2, <1>3, <1>5, <1>6

(* The write is the change of the file that the command promises. *)
LEMMA FillIsCommit ==
  ASSUME IInv, ~overlapped, NEW p \in Proc, Fill(p)
  PROVE  Promise!Commit \/ Promise!Interrupt
<1>1. /\ phase[p] = "writing" /\ clock' = clock
      /\ phase' = [phase EXCEPT ![p] = "idle"]
      /\ file' = [kind |-> "data", data |-> copy[p]] \/ file' = Bad
  BY DEF Fill, End
<1>2. AbsFile = base[p] /\ AbsFile' = file' /\ clock > 0
  BY <1>1, WriterEnds
<1>3. TypeInv /\ ProcInv(p)
  BY DEF IInv
<1>4. CASE file' = Bad
  BY <1>1, <1>2, <1>4, SameNames DEF Promise!Interrupt, Bad,
     Promise!EmptyState, EmptyState, Promise!Absent, Absent, Promise!NoFacts, NoFacts,
     Promise!NoClients, NoClients, Promise!Fact, Fact, Promise!ClusterId, ClusterId
<1>5. CASE file' = [kind |-> "data", data |-> copy[p]]
  <2>1. AbsFile'.kind = "data" /\ AbsFile'.data = copy[p]
    BY <1>2, <1>5
  <2>2. copy[p] \in Promise!Content
    <3>1. Promise!Content = Content
      BY DEF Promise!Content, Content, Promise!Stamp, Stamp, Promise!DiscoveredCluster,
             DiscoveredCluster, Promise!Fact, Fact, Promise!ClusterId, ClusterId
    <3>2. QED
      BY <3>1, <1>3 DEF TypeInv
  <2>3. AbsFile.kind # "bad" /\ (AbsFile.kind = "missing" => cmd[p] = "discover")
    BY <1>2, <1>3 DEF ProcInv
  <2>4. cmd[p] \in Promise!Command /\ id[p] \in 1..clock
    BY <1>1, <1>3 DEF ProcInv, TypeInv, Command, Store!Command, Promise!Command
  <2>5. Promise!Allowed(cmd[p], AbsFile.data, copy[p], id[p])
    <3>1. left[p] = {} /\ Progress(cmd[p], id[p], base[p].data, left[p], copy[p])
      BY <1>1, <1>3 DEF ProcInv, CopyInv
    <3>2. Store!Allowed(cmd[p], base[p].data, copy[p], id[p])
      BY <3>1 DEF Progress
    <3>3. QED
      BY <3>2, <1>2, SameAllowed
  <2>6. Promise!Commit
    BY <1>1, <1>2, <2>1, <2>2, <2>3, <2>4, <2>5 DEF Promise!Commit
  <2>7. QED
    BY <2>6
<1>6. QED
  BY <1>1, <1>4, <1>5

(* A command that stops leaves the file alone, or unreadable. *)
LEMMA StopIsInterrupt ==
  ASSUME IInv, ~overlapped, NEW p \in Proc, Stop(p)
  PROVE  Promise!Interrupt \/ UNCHANGED <<AbsFile, clock>>
<1>1. /\ clock' = clock /\ file' = file /\ phase' = [phase EXCEPT ![p] = "idle"]
      /\ base' = [base EXCEPT ![p] = Missing]
  BY DEF Stop, End
<1>2. TypeInv /\ SerialInv
  BY DEF IInv
<1>3. CASE phase[p] = "writing"
  <2>1. AbsFile' = Bad /\ clock > 0
    BY <1>1, <1>3, WriterEnds
  <2>2. QED
    BY <2>1, <1>1 DEF Promise!Interrupt, Bad,
       Promise!EmptyState, EmptyState, Promise!Absent, Absent, Promise!NoFacts, NoFacts,
       Promise!NoClients, NoClients, Promise!Fact, Fact, Promise!ClusterId, ClusterId
<1>4. CASE phase[p] # "writing"
  <2>1. AbsFile' = AbsFile
    BY <1>1, <1>2, <1>4, SameAbsFile DEF TypeInv
  <2>2. QED
    BY <1>1, <2>1
<1>5. QED
  BY <1>3, <1>4

(* The removal of an unreadable file shows as what it is. *)
LEMMA RemoveIsRemove ==
  ASSUME IInv, RemoveFile
  PROVE  Promise!Remove
<1>1. /\ file.kind = "bad" /\ file' = Missing /\ clock' = clock /\ phase' = phase
      /\ \A q \in Proc : phase[q] # "writing"
  BY DEF RemoveFile, procVars
<1>2. AbsFile = file /\ AbsFile' = file'
  BY <1>1 DEF AbsFile
<1>3. file.data = EmptyState /\ file'.data = EmptyState /\ file'.kind = "missing"
  BY <1>1 DEF IInv, Loaded, Missing
<1>4. QED
  BY <1>1, <1>2, <1>3 DEF Promise!Remove

(* As long as no command has written over a file it had not loaded, loading, *)
(* working for minutes and writing back in two steps is one change of the    *)
(* file of the kind the command promises, whatever others do meanwhile.      *)
THEOREM RefinesStore == Spec => ImplementsStore
<1>1. Init => Promise!Init
  <2> SUFFICES ASSUME Init PROVE Promise!Init
    OBVIOUS
  <2>1. AbsFile = Missing /\ clock = 0
    BY DEF Init, AbsFile
  <2>2. QED
    BY <2>1 DEF Promise!Init, Missing,
       Promise!EmptyState, EmptyState, Promise!Absent, Absent, Promise!NoFacts, NoFacts,
       Promise!NoClients, NoClients, Promise!Fact, Fact, Promise!ClusterId, ClusterId
<1>2. IInv /\ [Next]_vars => [overlapped' \/ Promise!Next]_<<AbsFile, clock>>
  <2> SUFFICES ASSUME IInv, [Next]_vars, ~overlapped'
               PROVE  Promise!Next \/ UNCHANGED <<AbsFile, clock>>
    OBVIOUS
  <2>1. ASSUME NEW p \in Proc, Start(p) PROVE Promise!Begin
    <3>1. overlapped' = overlapped
      BY <2>1 DEF Start, StartDiscover, StartScanClusters, StartClientInventory, StartConnectors,
                  StartSchemaRegistry, Load, history
    <3>2. QED
      BY <2>1, <3>1, StartIsBegin
  <2>2. ASSUME NEW p \in Proc, Work(p) PROVE UNCHANGED <<AbsFile, clock>>
    <3>1. overlapped' = overlapped
      BY <2>2 DEF Work, RegionFails, DiscoverRegion, SkipCluster, ScanCluster, FindClients,
                  ReadConnectors, ReadRegistry, Working, history
    <3>2. QED
      BY <2>2, <3>1, WorkIsHidden
  <2>3. ASSUME NEW p \in Proc, Truncate(p) PROVE UNCHANGED <<AbsFile, clock>>
    BY <2>3, TruncateIsHidden
  <2>4. ASSUME NEW p \in Proc, Fill(p) PROVE Promise!Commit \/ Promise!Interrupt
    BY <2>4, FillIsCommit DEF Fill
  <2>5. ASSUME NEW p \in Proc, Stop(p) PROVE Promise!Interrupt \/ UNCHANGED <<AbsFile, clock>>
    BY <2>5, StopIsInterrupt DEF Stop, history
  <2>6. CASE RemoveFile
    BY <2>6, RemoveIsRemove DEF Promise!Next
  <2>7. CASE UNCHANGED vars
    BY <2>7 DEF vars, procVars, AbsFile
  <2>8. QED
    BY <2>1, <2>2, <2>3, <2>4, <2>5, <2>6, <2>7 DEF Next, Promise!Next
<1>3. QED
  BY <1>1, <1>2, Invariance, PTL DEF Spec, ImplementsStore
=============================================================================
