------------------------------ MODULE KcpState ------------------------------
(***************************************************************************)
(* The kcp commands that share kcp-state.json: discover and the four scans *)
(* each load the file, work on a copy for minutes, and write the copy back *)
(* with os.WriteFile, which truncates the file first.  Nothing locks it:   *)
(* commands overlap, fail half-way and are interrupted while they write.   *)
(***************************************************************************)
EXTENDS StateData

CONSTANT Proc  \* terminals, each running one command at a time

VARIABLES
  file,    \* [kind, data]: "missing", "data", or "bad" when it does not parse
  clock,   \* number of commands started
  phase,   \* of each process: "idle", "working" or "writing"
  cmd,     \* its command
  id,      \* the number of its command
  base,    \* the file it loaded
  copy,    \* the state in its memory
  left,    \* the regions, clusters or registry it has still to visit
  mixed,   \* writing processes whose file another one has filled meanwhile
  \* history, for the properties:
  committed,   \* the commands that have written the file
  overlapped,  \* a command has written over a file it had not loaded
  lastScan     \* the last scan of each registry since the last discovery

procVars == <<phase, cmd, id, base, copy, left, mixed>>
history == <<committed, overlapped, lastScan>>
vars == <<file, clock, procVars, history>>

Missing == [kind |-> "missing", data |-> EmptyState]
Bad == [kind |-> "bad", data |-> EmptyState]

Store == INSTANCE StateStore WITH kind <- file.kind, content <- file.data, count <- clock

Command == Store!Command

Init ==
  /\ file = Missing
  /\ clock = 0
  /\ phase = [p \in Proc |-> "idle"]
  /\ cmd = [p \in Proc |-> "discover"]
  /\ id = [p \in Proc |-> 0]
  /\ base = [p \in Proc |-> Missing]
  /\ copy = [p \in Proc |-> EmptyState]
  /\ left = [p \in Proc |-> {}]
  /\ mixed = {}
  /\ committed = {}
  /\ overlapped = FALSE
  /\ lastScan = [u \in Url |-> 0]

-----------------------------------------------------------------------------
(* Loading the file. *)

\* Mutant of CanLoad: a file that cannot be parsed is taken for a missing one.
CanLoadUnparsed(k) == k = "discover" \/ file.kind = "data"

\* Every command needs a file that parses; discover may also find none.
CanLoad(k) == file.kind = "data" \/ (k = "discover" /\ file.kind = "missing")

\* The part of the command that is common: load, and take the next number.
Load(p, k, targets) ==
  /\ phase[p] = "idle"
  /\ clock < MaxCommands
  /\ CanLoad(k)
  /\ clock' = clock + 1
  /\ phase' = [phase EXCEPT ![p] = "working"]
  /\ cmd' = [cmd EXCEPT ![p] = k]
  /\ id' = [id EXCEPT ![p] = clock + 1]
  /\ base' = [base EXCEPT ![p] = file]
  /\ copy' = [copy EXCEPT ![p] = IF k = "discover" THEN NewStateFrom(file.data)
                                                   ELSE file.data]
  /\ left' = [left EXCEPT ![p] = targets]
  /\ UNCHANGED <<file, mixed, history>>

StartDiscover(p, rs) == rs # {} /\ Load(p, "discover", rs)

\* The clusters of creds.yaml.
StartScanClusters(p, cs) == Load(p, "scan_clusters", cs)

StartClientInventory(p, c) == Load(p, "scan_client_inventory", {c})

StartSchemaRegistry(p, u) == Load(p, "scan_schema_registry", {u})

StartConnectors(p, c) ==
  /\ c \in Listed(file.data)
  /\ Load(p, "scan_self_managed_connectors", {c})

-----------------------------------------------------------------------------
(* Working on the copy. *)

Working(p, k, x) ==
  /\ phase[p] = "working"
  /\ cmd[p] = k
  /\ x \in left[p]
  /\ left' = [left EXCEPT ![p] = @ \ {x}]
  /\ UNCHANGED <<file, clock, phase, cmd, id, base, mixed, history>>

\* Clusters found and described, the topics listed on each, and the costs,
\* which --skip-costs leaves empty.
DiscoverRegion(p, r, found, topics, withCosts) ==
  /\ Working(p, "discover", r)
  /\ LET fresh == [c \in Cluster |->
           IF c \in found
             THEN [aws |-> id[p], clients |-> NoClients,
                   admin |-> [f \in Fact |-> IF f \in topics[c] THEN id[p] ELSE 0]]
             ELSE Absent]
     IN copy' = [copy EXCEPT ![p] =
                   UpsertRegion(@, r, id[p], IF withCosts THEN id[p] ELSE 0, fresh)]

\* A client cannot be made, or the region cannot be listed: it is skipped.
RegionFails(p, r) == Working(p, "discover", r) /\ UNCHANGED copy

\* The admin information is replaced by what ScanKafkaResources has read.
ScanCluster(p, c, read) ==
  /\ Working(p, "scan_clusters", c)
  /\ c \in Listed(copy[p])
  /\ copy' = [copy EXCEPT ![p].clusters[c].admin =
                [f \in Fact |-> IF f \in read \cup {ClusterId} THEN id[p] ELSE 0]]

\* Not in the state file, no method selected, no broker, or a failed read.
SkipCluster(p, c) == Working(p, "scan_clusters", c) /\ UNCHANGED copy

FindClients(p, c, seen) ==
  /\ Working(p, "scan_client_inventory", c)
  /\ c \in Listed(copy[p])
  /\ copy' = [copy EXCEPT ![p].clusters[c].clients = DedupDiscoveredClients(@, seen)]

\* Mutant of ReadRegistry: the list of registries is replaced, not searched.
ReadRegistryAlone(p, u) ==
  /\ Working(p, "scan_schema_registry", u)
  /\ copy' = [copy EXCEPT ![p].registries = [v \in Url |-> IF v = u THEN id[p] ELSE 0]]

ReadRegistry(p, u) ==
  /\ Working(p, "scan_schema_registry", u)
  /\ copy' = [copy EXCEPT ![p].registries[u] = id[p]]

\* The connectors whose details could be read, possibly none of them.
ReadConnectors(p, c, K) ==
  /\ Working(p, "scan_self_managed_connectors", c)
  /\ copy' = [copy EXCEPT ![p].clusters[c].admin = SetSelfManagedConnectors(@, K, id[p])]

-----------------------------------------------------------------------------
(* Writing it back. *)

End(p) ==
  /\ phase' = [phase EXCEPT ![p] = "idle"]
  /\ cmd' = [cmd EXCEPT ![p] = "discover"]
  /\ id' = [id EXCEPT ![p] = 0]
  /\ base' = [base EXCEPT ![p] = Missing]
  /\ copy' = [copy EXCEPT ![p] = EmptyState]
  /\ left' = [left EXCEPT ![p] = {}]

\* os.WriteFile opens with O_TRUNC: an empty file does not parse.
Truncate(p) ==
  /\ phase[p] = "working"
  /\ left[p] = {}
  /\ phase' = [phase EXCEPT ![p] = "writing"]
  /\ file' = Bad
  /\ mixed' = {}
  /\ overlapped' = (overlapped \/ file # base[p])
  /\ UNCHANGED <<clock, cmd, id, base, copy, left, committed, lastScan>>

\* The bytes land on an empty file or, when another process has filled it in
\* between, over that one's, whose tail stays if it was longer.
Fill(p) ==
  /\ phase[p] = "writing"
  /\ \E whole \in IF p \in mixed THEN BOOLEAN ELSE {TRUE} :
       file' = IF whole THEN [kind |-> "data", data |-> copy[p]] ELSE Bad
  /\ mixed' = {q \in Proc \ {p} : phase[q] = "writing"}
  /\ committed' = committed \cup {id[p]}
  /\ lastScan' = CASE cmd[p] = "discover" -> [u \in Url |-> 0]
                   [] cmd[p] = "scan_schema_registry" ->
                        [u \in Url |-> IF copy[p].registries[u] = id[p] THEN id[p]
                                       ELSE lastScan[u]]
                   [] OTHER -> lastScan
  /\ End(p)
  /\ UNCHANGED <<clock, overlapped>>

\* Mutant of Stop: a command that fails saves what it has so far.
StopAndSave(p) ==
  /\ phase[p] # "idle"
  /\ mixed' = mixed \ {p}
  /\ file' = [kind |-> "data", data |-> copy[p]]
  /\ End(p)
  /\ UNCHANGED <<clock, history>>

\* An error return before the write, a failed write, or an interrupted command.
Stop(p) ==
  /\ phase[p] # "idle"
  /\ mixed' = mixed \ {p}
  /\ End(p)
  /\ UNCHANGED <<file, clock, history>>

\* A person removes the unreadable file to start again.
RemoveFile ==
  /\ file.kind = "bad"
  /\ \A p \in Proc : phase[p] # "writing"
  /\ file' = Missing
  /\ lastScan' = [u \in Url |-> 0]
  /\ UNCHANGED <<clock, procVars, committed, overlapped>>

Start(p) ==
  \/ \E rs \in SUBSET Region : StartDiscover(p, rs)
  \/ \E cs \in SUBSET Cluster : StartScanClusters(p, cs)
  \/ \E c \in Cluster : StartClientInventory(p, c) \/ StartConnectors(p, c)
  \/ \E u \in Url : StartSchemaRegistry(p, u)

Work(p) ==
  \/ \E r \in Region :
       \/ RegionFails(p, r)
       \/ \E found \in SUBSET {c \in Cluster : RegionOf[c] = r} :
            \E topics \in [found -> SUBSET Topic], withCosts \in BOOLEAN :
              DiscoverRegion(p, r, found, topics, withCosts)
  \/ \E c \in Cluster :
       \/ SkipCluster(p, c)
       \/ \E read \in SUBSET Fact : ScanCluster(p, c, read)
       \/ \E seen \in [Client -> 0..MaxTime] : FindClients(p, c, seen)
       \/ \E K \in SUBSET Connector : ReadConnectors(p, c, K)
  \/ \E u \in Url : ReadRegistry(p, u)

Next == (\E p \in Proc : Start(p) \/ Work(p) \/ Truncate(p) \/ Fill(p) \/ Stop(p)) \/ RemoveFile

Spec == Init /\ [][Next]_vars

-----------------------------------------------------------------------------
File == [kind : {"missing", "data", "bad"}, data : Content]

(* Types; a cluster that is not listed has no information of its own.      *)
TypeOK ==
  /\ file \in File
  /\ file.kind # "data" => file.data = EmptyState
  /\ clock \in Stamp
  /\ phase \in [Proc -> {"idle", "working", "writing"}]
  /\ cmd \in [Proc -> Command]
  /\ id \in [Proc -> Stamp]
  /\ base \in [Proc -> File]
  /\ copy \in [Proc -> Content]
  /\ left \in [Proc -> SUBSET (Region \cup Cluster \cup Url)]
  /\ mixed \in SUBSET Proc
  /\ committed \in SUBSET Stamp
  /\ overlapped \in BOOLEAN
  /\ lastScan \in [Url -> Stamp]
  /\ \A p \in Proc : \A c \in Cluster \ Listed(copy[p]) : copy[p].clusters[c] = Absent

(* Half-way through and at its end, a command has changed nothing of the   *)
(* state but what it is about, and nothing that another command recorded    *)
(* is lost or put back except where StateStore says so.                     *)
Footprint ==
  \A p \in Proc :
    \/ phase[p] = "idle"
    \/ phase[p] = "working" /\ copy[p] = base[p].data
    \/ Store!Allowed(cmd[p], base[p].data, copy[p], id[p])

(* Whatever overlaps, fails or is interrupted, the file holds only results  *)
(* of commands that came to their end.                                      *)
OnlyCommittedResults ==
  file.kind = "data" => Sources(file.data) \subseteq committed

(* As long as no command has written over a file it had not loaded, every   *)
(* schema registry is as its last scan since the last discovery left it.    *)
RegistryScansKept ==
  file.kind = "data" /\ ~overlapped => file.data.registries = lastScan

-----------------------------------------------------------------------------
(* The file as the commands that will load it see it: while one command     *)
(* writes, what it loaded.                                                  *)
AbsFile ==
  IF \E p \in Proc : phase[p] = "writing"
    THEN base[CHOOSE p \in Proc : phase[p] = "writing"] ELSE file

Promise == INSTANCE StateStore
  WITH kind <- AbsFile.kind, content <- AbsFile.data, count <- clock

(* As long as no command has written over a file it had not loaded, loading, *)
(* working for minutes and writing back is one change of the file of the     *)
(* kind the command promises, whatever other commands do meanwhile; an       *)
(* interrupted command changes nothing or leaves a file that no command      *)
(* takes for a fresh start.                                                  *)
ImplementsStore ==
  Promise!Init /\ [][overlapped' \/ Promise!Next]_<<AbsFile, clock>>
=============================================================================
