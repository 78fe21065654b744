---------------------------- MODULE ConnectScan ----------------------------
(***************************************************************************)
(* How the self-managed connectors of a cluster get into the state file:   *)
(* kcp scan clusters reads them from the two topics of Kafka Connect       *)
(* (services/kafka, client/kafka_admin.go), kcp scan self-managed-         *)
(* connectors from its REST interface.  Connect goes on working meanwhile. *)
(*                                                                         *)
(* A topic has no end: a partition is read until nothing comes for five    *)
(* seconds, or for thirty seconds, so that the reading may stop at any     *)
(* message.  The configurations are in one partition, as Connect demands;  *)
(* the statuses of a connector are in the partition its name hashes to.    *)
(*                                                                         *)
(* A configuration or a status is represented by the time it was written,  *)
(* 0 is a tombstone, NoValue what has not been read.  Messages with other  *)
(* keys (tasks, offsets), which the key filters drop, are left out.        *)
(***************************************************************************)
EXTENDS Integers, Sequences, FiniteSetsExt

CONSTANTS
  Connector,
  Partition, PartitionOf,  \* of connect-status
  MaxClock                 \* bound: messages that Connect writes

ASSUME ConnectScanAssumption ==
  PartitionOf \in [Connector -> Partition] /\ MaxClock \in Nat

VARIABLES
  clock,
  configs,      \* connect-configs: what was written, oldest first
  statuses,     \* connect-status, for each partition
  step,         \* what the command does next
  hasStatuses,  \* whether connect-status is among the cluster's topics
  left,         \* partitions, or with REST connectors, still to read
  part, pos,    \* the partition being read and the next offset
  gotConfig,    \* GetAllMessagesWithKeyFilter's map
  gotState,     \* GetConnectorStatusMessages' two maps
  \* History, which the properties speak of:
  begun,        \* how long the topics were when the scan began
  missed,       \* connectors whose configurations were not read to that point
  missedState   \* the same for the statuses

connect == <<clock, configs, statuses>>
history == <<begun, missed, missedState>>
connectVars == <<connect, step, hasStatuses, left, part, pos, gotConfig, gotState, history>>

NoValue == -1
Nothing == [k \in Connector |-> NoValue]
NoStates == [k \in Connector |-> [value |-> NoValue, stamp |-> NoValue]]

-----------------------------------------------------------------------------
\* Where the first n messages of a log speak of k.
About(log, n, k) == {i \in 1..n : log[i].connector = k}

\* The newest value they give it, 0 when there is none or k is deleted.
Newest(log, n, k) ==
  LET own == About(log, n, k) IN IF own = {} THEN 0 ELSE log[Max(own)].value

Current(log, k) == Newest(log, Len(log), k)

Live == {k \in Connector : Current(configs, k) # 0}

Message(k, value, stamp) == [connector |-> k, value |-> value, stamp |-> stamp]

Tick == clock < MaxClock /\ clock' = clock + 1

Unread == UNCHANGED <<step, hasStatuses, left, part, pos, gotConfig, gotState, history>>

\* A connector is created or changed.
Configure(k) ==
  /\ Tick
  /\ configs' = Append(configs, Message(k, clock', clock'))
  /\ UNCHANGED statuses /\ Unread

Delete(k) ==
  /\ k \in Live /\ Tick
  /\ configs' = Append(configs, Message(k, 0, clock'))
  /\ UNCHANGED statuses /\ Unread

\* A worker reports the connector's status, or with a tombstone its end.  Its
\* clock may be behind, and old message formats have no time stamp (0).
Report(k, stamp) ==
  LET log == statuses[PartitionOf[k]] IN
  /\ Tick
  /\ stamp \in {0, clock, clock'}
  /\ k \in Live \/ About(log, Len(log), k) # {}
  /\ statuses' = [statuses EXCEPT ![PartitionOf[k]] =
                    Append(@, Message(k, IF k \in Live THEN clock' ELSE 0, stamp))]
  /\ UNCHANGED configs /\ Unread

Connect ==
  \E k \in Connector : Configure(k) \/ Delete(k) \/ \E s \in 0..MaxClock : Report(k, s)

-----------------------------------------------------------------------------
NothingBegun == [configs |-> 0, statuses |-> [p \in Partition |-> 0]]

ConnectInit ==
  /\ clock = 0 /\ configs = <<>> /\ statuses = [p \in Partition |-> <<>>]
  /\ step = "idle" /\ hasStatuses = FALSE /\ left = {} /\ pos = 1
  /\ part = CHOOSE p \in Partition : TRUE
  /\ gotConfig = Nothing /\ gotState = NoStates
  /\ begun = NothingBegun /\ missed = {} /\ missedState = {}

Begin ==
  begun' = [configs |-> Len(configs),
            statuses |-> [p \in Partition |-> Len(statuses[p])]]

\* The scan is over: its result is in the state file, or it has failed.
End ==
  /\ step' = "idle" /\ hasStatuses' = FALSE /\ left' = {} /\ pos' = 1
  /\ part' = CHOOSE p \in Partition : TRUE
  /\ gotConfig' = Nothing /\ gotState' = NoStates
  /\ begun' = NothingBegun /\ missed' = {} /\ missedState' = {}
  /\ UNCHANGED connect

\* ScanKafkaResources: the metadata, the topics and the ACLs are read.  An
\* error, a serverless cluster, or no connect-configs among the topics, and
\* the connectors are not looked for.
ScanKafkaResources(withStatuses) ==
  /\ step = "idle"
  /\ step' = "configs" /\ hasStatuses' = withStatuses /\ Begin
  /\ missedState' = IF withStatuses THEN {} ELSE Connector
  /\ UNCHANGED <<connect, left, part, pos, gotConfig, gotState, missed>>

ReadConfig ==
  /\ step = "configs" /\ pos <= Len(configs)
  /\ gotConfig' = [gotConfig EXCEPT ![configs[pos].connector] = configs[pos].value]
  /\ pos' = pos + 1
  /\ UNCHANGED <<connect, step, hasStatuses, left, part, gotState, history>>

\* No message for five seconds, thirty seconds in all, or an error: possible
\* at every message, and before the first when the partition cannot be read.
Stops(log) == pos <= Len(log) + 1

EndOfConfigs ==
  /\ step = "configs" /\ Stops(configs)
  /\ missed' = IF pos <= begun.configs THEN Connector ELSE {}
  /\ pos' = 1
  /\ IF hasStatuses
       THEN step' = "partitions" /\ left' = Partition
       ELSE step' = "record" /\ UNCHANGED left
  /\ UNCHANGED <<connect, hasStatuses, part, gotConfig, gotState, begun, missedState>>

StartPartition(p) ==
  /\ step = "partitions" /\ p \in left
  /\ part' = p /\ left' = left \ {p} /\ step' = "statuses"
  /\ UNCHANGED <<connect, hasStatuses, pos, gotConfig, gotState, history>>

\* Mutant of Newer: the first status read stays.
NewerFirst(stamp, known) == known = NoValue

Newer(stamp, known) == known = NoValue \/ stamp > known

\* The time stamp decides, or for a message that has none its offset.
ReadStatus ==
  /\ step = "statuses" /\ pos <= Len(statuses[part])
  /\ LET m == statuses[part][pos]
         stamp == IF m.stamp = 0 THEN pos - 1 ELSE m.stamp
     IN gotState' = IF Newer(stamp, gotState[m.connector].stamp)
                      THEN [gotState EXCEPT ![m.connector] =
                              [value |-> m.value, stamp |-> stamp]]
                      ELSE gotState
  /\ pos' = pos + 1
  /\ UNCHANGED <<connect, step, hasStatuses, left, part, gotConfig, history>>

EndOfPartition ==
  /\ step = "statuses" /\ Stops(statuses[part])
  /\ missedState' = IF pos <= begun.statuses[part]
                      THEN missedState \cup {k \in Connector : PartitionOf[k] = part}
                      ELSE missedState
  /\ pos' = 1
  /\ step' = IF left = {} THEN "record" ELSE "partitions"
  /\ UNCHANGED <<connect, hasStatuses, left, part, gotConfig, gotState, begun, missed>>

\* A consumer cannot be made: without the configurations there is nothing to
\* record, without the statuses there is.
ConsumerFails ==
  \/ step = "configs" /\ pos = 1 /\ End
  \/ /\ step = "partitions" /\ left = Partition
     /\ step' = "record" /\ left' = {} /\ missedState' = Connector
     /\ UNCHANGED <<connect, hasStatuses, part, pos, gotConfig, gotState, begun, missed>>

-----------------------------------------------------------------------------
(* kcp scan self-managed-connectors                                        *)

\* ListConnectors; without any the command leaves the state as it is.
ListConnectors ==
  /\ step = "idle" /\ Live # {}
  /\ step' = "rest" /\ left' = Live /\ Begin
  /\ UNCHANGED <<connect, hasStatuses, part, pos, gotConfig, gotState, missed, missedState>>

\* Mutant of GetConnectorConfig: a connector whose configuration cannot be read
\* is tried again.
GetConnectorConfigRetried(k, ok) ==
  /\ step = "rest" /\ k \in left
  /\ IF ok /\ k \in Live
       THEN gotConfig' = [gotConfig EXCEPT ![k] = Current(configs, k)] /\ step' = "rest_status"
       ELSE UNCHANGED <<gotConfig, step>>
  /\ UNCHANGED <<connect, hasStatuses, left, part, pos, gotState, history>>

\* getConnectorDetails: the configuration, without which the connector is left
\* out, and then the status.
GetConnectorConfig(k, ok) ==
  /\ step = "rest" /\ k \in left
  /\ IF ok /\ k \in Live
       THEN /\ gotConfig' = [gotConfig EXCEPT ![k] = Current(configs, k)]
            /\ step' = "rest_status" /\ UNCHANGED <<left, missed>>
       ELSE /\ left' = left \ {k}
            /\ missed' = IF ok THEN missed ELSE missed \cup {k}
            /\ step' = IF left = {k} THEN "record" ELSE "rest"
            /\ UNCHANGED gotConfig
  /\ UNCHANGED <<connect, hasStatuses, part, pos, gotState, begun, missedState>>

GetConnectorStatus(k, ok) ==
  /\ step = "rest_status" /\ k \in left /\ gotConfig[k] # NoValue
  /\ gotState' = IF ok THEN [gotState EXCEPT ![k].value = Current(statuses[PartitionOf[k]], k)]
                 ELSE gotState
  /\ missedState' = IF ok THEN missedState ELSE missedState \cup {k}
  /\ left' = left \ {k}
  /\ step' = IF left = {k} THEN "record" ELSE "rest"
  /\ UNCHANGED <<connect, hasStatuses, part, pos, gotConfig, begun, missed>>

-----------------------------------------------------------------------------
\* Mutant of Listed: a tombstone counts as a configuration.
ListedUnlessUnread(k) == gotConfig[k] # NoValue

\* A configuration that does not parse, as a tombstone, is left out.
Listed(k) == gotConfig[k] \notin {NoValue, 0}

\* The status joined with the configuration, 0 when there is none.
State(k) == IF gotState[k].value = NoValue THEN 0 ELSE gotState[k].value

\* SetSelfManagedConnectors: what is listed is what the state file gets.
Record == step = "record" /\ End

Scan ==
  \/ ReadConfig \/ EndOfConfigs
  \/ (\E p \in Partition : StartPartition(p)) \/ ReadStatus \/ EndOfPartition
  \/ ConsumerFails
  \/ \E k \in Connector, ok \in BOOLEAN : GetConnectorConfig(k, ok) \/ GetConnectorStatus(k, ok)
  \/ Record

ConnectNext ==
  \/ Connect
  \/ \E withStatuses \in BOOLEAN : ScanKafkaResources(withStatuses)
  \/ ListConnectors
  \/ Scan

\* The timers of Go's select and of the HTTP client end every wait.
ConnectSpec == ConnectInit /\ [][ConnectNext]_connectVars /\ WF_connectVars(Scan)

-----------------------------------------------------------------------------
\* The values k has had since its log had length n.
Held(log, n, k) ==
  {Newest(log, n, k)} \cup {log[i].value : i \in About(log, Len(log), k) \ 1..n}

HeldConfigs(k) == Held(configs, begun.configs, k)
HeldStates(k) == Held(statuses[PartitionOf[k]], begun.statuses[PartitionOf[k]], k)

\* What is recorded is a snapshot of each connector: its configuration is one
\* it had while the scan went on, and a connector is left out only if it did
\* not exist at some moment of it.  This takes a topic read to where it ended
\* when the scan began: a broker that pauses for five seconds breaks it.
ConnectorsAreCurrent ==
  step = "record" =>
    \A k \in Connector \ missed :
      IF Listed(k) THEN gotConfig[k] \in HeldConfigs(k) \ {0} ELSE 0 \in HeldConfigs(k)

\* The stamps of k's statuses increase as they were written.
Ordered(k) ==
  LET log == statuses[PartitionOf[k]]
      stamp(i) == IF log[i].stamp = 0 THEN i - 1 ELSE log[i].stamp
      own == About(log, Len(log), k)
  IN \A i, j \in own : i < j => stamp(i) < stamp(j)

\* The state recorded with a connector is one it had while the scan went on,
\* provided that its workers' clocks agree to the millisecond: of two statuses
\* with one stamp the older is kept.
StatesAreCurrent ==
  step = "record" =>
    \A k \in Connector \ missedState :
      Listed(k) /\ (hasStatuses => Ordered(k)) => State(k) \in HeldStates(k)

\* A scan ends, whatever Connect writes meanwhile and wherever a reading stops:
\* no branch waits for a partition, a connector or a message that never comes.
ScanEnds == step # "idle" ~> step = "idle"
=============================================================================
