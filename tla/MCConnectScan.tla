--------------------------- MODULE MCConnectScan ---------------------------
(***************************************************************************)
(* Two connectors whose statuses are in different partitions.              *)
(***************************************************************************)
EXTENDS ConnectScan

CONSTANTS source, sink, p0, p1

MCPartitionOf == [k \in Connector |-> IF k = source THEN p0 ELSE p1]
=============================================================================
