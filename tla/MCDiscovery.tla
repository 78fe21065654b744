---------------------------- MODULE MCDiscovery ----------------------------
(***************************************************************************)
(* A region with a standard cluster and a region with a serverless one.    *)
(* Two of the three connectors of the account are in the first page: one   *)
(* uses the standard cluster, the other has an authentication that the     *)
(* code does not know.  The third one uses the standard cluster too.       *)
(***************************************************************************)
EXTENDS Discovery

CONSTANTS r1, r2, standard, serverless, good, odd, unseen

MCRegionOf == [c \in Cluster |-> IF c = serverless THEN r2 ELSE r1]
MCListeners ==
  [c \in Cluster |-> IF c = standard THEN {"iam", "tls", "scram"} ELSE {"iam"}]
MCConnectorInfo ==
  [k \in Connector |->
     [auth |-> IF k = odd THEN "other" ELSE IF k = good THEN "none" ELSE "iam",
      encryption |-> "tls",
      servers |-> IF k = odd THEN {} ELSE IF k = good THEN {<<standard, "tls">>}
                  ELSE {<<standard, "iam">>}]]
MCOptions ==
  {[costs |-> o, topics |-> o, metrics |-> o] : o \in BOOLEAN}
=============================================================================
