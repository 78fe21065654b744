-------------------------- MODULE MCMigrationInfra --------------------------
(* Instances of MigrationInfra: each type with all its flags, with one of    *)
(* them missing and with the optional ones; clusters of three brokers, of    *)
(* ten (where text order and number order differ), with fewer names in the   *)
(* bootstrap string than brokers, without metrics, and those the command     *)
(* stops at.                                                                 *)
EXTENDS MigrationInfra

Line(type, gateway, given, cidrs, storage) ==
  [type |-> type, existing_internet_gateway |-> gateway, given |-> given, cidrs |-> cidrs,
   storage |-> storage]

JumpFlags == {"target-environment-id", "target-bootstrap-endpoint",
              "existing-private-link-vpce-id", "jump-cluster-setup-host-subnet-cidr"}
IamFlags == JumpFlags \cup {"jump-cluster-iam-auth-role-name"}
AllBut(names) == {names} \cup {names \ {n} : n \in names}

MCFlags ==
  {Line(0, FALSE, JumpFlags, 3, 0), Line(1, FALSE, {}, 0, 0)}
  \cup {Line(2, FALSE, given, 0, 0) :
          given \in {{}} \cup {{"target-environment-id"} \cup o : o \in SUBSET {"subnet-id", "security-group-id"}}}
  \cup {Line(3, gateway, JumpFlags, cidrs, storage) :
          gateway \in BOOLEAN, cidrs \in {0, 2, 3}, storage \in {0, 500}}
  \cup {Line(3, FALSE, given, 3, 0) : given \in AllBut(JumpFlags)}
  \cup {Line(4, FALSE, given, 3, 0) : given \in AllBut(IamFlags)}

Source(bootstrap, listed, nodes, volume) ==
  [provisioned |-> TRUE, scanned |-> TRUE, networking |-> {"subnet_ids", "security_groups"},
   bootstrap |-> bootstrap, listed |-> listed, nodes |-> nodes, brokers |-> Cardinality(nodes), volume |-> volume]

Everything == {"public_scram", "scram", "iam"}
MCClusters ==
  {Source(Everything, 1..3, 1..3, 1000), Source(Everything, 1..3, 1..3, 0),
   Source({}, {}, 1..3, 1000), Source({}, {}, {1}, 1000), Source({"scram"}, 1..10, 1..10, 1000),
   Source({"scram"}, 1..3, 1..6, 1000), Source({"scram", "iam"}, 1..2, {}, 1000),
   [Source(Everything, 1..3, 1..3, 1000) EXCEPT !.provisioned = FALSE],
   [Source(Everything, 1..3, 1..3, 1000) EXCEPT !.scanned = FALSE],
   [Source(Everything, 1..3, 1..3, 1000) EXCEPT !.brokers = 0],
   [Source(Everything, 1..3, 1..3, 1000) EXCEPT !.networking = {}]}
=============================================================================
