--------------------------- MODULE MCInfraWizards ---------------------------
(* Instance of InfraWizards: all wizards, and the ways to fill a form that   *)
(* the generated projects tell apart. A field of `Cluster` that the form     *)
(* does not show is empty.                                                   *)
EXTENDS InfraWizards

AllWizards == DOMAIN Wizard

Filled(type, availability, cku, prevent) ==
  [cluster_type |-> type, cluster_availability |-> availability, cluster_cku |-> cku,
   prevent_destroy |-> prevent]

MCCluster ==
  [enterprise |-> Filled("enterprise", "", 0, TRUE),
   one_zone |-> Filled("dedicated", "SINGLE_ZONE", 1, TRUE),
   many_zones |-> Filled("dedicated", "MULTI_ZONE", 2, FALSE),
   many_zones_default_cku |-> Filled("dedicated", "MULTI_ZONE", 1, TRUE),
   cleared |-> Filled("dedicated", "", 0, TRUE)]

MCStorage == [enterprise |-> 1000, one_zone |-> 500, many_zones |-> 1,
              many_zones_default_cku |-> 0, cleared |-> -1]

MCClusterTypes == {"", "dedicated", "enterprise"}
=============================================================================
