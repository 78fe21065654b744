----------------------------- MODULE MCKcpState -----------------------------
(***************************************************************************)
(* Instances of KcpState.                                                  *)
(***************************************************************************)
EXTENDS KcpState

OneRegion == [c \in Cluster |-> CHOOSE r \in Region : TRUE]

\* The first cluster alone in its region.
FirstApart ==
  [c \in Cluster |-> IF c = CHOOSE d \in Cluster : TRUE
                     THEN CHOOSE r \in Region : TRUE
                     ELSE CHOOSE r \in Region : r # CHOOSE s \in Region : TRUE]
=============================================================================
