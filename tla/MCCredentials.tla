--------------------------- MODULE MCCredentials ---------------------------
(***************************************************************************)
(* Instances of Credentials: a cluster whose settings between them offer   *)
(* every method, beside one of another region.                             *)
(***************************************************************************)
EXTENDS Credentials

Provisioned(auth, transit) ==
  [type |-> "PROVISIONED", client_auth |-> auth, in_transit |-> transit]

Serverless ==
  [type |-> "SERVERLESS", client_auth |-> {}, in_transit |-> "TLS"]

AllMethods ==
  {Serverless,
   Provisioned({"sasl_scram", "tls"}, "TLS"),
   Provisioned({"sasl_scram", "unauthenticated"}, "TLS_PLAINTEXT")}

Fixed == Provisioned({"iam"}, "TLS")

AnyOf == [c \in Cluster |-> AllMethods]

\* The first cluster changes; the second, in another region, stays as it is.
OneChanges ==
  [c \in Cluster |-> IF c = CHOOSE d \in Cluster : TRUE THEN AllMethods ELSE {Fixed}]

AllAndFixed == AllMethods \cup {Fixed}

OneRegion == [c \in Cluster |-> CHOOSE r \in Region : TRUE]

\* The first cluster alone in its region.
FirstApart ==
  [c \in Cluster |-> IF c = CHOOSE d \in Cluster : TRUE
                     THEN CHOOSE r \in Region : TRUE
                     ELSE CHOOSE r \in Region : r # CHOOSE s \in Region : TRUE]
=============================================================================
