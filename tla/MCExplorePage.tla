--------------------------- MODULE MCExplorePage ---------------------------
(* One region with two clusters, and two uploads of its state.  The second *)
(* state has other costs and metrics, and no longer the cluster c2.        *)
EXTENDS ExplorePage

Range2(a, b) == [start |-> a, end |-> b]

Keys2(service, usage) == <<service, usage>>

Costs(amount) == [type \in CostTypes |-> amount]

(* A group with one key, an amount that is missing, costs without a period *)
(* or with one that does not parse, a day without costs, and two groups    *)
(* alike in one period.                                                    *)
MCRawCosts ==
    << ("r1" :> <<[start |-> 1, groups |-> <<[keys |-> Keys2("MSK", "hours"), amounts |-> Costs(3)],
                                             [keys |-> Keys2("MSK", "hours"), amounts |-> Costs(4)],
                                             [keys |-> <<"MSK">>, amounts |-> Costs(9)]>>],
                  [start |-> NoPeriod, groups |-> <<[keys |-> Keys2("MSK", "hours"), amounts |-> Costs(8)]>>],
                  [start |-> NoTime, groups |-> <<[keys |-> Keys2("EC2", "hours"), amounts |-> Costs(5)]>>],
                  [start |-> 2, groups |-> <<[keys |-> Keys2("MSK", "storage"), amounts |-> Costs(NoAmount)]>>]>>),
       ("r1" :> <<[start |-> 2, groups |-> <<[keys |-> Keys2("MSK", "hours"), amounts |-> Costs(7)]>>],
                  [start |-> 3, groups |-> <<>>],
                  [start |-> 4, groups |-> <<[keys |-> Keys2("MSK", "storage"), amounts |-> Costs(1)]>>]>>) >>

(* A metric without points, one with more times than values, and a cluster *)
(* without any points.                                                     *)
MCRawMetrics ==
    << ("c1" :> <<[label |-> "in", times |-> <<>>, values |-> <<>>],
                  [label |-> "count", times |-> <<1, 2>>, values |-> <<21>>]>>)
         @@ ("c2" :> <<[label |-> "in", times |-> <<1>>, values |-> <<>>],
                       [label |-> "count", times |-> <<>>, values |-> <<>>]>>),
       ("c1" :> <<[label |-> "in", times |-> <<2, 3>>, values |-> <<1400, 1300>>],
                  [label |-> "count", times |-> <<2>>, values |-> <<30>>]>>) >>

(* A page of clusters is left for the other one with its dates filled in. *)
MCMaxRequests == [kind \in {"summary", "region", "cluster", "modal"} |-> IF kind = "cluster" THEN 3 ELSE 2]

MCMetricOf == [f \in {"avgIngressThroughput", "partitions"} |-> IF f = "partitions" THEN "count" ELSE "in"]

MCPeriods ==
    [v \in 1..2 |-> [t \in {"r1", "c1", "c2"} |->
        IF t = "c2" THEN AllDates ELSE IF v = 2 /\ t = "r1" THEN Range2(1, 5) ELSE Range2(1, 3)]]

(* In the second state these dates leave costs of a later day out. *)
MCPickedDates == {Range2(1, 3)}

(* Nothing reads the values transferred: once there are some, behaviours   *)
(* are followed until the modal is closed.                                 *)
UntilClosed == shown.kind = "modal" \/ \A cf \in DOMAIN tco : tco[cf] = NoValue

=============================================================================
