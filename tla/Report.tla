------------------------------- MODULE Report -------------------------------
(***************************************************************************)
(* The report service (src/internal/services/report/report_service.go) and *)
(* what its two readers make of an answer: the page's cost table           *)
(* (useRegionCostsData.ts) and the command's report (cost_reporter.go).    *)
(*                                                                         *)
(* A time is a number, a range of dates a record of two times or NoDate.   *)
(* A region's costs are what Cost Explorer returned, a sequence of         *)
(* [start, groups], a group being [keys, amounts]; a cluster's metrics are *)
(* what CloudWatch returned, a sequence of [label, aggregate, times,       *)
(* values].  Amounts are whole numbers.  The lists made of them are indexed *)
(* by the places their entries come from, <<period, group>> and <<metric,  *)
(* point>>, in the order the code keeps them in.                           *)
(***************************************************************************)
EXTENDS Integers, Sequences, FiniteSetsExt, Functions

CONSTANTS
    Services,       \* the three services whose costs are asked for
    MskService,     \* the one whose totals the command's summary has
    CostTypes,      \* the ways a cost is counted
    NoDate,         \* an absent start or end
    NoPeriod,       \* the start of costs that have no time period
    NoTime,         \* a time that is missing or does not parse
    NoAmount        \* an amount that is missing or does not parse

AllDates == [start |-> NoDate, end |-> NoDate]

(* Mutant of CostTableAddsUp: the end is not looked at. *)
WithinStart(time, dates) ==
    /\ time # NoTime
    /\ dates.start = NoDate \/ time >= dates.start

(* Both ends belong to the range. *)
Within(time, dates) ==
    /\ time # NoTime
    /\ dates.start = NoDate \/ time >= dates.start
    /\ dates.end = NoDate \/ time <= dates.end

Filtered(results, dates) ==
    IF dates = AllDates THEN results
    ELSE Restrict(results, {i \in DOMAIN results : Within(results[i].start, dates)})

Sum(f, S) == MapThenSumSet(LAMBDA i : f[i], S)

-----------------------------------------------------------------------------
(* Costs. *)

Amount(amounts, type) == IF amounts[type] = NoAmount THEN 0 ELSE amounts[type]

(* One entry per period and group; costs without a period and a group      *)
(* without its two keys are skipped, an amount that is missing counts 0.   *)
(* A period whose start does not parse is kept.                            *)
flattenCosts(costResults) ==
    LET group(p) == costResults[p[1]].groups[p[2]]
        places == UNION {{i} \X DOMAIN costResults[i].groups : i \in DOMAIN costResults}
        kept == {p \in places : costResults[p[1]].start # NoPeriod /\ Len(group(p).keys) >= 2}
    IN  [p \in kept |-> [start |-> costResults[p[1]].start,
                         service |-> group(p).keys[1], usageType |-> group(p).keys[2],
                         values |-> [t \in CostTypes |-> Amount(group(p).amounts, t)]]]

(* The entries of a service and a usage type. *)
Group(costs, service, usageType) ==
    {i \in DOMAIN costs : costs[i].service = service /\ costs[i].usageType = usageType}

UsageTypes(costs, service) == {costs[i].usageType : i \in {j \in DOMAIN costs : costs[j].service = service}}

Statistics(values) ==
    [sum |-> Sum(values, DOMAIN values), count |-> Cardinality(DOMAIN values),
     max |-> Max(Range(values)), min |-> Min(Range(values))]

ValuesOf(costs, S, type) == [i \in S |-> costs[i].values[type]]

(* The total kept per service and type adds the groups up. *)
ServiceTotal(rows) == Sum([u \in DOMAIN rows |-> rows[u].sum], DOMAIN rows)

(* service -> type -> the statistics of each usage type, and their total. *)
calculateCostAggregates(costs) ==
    [s \in Services |-> [t \in CostTypes |->
        LET rows == [u \in UsageTypes(costs, s) |-> Statistics(ValuesOf(costs, Group(costs, s, u), t))]
        IN  [rows |-> rows, total |-> ServiceTotal(rows)]]]

FilterRegionCosts(costResults, dates) ==
    LET costs == Filtered(flattenCosts(costResults), dates)
    IN  [results |-> costs, aggregates |-> calculateCostAggregates(costs)]

(* The page's table for one way of counting: a row per service and usage   *)
(* type with a cell per date; the row's total is the server's.             *)
CostTable(answer, type) ==
    LET costs == answer.results
        dates == {costs[i].start : i \in DOMAIN costs}
        cell(s, u, d) == Sum([i \in DOMAIN costs |-> costs[i].values[type]],
                             {i \in Group(costs, s, u) : costs[i].start = d})
        row(s, u) == [service |-> s, usageType |-> u, values |-> [d \in dates |-> cell(s, u, d)],
                      total |-> answer.aggregates[s][type].rows[u].sum]
    IN  {row(costs[i].service, costs[i].usageType) : i \in DOMAIN costs}

(* The command adds MSK's groups up again for its summary. *)
calculateRegionTotals(answer, type) ==
    LET rows == answer.aggregates[MskService][type].rows
    IN  Sum([u \in DOMAIN rows |-> rows[u].sum], DOMAIN rows)

-----------------------------------------------------------------------------
(* Metrics. *)

(* One entry per point; a metric without points is one entry without time  *)
(* or value, at place 0; points beyond the values are dropped.             *)
flattenMetrics(metricResults) ==
    LET points(i) == 1..Min({Len(metricResults[i].times), Len(metricResults[i].values)})
        places == UNION {{i} \X (IF points(i) = {} THEN {0} ELSE points(i)) : i \in DOMAIN metricResults}
        at(f, j, none) == IF j = 0 THEN none ELSE f[j]
    IN  [p \in places |-> [start |-> at(metricResults[p[1]].times, p[2], NoTime),
                           label |-> metricResults[p[1]].label,
                           value |-> at(metricResults[p[1]].values, p[2], NoAmount)]]

(* The labels of cluster-wide metrics lose their prefix: the label here is *)
(* the name without it.                                                    *)
calculateMetricsAggregates(metrics) ==
    LET valued == {i \in DOMAIN metrics : metrics[i].value # NoAmount}
        of(label) == {i \in valued : metrics[i].label = label}
    IN  [label \in {metrics[i].label : i \in valued} |-> Statistics([i \in of(label) |-> metrics[i].value])]

FilterMetrics(metricResults, dates) ==
    LET metrics == Filtered(flattenMetrics(metricResults), dates)
    IN  [results |-> metrics, aggregates |-> calculateMetricsAggregates(metrics)]

=============================================================================
