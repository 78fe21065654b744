---------------------------- MODULE ExplorePage ----------------------------
(***************************************************************************)
(* The browser page and the server of `kcp ui' outside the wizards: the    *)
(* upload of a state file, the pages that fetch costs and metrics          *)
(* (summary, region, cluster, and the metrics modal of the TCO inputs),    *)
(* the requests their effects send, and the session's state the server     *)
(* answers from.                                                           *)
(*                                                                         *)
(* Uploads are numbered; a version is the upload a state came from, 0 is   *)
(* none.  A request's answer is the version it was computed from.  Only    *)
(* one fetching component is mounted at a time: the tabs are exclusive and *)
(* a modal covers its page.                                                *)
(***************************************************************************)
EXTENDS Report, TLC

CONSTANTS
    Regions, Clusters,
    RawCosts,       \* version -> region of it -> what Cost Explorer returned
    RawMetrics,     \* version -> cluster of it -> what CloudWatch returned
    Periods,        \* version -> region or cluster -> the dates of its metadata
    PickedDates,    \* the ranges a user may enter
    MetricOf,       \* workload field of the TCO inputs -> the metric it asks for
    MaxRequests,    \* bound: requests of one mounted component, by its kind
    MaxTransfers    \* bound: fields values are transferred to

Versions == DOMAIN RawCosts

Fields == DOMAIN MetricOf

(* What Cost Explorer and CloudWatch return; the costs asked for are those *)
(* of the three services.  Throughputs and counts are not negative.        *)
CostResults ==
    Seq([start : Int \cup {NoTime, NoPeriod},
         groups : Seq([keys : Seq(STRING), amounts : [CostTypes -> Int \cup {NoAmount}]])])

DateRanges == [start : Int \cup {NoDate}, end : Int \cup {NoDate}]

MetricResults == Seq([label : STRING, times : Seq(Int), values : Seq(Nat)])

ASSUME ExploreAssumption ==
    /\ Versions \subseteq Nat \ {0}
    /\ Versions = DOMAIN RawMetrics /\ Versions = DOMAIN Periods
    /\ \A v \in Versions : DOMAIN RawCosts[v] \subseteq Regions /\ DOMAIN RawMetrics[v] \subseteq Clusters
    /\ \A v \in Versions : \A r \in DOMAIN RawCosts[v] :
          /\ RawCosts[v][r] \in CostResults
          /\ \A i \in DOMAIN RawCosts[v][r] : \A j \in DOMAIN RawCosts[v][r][i].groups :
                LET keys == RawCosts[v][r][i].groups[j].keys IN Len(keys) >= 2 => keys[1] \in Services
    /\ \A v \in Versions : \A c \in DOMAIN RawMetrics[v] : RawMetrics[v][c] \in MetricResults
    /\ PickedDates \subseteq DateRanges
    /\ \A v \in Versions : Periods[v] \in [Regions \cup Clusters -> DateRanges]
    /\ NoAmount \notin Int /\ MskService \in Services
    /\ MaxTransfers \in Nat

VARIABLES
    server,     \* the version kept for the session, 0 none
    page,       \* the version of the page's kcpState, 0 none
    upload,     \* the last upload: its version and how far it is
    shown,      \* the mounted component: its kind, target and version of its props
    dates,      \* the date filters, by target
    response,   \* the answer on the screen
    failed,     \* an error takes the component's place
    requests,   \* requests of the mounted component under way
    asked,      \* the parameters the fetching effect ran with last
    sent,       \* requests of the mounted component
    applied,    \* the last one whose answer was applied
    field,      \* the workload field the modal was opened for
    tco         \* the values transferred to the TCO inputs, by cluster and field

vars == <<server, page, upload, shown, dates, response, failed, requests, asked, sent, applied, field, tco>>

fetching == <<response, failed, requests, asked, sent, applied>>

Nothing == [kind |-> "nothing", of |-> "nothing", version |-> 0]

NoResponse == [kind |-> "nothing", of |-> "nothing", version |-> 0, dates |-> AllDates]

NoParameters == NoResponse

NoField == "nothing"

NoValue == [metric |-> "nothing", value |-> 0]

Pending == -1

Failure == 0

Pages ==
    [kind : {"summary"}, of : {"summary"}] \cup [kind : {"region"}, of : Regions] \cup [kind : {"cluster"}, of : Clusters]

(* A modal's dates are its own, the others' are kept in the store. *)
Key(s) == IF s.kind = "modal" THEN "modal" ELSE s.of

Keys == {"summary", "modal"} \cup Regions \cup Clusters

Init ==
    /\ server = 0 /\ page = 0
    /\ upload = [version |-> 0, phase |-> "idle"]
    /\ shown = Nothing
    /\ dates = [k \in Keys |-> AllDates]
    /\ response = NoResponse /\ failed = FALSE
    /\ requests = {} /\ asked = NoParameters /\ sent = 0 /\ applied = 0
    /\ field = NoField /\ tco = [cf \in Clusters \X Fields |-> NoValue]

-----------------------------------------------------------------------------
(* What the server answers. *)

(* A region or cluster the version does not have is "not found"; the       *)
(* summary asks for every region and needs every answer.                   *)
Has(version, kind, of) ==
    /\ version # 0
    /\ CASE kind = "summary" -> TRUE
         [] kind = "region" -> of \in DOMAIN RawCosts[version]
         [] OTHER -> of \in DOMAIN RawMetrics[version]

(* The answer for one region, and for a cluster. *)
handleGetCosts(r) == FilterRegionCosts(RawCosts[r.version][r.of], r.dates)

handleGetMetrics(r) == FilterMetrics(RawMetrics[r.version][r.of], r.dates)

(* The period in the metadata of an answer; the summary takes that of a    *)
(* region, if there is one.                                                *)
Metadata(r) ==
    LET regions == DOMAIN RawCosts[r.version]
    IN  IF r.kind = "nothing" \/ (r.kind = "summary" /\ regions = {}) THEN AllDates
        ELSE Periods[r.version][IF r.kind = "summary" THEN CHOOSE x \in regions : TRUE ELSE r.of]

-----------------------------------------------------------------------------
(* The effects that run after a change.                                    *)

(* Mutant of PageIsCurrent: the target is missing in the effect's          *)
(* dependencies.                                                           *)
DependenciesWithoutTarget(s, d) == [kind |-> s.kind, of |-> s.kind, version |-> s.version, dates |-> d[Key(s)]]

(* What the fetching effect depends on. *)
Dependencies(s, d) == [kind |-> s.kind, of |-> s.of, version |-> s.version, dates |-> d[Key(s)]]

(* Dates never set take the period of the answer on the screen, which may  *)
(* be another target's; a modal takes that of the cluster it was opened    *)
(* with.                                                                   *)
useDateFilters(s, d, r) ==
    LET period == Metadata(IF s.kind = "modal" THEN s ELSE r)
    IN  IF s # Nothing /\ d[Key(s)] = AllDates THEN [d EXCEPT ![Key(s)] = period] ELSE d

(* Show s with the dates d and the answer r: the effects send what has not *)
(* been asked since `before', and once more if they filled the dates in.   *)
Render(s, d, r, pending, before, n, error) ==
    LET filled == useDateFilters(s, d, r)
        first == Dependencies(s, d)
        second == Dependencies(s, filled)
        new == IF s = Nothing THEN <<>>
               ELSE (IF first # before THEN <<first>> ELSE <<>>) \o (IF second # first THEN <<second>> ELSE <<>>)
        request(i) == [id |-> n + i, kind |-> s.kind, of |-> s.of, dates |-> new[i].dates, answer |-> Pending]
    IN  /\ new # <<>> => n + Len(new) <= MaxRequests[s.kind]
        /\ shown' = s /\ dates' = filled /\ response' = r
        /\ requests' = pending \cup {request(i) : i \in DOMAIN new}
        /\ asked' = (IF s = Nothing THEN NoParameters ELSE second) /\ sent' = n + Len(new)
        /\ failed' = (error /\ new = <<>>)

(* Mutant of TransfersAreOwn: answers to a closed modal's requests reach   *)
(* the next one.                                                           *)
MountKeepsRequests(s, d) ==
    /\ Render(s, [d EXCEPT !["modal"] = AllDates], NoResponse,
              {r \in requests : s = Nothing \/ s.kind = r.kind}, NoParameters, 0, FALSE)
    /\ applied' = 0

(* A component starts without an answer, those on their way to the one it  *)
(* replaces are dropped, and a modal's dates end with it.                  *)
Mount(s, d) ==
    /\ Render(s, [d EXCEPT !["modal"] = AllDates], NoResponse, {}, NoParameters, 0, FALSE)
    /\ applied' = 0

Unmount == Mount(Nothing, dates)

(* A mounted component with other props or dates. *)
Update(s, d) == Render(s, d, response, requests, asked, sent, failed) /\ UNCHANGED applied

-----------------------------------------------------------------------------
(* The upload. *)

(* The header's button, enabled unless an upload is under way; the         *)
(* selection is cleared at once.                                           *)
handleFileUpload ==
    /\ upload.phase = "idle" /\ upload.version + 1 \in Versions
    /\ shown.kind # "modal"
    /\ upload' = [version |-> upload.version + 1, phase |-> "reading"]
    /\ Unmount
    /\ UNCHANGED <<server, page, field, tco>>

(* The file is read and parsed.  The reader has no error handler: when it  *)
(* fails the upload stays in this phase, and its button disabled, for good. *)
SendUpload ==
    /\ upload.phase = "reading"
    /\ upload' = [upload EXCEPT !.phase = "sent"]
    /\ UNCHANGED <<server, page, shown, dates, fetching, field, tco>>

handleUploadState ==
    /\ upload.phase = "sent"
    /\ server' = upload.version
    /\ upload' = [upload EXCEPT !.phase = "answered"]
    /\ UNCHANGED <<page, shown, dates, fetching, field, tco>>

(* The file is not a state, the server refuses it, or its answer is lost.  *)
UploadFails ==
    /\ upload.phase \in {"reading", "sent", "answered"}
    /\ upload' = [upload EXCEPT !.phase = "idle"]
    /\ UNCHANGED <<server, page, shown, dates, fetching, field, tco>>

(* The page gets the new state and shows its summary; the TCO tab and its  *)
(* modal stay where they are.                                              *)
UploadSucceeds ==
    /\ upload.phase = "answered"
    /\ upload' = [upload EXCEPT !.phase = "idle"]
    /\ page' = upload.version
    /\ LET summary == [kind |-> "summary", of |-> "summary", version |-> upload.version]
       IN  \/ shown.kind = "summary" /\ Update(summary, dates)
           \/ shown.kind \in {"region", "cluster", "nothing"} /\ Mount(summary, dates)
           \/ shown.kind \in {"modal", "nothing"} /\ UNCHANGED <<shown, dates, fetching>>
    /\ UNCHANGED <<server, field, tco>>

(* Sessions are kept in memory only. *)
ServerRestarts ==
    /\ server # 0
    /\ server' = 0
    /\ UNCHANGED <<page, upload, shown, dates, fetching, field, tco>>

-----------------------------------------------------------------------------
(* The pages. *)

(* The sidebar: a component of the same kind stays mounted.  Only the      *)
(* summary's props change with the state.                                  *)
Show(p) ==
    LET s == [kind |-> p.kind, of |-> p.of, version |-> IF p.kind = "summary" THEN page ELSE 0]
    IN  /\ Has(page, p.kind, p.of) /\ shown.kind # "modal"
        /\ IF shown.kind = p.kind THEN Update(s, dates) ELSE Mount(s, dates)
        /\ UNCHANGED <<server, page, upload, field, tco>>

(* The modal keeps the cluster as it was when it was opened, and the field *)
(* its button belongs to.                                                  *)
openModal(c, f) ==
    /\ Has(page, "modal", c) /\ shown = Nothing
    /\ Mount([kind |-> "modal", of |-> c, version |-> page], dates)
    /\ field' = f
    /\ UNCHANGED <<server, page, upload, tco>>

(* Another tab, a page that fetches nothing, or the modal closed. *)
Leave ==
    /\ shown # Nothing
    /\ Unmount
    /\ field' = NoField
    /\ UNCHANGED <<server, page, upload, tco>>

PickDates(range) ==
    /\ shown # Nothing /\ ~failed
    /\ Update(shown, [dates EXCEPT ![Key(shown)] = range])
    /\ UNCHANGED <<server, page, upload, field, tco>>

(* The way costs are counted is a dependency, though no parameter. *)
SelectCostType ==
    /\ shown.kind = "region" /\ ~failed
    /\ Render(shown, dates, response, requests, NoParameters, sent, failed)
    /\ UNCHANGED <<server, page, upload, applied, field, tco>>

(* The server works on the state the session has when the request arrives. *)
Answer(r) ==
    /\ r.answer = Pending
    /\ LET answer == IF Has(server, r.kind, r.of) THEN server ELSE Failure
       IN  requests' = (requests \ {r}) \cup {[r EXCEPT !.answer = answer]}
    /\ UNCHANGED <<server, page, upload, shown, dates, response, failed, asked, sent, applied, field, tco>>

(* Answers are applied in the order they arrive, whatever was asked since. *)
Apply(r) ==
    /\ r.answer \notin {Pending, Failure}
    /\ Render(shown, dates, [kind |-> r.kind, of |-> r.of, version |-> r.answer, dates |-> r.dates],
              requests \ {r}, asked, sent, failed)
    /\ applied' = r.id
    /\ UNCHANGED <<server, page, upload, field, tco>>

(* The summary drops what it had, the others keep it under the error. *)
Fail(r) ==
    /\ r.answer = Failure
    /\ failed' = TRUE /\ applied' = r.id
    /\ requests' = requests \ {r}
    /\ response' = IF shown.kind = "summary" THEN NoResponse ELSE response
    /\ UNCHANGED <<server, page, upload, shown, dates, asked, sent, field, tco>>

(* A ratio rounded to a whole number, a half up. *)
Rounded(num, den) == (2 * num + den) \div (2 * den)

(* Partitions are rounded; a throughput in bytes becomes one in megabytes  *)
(* with five decimals, kept here as a number of hundred-thousandths.       *)
converted(f, value) ==
    IF f = "partitions" THEN Rounded(value.num, value.den)
    ELSE Rounded(100000 * value.num, 1048576 * value.den)

(* What a metric's buttons transfer: its least, its mean and its greatest. *)
AggregateStats(aggregate) ==
    {[num |-> aggregate.min, den |-> 1], [num |-> aggregate.sum, den |-> aggregate.count],
     [num |-> aggregate.max, den |-> 1]}

(* The metric on the modal's screen: the one asked for, if the answer has  *)
(* it, else one the user selects or one left from an earlier answer, which *)
(* may be any.  One of its statistics goes to the field of the cluster.    *)
Transfer ==
    /\ shown.kind = "modal" /\ response # NoResponse /\ ~failed
    /\ Cardinality({cf \in DOMAIN tco : tco[cf] # NoValue}) < MaxTransfers
    /\ LET answer == handleGetMetrics(response)
           labels == {answer.results[i].label : i \in DOMAIN answer.results}
       IN  \E metric \in DOMAIN answer.aggregates :
              /\ MetricOf[field] \in labels => metric = MetricOf[field]
              /\ \E value \in AggregateStats(answer.aggregates[metric]) :
                    tco' = [tco EXCEPT ![<<shown.of, field>>] = [metric |-> metric, value |-> converted(field, value)]]
    /\ UNCHANGED <<server, page, upload, shown, dates, fetching, field>>

Next ==
    \/ handleFileUpload \/ SendUpload \/ handleUploadState \/ UploadFails \/ UploadSucceeds
    \/ ServerRestarts
    \/ \E p \in Pages : Show(p)
    \/ \E c \in Clusters, f \in Fields : openModal(c, f)
    \/ Leave
    \/ \E range \in PickedDates : PickDates(range)
    \/ SelectCostType
    \/ \E r \in requests : Answer(r) \/ Apply(r) \/ Fail(r)
    \/ Transfer

Spec == Init /\ [][Next]_vars

-----------------------------------------------------------------------------
(* A page that has settled shows its target, from the state the page and   *)
(* the server share, for the dates it displays: however pages were         *)
(* switched, dates filled in from another target's answer and states       *)
(* uploaded while requests were under way.  What is asked last must also   *)
(* be applied last: an answer overtaken by an older one is not covered     *)
(* (the effects of useClusterMetricsFetch, useSummaryCostsFetch and        *)
(* RegionCosts).                                                           *)
PageIsCurrent ==
    LET settled == upload.phase = "idle" /\ server = page /\ requests = {} /\ applied = sent /\ ~failed
    IN  shown.kind \in {"summary", "region", "cluster"} /\ settled =>
            response = [kind |-> shown.kind, of |-> shown.of, version |-> page, dates |-> dates[shown.of]]

(* The points of a metric in a range of dates, over all results with its   *)
(* label, at their places.                                                 *)
OwnPoints(results, metric, range) ==
    LET places == UNION {{i} \X DOMAIN results[i].values : i \in DOMAIN results}
        belongs(i, j) == /\ results[i].label = metric /\ j \in DOMAIN results[i].times
                         /\ range # AllDates => Within(results[i].times[j], range)
    IN  [p \in {q \in places : belongs(q[1], q[2])} |-> results[p[1]].values[p[2]]]

(* The least, the greatest and the mean of some points. *)
Figures(points) ==
    {[num |-> Min(Range(points)), den |-> 1], [num |-> Max(Range(points)), den |-> 1],
     [num |-> Sum(points, DOMAIN points), den |-> Cardinality(DOMAIN points)]}

(* No whole number is nearer to the ratio num/den. *)
Nearest(value, num, den) == 2 * (den * value - num) <= den /\ 2 * (num - den * value) <= den

(* The figure in the field's unit: partitions, or hundred-thousandths of a *)
(* megabyte of 1024 * 1024 bytes.                                          *)
Expresses(f, value, figure) ==
    IF f = "partitions" THEN Nearest(value, figure.num, figure.den)
    ELSE Nearest(value, 100000 * figure.num, 1048576 * figure.den)

Ranges == {AllDates} \cup PickedDates \cup {Periods[v][c] : v \in Versions, c \in Clusters}

IsOwn(c, f, entry) ==
    \E v \in {w \in Versions : c \in DOMAIN RawMetrics[w]}, range \in Ranges :
        LET own(metric) == OwnPoints(RawMetrics[v][c], metric, range)
        IN  /\ DOMAIN own(entry.metric) # {}
            /\ entry.metric # MetricOf[f] => DOMAIN own(MetricOf[f]) = {}
            /\ \E figure \in Figures(own(entry.metric)) : Expresses(f, entry.value, figure)

(* A value transferred to a field of a cluster's inputs is, in the field's *)
(* unit and to its last digit, the least, the greatest or the mean of that *)
(* cluster's own points of a metric in some uploaded state and range of    *)
(* dates: of the field's metric if there are such points, whatever was     *)
(* asked for other clusters and fields meanwhile (handleTransferToTCO and  *)
(* the modal's answers).                                                   *)
TransfersAreOwn == \A c \in Clusters, f \in Fields : tco[<<c, f>>] # NoValue => IsOwn(c, f, tco[<<c, f>>])

(* What Cost Explorer returned for a service in a range of dates without   *)
(* its end, counted in one way: period by period, group by group.          *)
Returned(raw, range, service, type) ==
    LET chosen(start) ==
            /\ start # NoTime
            /\ range.start = NoDate \/ range.start <= start
            /\ range.end = NoDate \/ start < range.end
        counted(i, j) ==
            /\ Len(raw[i].groups[j].keys) >= 2 /\ raw[i].groups[j].keys[1] = service
            /\ raw[i].start # NoPeriod /\ (range # AllDates => chosen(raw[i].start))
        group(i, j) == IF counted(i, j) THEN Amount(raw[i].groups[j].amounts, type) ELSE 0
        period(i) == Sum([j \in DOMAIN raw[i].groups |-> group(i, j)], DOMAIN raw[i].groups)
    IN  Sum([i \in DOMAIN raw |-> period(i)], DOMAIN raw)

NoCostsOn(raw, date) == \A i \in DOMAIN raw : raw[i].start = date => raw[i].groups = <<>>

(* Every total of a region's cost table is the sum of its row, and the     *)
(* totals of a service on the page, and of MSK in the command's report,    *)
(* are those of the amounts Cost Explorer returned for it from the start   *)
(* until before the end of the chosen dates (useRegionCostsData's totals   *)
(* from the server's aggregates, cost_reporter.go's calculateRegionTotals).*)
(* Costs of the end date itself, which the flags' help says are not asked  *)
(* for and FilterRegionCosts counts, are not covered.                      *)
CostTableAddsUp ==
    response.kind = "region" =>
        LET raw == RawCosts[response.version][response.of]
            answer == handleGetCosts(response)
            returned(s, t) == Returned(raw, response.dates, s, t)
        IN  \A t \in CostTypes :
                /\ \A row \in CostTable(answer, t) : row.total = Sum(row.values, DOMAIN row.values)
                /\ NoCostsOn(raw, response.dates.end) =>
                      /\ \A s \in Services : answer.aggregates[s][t].total = returned(s, t)
                      /\ calculateRegionTotals(answer, t) = returned(MskService, t)

=============================================================================
