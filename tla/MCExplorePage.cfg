SPECIFICATION Spec
CONSTANTS
    NoDate = NoDate
    NoTime = NoTime
    NoAmount = NoAmount
    Regions = {"r1"}
    Clusters = {"c1", "c2"}
    Services = {"MSK", "EC2"}
    CostTypes = {"unblended"}
    RawCosts <- MCRawCosts
    RawMetrics <- MCRawMetrics
    Periods <- MCPeriods
    PickedDates <- MCPickedDates
    MetricOf <- MCMetricOf
    MskService = "MSK"
    NoPeriod = NoPeriod
    MaxRequests <- MCMaxRequests
    MaxTransfers = 1
INVARIANTS
    PageIsCurrent
    TransfersAreOwn
    CostTableAddsUp
CONSTRAINT UntilClosed
CHECK_DEADLOCK FALSE
