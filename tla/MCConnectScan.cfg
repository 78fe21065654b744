SPECIFICATION ConnectSpec
CONSTANTS
  source = source
  sink = sink
  p0 = p0
  p1 = p1
  Connector = {source, sink}
  Partition = {p0, p1}
  PartitionOf <- MCPartitionOf
  MaxClock = 4
INVARIANTS
  ConnectorsAreCurrent
  StatesAreCurrent
PROPERTIES
  ScanEnds
