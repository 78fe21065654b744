CONSTANTS
  Proc = {p1, p2}
  Region = {r1, r2}
  Cluster = {c1}
  RegionOf <- OneRegion
  Topic = {t1}
  Acl = {}
  Connector = {k1}
  Client = {n1}
  Url = {u1, u2}
  MaxCommands = 3
  MaxTime = 1
SPECIFICATION Spec
INVARIANTS
  Footprint
  OnlyCommittedResults
  RegistryScansKept
PROPERTIES
  ImplementsStore
CHECK_DEADLOCK FALSE
