CONSTANTS
  Region = {r1, r2}
  Cluster = {c1, c2}
  RegionOf <- FirstApart
  Secret = {s1}
  Blank = Blank
  NoChoice = NoChoice
  AwsConfig <- AllAndFixed
  ConfigsOf <- OneChanges
SPECIFICATION Spec
INVARIANTS
  ChoicesKept
  UntouchedRegionsKept
  ConflictExplained
  ChoiceRespected
CHECK_DEADLOCK FALSE
