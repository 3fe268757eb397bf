SPECIFICATION MCSpec
CONSTANTS
  m1 = m1
  m2 = m2
  p1 = p1
  None = None
  Territories <- MCTerritories
  Rels = {"a", "x"}
  Spdx = {"MIT"}
  Statuses = {"active", "retired"}
  Editable = {"decl", "routers", "b"}
  Former = {"old"}
  Requires <- MCRequires
  Starts <- MCStarts
  Depends = {{}}
  Scoped = {}
  MaxDay = 2
  MaxRuns = 2
  MaxStops = 1
  MaxEdits = 1
INVARIANTS
  RecordFitsDeclarations
  PublishFollowsMode
PROPERTIES
  UncommittedKept
  RecordKept
  RerunIsSafe
CHECK_DEADLOCK FALSE
