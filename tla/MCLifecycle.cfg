SPECIFICATION Spec
CONSTANTS
  app = app
  db = db
  new = new
  Instances = {app, db, new}
  Targets <- MCTargets
  Real <- MCReal
  Deployed = {app, db}
  Subgraphs <- MCSubgraphs
  Scaled <- MCScaled
  SubgraphRetries = 1
  Hints = {TRUE, FALSE}
  MaxWorkflows = 3
  MaxFailures = 2
INVARIANTS
  InstalledIsWhole
  NothingIsLeftBehind
PROPERTIES
  TargetsComeFirst
CHECK_DEADLOCK FALSE
