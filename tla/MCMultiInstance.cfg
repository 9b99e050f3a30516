SPECIFICATION DeploymentSpec
CONSTANTS
  site = site
  host = host
  ip = ip
  db = db
  web = web
  group = group
  Nothing = Nothing
  Nodes = {site, host, ip, db, web}
  Groups = {group}
  ContainedIn <- MCContainedIn
  Members <- MCMembers
  Hosts = {host}
  AllToAll <- MCAllToAll
  AllToOne <- MCAllToOne
  Together <- MCTogether
  Defaults <- MCDefaults
  MaxInstances = 2
  MaxModifications = 2
  MaxHints = 1
INVARIANTS
  CountsKept
  ConnectedAsPlanned
PROPERTIES
  DifferenceIsComplete
  OnlyWhatWasAsked
  HintsHonoured
CHECK_DEADLOCK FALSE
