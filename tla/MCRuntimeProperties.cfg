SPECIFICATION FairSpec
CONSTANTS
  i1 = i1
  i2 = i2
  node = node
  relationship = relationship
  a = a
  b = b
  Operations = {node, relationship}
  Instances = {i1, i2}
  Contexts <- MCContexts
  Keys = {a, b}
  Values = {x, y, f}
  Functions = {f}
  x = x
  y = y
  f = f
  States = {"uninitialized", "creating"}
  Writes <- MCWrites
  Endpoints = {"local", "manager"}
  Absent = Absent
  NotRead = NotRead
  NoCall = NoCall
  MaxEdits = 3
  MaxOutside = 1
PROPERTIES
  ImplementsAtomic
  NothingOverwritten
  StateIsKept
  UpdatesEnd
CHECK_DEADLOCK FALSE
