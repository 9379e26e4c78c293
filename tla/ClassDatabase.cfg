CONSTANTS
  p1 = p1
  p2 = p2
  x = x
  y = y
  z = z
  id = id
  A = A
  B = B
  C = C
  s1 = s1
  s2 = s2
  RootObj = RootObj
  Nobody = Nobody
  None = None
  Hollow = Hollow
  Torn = Torn
  HasFlock = TRUE
  SelectorLimit = 3
  ClassLimit = 2
  Proc <- MCProc
  Selector <- MCSelector
  Class <- MCClass
  Script <- MCScript
  Builtin <- MCBuiltin
  Commands <- MCCommands
  Databases <- MCDatabases
SPECIFICATION Spec
INVARIANTS OneUpdater NumbersAreKept DatabaseIsReadable
PROPERTIES TableMatchesDatabase EverybodyEnds
