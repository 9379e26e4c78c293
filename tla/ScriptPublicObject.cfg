SPECIFICATION Spec
CONSTANTS
  NoName = "none"
  Unresolved = 0
  Names <- MCNames
  Sites <- MCCalls
  Nodes <- MCCalls
  Scripts <- PublicObjectScripts
  UnsetOffsets = {0}
CHECK_DEADLOCK FALSE
INVARIANTS
  PublicObjectsRelocated
