SPECIFICATION Spec
CONSTANTS
  NoName = "none"
  Unresolved = 0
  Names <- MCNames
  Sites <- MCCalls
  Nodes <- MCCalls
  Scripts <- MCScripts
  UnsetOffsets = {0}
CHECK_DEADLOCK FALSE
INVARIANTS
  AllBound
  LoadsAnywhere
  VariablesStartAsDeclared
  LookupsSucceed
PROPERTIES
  BindsLate
