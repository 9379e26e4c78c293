SPECIFICATION Spec
CONSTANTS
  PlainExprs = {}
  OptimizedExprs <- MisusedAccumulator
CHECK_DEADLOCK FALSE
INVARIANTS
  CompiledMeaning
