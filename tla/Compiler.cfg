SPECIFICATION FairSpec
CONSTANTS
  PlainExprs <- MCPlainExprs
  OptimizedExprs <- MCOptimizedExprs
CHECK_DEADLOCK FALSE
INVARIANTS
  CompiledMeaning
  StackIsBalanced
PROPERTIES
  Termination
