CONSTANTS
  a = a
  b = b
  X = X
  Y = Y
  include = include
  define = define
  scriptKey = scriptKey
  proc = proc
  misplaced = misplaced
  uncompiled = uncompiled
  unassembled = unassembled
  IncludeName = include
  DefineName = define
  ScriptName = scriptKey
  Misplaced = misplaced
  Uncompiled = uncompiled
  Unassembled = unassembled
  None = None
  Garbled = Garbled
  Gone = Gone
  Before = Before
  Torn = Torn
  MovesDefines = TRUE
  MaxInput = 40
  ConditionLength = 1
  DefineLength = 3
  Zero = "0"
  Number <- MCNumber
  Rank <- MCRank
  Name <- MCName
  ItemName <- MCItemName
  Included <- MCIncluded
  Commands <- MCCommands
SPECIFICATION Spec
PROPERTY DefinitionsStay
