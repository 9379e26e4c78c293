SPECIFICATION FairSpec
CONSTANTS
  Programs <- MCPrograms
  SciTarget = "SCI_1_1"
  Length = 5
  RunLengths = {122, 124}
CHECK_DEADLOCK FALSE
INVARIANTS
  TypeOK
  WrittenWhereLaidOut
  TransfersLandOrWrap
  SettlesOnLeast
PROPERTIES
  ShortStaysShort
  RefinesRelaxation
  Termination
