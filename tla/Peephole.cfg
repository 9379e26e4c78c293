SPECIFICATION FairSpec
CONSTANTS
  Procs <- MCProcs
  Starts <- MCStarts
  Fuel <- MCFuel
  Length = 4
  Alphabets <- AllAlphabets
CHECK_DEADLOCK FALSE
INVARIANTS
  SameMeaning
  BeliefsHold
