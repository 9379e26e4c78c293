CONSTANTS
  MaxTokenLen = 4
  Code <- MCCode
  CtrlKey <- MCCtrlKey
  AltKey <- MCAltKey
  Spelling <- MCSpelling
  Sources <- MCSources
  Contents <- MCContents
  Streams <- MCStreams
  Received <- MCReceived
SPECIFICATION Spec
INVARIANTS TokensStandAlone DirectivesFillLines ReadAsWritten ReadsBack
PROPERTY EveryStepTakes
