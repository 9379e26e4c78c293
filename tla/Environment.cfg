SPECIFICATION Spec
CONSTANTS
  NoSuper = NoSuper
  Unset = Unset
  NoNumber = NoNumber
  Basic <- MCBasic
  Standard <- MCStandard
  MaxSelector = 3
  Programs <- MCPrograms
INVARIANTS
  SelectorsAgree
  SelectorsFillTheGaps
  ClassesAreAsWritten
  ObjectsMatchTheirClass
