SPECIFICATION Spec
CONSTANT
  Programs <- MCPrograms
INVARIANTS
  DeclarationsAgree
  GlobalsMeanTheSame
  PublicsAreDefinedHere
  NamesHaveTheirOwnWords
