CONSTANTS
  Sources <- MCSources
  RaiseLevels <- MCRaiseLevels
  SpuriousLine = TRUE
SPECIFICATION Spec
INVARIANTS
  TypeOK
  EnableMatchesLevel
  MaskMatchesLevel
  StackNests
  DpcUnderHandlers
PROPERTY EntryOutranks
