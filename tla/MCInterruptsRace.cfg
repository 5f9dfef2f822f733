CONSTANTS
  Sources <- MCSources
  RaiseLevels <- MCRaiseLevels
  SpuriousLine = FALSE
SPECIFICATION Spec
PROPERTY StruckOffStaysOff
