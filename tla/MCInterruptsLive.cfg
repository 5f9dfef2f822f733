CONSTANTS
  Sources <- MCSources
  RaiseLevels <- MCRaiseLevels
  SpuriousLine = TRUE
  MaxEdges = 3
SPECIFICATION LiveSpec
PROPERTY EventsAreServed
