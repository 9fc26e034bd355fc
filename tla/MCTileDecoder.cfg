SPECIFICATION DecoderSpec
CONSTANTS
  Tiles = {t1, t2}
  Contents <- MCContents
  Pool = {p1, p2}
SYMMETRY MCSymmetry
CHECK_DEADLOCK FALSE
PROPERTY WaitTellsOutcome
