SPECIFICATION AdminSpec
CONSTANTS
  Keys = {k1, k2}
  Tokens = {t1, t2}
  Enrollers = {h1, h2}
  MaxSequence = 2
  MaxCommands = 5
  None = None
SYMMETRY Symmetry
INVARIANT
  RowSound
CHECK_DEADLOCK FALSE
