CONSTANTS
  Jobs = {j1, j2, j3}
  SubLists = {s1, s2}
  HasSocks = TRUE
  Environments = {{}}
  None = None
SPECIFICATION Spec
SYMMETRY Symmetry
INVARIANT LastSaveWins
