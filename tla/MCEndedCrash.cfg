SPECIFICATION Spec
CONSTANTS
  None = None
  e1 = e1
  e2 = e2
  e3 = e3
  x1 = x1
  Epochs = {e1, e2, e3}
  Savers = {x1}
  BanCap = 2
SYMMETRY Symmetry
INVARIANTS
  BansSurviveRestarts
