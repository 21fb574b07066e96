\* A stopped scan is started again.
SPECIFICATION Spec
CONSTANTS
  MaxScans = 1
  Seed = s
  Page = {s, a}
  Worker = {w1}
  NoPage = NoPage
SYMMETRY Sym
INVARIANTS
  ContinuedIsWhole
CHECK_DEADLOCK FALSE
