\* A scan is stopped while a worker's turn is already queued.
SPECIFICATION Spec
CONSTANTS
  MaxScans = 1
  Seed = s
  Page = {s, a}
  Worker = {w1, w2}
  NoPage = NoPage
SYMMETRY Sym
INVARIANTS
  StoppedQueueEmpty
CHECK_DEADLOCK FALSE
