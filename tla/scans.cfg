\* Two scans of an address, public and signed in, stopped, deleted and interrupted.
SPECIFICATION Spec
CONSTANTS
  MaxScans = 2
  Seed = s
  Page = {s, a}
  Worker = {w1, w2}
  NoPage = NoPage
SYMMETRY Sym
INVARIANTS
  ShownRow
  RunningIsLive
  SignedInApart
  StoppedStays
  DeletedForGood
CHECK_DEADLOCK FALSE
