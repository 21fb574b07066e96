\* Two reports that want the same companion, which is run twice.
SPECIFICATION Spec
CONSTANTS
  Scan = {s1, s2}
  Certificate = {c1}
  Runner = {r1, r2}
  NoRunner = NoRunner
INVARIANTS
  Alone
  RunningIsSignedIn
PROPERTIES
  KeepsTenures
  AbandonedIsInterrupted
\* Every run of the companion ends, and reports complete or expire.
CHECK_DEADLOCK FALSE
