\* A sign-in and two reopen requests, through to its end or the scan's.
SPECIFICATION Spec
CONSTANTS
  First = First
  Reopen = {r1, r2}
  Headless = Headless
  NoWindow = NoWindow
INVARIANTS
  KeptErased
PROPERTIES
  GoneStaysGone
  OpenNotForgotten
  ClosedForgotten
CHECK_DEADLOCK FALSE
