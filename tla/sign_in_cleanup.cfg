\* close() is cut short.
SPECIFICATION Spec
CONSTANTS
  First = First
  Reopen = {r1, r2}
  Headless = Headless
  NoWindow = NoWindow
PROPERTIES
  CleanedUp
CHECK_DEADLOCK FALSE
