\* A crawl that fails, is cancelled, dies and is resumed.
SPECIFICATION Spec
CONSTANTS
  s = s
  a = a
  b = b
  c = c
  x = x
  y = y
  NoUrl = NoUrl
  NoLimit = NoLimit
  Worker = {w1, w2}
  Url = {s, a, b}
  Seed = s
  Links <- Triangle
  Html = {s, a}
  Flaky = {a}
  Blocked = {}
  Disallowed = {}
  Scopes <- Narrowed
  MaxPages = 2
  MaxDepth = 2
  MaxAttempts = 2
  DbErrors = TRUE
  MaxRuns = 3
SYMMETRY Sym
INVARIANTS
  ExclusiveLease
  InFlightExact
  QuietExit
  Budgets
  NoSilentPage
PROPERTIES
  KeepsLedger
CHECK_DEADLOCK FALSE
