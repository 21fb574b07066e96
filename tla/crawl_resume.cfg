\* A crawl that is interrupted and run again before its leases expire.
SPECIFICATION Spec
CONSTANTS
  s = s
  a = a
  b = b
  c = c
  x = x
  y = y
  NoUrl = NoUrl
  NoLimit = NoLimit
  Worker = {w1}
  Url = {s, a, b}
  Seed = s
  Links <- Triangle
  Html = {s, a, b}
  Flaky = {}
  Blocked = {}
  Disallowed = {}
  Scopes <- AllUrls
  MaxPages = NoLimit
  MaxDepth = 2
  MaxAttempts = 3
  DbErrors = FALSE
  MaxRuns = 2
INVARIANTS
  Drained
CHECK_DEADLOCK FALSE
