\* Two workers on the same site: the crawl meets x by the longer way first.
SPECIFICATION Spec
CONSTANTS
  s = s
  a = a
  b = b
  c = c
  x = x
  y = y
  NoUrl = NoUrl
  NoLimit = NoLimit
  Worker = {w1, w2}
  Url = {s, a, b, c, x, y}
  Seed = s
  Links <- Detour
  Html = {s, a, b, c, x, y}
  Flaky = {}
  Blocked = {}
  Disallowed = {}
  Scopes <- AllSix
  MaxPages = NoLimit
  MaxDepth = 3
  MaxAttempts = 3
  DbErrors = FALSE
  MaxRuns = 1
INVARIANTS
  DepthCoverage
CHECK_DEADLOCK FALSE
