\* One run of two workers from start to finish, with pages that fail.
SPECIFICATION FairSpec
CONSTANTS
  s = s
  a = a
  b = b
  c = c
  x = x
  y = y
  NoUrl = NoUrl
  NoLimit = NoLimit
  Worker = {w1, w2}
  Url = {s, a, b, c}
  Seed = s
  Links <- Quad
  Html = {s, a, b}
  Flaky = {b}
  Blocked = {}
  Disallowed = {c}
  Scopes <- AllFour
  MaxPages = NoLimit
  MaxDepth = 2
  MaxAttempts = 2
  DbErrors = FALSE
  MaxRuns = 1
INVARIANTS
  Drained
PROPERTIES
  RunEnds
CHECK_DEADLOCK FALSE
