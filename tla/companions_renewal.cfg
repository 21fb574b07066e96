\* One report, one certificate.
SPECIFICATION Spec
CONSTANTS
  Scan = {s1}
  Certificate = {c1}
  Runner = {r1}
  NoRunner = NoRunner
INVARIANT CodeCanBeRenewed
CHECK_DEADLOCK FALSE
