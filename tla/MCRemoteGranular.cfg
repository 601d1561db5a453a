SPECIFICATION Spec
CONSTANTS
  c1 = c1
  c2 = c2
  f1 = f1
  f2 = f2
  d1 = d1
  d2 = d2
  Clone = {c1, c2}
  File = {f1, f2}
  Dir = {d1, d2}
  Contents <- MCContents
  Requests <- MCRequests
  Granular = TRUE
  GcAlone = TRUE
  Forced = FALSE
  MaxCommands = 2
INVARIANT DirComplete
CHECK_DEADLOCK FALSE
