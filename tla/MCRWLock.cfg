SPECIFICATION FairSpec
CONSTANTS
  p1 = p1
  p2 = p2
  src = src
  dir = dir
  dirfile = dirfile
  metrics = metrics
  plots = plots
  prepare = prepare
  train = train
  plot = plot
  Proc = {p1, p2}
  Path <- MCPath
  Overlap <- MCOverlap
  Stage = {prepare, train}
  Deps <- MCDeps
  Outs <- MCOuts
  Retries = 2
  MaxCalls = 3
  MaxCrashes = 1
  HardlinkLock = FALSE
  NoProc = NoProc
  Corrupt = Corrupt
INVARIANTS
  TypeOK
  GuardedExclusion
  ReleaseAssertionsHold
  NothingLeaks
PROPERTY CommandsEnd
