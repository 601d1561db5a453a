SPECIFICATION Spec
CONSTANTS
  p1 = p1
  p2 = p2
  src = src
  dir = dir
  dirfile = dirfile
  metrics = metrics
  plots = plots
  prepare = prepare
  train = train
  plot = plot
  Proc = {p1, p2}
  Path <- MCPath
  Overlap <- MCOverlap
  Stage <- MCStage
  Deps <- MCDeps
  Outs <- MCOuts
  Retries = 2
  MaxCalls = 2
  MaxCrashes = 1
  HardlinkLock = TRUE
  NoProc = NoProc
  Corrupt = Corrupt
INVARIANT Exclusion
