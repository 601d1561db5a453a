\* A data source and two stages; a user who may write at any time, edit a
\* command, and kill one dvc command.
SPECIFICATION Spec

CONSTANTS
    raw = raw
    prep = prep
    eval = eval
    Stage <- MCStage
    Path <- MCPath
    Deps <- MCDeps
    Outs <- MCOuts
    HasCmd = {prep, eval}
    NoCache = {"metrics"}
    Cmd <- MCCmd
    FirstCmd = 1
    Content <- MCContent
    Written = {0, 1}
    Result <- MCResult
    Order <- MCOrder
    MaxEdits = 1
    MaxCrashes = 1
    MaxCommands = 3
    NoData = NoData
    NoCmd = NoCmd

INVARIANTS
    CacheIntact
    LockedInCache
    RunsSound

PROPERTIES
    UpToDate
    NothingLost
