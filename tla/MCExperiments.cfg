\* Three commands, one of them run again after a failure or a crash.
SPECIFICATION Spec

CONSTANTS
    tree1 = tree1
    tree2 = tree2
    Tree <- MCTree
    Name = {"exp"}
    Branch = {"main", "topic"}
    MaxCommits = 3
    MaxQueue = 2
    MaxCommands = 3
    MaxEdits = 1
    MaxCrashes = 1
    MaxPushes = 1

INVARIANTS
    UserChangesKept
    WorkspaceRestored
    ResultKept

PROPERTIES
    QueueKept
    StoreSpec

SYMMETRY Symmetry

CHECK_DEADLOCK FALSE
