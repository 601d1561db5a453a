\* Two commands: one that queues, and exp run --run-all.
SPECIFICATION Spec

CONSTANTS
    tree1 = tree1
    tree2 = tree2
    Tree <- MCTree
    Name = {"exp"}
    Branch = {"main", "topic"}
    MaxCommits = 3
    MaxQueue = 2
    MaxCommands = 2
    MaxEdits = 0
    MaxCrashes = 0
    MaxPushes = 0

INVARIANT SuccessDropped

SYMMETRY Symmetry

CHECK_DEADLOCK FALSE
