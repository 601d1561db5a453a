\* Two workers under a shell and a list of two commands; SIGTERM may be handled.
SPECIFICATION CheckpointSpec

CONSTANTS
    w1 = w1
    w2 = w2
    Worker <- MCWorker
    Wrapped = TRUE
    HandlesTerm = TRUE
    Commands = 2
    MaxEpochs = 2
    MaxDeaths = 1

INVARIANTS
    CheckpointTypeOK
    KilledTold

PROPERTIES
    FirstSignalAnswered
    StageEnds
