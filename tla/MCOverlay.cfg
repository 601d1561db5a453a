\* Three levels of directories. A walk ends each behaviour.
SPECIFICATION Spec
CONSTANTS
  Node <- MCNode
  MaxEdits = 5
INVARIANTS InStep WalkComplete WalkSound
CHECK_DEADLOCK FALSE
