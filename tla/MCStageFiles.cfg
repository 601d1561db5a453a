SPECIFICATION Spec
CONSTANTS
  Proc = {p1, p2}
  RunDefs <- MCRunDefs
  AddGroups <- MCAddGroups
  Imports <- MCImports
  MoveTo <- MCMoveTo
  Projects <- MCProjects
  Orders <- MCOrders
INVARIANTS RecordedIgnored
PROPERTIES GraphKept LockFollows OthersKept ReproPlan
SYMMETRY MCSymmetry
CHECK_DEADLOCK FALSE
