\* Two operations, each kind of fault, two of them.
SPECIFICATION CompSpec
CONSTANTS
  Op = {o1, o2}
  CompTasks = {"up", "down"}
  CompPriors = {"nothing", "environment"}
  CompFaults = {"call", "cancel", "drop", "die"}
  CompBudget = 2
SYMMETRY Symmetry
INVARIANTS CompTypeOK CompFoundIsKept
CHECK_DEADLOCK FALSE
