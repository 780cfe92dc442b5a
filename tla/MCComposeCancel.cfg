\* No fault but a call that is given up at its deadline.
SPECIFICATION CompSpec
CONSTANTS
  Op = {o1, o2}
  CompTasks = {"up", "down"}
  CompPriors = {"nothing", "environment"}
  CompFaults = {"cancel"}
  CompBudget = 2
INVARIANT CompCancelledIsUndone
CHECK_DEADLOCK FALSE
