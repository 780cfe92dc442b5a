\* No fault but a Ctrl+C that reaches the Fly plugin.
SPECIFICATION Spec
CONSTANTS
  o1 = o1
  o2 = o2
  c1 = c1
  c2 = c2
  Op = {o1, o2}
  Parts = {"fly apps"}
  FlyTTL = 9
  FlyWork = {0, 2}
  FlyMargin = 1
  FlyAllowance = 1
  FlyCallTime = 1
  FlySkew <- MCSkew
  FlyMaxSkew = 1
  FlyLoss = {"sentinel", "acquire", "refresh", "read", "release", "die"}
  AppCount = 2
  AppVolumes = {1}
  AppPublic = {1}
  AppPriors = {"nothing", "environment", "bare"}
  AppFaults = {"cancel"}
  AppBudget = 2
  EnvControls = {c1, c2}
  EnvTasks = {"up", "down"}
  EnvPriors = {"nothing", "environment", "unexposed"}
  EnvFaults = {"call", "die", "cancel", "squat", "edit"}
  EnvBudget = 2
  CompTasks = {"up", "down"}
  CompPriors = {"nothing", "environment"}
  CompFaults = {"call", "cancel", "drop", "die"}
  CompBudget = 2
  SshAttempts = 2
  SshFaults = {"lost", "drop", "timeout", "die"}
  HzTasks = {"up", "all"}
  HzPriors = {"nothing", "machine"}
  HzOdd = {o2}
  HzFaults = {"call", "drop", "die", "cancel"}
  HzBudget = 1
INVARIANT AppCancelledUpIsUndone
CHECK_DEADLOCK FALSE
