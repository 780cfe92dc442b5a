\* A commit that changes no Job: the namespace carries the Job of the last `up`.
SPECIFICATION Spec
CONSTANTS
  o1 = o1
  o2 = o2
  Op = {o1, o2}
  Parts = {"workloads"}
  PruneEnvs = {1, 2}
  PruneAliens = {2}
  PruneTasks = {"prune", "all", "up", "down"}
  PruneHours = 1
  PruneFaults = {"call", "lapse", "die", "cancel", "elsewhere"}
  PruneBudget = 1
  ClaimActions = {1, 2}
  ClaimCapabilities = {"Target", "Runtime", "Exposure"}
  ClaimEntries = 2
  PfProfiles = {"p", "q"}
  PfTasks = {"init", "force", "add", "default", "remove", "up", "down"}
  PfCommands = 4
  PfCounts = {"project", "profile"}
  PfFaults = {"call", "die"}
  PfBudget = 1
  PsIds = {"x"}
  PsBuilds = {1, 2, 3}
  PsVersion <- MCVersion
  PsTasks = {"init", "install", "update", "remove", "sync", "run"}
  PsCommands = 3
  PsFaults = {"call", "die", "publish"}
  PsBudget = 2
  KwJobs = {"job"}
  KwWorkloads = {"web"}
  KwSecretive = {}
  KwTexts = {"image", "built"}
  KwOps = 3
  KwEdits = 2
  KwFaults = {}
  KwBudget = 1
  ChRunners = {"git", "core", "kubernetes", "fly", "compose", "readiness"}
  ChTries = 1
  ChFaults = {"spawn", "heir"}
  StTargets = {"kubernetes", "fly", "ssh", "hetzner"}
  StOdd = 2
  SecNames = {"a", "b"}
  SecOverridden = {"b"}
  SecContexts = {1, 2}
  SecCommands = 3
  SecFaults = {"keyring", "file", "die"}
  SecBudget = 1
  CcRuntimes = {"compose", "kubernetes", "fly"}
  CcVisits <- MCVisits
  CcNormal <- MCNormal
  CcOdd = 2
INVARIANTS KwJobIsRepeatable
CHECK_DEADLOCK FALSE
