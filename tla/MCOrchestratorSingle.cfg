\* One operation of every kind over four capabilities, alone with every fault.
SPECIFICATION FairSpec
CONSTANTS
    o1 = o1
    o2 = o2
    Op = {o1}
    Past = Past
    Nobody = Nobody
    Used = {"Target", "Builder", "Runtime", "Exposure"}
    Inspected = {"Runtime", "Exposure"}
    Fenced = {}
    Machine = TRUE
    Contract <- Mixed
    Kinds = {"up", "upKeep", "down", "downForce"}
    Moments = {"call", "between"}
    SaveFaults = TRUE
    Faults = TRUE
CHECK_DEADLOCK FALSE
INVARIANTS LeavesATrace TakenNeverCommits ExitIsTrue
PROPERTIES Settles
