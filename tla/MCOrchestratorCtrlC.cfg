\* An up without any fault, and a Ctrl+C between two calls.
SPECIFICATION Spec
CONSTANTS
    o1 = o1
    o2 = o2
    Op = {o1}
    Past = Past
    Nobody = Nobody
    Used = {"Target", "Builder", "Runtime", "Exposure"}
    Inspected = {"Runtime", "Exposure"}
    Fenced = {}
    Machine = TRUE
    Contract <- Mixed
    Kinds = {"up"}
    Moments = {"between"}
    SaveFaults = FALSE
    Faults = FALSE
CHECK_DEADLOCK FALSE
INVARIANTS
    CtrlCNeverCommits
