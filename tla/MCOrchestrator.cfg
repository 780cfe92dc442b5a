\* Two operations on one deployment of a plugin that does not watch the lock
\* (Compose), each an `up` or a `down`, with every fault.
SPECIFICATION Spec
CONSTANTS
    o1 = o1
    o2 = o2
    Op = {o1, o2}
    Past = Past
    Nobody = Nobody
    Used = {"Runtime"}
    Inspected = {"Runtime"}
    Fenced = {}
    Machine = FALSE
    Contract <- Reversible
    Kinds = {"up", "down"}
    Moments = {}
    SaveFaults = FALSE
    Faults = TRUE
SYMMETRY Either
CHECK_DEADLOCK FALSE
INVARIANTS
    TypeOK
    PlanIsCurrent
    RollbackIsComplete
    SuccessIsWhole
PROPERTIES
    UpSparesOthers
