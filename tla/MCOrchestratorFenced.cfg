\* Two operations on Kubernetes or Fly, each an `up` or a `down`, with every fault.
SPECIFICATION Spec
CONSTANTS
    o1 = o1
    o2 = o2
    Op = {o1, o2}
    Past = Past
    Nobody = Nobody
    Used = {"Target", "Runtime"}
    Inspected = {"Runtime"}
    Fenced = {"Target", "Runtime"}
    Machine = FALSE
    Contract <- Reversible
    Kinds = {"up", "down"}
    Moments = {}
    SaveFaults = FALSE
    Faults = TRUE
SYMMETRY Either
CHECK_DEADLOCK FALSE
INVARIANTS
    Undisturbed
    PlanIsCurrent
    RollbackIsComplete
    SuccessIsWhole
PROPERTIES
    UpSparesOthers
