\* An up and the calls of another that lost the lock, on a machine.
SPECIFICATION Spec
CONSTANTS
    o1 = o1
    o2 = o2
    Op = {o1, o2}
    Past = Past
    Nobody = Nobody
    Used = {"Target", "Runtime"}
    Inspected = {"Runtime"}
    Fenced = {}
    Machine = TRUE
    Contract <- Reversible
    Kinds = {"up", "down"}
    Moments = {}
    SaveFaults = FALSE
    Faults = TRUE
SYMMETRY Either
CHECK_DEADLOCK FALSE
INVARIANTS
    LocksProtect
