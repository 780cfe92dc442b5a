\* The defaults of the code in ticks of ten seconds: 60 s Lease, 30 s lock timeout.
SPECIFICATION Spec
CONSTANTS
    o1 = o1
    o2 = o2
    Op <- MCOp
    Skew <- MCSkew
    Released = Released
    NoLease = NoLease
    LeaseTime = 6
    CommandTimeout = 30
    AcquireTimeout = 3
    ReassertTimeout = 0
    PollDelay = 1
    RoundTrip = 0
    MaxSkew = 0
    Faults = TRUE
INVARIANTS
    OneMutator
