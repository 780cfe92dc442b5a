\* Two operations, clocks one tick apart, commands of one tick, every fault.
SPECIFICATION FairSpec
CONSTANTS
    o1 = o1
    o2 = o2
    Op <- MCOp
    Skew <- MCSkew
    Released = Released
    NoLease = NoLease
    LeaseTime = 10
    CommandTimeout = 1
    AcquireTimeout = 2
    ReassertTimeout = 0
    PollDelay = 1
    RoundTrip = 0
    MaxSkew = 1
    Faults = TRUE
INVARIANTS TypeOK OneMutator OwnerHasAuthority
PROPERTIES NeverRegained ImplementsLock AcquireSettles OrphanExpires
