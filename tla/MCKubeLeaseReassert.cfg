\* No fault at all: every call is answered, but no call is answered in less than the
\* round trip, which the one millisecond of a continuity check is shorter than.
SPECIFICATION Spec
CONSTANTS
    o1 = o1
    o2 = o2
    Op <- MCOp
    Skew <- MCSkew
    Released = Released
    NoLease = NoLease
    LeaseTime = 10
    CommandTimeout = 1
    AcquireTimeout = 3
    ReassertTimeout = 0
    PollDelay = 1
    RoundTrip = 1
    MaxSkew = 1
    Faults = FALSE
PROPERTIES
    IntactAuthorityConfirmed
