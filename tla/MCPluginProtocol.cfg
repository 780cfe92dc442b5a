\* Two calls and the shutdown of their session, with every fault.
SPECIFICATION FairSpec
CONSTANTS
    c1 = c1
    c2 = c2
    Calls = {c1, c2}
    Brief = {c2}
    Shutdown = Shutdown
    Reader = Reader
    None = None
    Room = 2
    Faults = {"crash", "junk", "oversize", "wedge"}
CHECK_DEADLOCK FALSE
INVARIANTS
    TypeOK
    OnlyRetiringIsUnknown
    ActiveIsServed
PROPERTIES
    ImplementsCall
    EveryCallEnds
    AbandonedStops
