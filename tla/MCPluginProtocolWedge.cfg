\* A plugin that stops reading while its stdin is full.
SPECIFICATION FairSpec
CONSTANTS
    c1 = c1
    c2 = c2
    Calls = {c1}
    Brief = {}
    Shutdown = Shutdown
    Reader = Reader
    None = None
    Room = 1
    Faults = {"wedge"}
CHECK_DEADLOCK FALSE
PROPERTIES
    ShutdownEnds
