\* Two workers, two requests, the delays of the code, everything may fail.
CONSTANTS
    Handlers = {h1, h2}
    Faults = {"redis", "postgres", "crash"}
    Workers = {w1, w2}
    MaxDelay = 10
SPECIFICATION FairSpec
INVARIANTS
    TypeOK
    ServesReady
    NoDroppedRowsCached
    NoStrayWorkers
PROPERTIES
    NothingWrittenIsDropped
    EndsInOrder
    MainRunsOut
    SignalEnds
    StartDecides
