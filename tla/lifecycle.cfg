SPECIFICATION FairSpec
CONSTANTS
    Handler = {h1, h2}
    Capacity = 2
    MaxStarts = 2
    MaxSignals = 2
    MaxErrors = 2
INVARIANTS TypeOK NothingLost Released OneDocument
PROPERTY SignalEnds
