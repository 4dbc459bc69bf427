SPECIFICATION Spec
CONSTANTS
    Worker = {w1, w2, w3}
    MaxID = 3
    MaxFresh = 4
SYMMETRY Symmetry
INVARIANTS TypeOK NeverZero UniqueInFlight
PROPERTY ImplementsPool
