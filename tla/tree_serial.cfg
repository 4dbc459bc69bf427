SPECIFICATION Spec
CONSTANTS
    Level = {"a", "b"}
    Client = {c1, c2}
    QoS = {0}
    Mutators = {w1}
    Matchers = {w1}
    Filters <- SerialFilters
    Drops <- SerialFilters
    Publishes <- SerialTopics
    Slot = {1, 2, 3}
    MaxRequests = 3
    MaxErrors = 0
    MaxRestarts = 1
SYMMETRY Symmetry
INVARIANTS TypeOK AcceptedInTree MatchExact
PROPERTY ImplementsBook
