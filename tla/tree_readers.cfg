SPECIFICATION Spec
CONSTANTS
    Level = {"a", "b"}
    Client = {c1}
    QoS = {0}
    Mutators = {w1}
    Matchers = {w2}
    Filters <- RaceFilters
    Drops <- RaceFilters
    Publishes <- RaceTopics
    Slot = {1, 2, 3}
    MaxRequests = 3
    MaxErrors = 1
    MaxRestarts = 0
INVARIANTS LinksResolve MatchSound LinksWellFormed
PROPERTY RequestsEnd
