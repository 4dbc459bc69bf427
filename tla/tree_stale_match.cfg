SPECIFICATION Spec
CONSTANTS
    Level = {"a", "b"}
    Client = {c1, c2}
    QoS = {0}
    Mutators = {w1}
    Matchers = {w1}
    Filters <- JustAB
    Drops <- NoFilters
    Publishes <- RaceTopics
    Slot = {1, 2, 3}
    MaxRequests = 4
    MaxErrors = 0
    MaxRestarts = 0
INVARIANT MatchComplete
