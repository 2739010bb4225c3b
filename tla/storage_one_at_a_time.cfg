SPECIFICATION Spec
CONSTANTS
    Agents = {a1}
    NoAgent = NoAgent
    Posters = {p1}
    Readers = {r1}
    RequestKinds = {"check"}
    Intervals = {0, 1, 2}
    MaxTime = 5
    MaxVersion = 2
    Faults = TRUE
    Overlap = FALSE
INVARIANTS CacheFollowsStore OutdatedMeansSilent
