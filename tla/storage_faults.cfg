SPECIFICATION Spec
CONSTANTS
    Agents = {a1}
    NoAgent = NoAgent
    Posters = {p1, p2}
    Readers = {r1}
    RequestKinds = {"check"}
    Intervals = {1}
    MaxTime = 4
    MaxVersion = 2
    Faults = TRUE
    Overlap = TRUE
SYMMETRY Symmetry
INVARIANTS TypeOK CacheAccepted UnlistedIsFresh AbsentMeansNever
PROPERTIES ImplementsConditionalStore
