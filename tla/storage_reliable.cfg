SPECIFICATION Spec
CONSTANTS
    Agents = {a1, a2}
    NoAgent = NoAgent
    Posters = {p1, p2}
    Readers = {r1}
    RequestKinds = {"dump", "single"}
    Intervals = {1}
    MaxTime = 2
    MaxVersion = 2
    Faults = FALSE
    Overlap = TRUE
SYMMETRY Symmetry
INVARIANTS StoredUnlessOvertaken DumpIsComplete
