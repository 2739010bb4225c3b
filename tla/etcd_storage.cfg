SPECIFICATION Spec
CONSTANTS
    Agents = {a1}
    NoAgent = NoAgent
    Posters = {p1, p2}
    Readers = {r1}
    RequestKinds = {"check", "data"}
    Deletable = {a1}
    Leftover = {a1}
    Failing = {"get", "unlink", "create", "record", "pods"}
    Uptimes = {1, 2}
    TTL = 2
    MaxTime = 3
SYMMETRY Symmetry
INVARIANTS TypeOK AbsentMeansSilent UnlistedHasReported DumpNotBehind
PROPERTIES ImplementsForgetfulStore
