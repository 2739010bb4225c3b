SPECIFICATION FairServerSpec
CONSTANTS
    a1 = a1
    l1 = l1
    none = none
    Agents <- OneAgent
    Labels <- OneNode
    NoLabel <- none
    LabelOf <- NodeOfOne
    NoAgent = NoAgent
    Posters = {p1}
    Readers = {}
    Collector = Collector
    RequestKinds = {"dump"}
    Intervals = {1}
    MaxTime = 5
    MaxVersion = 2
    MaxReports = 2
    MaxMalformed = 0
    Faults = TRUE
    Overlap = FALSE
PROPERTIES CatchesUp
