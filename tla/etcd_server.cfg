SPECIFICATION FairServerSpec
CONSTANTS
    a1 = a1
    l1 = l1
    none = none
    Agents <- OneAgent
    Labels <- OneNode
    NoLabel <- none
    LabelOf <- NodeOfOne
    NoAgent = NoAgent
    Posters = {p1}
    Readers = {}
    RequestKinds = {"check"}
    Deletable = {a1}
    Leftover = {a1}
    Failing = {"get", "unlink", "create", "record"}
    Uptimes = {1}
    TTL = 1
    MaxTime = 3
    MaxReports = 2
    Collector = Collector
INVARIANTS ServerTypeOK ErrorMeansExpired ReportsCounted
PROPERTIES SilenceIsNoticed RecordsArePurged
