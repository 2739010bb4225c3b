SPECIFICATION Spec
CONSTANTS
    h1 = h1
    h2 = h2
    Agents = {a1, a2}
    NoAgent = NoAgent
    Payloads <- FewPayloads
    NoMap = NoMap
    Garbled = Garbled
    Uptimes = {0, 1, 2}
    MaxRecords = 3
SYMMETRY Symmetry
CHECK_DEADLOCK FALSE
INVARIANTS LatestIsShown DumpCoversRecord
