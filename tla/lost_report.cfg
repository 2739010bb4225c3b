SPECIFICATION Spec
CONSTANTS
    Agents = {a1}
    NoAgent = NoAgent
    Posters = {p1}
    Readers = {r1}
    RequestKinds = {"check"}
    Deletable = {}
    Leftover = {}
    Failing = {}
    Uptimes = {1, 2}
    TTL = 2
    MaxTime = 4
INVARIANT AnsweredIsSeen
