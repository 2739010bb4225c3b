SPECIFICATION FairSpec
CONSTANTS
    s1 = s1
    s2 = s2
    Servers <- TwoServers
    MaxTrouble = 3
CHECK_DEADLOCK FALSE
INVARIANTS ServesOnResource
PROPERTIES GetsUpAgain
