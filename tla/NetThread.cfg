SPECIFICATION FairSpec
CONSTANTS
    r1 = r1
    rOdd = rOdd
    Ports <- MCPorts
    Rest <- MCRest
    Default <- MCDefault
    Normal <- MCNormal
    Data <- MCData
    MaxOps = 3
    MaxTimeouts = 1
CHECK_DEADLOCK FALSE
INVARIANTS TypeOK NoLostWakeup CacheCoherent
PROPERTIES InOrder Performed CleanupEnds Converges
