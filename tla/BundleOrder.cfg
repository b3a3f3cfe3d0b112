SPECIFICATION Spec
CONSTANTS
    Packets <- MCPackets
    Era = 100
    MaxClock = 3
    MaxMsgs = 2
    MaxBack = 0
CHECK_DEADLOCK FALSE
INVARIANT BundleInOrder
