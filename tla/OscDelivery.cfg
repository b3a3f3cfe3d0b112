SPECIFICATION FairSpec
CONSTANTS
    Packets <- MCPackets
    Era = 100
    MaxClock = 3
    MaxMsgs = 3
    MaxBack = 1
CHECK_DEADLOCK FALSE
INVARIANTS TypeOK ExactlyOnce NeverEarly HeldInOrder
PROPERTIES AllDelivered OneBox
