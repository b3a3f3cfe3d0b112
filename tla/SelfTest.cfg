SPECIFICATION FairSpec
CONSTANTS
    MaxTries = 3
    MaxTimeouts = 2
CHECK_DEADLOCK FALSE
INVARIANTS TypeOK CallerIsBack HeardItsOwn
PROPERTY Settles
