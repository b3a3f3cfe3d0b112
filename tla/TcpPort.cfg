SPECIFICATION FairSpec
CONSTANTS
    Peers = {"p", "q"}
    NoPeer = ""
    Dialable = {"p"}
    Fds = {1, 2, 3}
    MaxOut = 1
CHECK_DEADLOCK FALSE
INVARIANTS TypeOK HandlesOwned OneStream
PROPERTIES NoSpin Handled
