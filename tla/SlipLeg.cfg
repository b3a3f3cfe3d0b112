SPECIFICATION Spec
CONSTANTS
    MaxTries = 2
    MaxTimeouts = 0
CHECK_DEADLOCK FALSE
INVARIANT SlipHeardItself
