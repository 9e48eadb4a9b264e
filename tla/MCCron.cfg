\* Three jobs, four seconds, and three calls of Start, Stop and Entries.
CONSTANTS
    every = every
    other = other
    once = once
    Jobs = {every, other, once}
    Times <- MCTimes
    MaxTime = 4
    MaxCalls = 3
SPECIFICATION FairSpec
INVARIANTS
    TypeOK
    NoneMissed
    NothingSpurious
PROPERTIES
    CallsReturn
\* The clock stops at MaxTime and the caller after MaxCalls.
CHECK_DEADLOCK FALSE
