\* One task with three Run goroutines and two competing stop signals.
CONSTANTS
    threadNum = 3
    RunIds = {r1, r2, r3}
    SignIds = {s1, s2}
SPECIFICATION FairSpec
INVARIANTS
    TypeOK
    OverlapNeedsRace
    StatusIsTrue
    OneSignalsWorth
PROPERTIES
    SignalEndsRun
