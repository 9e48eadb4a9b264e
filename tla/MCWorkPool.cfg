\* Up to four tasks, three values, two workers, two users of a bare queue and three pops
\* with a timeout.
CONSTANTS
    Users = {u1, u2}
    Poppers = {g1, g2, g3}
    Nobody = Nobody
    MaxPuts = 4
    w1 = w1
    w2 = w2
    Workers = {w1, w2}
    Feeder = u1
    Setups <- AllSetups
SPECIFICATION Spec
INVARIANTS
    NothingLost
    NoLostWakeup
    WaitMeansDone
PROPERTIES
    CallsReturn
\* The caller stops after Wait, and users of a bare queue may all be asleep.
CHECK_DEADLOCK FALSE
