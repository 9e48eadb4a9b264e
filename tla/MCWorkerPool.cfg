\* Two callers and two workers; a pool that is stopped and started again, so
\* that two cleaning goroutines overlap; channels with and without a buffer.
CONSTANTS
    s1 = s1
    s2 = s2
    c1 = c1
    c2 = c2
    NoChan = nil
    nil = nil
    Callers = {s1, s2}
    Chans = {c1, c2}
    MaxWorkerCount = 2
    MaxServes = 3
    MaxStarts = 2
SPECIFICATION FairSpec
INVARIANTS
    TypeOK
    OneSender
    NoLostWorker
    WorkersCounted
PROPERTIES
    CallsReturn
    WorkersEnd
\* A pool nobody calls may rest.
CHECK_DEADLOCK FALSE
