\* The process dies once, the machine does not, so that bytes behind the
\* recovered write position survive and may be read.
CONSTANTS
    MaxBytesPerFile = 4
    MinMsgSize = 1
    MaxMsgSize = 2
    SyncEvery = 2
    BufSize = 6
    Lens = {1, 2}
    PowerLoss = FALSE
    Setups <- CrashSetup
    Nil = Nil
    MaxPuts = 4
    MaxEmpties = 0
    MaxCloses = 0
    MaxCrashes = 1
    MaxFileNum = 6
SPECIFICATION Spec
\* The bounds on Put and the other operations may be used up.
CHECK_DEADLOCK FALSE
INVARIANTS
    ReadNeverPassesWrite
