\* Either copy of the queue.  Without a crash: messages of two lengths and one
\* that is refused, files of one to three messages, one of which may fill a file by
\* itself, Empty, Close and New.  With one power failure at any point of a queue
\* that may be emptied: what was not fsynced may be lost.  The reader's buffer
\* holds several messages.
CONSTANTS
    MaxBytesPerFile = 4
    MinMsgSize = 1
    MaxMsgSize = 4
    SyncEvery = 2
    BufSize = 6
    Lens = {1, 4, 5}
    PowerLoss = TRUE
    Setups <- AllSetups
    Nil = Nil
    MaxPuts = 4
    MaxEmpties = 1
    MaxCloses = 1
    MaxCrashes = 1
    MaxFileNum = 6
SPECIFICATION EitherFairSpec
\* The bounds on Put and the other operations may be used up.
CHECK_DEADLOCK FALSE
INVARIANTS
    TypeOK
    DepthExact
    FilesExact
    SyncedRecoverable
    CrashUndoesAtMostSyncEvery
PROPERTIES
    ImplementsFifo
    Drains
