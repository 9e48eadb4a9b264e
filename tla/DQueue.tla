------------------------------- MODULE DQueue -------------------------------
(***************************************************************************)
(* The second copy of the disk queue, dqueue/diskqueue.go, beside the      *)
(* first.  Its handlers are those of DiskQueue, function by function, with *)
(* two differences: writeOne starts a new file when the position reaches   *)
(* MaxBytesPerFile, while readOne goes on to the next file only when the   *)
(* position exceeds it; and ioLoop has a second ticker, whose case does    *)
(* nothing.  So the reader of a file that is exactly full runs into its    *)
(* end, and handleReadError puts the file aside as bad.                    *)
(*                                                                         *)
(* Q... names the handler of this copy; the next-state relation is that of *)
(* the copy that was chosen.                                               *)
(***************************************************************************)
EXTENDS DiskQueue

\* readOne, like DiskQueue, goes on to the next file behind the limit.
QReaderRolls(pos) == pos > MaxBytesPerFile

\* writeOne ends the file at the limit.
QWriterRolls(pos) == pos >= MaxBytesPerFile

-----------------------------------------------------------------------------
(* New and sync *)

QRetrieveMetaData == RetrieveMetaData

QNew == NewFrom(QRetrieveMetaData)

QPersistMetaData == PersistMetaData

QSync == FsyncWriteFile /\ QPersistMetaData /\ needSync' = FALSE

\* The head of ioLoop's body.
QLoopSync ==
    /\ pc = "loop"
    /\ pc' = "read"
    /\ IF SyncDue
          THEN QSync /\ count' = 0
          ELSE UNCHANGED <<disk, saved, needSync, count>>
    /\ UNCHANGED <<readVars, writeVars, depth, handles, dataRead, ret, bounds>>

-----------------------------------------------------------------------------
(* Reading *)

QReadSkip == ReadSkip

QReadOne == ReadOneTo(QReaderRolls)

\* handleReadError.
QReadError == ReadError

\* moveForward, checkTailCorruption.
QMoveForward == MoveForward

QDeliver ==
    /\ pc = "select"
    /\ CanRead
    /\ ret' = dataRead
    /\ saved' = saved \ {dataRead}
    /\ count' = count + 1
    /\ QMoveForward
    /\ pc' = "loop"
    /\ UNCHANGED <<dataRead, bad, meta, bounds>>

\* The case of readTicker: its body is commented out, the loop starts over.
QReadTick ==
    /\ pc = "select"
    /\ pc' = "loop"
    /\ UNCHANGED <<readVars, writeVars, depth, handles, needSync, count, dataRead, disk,
                   history, bounds>>

-----------------------------------------------------------------------------
(* Writing *)

QPutRefused(len) == PutRefused(len)

QPut(len) == WriteOne(len, QWriterRolls)

QRoll ==
    /\ pc = "roll"
    /\ QSync
    /\ writeFile' = Nil
    /\ pc' = "loop"
    /\ UNCHANGED <<readVars, writeVars, depth, readFile, reader, count, dataRead, ret,
                   bounds>>

-----------------------------------------------------------------------------
(* Empty, the sync ticker, Close, Delete *)

QSkipToNextRWFile(fs, rf) == SkipToNextRWFile(fs, rf)

QEmpty ==
    /\ pc = "select"
    /\ empties < MaxEmpties
    /\ empties' = empties + 1
    /\ QSkipToNextRWFile(files, readFileNum)
    /\ saved' = {}
    /\ pc' = "emptying"
    /\ UNCHANGED <<needSync, count, dataRead, bad, meta, ret, setup, puts, closes, crashes>>

QRemoveMeta == RemoveMeta

QSyncTick == SyncTick

QClose == Close

QCloseSync ==
    /\ pc = "exited"
    /\ QSync
    /\ pc' = "down"
    /\ UNCHANGED <<readVars, writeVars, depth, handles, count, dataRead, ret, bounds>>

QDelete == Delete

-----------------------------------------------------------------------------
QNext ==
    \/ QNew
    \/ QLoopSync
    \/ QReadSkip \/ QReadOne \/ QReadError
    \/ QDeliver
    \/ \E len \in Lens : QPutRefused(len) \/ QPut(len)
    \/ QRoll
    \/ QEmpty \/ QRemoveMeta
    \/ QSyncTick \/ QReadTick
    \/ QClose \/ QCloseSync \/ QDelete \/ Crash

EitherNext ==
    \/ setup.copy = "diskqueue" /\ Next
    \/ setup.copy = "dqueue" /\ QNext

EitherSpec == Init /\ [][EitherNext]_vars

\* The fairness of DiskQueue, for the same reasons: the actions it names are
\* those of both copies.
EitherFairSpec == EitherSpec /\ Fairness
=============================================================================
