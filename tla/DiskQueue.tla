----------------------------- MODULE DiskQueue -----------------------------
(***************************************************************************)
(* The disk-backed queue of diskqueue/diskqueue.go: data files written at  *)
(* one end and read, then deleted, at the other; a metadata file that is   *)
(* rewritten now and then; and one goroutine, ioLoop, that does all the    *)
(* file work and serves Put, ReadChan, Empty and Close.                    *)
(*                                                                         *)
(* A file is a sequence of cells.  A message of length len takes one       *)
(* header cell (the four length bytes) and len body cells; positions and   *)
(* sizes count cells.  The reader goes through a bufio.Reader, which may   *)
(* have read ahead of the message it returns, so its buffer is part of the *)
(* state.                                                                  *)
(*                                                                         *)
(* The process may die at any point.  What the metadata file and the files *)
(* hold then is what New finds; with PowerLoss the cells of a file that    *)
(* were not fsynced may be gone too.  A handler that changes the disk more *)
(* than once is split so that the process can die in between, except that  *)
(* the files one call removes go together; what an fsync made durable      *)
(* before the metadata was renamed is one of the outcomes of Crash.        *)
(*                                                                         *)
(* The repository holds a second copy of this queue, dqueue/diskqueue.go,  *)
(* which differs in when the writer starts a new file; it is the subject   *)
(* of DQueue, which extends this module.  Which copy runs, and whether it  *)
(* may crash, is chosen once.                                              *)
(*                                                                         *)
(* File operations do not fail here, except that a file may be missing.    *)
(* Callers are served one request at a time: Put and Empty wait for the    *)
(* answer of ioLoop under a read lock, Close under the write lock.         *)
(***************************************************************************)
EXTENDS Integers, Sequences, FiniteSets, SequencesExt

CONSTANTS
    MaxBytesPerFile,  \* a file is rolled once its size exceeds this
    MinMsgSize,       \* shortest and longest message accepted
    MaxMsgSize,
    SyncEvery,        \* operations between two syncs
    BufSize,          \* size of the bufio.Reader's buffer
    Lens,             \* lengths of the messages that are put
    PowerLoss,        \* TRUE: a crash may lose cells that were not fsynced
    Setups,           \* the settings considered: see Setup
    Nil,              \* no file, no message, no metadata
    MaxPuts,          \* bounds: number of messages put,
    MaxEmpties,       \*   of Empty calls,
    MaxCloses,        \*   of Close calls,
    MaxCrashes,       \*   of crashes,
    MaxFileNum        \*   and the file number at which reading gives up

\* Which copy of the queue runs, and whether its process may die.  A queue that
\* may die is not closed.
Setup == [copy : {"diskqueue", "dqueue"}, mayCrash : BOOLEAN]

\* What the metadata file holds: the depth, and the two positions.
MetaData == [depth : Int, rf : Nat, rp : Nat, wf : Nat, wp : Nat]

ASSUME DiskAssumption ==
    /\ Setups \subseteq Setup
    /\ {MaxBytesPerFile, MinMsgSize, MaxMsgSize, SyncEvery, BufSize} \subseteq Nat \ {0}
    /\ Lens \subseteq Nat \ {0}
    /\ PowerLoss \in BOOLEAN
    /\ {MaxPuts, MaxEmpties, MaxCloses, MaxCrashes, MaxFileNum} \subseteq Nat
    /\ Nil \notin Nat /\ Nil \notin MetaData

VARIABLES
    setup,            \* one of Setups, chosen once
    pc,               \* where ioLoop is
    readFileNum, readPos, writeFileNum, writePos, depth,
    nextReadFileNum, nextReadPos,
    readFile,         \* number of the file open for reading, or Nil
    reader,           \* the bufio.Reader: offset in the file, buffered cells
    writeFile,        \* number of the file open for writing, or Nil
    needSync, count, dataRead,
    files,            \* disk: number |-> cells and how many of them are fsynced
    bad,              \* disk: the files renamed to .bad, number |-> cells
    meta,             \* disk: the metadata file, or Nil
    ret,              \* history: the message last handed to a consumer
    saved,            \* history: messages in the queue at the last sync and
                      \*   neither delivered nor emptied since
    puts, empties, closes, crashes

readVars   == <<readFileNum, readPos, nextReadFileNum, nextReadPos>>
writeVars  == <<writeFileNum, writePos>>
handles    == <<readFile, reader, writeFile>>
disk       == <<files, bad, meta>>
history    == <<ret, saved>>
bounds     == <<setup, puts, empties, closes, crashes>>
vars == <<pc, readVars, writeVars, depth, handles, needSync, count, dataRead, disk,
          history, bounds>>

-----------------------------------------------------------------------------
(* Messages, cells and files *)

\* Messages are told apart by the number of the Put that brought them.
Message == [id : 1..MaxPuts, len : Lens]
Garbage == [id |-> 0, len |-> 0]

Zero     == [msg |-> Garbage, at |-> 0]      \* a hole in the file
Cells(m) == [i \in 1..(m.len + 1) |-> [msg |-> m, at |-> i - 1]]
Size(m)  == m.len + 1

NoReader == [off |-> 0, buf |-> <<>>]
NoFile   == [cells |-> <<>>, synced |-> 0]

\* A file as open with O_CREATE finds it.
FileAt(fs, f) == IF f \in DOMAIN fs THEN fs[f] ELSE NoFile
SetFile(fs, f, file) ==
    [g \in DOMAIN fs \cup {f} |-> IF g = f THEN file ELSE fs[g]]
Removed(fs, gone) == [f \in DOMAIN fs \ gone |-> fs[f]]

\* cells written at pos over what the file holds: nothing is truncated, and a
\* position beyond the end leaves a hole.
WriteAt(old, pos, new) ==
    LET pad == [i \in 1..(pos - Len(old)) |-> Zero]
        end == pos + Len(new)
    IN  SubSeq(old \o pad, 1, pos) \o new \o SubSeq(old, end + 1, Len(old))

\* Reading n cells through bufio.Reader r over a file's cells: what is buffered
\* first, then one more read of the file, of at least a buffer's worth.
Fetch(r, cells, n) ==
    LET rest  == SubSeq(cells, r.off + 1, Len(cells))
        need  == n - Len(r.buf)
        fill  == Min({Len(rest), IF need >= BufSize THEN need ELSE BufSize})
        chunk == SubSeq(rest, 1, fill)
    IN  IF need <= 0
        THEN [got |-> SubSeq(r.buf, 1, n),
              rd  |-> [off |-> r.off, buf |-> SubSeq(r.buf, n + 1, Len(r.buf))]]
        ELSE [got |-> r.buf \o SubSeq(chunk, 1, Min({need, fill})),
              rd  |-> [off |-> r.off + fill, buf |-> SubSeq(chunk, need + 1, fill)]]

\* The lengths a header may read as: body bytes taken for a header are
\* arbitrary, 0 standing for every length that is refused.
LensOf(cell) ==
    IF cell = Zero THEN {0}
    ELSE IF cell.at = 0 THEN {cell.msg.len}
    ELSE {0} \cup MinMsgSize..MaxMsgSize

\* The message that cells read as.
MessageOf(cells) ==
    IF cells[1].at = 0 /\ cells = Cells(cells[1].msg) THEN cells[1].msg ELSE Garbage

-----------------------------------------------------------------------------
(* State *)

TypeOK ==
    /\ setup \in Setups
    /\ pc \in {"loop", "read", "select", "roll", "emptying", "exited", "down"}
    /\ {readFileNum, writeFileNum, nextReadFileNum} \subseteq Nat
    /\ {readPos, writePos, nextReadPos} \subseteq 0..MaxBytesPerFile
    /\ depth \in Int
    /\ readFile \in {Nil} \cup Nat
    /\ reader.off \in Nat /\ Len(reader.buf) <= BufSize
    /\ writeFile \in {Nil} \cup Nat
    /\ needSync \in BOOLEAN
    /\ count \in 0..SyncEvery
    /\ dataRead \in Message \cup {Nil, Garbage}
    /\ DOMAIN files \subseteq Nat
    /\ \A f \in DOMAIN files : files[f].synced \in 0..Len(files[f].cells)
    /\ DOMAIN bad \subseteq Nat
    /\ meta \in MetaData \cup {Nil}
    /\ ret \in Message \cup {Nil, Garbage}
    /\ saved \subseteq Message

Init ==
    /\ setup \in Setups
    /\ pc = "down"
    /\ readFileNum = 0 /\ readPos = 0 /\ nextReadFileNum = 0 /\ nextReadPos = 0
    /\ writeFileNum = 0 /\ writePos = 0
    /\ depth = 0
    /\ readFile = Nil /\ reader = NoReader /\ writeFile = Nil
    /\ needSync = FALSE /\ count = 0 /\ dataRead = Nil
    /\ files = [f \in {} |-> NoFile] /\ bad = [f \in {} |-> <<>>] /\ meta = Nil
    /\ ret = Nil /\ saved = {}
    /\ puts = 0 /\ empties = 0 /\ closes = 0 /\ crashes = 0

\* Fault: only the positions are compared.
CanReadSameFile == readPos < writePos

\* The test of ioLoop: there is something to read.
CanRead == readFileNum < writeFileNum \/ readPos < writePos

\* The places, file and cell, of the headers between a read and a write position,
Headers(fs, rf, rp, wf, wp) ==
    UNION {LET cells == fs[f].cells
               ahead == {i \in DOMAIN cells : (f = rf => i > rp) /\ (f = wf => i <= wp)}
           IN  {<<f, i>> : i \in {i \in ahead : cells[i] # Zero /\ cells[i].at = 0}}
           : f \in DOMAIN fs \cap rf..wf}

\* and their messages.
Between(fs, rf, rp, wf, wp) ==
    {fs[h[1]].cells[h[2]].msg : h \in Headers(fs, rf, rp, wf, wp)}

\* The messages in the queue,
Queued == Between(files, readFileNum, readPos, writeFileNum, writePos)

\* and the same in the order they lie in the files: the n-th is the one whose
\* header is the n-th.
Waiting  == Headers(files, readFileNum, readPos, writeFileNum, writePos)
UpTo(h)  == {g \in Waiting : g[1] < h[1] \/ (g[1] = h[1] /\ g[2] <= h[2])}
AtTurn(n) == {files[h[1]].cells[h[2]].msg : h \in {h \in Waiting : Cardinality(UpTo(h)) = n}}
The(S)   == CHOOSE m \in S : TRUE
Contents == [n \in 1..Cardinality(Waiting) |-> The(AtTurn(n))]

-----------------------------------------------------------------------------
(* New: retrieveMetaData, then ioLoop starts *)

\* What retrieveMetaData reads: zeros when there is no metadata file.
RetrieveMetaData ==
    IF meta = Nil THEN [depth |-> 0, rf |-> 0, rp |-> 0, wf |-> 0, wp |-> 0] ELSE meta

NewFrom(m) ==
    /\ pc = "down"
    /\ pc' = "loop"
    /\ depth' = m.depth
    /\ readFileNum' = m.rf /\ readPos' = m.rp
    /\ nextReadFileNum' = m.rf /\ nextReadPos' = m.rp
    /\ writeFileNum' = m.wf /\ writePos' = m.wp
    /\ saved' = Between(files, m.rf, m.rp, m.wf, m.wp)
    /\ readFile' = Nil /\ reader' = NoReader /\ writeFile' = Nil
    /\ needSync' = FALSE /\ count' = 0 /\ dataRead' = Nil
    /\ UNCHANGED <<disk, ret, bounds>>

New == NewFrom(RetrieveMetaData)

-----------------------------------------------------------------------------
(* sync *)

\* persistMetaData: written to a temporary file and renamed, so atomic.
PersistMetaData ==
    /\ meta' = [depth |-> depth, rf |-> readFileNum, rp |-> readPos,
                wf |-> writeFileNum, wp |-> writePos]
    /\ saved' = Queued

\* Fault: the metadata is persisted without an fsync of the data.
SyncMetaOnly ==
    /\ UNCHANGED <<files, bad>>
    /\ PersistMetaData
    /\ needSync' = FALSE

\* fsync of the open write file.  (A write file that has been unlinked under its
\* handle has nothing left to make durable.)
FsyncWriteFile ==
    /\ files' = IF writeFile \notin DOMAIN files THEN files
                ELSE SetFile(files, writeFile,
                        [files[writeFile] EXCEPT !.synced = Len(files[writeFile].cells)])
    /\ UNCHANGED bad

Sync == FsyncWriteFile /\ PersistMetaData /\ needSync' = FALSE

\* Fault: one operation too late.
SyncDueLate == needSync \/ count = SyncEvery + 1

SyncDue == needSync \/ count = SyncEvery

\* Fault: the operations are counted on after a sync.
LoopSyncNoReset ==
    /\ pc = "loop"
    /\ pc' = "read"
    /\ IF SyncDue THEN Sync ELSE UNCHANGED <<disk, saved, needSync>>
    /\ UNCHANGED <<readVars, writeVars, depth, handles, count, dataRead, ret, bounds>>

\* The head of ioLoop's body.
LoopSync ==
    /\ pc = "loop"
    /\ pc' = "read"
    /\ IF SyncDue
          THEN Sync /\ count' = 0
          ELSE UNCHANGED <<disk, saved, needSync, count>>
    /\ UNCHANGED <<readVars, writeVars, depth, handles, dataRead, ret, bounds>>

-----------------------------------------------------------------------------
(* readOne and handleReadError *)

\* What readOne may come back with: the message, its size and the reader, or a
\* failure (missing file, end of file, length out of range).
ReadOutcomes ==
    LET cells == FileAt(files, readFileNum).cells
        start == IF readFile = Nil THEN [off |-> readPos, buf |-> <<>>] ELSE reader
        head  == Fetch(start, cells, 1)
        body(len) == Fetch(head.rd, cells, len)
        outcome(len) ==
            IF len \in MinMsgSize..MaxMsgSize /\ Len(body(len).got) = len
            THEN [ok |-> TRUE, msg |-> MessageOf(head.got \o body(len).got),
                  size |-> len + 1, rd |-> body(len).rd]
            ELSE [ok |-> FALSE]
    IN  IF (readFile = Nil /\ readFileNum \notin DOMAIN files) \/ head.got = <<>>
        THEN {[ok |-> FALSE]}
        ELSE {outcome(len) : len \in LensOf(head.got[1])}

\* A file ends with the message that takes it past MaxBytesPerFile: the same
\* test in readOne and in writeOne.
RollsAfter(pos) == pos > MaxBytesPerFile

ReadSkip ==
    /\ pc = "read"
    /\ ~CanRead \/ nextReadPos # readPos
    /\ pc' = "select"
    /\ UNCHANGED <<readVars, writeVars, depth, handles, needSync, count, dataRead,
                   disk, history, bounds>>

\* The message read is kept in dataRead; only the next* positions move.  Rolls
\* is the test for the end of the file.
ReadOneTo(Rolls(_)) ==
    /\ pc = "read"
    /\ CanRead /\ nextReadPos = readPos
    /\ \E o \in ReadOutcomes :
          /\ o.ok
          /\ dataRead' = o.msg
          /\ IF Rolls(readPos + o.size)
                THEN /\ readFile' = Nil /\ reader' = NoReader
                     /\ nextReadFileNum' = readFileNum + 1 /\ nextReadPos' = 0
                ELSE /\ readFile' = readFileNum /\ reader' = o.rd
                     /\ nextReadFileNum' = readFileNum
                     /\ nextReadPos' = readPos + o.size
    /\ pc' = "select"
    /\ UNCHANGED <<readFileNum, readPos, writeVars, depth, writeFile, needSync, count,
                   disk, history, bounds>>

ReadOne == ReadOneTo(RollsAfter)

\* handleReadError: the file is put aside as .bad and both ends leave it.
ReadError ==
    /\ pc = "read"
    /\ CanRead /\ nextReadPos = readPos
    /\ \E o \in ReadOutcomes : ~o.ok
    /\ readFileNum < MaxFileNum
    /\ readFile' = Nil /\ reader' = NoReader
    /\ IF readFileNum = writeFileNum
          THEN writeFile' = Nil /\ writeFileNum' = writeFileNum + 1 /\ writePos' = 0
          ELSE UNCHANGED <<writeFile, writeVars>>
    /\ files' = Removed(files, {readFileNum})
    /\ bad' = [f \in DOMAIN bad \cup ({readFileNum} \cap DOMAIN files) |->
                  IF f \in DOMAIN bad THEN bad[f] ELSE files[f].cells]
    /\ readFileNum' = readFileNum + 1 /\ readPos' = 0
    /\ nextReadFileNum' = readFileNum + 1 /\ nextReadPos' = 0
    /\ needSync' = TRUE
    /\ pc' = "loop"
    /\ UNCHANGED <<depth, count, dataRead, meta, history, bounds>>

-----------------------------------------------------------------------------
(* A consumer receives from ReadChan: moveForward and checkTailCorruption *)

\* Fault: the depth is not reset.
SkipKeepsDepth(fs, rf) ==
    /\ files' = Removed(fs, rf..writeFileNum)
    /\ readFile' = Nil /\ reader' = NoReader /\ writeFile' = Nil
    /\ writeFileNum' = writeFileNum + 1 /\ writePos' = 0
    /\ readFileNum' = writeFileNum + 1 /\ readPos' = 0
    /\ nextReadFileNum' = writeFileNum + 1 /\ nextReadPos' = 0
    /\ UNCHANGED depth

\* skipToNextRWFile, the read position being in file rf: remove what is there
\* and start again in a new file.
SkipToNextRWFile(fs, rf) ==
    /\ files' = Removed(fs, rf..writeFileNum)
    /\ readFile' = Nil /\ reader' = NoReader /\ writeFile' = Nil
    /\ writeFileNum' = writeFileNum + 1 /\ writePos' = 0
    /\ readFileNum' = writeFileNum + 1 /\ readPos' = 0
    /\ nextReadFileNum' = writeFileNum + 1 /\ nextReadPos' = 0
    /\ depth' = 0

Advance(newDepth) ==
    /\ readFileNum' = nextReadFileNum /\ readPos' = nextReadPos
    /\ depth' = newDepth
    /\ UNCHANGED <<nextReadFileNum, nextReadPos, writeVars, handles>>

\* Fault: a file that has been read is not removed.
AfterReadKept == files

\* A file that has been read to its end is removed.
AfterRead ==
    IF nextReadFileNum # readFileNum THEN Removed(files, {readFileNum}) ELSE files

MoveForward ==
    LET rolled == nextReadFileNum # readFileNum
        atTail == ~(nextReadFileNum < writeFileNum \/ nextReadPos < writePos)
        agree  == nextReadFileNum = writeFileNum /\ nextReadPos = writePos
    IN  \/ /\ ~atTail
           /\ Advance(depth - 1)
           /\ needSync' = (needSync \/ rolled)
           /\ files' = AfterRead
        \/ /\ atTail /\ agree
           /\ Advance(0)
           /\ needSync' = (needSync \/ rolled \/ depth # 1)
           /\ files' = AfterRead
        \/ /\ atTail /\ ~agree
           /\ SkipToNextRWFile(AfterRead, nextReadFileNum)
           /\ needSync' = TRUE

Deliver ==
    /\ pc = "select"
    /\ CanRead
    /\ ret' = dataRead
    /\ saved' = saved \ {dataRead}
    /\ count' = count + 1
    /\ MoveForward
    /\ pc' = "loop"
    /\ UNCHANGED <<dataRead, bad, meta, bounds>>

-----------------------------------------------------------------------------
(* Put: writeOne *)

\* A length out of range is refused, after the file has been opened.
PutRefused(len) ==
    /\ pc = "select"
    /\ puts < MaxPuts
    /\ len \notin MinMsgSize..MaxMsgSize
    /\ count' = count + 1
    /\ writeFile' = writeFileNum
    /\ files' = SetFile(files, writeFileNum, FileAt(files, writeFileNum))
    /\ pc' = "loop"
    /\ UNCHANGED <<readVars, writeVars, depth, readFile, reader, needSync, dataRead, bad,
                   meta, history, bounds>>

\* Fault: the write position is not advanced past the header.
WrittenNoHeader(m) == writePos + m.len

\* The write position after message m.
Written(m) == writePos + Size(m)

\* writeOne, up to the end of the file; Rolls is its test for that.
WriteOne(len, Rolls(_)) ==
    /\ pc = "select"
    /\ puts < MaxPuts
    /\ len \in MinMsgSize..MaxMsgSize
    /\ puts' = puts + 1
    /\ count' = count + 1
    /\ LET m   == [id |-> puts + 1, len |-> len]
           old == FileAt(files, writeFileNum)
           new == WriteAt(old.cells, writePos, Cells(m))
       IN  /\ files' = SetFile(files, writeFileNum,
                          [cells |-> new, synced |-> Min({old.synced, writePos})])
           /\ writeFile' = writeFileNum
           /\ depth' = depth + 1
           /\ IF Rolls(Written(m))
                 THEN writeFileNum' = writeFileNum + 1 /\ writePos' = 0 /\ pc' = "roll"
                 ELSE writePos' = Written(m) /\ pc' = "loop" /\ UNCHANGED writeFileNum
    /\ UNCHANGED <<readVars, readFile, reader, needSync, dataRead, bad, meta, history,
                   setup, empties, closes, crashes>>

Put(len) == WriteOne(len, RollsAfter)

\* The sync of writeOne at the end of a file, which is then closed.
Roll ==
    /\ pc = "roll"
    /\ Sync
    /\ writeFile' = Nil
    /\ pc' = "loop"
    /\ UNCHANGED <<readVars, writeVars, depth, readFile, reader, count, dataRead, ret,
                   bounds>>

-----------------------------------------------------------------------------
(* Empty, the sync ticker, Close, Delete, crashes *)

\* deleteAllFiles: the data files first,
Empty ==
    /\ pc = "select"
    /\ empties < MaxEmpties
    /\ empties' = empties + 1
    /\ SkipToNextRWFile(files, readFileNum)
    /\ saved' = {}
    /\ pc' = "emptying"
    /\ UNCHANGED <<needSync, count, dataRead, bad, meta, ret, setup, puts, closes, crashes>>

\* then the metadata file.
RemoveMeta ==
    /\ pc = "emptying"
    /\ meta' = Nil
    /\ count' = 0
    /\ pc' = "loop"
    /\ UNCHANGED <<readVars, writeVars, depth, handles, needSync, dataRead, files, bad,
                   history, bounds>>

\* syncTicker; a tick without activity does nothing.
SyncTick ==
    /\ pc = "select"
    /\ count # 0
    /\ needSync' = TRUE
    /\ pc' = "loop"
    /\ UNCHANGED <<readVars, writeVars, depth, handles, count, dataRead, disk, history,
                   bounds>>

\* Close: ioLoop leaves on exitChan and exit closes the files,
Close ==
    /\ pc = "select"
    /\ closes < MaxCloses /\ ~setup.mayCrash
    /\ closes' = closes + 1
    /\ readFile' = Nil /\ reader' = NoReader /\ writeFile' = Nil
    /\ pc' = "exited"
    /\ UNCHANGED <<readVars, writeVars, depth, needSync, count, dataRead, disk, history,
                   setup, puts, empties, crashes>>

\* then Close syncs.
CloseSync ==
    /\ pc = "exited"
    /\ Sync
    /\ pc' = "down"
    /\ UNCHANGED <<readVars, writeVars, depth, handles, count, dataRead, ret, bounds>>

\* Delete: the same without the sync.  No data file is removed.
Delete ==
    /\ pc = "select"
    /\ setup.mayCrash /\ crashes < MaxCrashes
    /\ crashes' = crashes + 1
    /\ readFile' = Nil /\ reader' = NoReader /\ writeFile' = Nil
    /\ pc' = "down"
    /\ UNCHANGED <<readVars, writeVars, depth, needSync, count, dataRead, disk, history,
                   setup, puts, empties, closes>>

\* The process dies.  Of the cells that were not fsynced the first ones
\* survive; all of them do unless the machine goes down too.
Crash ==
    /\ setup.mayCrash /\ crashes < MaxCrashes
    /\ crashes' = crashes + 1
    /\ \E most \in 0..(MaxBytesPerFile + MaxMsgSize + 1) :
          /\ ~PowerLoss => most = MaxBytesPerFile + MaxMsgSize + 1
          /\ files' = [f \in DOMAIN files |->
                LET kept == Max({files[f].synced, Min({most, Len(files[f].cells)})})
                IN  [cells |-> SubSeq(files[f].cells, 1, kept), synced |-> kept]]
    /\ pc' = "down"
    /\ readFile' = Nil /\ reader' = NoReader /\ writeFile' = Nil
    /\ UNCHANGED <<readVars, writeVars, depth, needSync, count, dataRead, bad, meta,
                   history, setup, puts, empties, closes>>

-----------------------------------------------------------------------------
Next ==
    \/ New
    \/ LoopSync
    \/ ReadSkip \/ ReadOne \/ ReadError
    \/ Deliver
    \/ \E len \in Lens : PutRefused(len) \/ Put(len)
    \/ Roll
    \/ Empty \/ RemoveMeta
    \/ SyncTick
    \/ Close \/ CloseSync \/ Delete \/ Crash

Spec == Init /\ [][Next]_vars

(***************************************************************************)
(* ioLoop runs, and a consumer keeps receiving: Go's select picks among    *)
(* the ready cases at random, so a consumer that is always there is served *)
(* although Put and the ticker compete with it.  New is fair too: a closed *)
(* queue is opened again.                                                  *)
(***************************************************************************)
Fairness ==
    /\ WF_vars(New)
    /\ WF_vars(LoopSync)
    /\ WF_vars(ReadSkip \/ ReadOne \/ ReadError)
    /\ WF_vars(Roll \/ RemoveMeta \/ CloseSync)
    /\ SF_vars(Deliver)

FairSpec == Spec /\ Fairness

-----------------------------------------------------------------------------
(* Properties *)

\* The queue is first in, first out, across file rolls, Empty, Close and New
\* (diskqueue.go:58), as long as the process does not crash.
Fifo == INSTANCE FifoQueue WITH
            items <- IF setup.mayCrash THEN <<>> ELSE Contents,
            ret   <- IF setup.mayCrash THEN Nil ELSE ret,
            Elem  <- Message
ImplementsFifo == Fifo!Spec

\* Depth() is the number of messages in the files, as long as the process does
\* not crash.
DepthExact == ~setup.mayCrash /\ pc # "down" => depth = Cardinality(Queued)

\* Without a crash every data file is still needed: files are deleted as soon as
\* they have been read, and the end of a file is never taken for a corruption;
\* except that the second copy, whose writer ends a file one byte earlier than
\* its reader, puts aside the files that are exactly full (dqueue:336, 402).
FilesExact ==
    ~setup.mayCrash =>
        /\ pc # "down" => DOMAIN files \subseteq readFileNum..writeFileNum
        /\ \A f \in DOMAIN bad : /\ setup.copy = "dqueue"
                                 /\ Len(bad[f]) = MaxBytesPerFile

\* Every message that is put is eventually delivered or emptied.
Drains == []<>(setup.mayCrash \/ (pc # "down" /\ Contents = <<>>))

\* What New would find now if the machine went down: the messages of the last
\* metadata file in the fsynced part of the data files.
Recoverable ==
    LET durable == [f \in DOMAIN files |->
                      [files[f] EXCEPT !.cells = SubSeq(@, 1, files[f].synced)]]
    IN  IF meta = Nil THEN {}
        ELSE Between(durable, meta.rf, meta.rp, meta.wf, meta.wp)

\* A message that was in the queue at the last sync, and has not been delivered
\* or emptied since, survives a crash at any point: in the middle of a roll,
\* of an Empty, or between the removal of a file and the next sync.
SyncedRecoverable ==
    setup.mayCrash /\ (crashes = 0 \/ pc = "down") => saved \subseteq Recoverable

\* A crash undoes at most SyncEvery operations: the messages it loses and the
\* messages it will deliver again are no more than that.
CrashUndoesAtMostSyncEvery ==
    setup.mayCrash /\ crashes = 0 /\ pc # "down" =>
        Cardinality((Queued \ Recoverable) \cup (Recoverable \ Queued)) <= SyncEvery

\* The read position never stays beyond the write position: a read position
\* that has passed it is reset by checkTailCorruption (diskqueue.go:559-576).
ReadNeverPassesWrite ==
    pc = "loop" => \/ readFileNum < writeFileNum
                   \/ readFileNum = writeFileNum /\ readPos <= writePos

=============================================================================
