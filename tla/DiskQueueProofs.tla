-------------------------- MODULE DiskQueueProofs --------------------------
(***************************************************************************)
(* Proofs about both copies of the disk queue, for any message lengths,    *)
(* file size, buffer size and number of operations.                        *)
(*                                                                         *)
(* The invariant, Whole, has four parts.  Typed holds always.  Sound says  *)
(* how the files are laid out as long as the process has not crashed:      *)
(* whole messages, full files between the two ends, the read position at   *)
(* the start of a message.  Exact says that the messages in them lie in    *)
(* the order of the Puts and that depth counts those behind the read       *)
(* position.  Durable says what a crash would leave: every file but the    *)
(* one being written is fsynced, and each operation since the last sync    *)
(* has changed what would be recovered by one message at most.             *)
(*                                                                         *)
(* The refinement of FifoQueue follows from Sound and Exact: the messages  *)
(* are numbered by their Puts, so Contents is the queued ones in the order *)
(* of their numbers, and a step that puts, delivers or empties changes it  *)
(* as FifoQueue does.                                                      *)
(***************************************************************************)
EXTENDS DQueue, SequenceTheorems, FiniteSetTheorems, TLAPS

\* The cells and files of the model.
Cell == {Zero} \cup [msg : Message, at : Nat]
File == [cells : Seq(Cell), synced : Nat]
Reader == [off : Nat, buf : Seq(Cell)]

LEMMA Constants ==
    /\ MaxBytesPerFile \in Nat \ {0} /\ MinMsgSize \in Nat \ {0} /\ MaxMsgSize \in Nat \ {0}
    /\ SyncEvery \in Nat \ {0} /\ BufSize \in Nat \ {0}
    /\ \A len \in Lens : len \in Nat \ {0}
    /\ MaxPuts \in Nat /\ MaxCrashes \in Nat
    /\ Nil \notin Nat /\ Nil \notin MetaData
    /\ \A s \in Setups : s.copy \in {"diskqueue", "dqueue"} /\ s.mayCrash \in BOOLEAN
<1>1. Setups \subseteq Setup
  BY DiskAssumption
<1> QED
  BY <1>1, DiskAssumption DEF Setup

-----------------------------------------------------------------------------
(* Sequences, minima and maxima *)

LEMMA MinOfTwo ==
    ASSUME NEW a \in Int, NEW b \in Int
    PROVE  Min({a, b}) = IF a <= b THEN a ELSE b
<1> DEFINE m == IF a <= b THEN a ELSE b
<1>1. m \in {a, b} /\ \A y \in {a, b} : m <= y
  OBVIOUS
<1>2. \A x \in {a, b} : (\A y \in {a, b} : x <= y) => x = m
  OBVIOUS
<1> HIDE DEF m
<1> QED
  BY <1>1, <1>2 DEF Min, m

LEMMA MaxOfTwo ==
    ASSUME NEW a \in Int, NEW b \in Int
    PROVE  Max({a, b}) = IF a >= b THEN a ELSE b
<1> DEFINE m == IF a >= b THEN a ELSE b
<1>1. m \in {a, b} /\ \A y \in {a, b} : m >= y
  OBVIOUS
<1>2. \A x \in {a, b} : (\A y \in {a, b} : x >= y) => x = m
  OBVIOUS
<1> HIDE DEF m
<1> QED
  BY <1>1, <1>2 DEF Max, m

\* Part of a sequence.
LEMMA Part ==
    ASSUME NEW S, NEW s \in Seq(S), NEW m \in Nat \ {0}, NEW n \in Int, n <= Len(s)
    PROVE  /\ SubSeq(s, m, n) \in Seq(S)
           /\ Len(SubSeq(s, m, n)) = IF m <= n THEN n - m + 1 ELSE 0
           /\ \A i \in 1..(n - m + 1) : SubSeq(s, m, n)[i] = s[m + i - 1]
<1>1. \A i \in m..n : s[i] \in S
  OBVIOUS
<1> QED
  BY <1>1, SubSeqProperties

\* The part of a sequence between two positions.
LEMMA Slice ==
    ASSUME NEW S, NEW s \in Seq(S), NEW a \in Nat, NEW b \in Nat, a <= b, b <= Len(s)
    PROVE  /\ SubSeq(s, a + 1, b) \in Seq(S)
           /\ Len(SubSeq(s, a + 1, b)) = b - a
           /\ \A i \in 1..(b - a) : SubSeq(s, a + 1, b)[i] = s[a + i]
<1> DEFINE t == SubSeq(s, a + 1, b)
<1>1. a + 1 \in Nat \ {0} /\ b \in Int
  OBVIOUS
<1>2. /\ t \in Seq(S) /\ Len(t) = IF a + 1 <= b THEN b - (a + 1) + 1 ELSE 0
      /\ \A i \in 1..(b - (a + 1) + 1) : t[i] = s[a + 1 + i - 1]
  BY <1>1, Part
<1> HIDE DEF t
<1>3. Len(t) = b - a
  BY <1>2
<1>4. ASSUME NEW i \in 1..(b - a) PROVE t[i] = s[a + i]
  <2>1. i \in 1..(b - (a + 1) + 1) /\ a + 1 + i - 1 = a + i
    OBVIOUS
  <2>2. t[i] = s[a + 1 + i - 1]
    BY <1>2, <2>1
  <2> QED
    BY <2>1, <2>2
<1>5. /\ t \in Seq(S) /\ Len(t) = b - a /\ \A i \in 1..(b - a) : t[i] = s[a + i]
  BY <1>2, <1>3, <1>4
<1> QED
  BY <1>5 DEF t

LEMMA FirstPart ==
    ASSUME NEW S, NEW s \in Seq(S), NEW b \in Nat, b <= Len(s)
    PROVE  /\ SubSeq(s, 1, b) \in Seq(S)
           /\ Len(SubSeq(s, 1, b)) = b
           /\ \A i \in 1..b : SubSeq(s, 1, b)[i] = s[i]
<1>1. 0 \in Nat /\ 0 <= b /\ 0 + 1 = 1 /\ b - 0 = b /\ \A i \in 1..b : 0 + i = i
  OBVIOUS
<1> QED
  BY <1>1, Slice

\* A reader fetches n cells, or as many as the file has.
LEMMA FetchType ==
    ASSUME NEW r \in Reader, Len(r.buf) <= BufSize, NEW cells \in Seq(Cell), NEW n \in Nat \ {0}
    PROVE  /\ Fetch(r, cells, n).got \in Seq(Cell) /\ Len(Fetch(r, cells, n).got) <= n
           /\ Fetch(r, cells, n).rd \in Reader /\ Len(Fetch(r, cells, n).rd.buf) <= BufSize
<1> DEFINE rest  == SubSeq(cells, r.off + 1, Len(cells))
           need  == n - Len(r.buf)
           want  == IF need >= BufSize THEN need ELSE BufSize
           fill  == Min({Len(rest), want})
           chunk == SubSeq(rest, 1, fill)
           some  == Min({need, fill})
<1>0. BufSize \in Nat \ {0}
  BY DiskAssumption
<1>1. r.off \in Nat /\ r.buf \in Seq(Cell) /\ Len(r.buf) \in Nat /\ Len(cells) \in Nat
  BY DEF Reader
<1>2. need \in Int /\ n = need + Len(r.buf) /\ n \in Nat \ {0}
  BY <1>1
<1>3. Fetch(r, cells, n) =
        IF need <= 0
        THEN [got |-> SubSeq(r.buf, 1, n),
              rd  |-> [off |-> r.off, buf |-> SubSeq(r.buf, n + 1, Len(r.buf))]]
        ELSE [got |-> r.buf \o SubSeq(chunk, 1, some),
              rd  |-> [off |-> r.off + fill, buf |-> SubSeq(chunk, need + 1, fill)]]
  BY DEF Fetch
<1>4. rest \in Seq(Cell) /\ Len(rest) \in Nat
  BY <1>1, Part
<1> HIDE DEF need, rest, fill, chunk, some
<1>5. want \in Nat
  BY <1>0, <1>2
<1> HIDE DEF want
<1>6. CASE need <= 0
  <2>1. SubSeq(r.buf, 1, n) \in Seq(Cell) /\ Len(SubSeq(r.buf, 1, n)) <= n
    BY <1>1, <1>2, <1>6, Part
  <2>2. /\ SubSeq(r.buf, n + 1, Len(r.buf)) \in Seq(Cell)
        /\ Len(SubSeq(r.buf, n + 1, Len(r.buf))) <= BufSize
    BY <1>0, <1>1, <1>2, <1>6, Part
  <2> QED
    BY <1>1, <1>3, <1>6, <2>1, <2>2 DEF Reader
<1>7. CASE need > 0
  <2>1. fill \in Nat /\ fill <= Len(rest) /\ fill <= want
    BY <1>4, <1>5, MinOfTwo DEF fill
  <2>2. chunk \in Seq(Cell) /\ Len(chunk) = fill
    BY <1>4, <2>1, Part DEF chunk
  <2>3. some \in Nat /\ some <= need /\ some <= fill
    BY <1>2, <1>7, <2>1, MinOfTwo DEF some
  <2>4. SubSeq(chunk, 1, some) \in Seq(Cell) /\ Len(SubSeq(chunk, 1, some)) = some
    BY <2>1, <2>2, <2>3, Part
  <2>5. /\ SubSeq(chunk, need + 1, fill) \in Seq(Cell)
        /\ Len(SubSeq(chunk, need + 1, fill)) <= BufSize
    <3>1. fill - need <= BufSize
      BY <1>0, <1>2, <1>7, <2>1 DEF want
    <3> QED
      BY <1>0, <1>2, <1>7, <2>1, <2>2, <3>1, Part
  <2>6. /\ r.buf \o SubSeq(chunk, 1, some) \in Seq(Cell)
        /\ Len(r.buf \o SubSeq(chunk, 1, some)) = Len(r.buf) + some
    BY <1>1, <2>4, ConcatProperties
  <2>7. Len(r.buf) + some <= n
    BY <1>1, <1>2, <2>3
  <2>8. ~(need <= 0) /\ r.off + fill \in Nat
    BY <1>1, <1>2, <1>7, <2>1
  <2>9. Fetch(r, cells, n) =
          [got |-> r.buf \o SubSeq(chunk, 1, some),
           rd  |-> [off |-> r.off + fill, buf |-> SubSeq(chunk, need + 1, fill)]]
    BY <1>3, <2>8
  <2> DEFINE got == r.buf \o SubSeq(chunk, 1, some)
             buf == SubSeq(chunk, need + 1, fill)
             off == r.off + fill
  <2>10. got \in Seq(Cell) /\ Len(got) <= n /\ buf \in Seq(Cell) /\ Len(buf) <= BufSize
    BY <2>5, <2>6, <2>7
  <2>11. off \in Nat /\ Fetch(r, cells, n) = [got |-> got, rd |-> [off |-> off, buf |-> buf]]
    BY <2>8, <2>9
  <2> HIDE DEF got, buf, off
  <2> QED
    BY <2>10, <2>11 DEF Reader
<1> QED
  BY <1>2, <1>6, <1>7

\* What a cell over the others leaves, and how long the file is then.
LEMMA WriteAtType ==
    ASSUME NEW old \in Seq(Cell), NEW pos \in Nat, NEW new \in Seq(Cell)
    PROVE  /\ WriteAt(old, pos, new) \in Seq(Cell)
           /\ Len(WriteAt(old, pos, new)) =
                IF Len(old) <= pos + Len(new) THEN pos + Len(new) ELSE Len(old)
<1> DEFINE pad   == [i \in 1..(pos - Len(old)) |-> Zero]
           end   == pos + Len(new)
           whole == old \o pad
           front == SubSeq(whole, 1, pos)
           tail  == SubSeq(old, end + 1, Len(old))
<1>1. Len(old) \in Nat /\ Len(new) \in Nat /\ end \in Nat
  OBVIOUS
<1>2. pad \in Seq(Cell) /\ Len(pad) = IF Len(old) <= pos THEN pos - Len(old) ELSE 0
  <2> DEFINE k == IF Len(old) <= pos THEN pos - Len(old) ELSE 0
  <2>1. k \in Nat /\ 1..(pos - Len(old)) = 1..k
    BY <1>1
  <2>2. pad = [i \in 1..k |-> Zero]
    BY <2>1
  <2> HIDE DEF pad, k
  <2>3. pad \in Seq(Cell) /\ Len(pad) = k
    BY <2>1, <2>2 DEF Cell
  <2> QED
    BY <2>3 DEF k
<1> HIDE DEF pad
<1>3. whole \in Seq(Cell) /\ Len(whole) = Len(old) + Len(pad)
  BY <1>2, ConcatProperties
<1>4. pos <= Len(whole)
  BY <1>1, <1>2, <1>3
<1> HIDE DEF whole
<1>5. front \in Seq(Cell) /\ Len(front) = pos
  BY <1>3, <1>4, Part
<1>6. /\ tail \in Seq(Cell)
      /\ Len(tail) = IF end + 1 <= Len(old) THEN Len(old) - end ELSE 0
  BY <1>1, Part
<1>7. WriteAt(old, pos, new) = front \o new \o tail
  BY DEF WriteAt, whole, pad
<1> HIDE DEF front, tail, end
<1>8. front \o new \in Seq(Cell) /\ Len(front \o new) = pos + Len(new)
  BY <1>5, ConcatProperties
<1>9. /\ (front \o new) \o tail \in Seq(Cell)
      /\ Len((front \o new) \o tail) = pos + Len(new) + Len(tail)
  BY <1>6, <1>8, ConcatProperties
<1>10. Len(WriteAt(old, pos, new)) = end + Len(tail)
  BY <1>7, <1>9 DEF end
<1>11. end + Len(tail) = IF Len(old) <= end THEN end ELSE Len(old)
  BY <1>1, <1>6
<1>12. WriteAt(old, pos, new) \in Seq(Cell)
  BY <1>7, <1>9
<1> QED
  BY <1>10, <1>11, <1>12 DEF end

LEMMA CellsType ==
    ASSUME NEW m \in Message
    PROVE  /\ Cells(m) \in Seq(Cell) /\ Len(Cells(m)) = Size(m)
           /\ Size(m) \in Nat \ {0}
           /\ \A i \in 1..Size(m) : Cells(m)[i] = [msg |-> m, at |-> i - 1]
<1>1. m.len + 1 \in Nat \ {0}
  BY Constants DEF Message
<1>2. \A i \in 1..(m.len + 1) : [msg |-> m, at |-> i - 1] \in Cell
  BY <1>1 DEF Cell
<1> QED
  BY <1>1, <1>2 DEF Cells, Size

\* The messages found between two positions are messages.
\* The headers between two positions,
LEMMA HeadersAre ==
    ASSUME NEW fs, NEW rf, NEW rp, NEW wf, NEW wp, NEW h
    PROVE  h \in Headers(fs, rf, rp, wf, wp) <=>
             \E f \in DOMAIN fs \cap rf..wf : \E i \in DOMAIN fs[f].cells :
                /\ f = rf => i > rp
                /\ f = wf => i <= wp
                /\ fs[f].cells[i] # Zero /\ fs[f].cells[i].at = 0
                /\ h = <<f, i>>
  BY DEF Headers

\* and their messages.
LEMMA BetweenIs ==
    ASSUME NEW fs, NEW rf, NEW rp, NEW wf, NEW wp, NEW m
    PROVE  m \in Between(fs, rf, rp, wf, wp) <=>
             \E f \in DOMAIN fs \cap rf..wf : \E i \in DOMAIN fs[f].cells :
                /\ f = rf => i > rp
                /\ f = wf => i <= wp
                /\ fs[f].cells[i] # Zero /\ fs[f].cells[i].at = 0
                /\ m = fs[f].cells[i].msg
<1>1. m \in Between(fs, rf, rp, wf, wp) <=>
        \E h \in Headers(fs, rf, rp, wf, wp) : m = fs[h[1]].cells[h[2]].msg
  BY DEF Between
<1> DEFINE H == Headers(fs, rf, rp, wf, wp)
           Is(f, i) == /\ f = rf => i > rp
                       /\ f = wf => i <= wp
                       /\ fs[f].cells[i] # Zero /\ fs[f].cells[i].at = 0
<1>2. \A h : h \in H <=>
        \E f \in DOMAIN fs \cap rf..wf : \E i \in DOMAIN fs[f].cells : Is(f, i) /\ h = <<f, i>>
  BY HeadersAre
<1> HIDE DEF H, Is
<1>3. ASSUME NEW h \in H, m = fs[h[1]].cells[h[2]].msg
      PROVE  \E f \in DOMAIN fs \cap rf..wf : \E i \in DOMAIN fs[f].cells :
                Is(f, i) /\ m = fs[f].cells[i].msg
  <2>1. PICK f \in DOMAIN fs \cap rf..wf : \E i \in DOMAIN fs[f].cells :
               Is(f, i) /\ h = <<f, i>>
    BY <1>2
  <2>2. PICK i \in DOMAIN fs[f].cells : Is(f, i) /\ h = <<f, i>>
    BY <2>1
  <2>3. h[1] = f /\ h[2] = i
    BY <2>2
  <2> QED
    BY <1>3, <2>2, <2>3
<1>4. ASSUME NEW f \in DOMAIN fs \cap rf..wf, NEW i \in DOMAIN fs[f].cells, Is(f, i),
             m = fs[f].cells[i].msg
      PROVE  \E h \in H : m = fs[h[1]].cells[h[2]].msg
  <2>1. <<f, i>> \in H
    BY <1>2, <1>4
  <2>2. m = fs[<<f, i>>[1]].cells[<<f, i>>[2]].msg
    BY <1>4
  <2> QED
    BY <2>1, <2>2
<1> QED
  BY <1>1, <1>3, <1>4 DEF H, Is

LEMMA BetweenType ==
    ASSUME NEW fs, \A f \in DOMAIN fs : fs[f].cells \in Seq(Cell),
           NEW rf, NEW rp, NEW wf, NEW wp
    PROVE  Between(fs, rf, rp, wf, wp) \subseteq Message
<1> SUFFICES ASSUME NEW m \in Between(fs, rf, rp, wf, wp)
             PROVE  m \in Message
  OBVIOUS
<1>1. PICK f \in DOMAIN fs : \E i \in DOMAIN fs[f].cells :
        /\ fs[f].cells[i] # Zero /\ m = fs[f].cells[i].msg
  BY BetweenIs
<1>2. PICK i \in DOMAIN fs[f].cells : fs[f].cells[i] # Zero /\ m = fs[f].cells[i].msg
  BY <1>1
<1>3. fs[f].cells[i] \in Cell
  BY <1>1, <1>2
<1> QED
  BY <1>2, <1>3 DEF Cell

-----------------------------------------------------------------------------
(* Both copies as one: they differ in where the writer ends a file *)

WRolls(pos) ==
    IF setup.copy = "diskqueue" THEN pos > MaxBytesPerFile ELSE pos >= MaxBytesPerFile

Step ==
    \/ New
    \/ LoopSync
    \/ ReadSkip \/ ReadOne \/ ReadError
    \/ Deliver
    \/ \E len \in Lens : PutRefused(len) \/ WriteOne(len, WRolls)
    \/ Roll
    \/ Empty \/ RemoveMeta
    \/ SyncTick \/ QReadTick
    \/ Close \/ CloseSync \/ Delete \/ Crash

\* A step of either copy is one of these.
LEMMA Steps == EitherNext => Step
<1> SUFFICES ASSUME EitherNext PROVE Step
  OBVIOUS
<1>1. CASE setup.copy = "diskqueue" /\ Next
  <2>1. \A len : Put(len) => WriteOne(len, WRolls)
    BY <1>1 DEF Put, WriteOne, WRolls, RollsAfter
  <2> QED
    BY <1>1, <2>1 DEF Next, Step
<1>2. CASE setup.copy = "dqueue" /\ QNext
  <2>1. \A len : QPut(len) => WriteOne(len, WRolls)
    BY <1>2 DEF QPut, WriteOne, WRolls, QWriterRolls
  <2>2. QReadOne => ReadOne
    BY DEF QReadOne, ReadOne, ReadOneTo, RollsAfter, QReaderRolls
  <2>3. QSync = Sync
    BY DEF QSync, Sync, QPersistMetaData
  <2>4. QLoopSync => LoopSync
    BY <2>3 DEF QLoopSync, LoopSync
  <2>5. QRoll => Roll
    BY <2>3 DEF QRoll, Roll
  <2>6. QCloseSync => CloseSync
    BY <2>3 DEF QCloseSync, CloseSync
  <2>7. QDeliver => Deliver
    BY DEF QDeliver, Deliver, QMoveForward
  <2>8. QEmpty => Empty
    BY DEF QEmpty, Empty, QSkipToNextRWFile
  <2>9. QNew => New
    BY DEF QNew, New, QRetrieveMetaData
  <2>10. QReadSkip = ReadSkip /\ QReadError = ReadError /\ QRemoveMeta = RemoveMeta
         /\ QSyncTick = SyncTick /\ QClose = Close /\ QDelete = Delete
         /\ \A len : QPutRefused(len) = PutRefused(len)
    BY DEF QReadSkip, QReadError, QRemoveMeta, QSyncTick, QClose, QDelete, QPutRefused
  <2> QED
    BY <1>2, <2>1, <2>2, <2>4, <2>5, <2>6, <2>7, <2>8, <2>9, <2>10 DEF QNext, Step
<1> QED
  BY <1>1, <1>2 DEF EitherNext

-----------------------------------------------------------------------------
(* Types *)

ControlOK ==
    /\ setup \in Setups
    /\ pc \in {"loop", "read", "select", "roll", "emptying", "exited", "down"}
    /\ needSync \in BOOLEAN
    /\ count \in 0..SyncEvery
    /\ pc \in {"read", "select"} => count < SyncEvery
    /\ puts \in 0..MaxPuts
    /\ crashes \in Nat

PositionsOK ==
    /\ readFileNum \in Nat /\ writeFileNum \in Nat /\ nextReadFileNum \in Nat
    /\ readPos \in 0..MaxBytesPerFile /\ writePos \in 0..MaxBytesPerFile
    /\ nextReadPos \in 0..MaxBytesPerFile
    /\ depth \in Int

HandlesOK ==
    /\ readFile \in {Nil} \cup Nat
    /\ writeFile \in {Nil} \cup Nat
    /\ reader \in Reader /\ Len(reader.buf) <= BufSize

FilesOK ==
    /\ DOMAIN files \subseteq Nat
    /\ \A f \in DOMAIN files : files[f] \in File /\ files[f].synced <= Len(files[f].cells)

BadMetaOK ==
    /\ DOMAIN bad \subseteq Nat
    /\ meta \in MetaData \cup {Nil}
    /\ meta # Nil => meta.rp <= MaxBytesPerFile /\ meta.wp <= MaxBytesPerFile

MessagesOK ==
    /\ dataRead \in Message \cup {Nil, Garbage}
    /\ ret \in Message \cup {Nil, Garbage}
    /\ saved \subseteq Message

Typed == ControlOK /\ PositionsOK /\ HandlesOK /\ FilesOK /\ BadMetaOK /\ MessagesOK

LEMMA TypedTypeOK == Typed => TypeOK
<1> SUFFICES ASSUME Typed PROVE TypeOK
  OBVIOUS
<1>1. \A f \in DOMAIN files : files[f].synced \in 0..Len(files[f].cells)
  <2> SUFFICES ASSUME NEW f \in DOMAIN files PROVE files[f].synced \in 0..Len(files[f].cells)
    OBVIOUS
  <2>1. files[f] \in File /\ files[f].synced <= Len(files[f].cells)
    BY DEF Typed, FilesOK
  <2> QED
    BY <2>1 DEF File
<1> QED
  BY <1>1 DEF Typed, TypeOK, ControlOK, PositionsOK, HandlesOK, FilesOK, BadMetaOK, MessagesOK,
              Reader

LEMMA TypedInit == Init => Typed
<1> SUFFICES ASSUME Init PROVE Typed
  OBVIOUS
<1>1. /\ setup \in Setups /\ pc = "down" /\ needSync \in BOOLEAN
      /\ count = 0 /\ puts = 0 /\ crashes = 0
  BY DEF Init
<1>a. ControlOK
  BY <1>1, Constants DEF ControlOK
<1>b. PositionsOK
  BY Constants DEF Init, PositionsOK
<1>2. HandlesOK
  BY Constants DEF Init, HandlesOK, NoReader, Reader
<1>3. FilesOK /\ BadMetaOK /\ MessagesOK
  BY DEF Init, FilesOK, BadMetaOK, MessagesOK
<1> QED
  BY <1>a, <1>b, <1>2, <1>3 DEF Typed

\* A file that is opened is a file, though it may be a new one.
LEMMA FileAtType ==
    ASSUME FilesOK, NEW f
    PROVE  FileAt(files, f) \in File /\ FileAt(files, f).synced <= Len(FileAt(files, f).cells)
<1>1. CASE f \in DOMAIN files
  BY <1>1 DEF FileAt, FilesOK
<1>2. CASE f \notin DOMAIN files
  <2>1. FileAt(files, f) = [cells |-> <<>>, synced |-> 0]
    BY <1>2 DEF FileAt, NoFile
  <2> QED
    BY <2>1 DEF File
<1> QED
  BY <1>1, <1>2

\* Setting or removing a file keeps the others.
LEMMA SetFileType ==
    ASSUME FilesOK, NEW f \in Nat, NEW file \in File, file.synced <= Len(file.cells),
           files' = SetFile(files, f, file)
    PROVE  FilesOK'
  BY DEF FilesOK, SetFile

LEMMA RemovedType ==
    ASSUME FilesOK, NEW gone, files' = Removed(files, gone)
    PROVE  FilesOK'
  BY DEF FilesOK, Removed

\* What readOne may return.
LEMMA OutcomesType ==
    ASSUME FilesOK, HandlesOK, PositionsOK, NEW o \in ReadOutcomes, o.ok
    PROVE  /\ o.msg \in Message \cup {Garbage}
           /\ o.size \in Nat \ {0}
           /\ o.rd \in Reader /\ Len(o.rd.buf) <= BufSize
<1> DEFINE cells == FileAt(files, readFileNum).cells
           start == IF readFile = Nil THEN [off |-> readPos, buf |-> <<>>] ELSE reader
           head  == Fetch(start, cells, 1)
           body(len) == Fetch(head.rd, cells, len)
<1>1. cells \in Seq(Cell)
  BY FileAtType DEF File
<1>2. start \in Reader /\ Len(start.buf) <= BufSize
  BY Constants DEF HandlesOK, PositionsOK, Reader
<1>3. PICK len \in LensOf(head.got[1]) :
        /\ len \in MinMsgSize..MaxMsgSize
        /\ head.got # <<>>
        /\ o = [ok |-> TRUE, msg |-> MessageOf(head.got \o body(len).got),
                size |-> len + 1, rd |-> body(len).rd]
  BY DEF ReadOutcomes
<1>4. len \in Nat \ {0}
  BY <1>3, Constants
<1> HIDE DEF cells, start
<1>5. /\ head.got \in Seq(Cell) /\ Len(head.got) <= 1
      /\ head.rd \in Reader /\ Len(head.rd.buf) <= BufSize
  BY <1>1, <1>2, FetchType
<1> HIDE DEF head
<1>6. /\ body(len).got \in Seq(Cell)
      /\ body(len).rd \in Reader /\ Len(body(len).rd.buf) <= BufSize
  BY <1>1, <1>4, <1>5, FetchType
<1> HIDE DEF body
<1> DEFINE h == head.got
           b == body(len).got
           c == h \o b
<1>7. h \in Seq(Cell) /\ Len(h) >= 1 /\ b \in Seq(Cell)
  <2>1. h \in Seq(Cell) /\ h # <<>> /\ b \in Seq(Cell)
    BY <1>3, <1>5, <1>6
  <2> QED
    BY <2>1, EmptySeq
<1> HIDE DEF h, b
<1>8. c \in Seq(Cell) /\ Len(c) >= 1
  BY <1>7, ConcatProperties
<1> HIDE DEF c
<1>9. c[1] \in Cell
  BY <1>8
<1>10. MessageOf(c) \in Message \cup {Garbage}
  BY <1>9 DEF MessageOf, Cell, Zero
<1> QED
  BY <1>3, <1>4, <1>6, <1>10 DEF c, h, b

\* fsync and the metadata.
LEMMA SyncType ==
    ASSUME Typed, Sync
    PROVE  /\ FilesOK' /\ BadMetaOK' /\ saved' \subseteq Message /\ needSync' \in BOOLEAN
<1> USE DEF Typed
<1>1. FilesOK'
  <2>1. CASE writeFile \notin DOMAIN files
    BY <2>1 DEF Sync, FsyncWriteFile, FilesOK
  <2>2. CASE writeFile \in DOMAIN files
    <3> DEFINE file == [files[writeFile] EXCEPT !.synced = Len(files[writeFile].cells)]
    <3>1. files[writeFile] \in File /\ writeFile \in Nat
      BY <2>2 DEF FilesOK
    <3>2. file \in File /\ file.synced <= Len(file.cells)
      BY <3>1 DEF File
    <3>3. files' = SetFile(files, writeFile, file)
      BY <2>2 DEF Sync, FsyncWriteFile
    <3> QED
      BY <3>1, <3>2, <3>3, SetFileType
  <2> QED
    BY <2>1, <2>2
<1>2. saved' \subseteq Message
  <2>1. \A f \in DOMAIN files : files[f].cells \in Seq(Cell)
    BY DEF FilesOK, File
  <2> QED
    BY <2>1, BetweenType DEF Sync, PersistMetaData, Queued
<1>3. BadMetaOK'
  BY Constants DEF Sync, PersistMetaData, FsyncWriteFile, BadMetaOK, MetaData, PositionsOK
<1> QED
  BY <1>1, <1>2, <1>3 DEF Sync

LEMMA SkipType ==
    ASSUME Typed, NEW fs, fs = files \/ (\E gone : fs = Removed(files, gone)), NEW rf,
           SkipToNextRWFile(fs, rf)
    PROVE  FilesOK' /\ PositionsOK' /\ HandlesOK'
<1> USE DEF Typed
<1>1. /\ DOMAIN fs \subseteq DOMAIN files
      /\ \A f \in DOMAIN fs : fs[f] = files[f]
  BY DEF Removed
<1>2. FilesOK'
  BY <1>1 DEF SkipToNextRWFile, Removed, FilesOK
<1>3. PositionsOK'
  BY Constants DEF SkipToNextRWFile, PositionsOK
<1>4. HandlesOK'
  BY Constants DEF SkipToNextRWFile, HandlesOK, NoReader, Reader
<1> QED
  BY <1>2, <1>3, <1>4

LEMMA TypedStep == ASSUME Typed, Step PROVE Typed'
<1> USE DEF Typed
<1>0. Len(NoReader.buf) <= BufSize /\ NoReader \in Reader
  BY Constants DEF NoReader, Reader
<1>1. CASE New
  <2>1. DOMAIN files \subseteq Nat /\ \A f \in DOMAIN files : files[f].cells \in Seq(Cell)
    BY DEF FilesOK, File
  <2>2. saved' \subseteq Message
    BY <1>1, <2>1, BetweenType DEF New, NewFrom
  <2>3. /\ RetrieveMetaData \in MetaData
        /\ RetrieveMetaData.rp <= MaxBytesPerFile /\ RetrieveMetaData.wp <= MaxBytesPerFile
    BY Constants DEF RetrieveMetaData, BadMetaOK, MetaData
  <2>4. PositionsOK'
    BY <1>1, <2>3 DEF New, NewFrom, MetaData, PositionsOK
  <2>5. ControlOK'
    <3>1. /\ pc' = "loop" /\ needSync' \in BOOLEAN /\ count' = 0
          /\ setup' = setup /\ puts' = puts /\ crashes' = crashes
      BY <1>1 DEF New, NewFrom, bounds
    <3> QED
      BY <3>1, Constants DEF ControlOK
  <2>6. HandlesOK'
    BY <1>0, <1>1 DEF New, NewFrom, HandlesOK
  <2>7. FilesOK' /\ BadMetaOK'
    BY <1>1 DEF New, NewFrom, disk, FilesOK, BadMetaOK
  <2>8. MessagesOK'
    BY <1>1, <2>2 DEF New, NewFrom, MessagesOK
  <2> QED
    BY <2>4, <2>5, <2>6, <2>7, <2>8
<1>2. CASE LoopSync
  <2>1. PositionsOK' /\ HandlesOK'
    BY <1>2 DEF LoopSync, readVars, writeVars, handles, PositionsOK, HandlesOK
  <2>2. CASE SyncDue
    <3>1. Sync /\ count' = 0
      BY <1>2, <2>2 DEF LoopSync
    <3>2. FilesOK' /\ BadMetaOK' /\ saved' \subseteq Message /\ needSync' \in BOOLEAN
      BY <3>1, SyncType
    <3>3. ControlOK'
      BY <1>2, <3>1, <3>2, Constants DEF LoopSync, bounds, ControlOK
    <3>4. MessagesOK'
      BY <1>2, <3>2 DEF LoopSync, MessagesOK
    <3> QED
      BY <2>1, <3>2, <3>3, <3>4
  <2>3. CASE ~SyncDue
    <3>1. UNCHANGED <<disk, saved, needSync, count>>
      BY <1>2, <2>3 DEF LoopSync
    <3>2. count < SyncEvery
      BY <2>3, Constants DEF SyncDue, ControlOK
    <3>3. ControlOK'
      BY <1>2, <3>1, <3>2 DEF LoopSync, bounds, ControlOK
    <3>4. FilesOK' /\ BadMetaOK' /\ MessagesOK'
      BY <1>2, <3>1 DEF LoopSync, disk, FilesOK, BadMetaOK, MessagesOK
    <3> QED
      BY <2>1, <3>3, <3>4
  <2> QED
    BY <2>2, <2>3
<1>3. CASE ReadSkip
  BY <1>3 DEF ReadSkip, readVars, writeVars, handles, disk, history, bounds, ControlOK,
              PositionsOK, HandlesOK, FilesOK, BadMetaOK, MessagesOK
<1>4. CASE ReadOne
  <2>1. PICK o \in ReadOutcomes :
          /\ o.ok
          /\ dataRead' = o.msg
          /\ IF readPos + o.size > MaxBytesPerFile
                THEN /\ readFile' = Nil /\ reader' = NoReader
                     /\ nextReadFileNum' = readFileNum + 1 /\ nextReadPos' = 0
                ELSE /\ readFile' = readFileNum /\ reader' = o.rd
                     /\ nextReadFileNum' = readFileNum
                     /\ nextReadPos' = readPos + o.size
    BY <1>4 DEF ReadOne, ReadOneTo, RollsAfter
  <2>2. /\ o.msg \in Message \cup {Garbage} /\ o.size \in Nat \ {0}
        /\ o.rd \in Reader /\ Len(o.rd.buf) <= BufSize
    BY <2>1, OutcomesType
  <2>3. /\ pc' = "select" /\ pc = "read"
        /\ UNCHANGED <<readFileNum, readPos, writeFileNum, writePos, depth, writeFile, needSync,
                       count, files, bad, meta, ret, saved, setup, puts, empties, closes, crashes>>
    BY <1>4 DEF ReadOne, ReadOneTo, writeVars, disk, history, bounds
  <2>4. ControlOK' /\ FilesOK' /\ BadMetaOK'
    BY <2>3 DEF ControlOK, FilesOK, BadMetaOK
  <2>5. PositionsOK'
    BY <2>1, <2>2, <2>3, Constants DEF PositionsOK
  <2>6. HandlesOK'
    BY <1>0, <2>1, <2>2, <2>3 DEF HandlesOK, PositionsOK
  <2>7. MessagesOK'
    BY <2>1, <2>2, <2>3 DEF MessagesOK
  <2> QED
    BY <2>4, <2>5, <2>6, <2>7
<1>5. CASE ReadError
  <2>1. /\ pc' = "loop" /\ needSync' = TRUE
        /\ UNCHANGED <<depth, count, dataRead, meta, ret, saved, setup, puts, empties, closes,
                       crashes>>
    BY <1>5 DEF ReadError, history, bounds
  <2>2. ControlOK' /\ MessagesOK'
    BY <2>1 DEF ControlOK, MessagesOK
  <2>3. PositionsOK'
    BY <1>5, <2>1, Constants DEF ReadError, PositionsOK, writeVars
  <2>4. HandlesOK'
    BY <1>0, <1>5 DEF ReadError, HandlesOK
  <2>5. FilesOK'
    BY <1>5, RemovedType DEF ReadError
  <2>6. BadMetaOK'
    BY <1>5, <2>1 DEF ReadError, BadMetaOK, PositionsOK
  <2> QED
    BY <2>2, <2>3, <2>4, <2>5, <2>6
<1>6. CASE Deliver
  <2>1. /\ pc' = "loop" /\ pc = "select" /\ count' = count + 1 /\ needSync' \in BOOLEAN
        /\ ret' = dataRead /\ saved' \subseteq saved
        /\ UNCHANGED <<dataRead, bad, meta, setup, puts, empties, closes, crashes>>
    BY <1>6 DEF Deliver, bounds, MoveForward
  <2>2. ControlOK' /\ BadMetaOK'
    BY <2>1, Constants DEF ControlOK, BadMetaOK
  <2>3. MessagesOK'
    BY <2>1 DEF MessagesOK
  <2>4. AfterRead = files \/ \E gone : AfterRead = Removed(files, gone)
    BY DEF AfterRead
  <2>5. FilesOK' /\ PositionsOK' /\ HandlesOK'
    <3>1. CASE files' = AfterRead /\ \E d \in Int : Advance(d)
      <4>1. FilesOK'
        BY <2>4, <3>1, RemovedType DEF FilesOK
      <4>2. PositionsOK' /\ HandlesOK'
        BY <3>1 DEF Advance, PositionsOK, HandlesOK, writeVars, handles
      <4> QED
        BY <4>1, <4>2
    <3>2. CASE SkipToNextRWFile(AfterRead, nextReadFileNum)
      BY <2>4, <3>2, SkipType
    <3>3. depth - 1 \in Int /\ 0 \in Int
      BY DEF PositionsOK
    <3> QED
      BY <1>6, <3>1, <3>2, <3>3 DEF Deliver, MoveForward
  <2> QED
    BY <2>2, <2>3, <2>5
<1>7. ASSUME NEW len \in Lens, PutRefused(len) PROVE Typed'
  <2>1. /\ pc' = "loop" /\ pc = "select" /\ count' = count + 1 /\ writeFile' = writeFileNum
        /\ UNCHANGED <<readFileNum, readPos, nextReadFileNum, nextReadPos, writeFileNum, writePos,
                       depth, readFile, reader, needSync, dataRead, bad, meta, ret, saved, setup,
                       puts, empties, closes, crashes>>
    BY <1>7 DEF PutRefused, readVars, writeVars, history, bounds
  <2>2. ControlOK' /\ PositionsOK' /\ BadMetaOK'
    BY <2>1, Constants DEF ControlOK, PositionsOK, BadMetaOK
  <2>3. MessagesOK' /\ HandlesOK'
    BY <2>1 DEF MessagesOK, HandlesOK, PositionsOK
  <2>4. FilesOK'
    BY <1>7, FileAtType, SetFileType DEF PutRefused, PositionsOK
  <2> QED
    BY <2>2, <2>3, <2>4
<1>8. ASSUME NEW len \in Lens, WriteOne(len, WRolls) PROVE Typed'
  <2> DEFINE m   == [id |-> puts + 1, len |-> len]
             old == FileAt(files, writeFileNum)
             new == WriteAt(old.cells, writePos, Cells(m))
             file == [cells |-> new, synced |-> Min({old.synced, writePos})]
  <2>1. /\ pc' \in {"loop", "roll"} /\ pc = "select" /\ count' = count + 1
        /\ puts < MaxPuts /\ puts' = puts + 1
        /\ writeFile' = writeFileNum /\ depth' = depth + 1
        /\ UNCHANGED <<readFileNum, readPos, nextReadFileNum, nextReadPos, readFile, reader,
                       needSync, dataRead, bad, meta, ret, saved, setup, empties, closes, crashes>>
    BY <1>8 DEF WriteOne, readVars, history
  <2>2. ControlOK' /\ BadMetaOK'
    BY <2>1, Constants DEF ControlOK, BadMetaOK
  <2>3. MessagesOK' /\ HandlesOK'
    BY <2>1 DEF MessagesOK, HandlesOK, PositionsOK
  <2>4. m \in Message
    <3>1. puts + 1 \in 1..MaxPuts
      BY <2>1, Constants DEF ControlOK
    <3> QED
      BY <3>1 DEF Message
  <2>5. /\ files' = SetFile(files, writeFileNum, file)
        /\ \/ WRolls(Written(m)) /\ writeFileNum' = writeFileNum + 1 /\ writePos' = 0
           \/ ~WRolls(Written(m)) /\ writePos' = Written(m) /\ writeFileNum' = writeFileNum
    BY <1>8 DEF WriteOne
  <2>6. /\ old \in File /\ old.synced <= Len(old.cells)
    BY FileAtType
  <2>7. Cells(m) \in Seq(Cell) /\ Len(Cells(m)) = Size(m) /\ Size(m) \in Nat \ {0}
    BY <2>4, CellsType
  <2> HIDE DEF m, old, new
  <2>8. PositionsOK'
    BY <2>1, <2>5, <2>7, Constants DEF PositionsOK, Written, WRolls
  <2>9. FilesOK'
    <3>1. old.cells \in Seq(Cell) /\ old.synced \in Nat /\ writePos \in Nat
      BY <2>6, Constants DEF File, PositionsOK
    <3>2. new \in Seq(Cell) /\ Len(new) >= writePos
      BY <2>7, <3>1, WriteAtType DEF new
    <3>3. Min({old.synced, writePos}) \in Nat /\ Min({old.synced, writePos}) <= writePos
      BY <3>1, MinOfTwo
    <3>4. file \in File /\ file.synced <= Len(file.cells)
      BY <3>1, <3>2, <3>3 DEF File
    <3> QED
      BY <2>5, <3>4, SetFileType DEF PositionsOK
  <2> QED
    BY <2>2, <2>3, <2>8, <2>9
<1>9. CASE Roll
  <2>1. FilesOK' /\ BadMetaOK' /\ saved' \subseteq Message /\ needSync' \in BOOLEAN
    BY <1>9, SyncType DEF Roll
  <2>2. ControlOK' /\ PositionsOK' /\ HandlesOK' /\ MessagesOK'
    BY <1>9, <2>1 DEF Roll, ControlOK, PositionsOK, HandlesOK, MessagesOK, readVars, writeVars,
                      bounds
  <2> QED
    BY <2>1, <2>2
<1>10. CASE Empty
  <2>1. FilesOK' /\ PositionsOK' /\ HandlesOK'
    BY <1>10, SkipType DEF Empty
  <2>2. ControlOK' /\ BadMetaOK' /\ MessagesOK'
    BY <1>10 DEF Empty, ControlOK, BadMetaOK, MessagesOK
  <2> QED
    BY <2>1, <2>2
<1>11. CASE RemoveMeta
  <2>1. ControlOK'
    BY <1>11, Constants DEF RemoveMeta, bounds, ControlOK
  <2>2. PositionsOK' /\ HandlesOK' /\ FilesOK' /\ BadMetaOK' /\ MessagesOK'
    BY <1>11 DEF RemoveMeta, readVars, writeVars, handles, history, PositionsOK, HandlesOK, FilesOK,
                 BadMetaOK, MessagesOK
  <2> QED
    BY <2>1, <2>2
<1>12. CASE SyncTick
  BY <1>12 DEF SyncTick, readVars, writeVars, handles, disk, history, bounds, ControlOK,
               PositionsOK, HandlesOK, FilesOK, BadMetaOK, MessagesOK
<1>13. CASE QReadTick
  BY <1>13 DEF QReadTick, readVars, writeVars, handles, disk, history, bounds, ControlOK,
               PositionsOK, HandlesOK, FilesOK, BadMetaOK, MessagesOK
<1>14. CASE Close
  <2>1. HandlesOK'
    BY <1>0, <1>14 DEF Close, HandlesOK
  <2>2. ControlOK' /\ PositionsOK' /\ FilesOK' /\ BadMetaOK' /\ MessagesOK'
    BY <1>14 DEF Close, readVars, writeVars, disk, history, ControlOK, PositionsOK, FilesOK,
                 BadMetaOK, MessagesOK
  <2> QED
    BY <2>1, <2>2
<1>15. CASE CloseSync
  <2>1. FilesOK' /\ BadMetaOK' /\ saved' \subseteq Message /\ needSync' \in BOOLEAN
    BY <1>15, SyncType DEF CloseSync
  <2>2. ControlOK' /\ PositionsOK' /\ HandlesOK' /\ MessagesOK'
    BY <1>15, <2>1 DEF CloseSync, ControlOK, PositionsOK, HandlesOK, MessagesOK, readVars,
                       writeVars, handles, bounds
  <2> QED
    BY <2>1, <2>2
<1>16. CASE Delete
  <2>1. HandlesOK'
    BY <1>0, <1>16 DEF Delete, HandlesOK
  <2>2. PositionsOK' /\ FilesOK' /\ BadMetaOK' /\ MessagesOK'
    BY <1>16 DEF Delete, readVars, writeVars, disk, history, PositionsOK, FilesOK,
                 BadMetaOK, MessagesOK
  <2>3. ControlOK'
    BY <1>16 DEF Delete, ControlOK
  <2> QED
    BY <2>1, <2>2, <2>3
<1>17. CASE Crash
  <2>1. HandlesOK'
    BY <1>0, <1>17 DEF Crash, HandlesOK
  <2>2. PositionsOK' /\ BadMetaOK' /\ MessagesOK'
    BY <1>17 DEF Crash, readVars, writeVars, history, PositionsOK, BadMetaOK, MessagesOK
  <2>3. ControlOK'
    BY <1>17 DEF Crash, ControlOK
  <2>4. FilesOK'
    <3>1. PICK most \in 0..(MaxBytesPerFile + MaxMsgSize + 1) :
            files' = [f \in DOMAIN files |->
                LET kept == Max({files[f].synced, Min({most, Len(files[f].cells)})})
                IN  [cells |-> SubSeq(files[f].cells, 1, kept), synced |-> kept]]
      BY <1>17 DEF Crash
    <3>2. most \in Nat
      BY <3>1, Constants
    <3>3. ASSUME NEW f \in DOMAIN files
          PROVE  files'[f] \in File /\ files'[f].synced <= Len(files'[f].cells)
      <4> DEFINE cells == files[f].cells
                 least == Min({most, Len(cells)})
                 kept  == Max({files[f].synced, least})
      <4>1. files'[f] = [cells |-> SubSeq(cells, 1, kept), synced |-> kept]
        BY <3>1
      <4>2. /\ cells \in Seq(Cell) /\ Len(cells) \in Nat /\ files[f].synced \in Nat
            /\ files[f].synced <= Len(cells)
        BY DEF FilesOK, File
      <4> HIDE DEF cells
      <4>3. least \in Nat /\ least <= Len(cells)
        BY <3>2, <4>2, MinOfTwo
      <4> HIDE DEF least
      <4>4. kept \in Nat /\ kept <= Len(cells)
        BY <4>2, <4>3, MaxOfTwo
      <4> HIDE DEF kept
      <4>5. SubSeq(cells, 1, kept) \in Seq(Cell) /\ Len(SubSeq(cells, 1, kept)) = kept
        BY <4>2, <4>4, Part
      <4> QED
        BY <4>1, <4>4, <4>5 DEF File
    <3> QED
      BY <3>1, <3>3 DEF FilesOK
  <2> QED
    BY <2>1, <2>2, <2>3, <2>4
<1> QED
  BY <1>1, <1>2, <1>3, <1>4, <1>5, <1>6, <1>7, <1>8, <1>9, <1>10, <1>11, <1>12, <1>13, <1>14,
     <1>15, <1>16, <1>17 DEF Step

LEMMA TypedNext == Typed /\ [EitherNext]_vars => Typed'
<1>1. ASSUME Typed, UNCHANGED vars PROVE Typed'
  BY <1>1 DEF vars, readVars, writeVars, handles, disk, history, bounds, Typed, ControlOK,
              PositionsOK, HandlesOK, FilesOK, BadMetaOK, MessagesOK
<1> QED
  BY <1>1, Steps, TypedStep

\* Type correctness of both copies: positions stay within a file of
\* MaxBytesPerFile, no file claims to be fsynced beyond its end, and the loop
\* never lets more than SyncEvery operations go by without a sync, whatever is
\* put, crashed and recovered (diskqueue.go:534-577, 652-718).
THEOREM TypeCorrect == EitherSpec => []TypeOK
<1>1. Init => Typed
  BY TypedInit
<1>2. Typed /\ [EitherNext]_vars => Typed'
  BY TypedNext
<1>3. Typed => TypeOK
  BY TypedTypeOK
<1> QED
  BY <1>1, <1>2, <1>3, PTL DEF EitherSpec

-----------------------------------------------------------------------------
(* The layout of the files, as long as the process has not crashed *)

\* Position p of a file is its end, or a message starts there.
Boundary(cells, p) == p \in 0..Len(cells) /\ (p < Len(cells) => cells[p + 1].at = 0)

\* The message that starts behind position p lies there whole, was started
\* before the file was full, and is followed by another message or the end.
WholeAt(limit, cells, p) ==
    LET m == cells[p + 1].msg
    IN  /\ m \in Message /\ m.len \in MinMsgSize..MaxMsgSize
        /\ p < limit
        /\ Boundary(cells, p + Size(m))
        /\ \A k \in 1..Size(m) : cells[p + k] = [msg |-> m, at |-> k - 1]

Laid(limit, cells) ==
    /\ Boundary(cells, 0)
    /\ \A p \in 0..(Len(cells) - 1) : cells[p + 1].at = 0 => WholeAt(limit, cells, p)

\* The position at which the writer ends a file.
WLimit == IF setup.copy = "diskqueue" THEN MaxBytesPerFile + 1 ELSE MaxBytesPerFile

CellsOf(f) == FileAt(files, f).cells

\* The files between the two ends are full; the last one ends at the write
\* position.
Span ==
    /\ readFileNum <= writeFileNum
    /\ DOMAIN files \subseteq readFileNum..writeFileNum
    /\ \A f \in readFileNum..(writeFileNum - 1) : Len(CellsOf(f)) >= WLimit
    /\ writePos = Len(CellsOf(writeFileNum)) /\ writePos < WLimit

Layout == \A f \in Nat : Laid(WLimit, CellsOf(f))

\* The message at the read position has been read: the next position is behind
\* it, in this file or the next.
Loaded ==
    /\ readPos < Len(CellsOf(readFileNum))
    /\ dataRead = CellsOf(readFileNum)[readPos + 1].msg
    /\ LET next == readPos + Size(CellsOf(readFileNum)[readPos + 1].msg)
       IN  IF next > MaxBytesPerFile
           THEN nextReadFileNum = readFileNum + 1 /\ nextReadPos = 0
           ELSE nextReadFileNum = readFileNum /\ nextReadPos = next

Fresh == nextReadFileNum = readFileNum /\ nextReadPos = readPos

ReadPlace == Boundary(CellsOf(readFileNum), readPos) /\ (Fresh \/ Loaded)

\* A consumer is only offered a message that has been read.
Offered == pc = "select" /\ CanRead => Loaded

\* What is buffered is what the file holds behind position p.
Buffered(r, cells, p) ==
    /\ r.off = p + Len(r.buf) /\ r.off <= Len(cells)
    /\ \A i \in 1..Len(r.buf) : r.buf[i] = cells[p + i]

ReaderPlace ==
    readFile # Nil => /\ readFile = readFileNum /\ nextReadFileNum = readFileNum
                      /\ Buffered(reader, CellsOf(readFileNum), nextReadPos)

\* A file put aside was exactly full, which only the second copy takes for an
\* error.
BadFull ==
    \A f \in DOMAIN bad : setup.copy = "dqueue" /\ Len(bad[f]) = MaxBytesPerFile

\* A queue that has been closed is found again as it was.
Stored ==
    pc = "down" =>
        /\ RetrieveMetaData.rf = readFileNum /\ RetrieveMetaData.rp = readPos
        /\ RetrieveMetaData.wf = writeFileNum /\ RetrieveMetaData.wp = writePos
        /\ RetrieveMetaData.depth = depth

Placed == Span /\ Layout /\ ReadPlace /\ Offered /\ ReaderPlace /\ BadFull /\ Stored

Sound == /\ ~setup.mayCrash => crashes = 0
         /\ crashes = 0 => Placed

\* Reading n cells from position p returns what the file holds there, up to its
\* end, and leaves the reader with what follows.
LEMMA FetchAt ==
    ASSUME NEW r \in Reader, NEW cells \in Seq(Cell), NEW n \in Nat \ {0}, NEW p \in Nat,
           Buffered(r, cells, p)
    PROVE  /\ p + n <= Len(cells) =>
                /\ Len(Fetch(r, cells, n).got) = n
                /\ \A i \in 1..n : Fetch(r, cells, n).got[i] = cells[p + i]
                /\ Buffered(Fetch(r, cells, n).rd, cells, p + n)
           /\ p = Len(cells) => Fetch(r, cells, n).got = <<>>
<1> DEFINE rest  == SubSeq(cells, r.off + 1, Len(cells))
           need  == n - Len(r.buf)
           want  == IF need >= BufSize THEN need ELSE BufSize
           fill  == Min({Len(rest), want})
           chunk == SubSeq(rest, 1, fill)
           some  == Min({need, fill})
<1>0. BufSize \in Nat \ {0}
  BY Constants
<1>1. /\ r.off \in Nat /\ r.buf \in Seq(Cell) /\ Len(r.buf) \in Nat /\ Len(cells) \in Nat
      /\ r.off = p + Len(r.buf) /\ r.off <= Len(cells)
  BY DEF Reader, Buffered
<1>b. \A i \in 1..Len(r.buf) : r.buf[i] = cells[p + i]
  BY DEF Buffered
<1>2. need \in Int /\ n = need + Len(r.buf) /\ n \in Nat \ {0}
  BY <1>1
<1>3. Fetch(r, cells, n) =
        IF need <= 0
        THEN [got |-> SubSeq(r.buf, 1, n),
              rd  |-> [off |-> r.off, buf |-> SubSeq(r.buf, n + 1, Len(r.buf))]]
        ELSE [got |-> r.buf \o SubSeq(chunk, 1, some),
              rd  |-> [off |-> r.off + fill, buf |-> SubSeq(chunk, need + 1, fill)]]
  BY DEF Fetch
<1>q. /\ rest \in Seq(Cell) /\ Len(rest) \in Nat /\ Len(rest) = Len(cells) - r.off
      /\ \A i \in 1..Len(rest) : rest[i] = cells[r.off + i]
  <2>1. /\ rest \in Seq(Cell) /\ Len(rest) = Len(cells) - r.off
        /\ \A i \in 1..(Len(cells) - r.off) : rest[i] = cells[r.off + i]
    <3>1. Len(cells) \in Nat /\ Len(cells) <= Len(cells) /\ r.off \in Nat /\ r.off <= Len(cells)
      BY <1>1
    <3> QED
      BY <3>1, Slice
  <2> HIDE DEF rest
  <2>2. Len(cells) - r.off \in Nat
    BY <1>1
  <2> DEFINE left == Len(cells) - r.off
  <2> HIDE DEF left
  <2>3. /\ rest \in Seq(Cell) /\ Len(rest) = left /\ left \in Nat
        /\ \A i \in 1..left : rest[i] = cells[r.off + i]
    BY <2>1, <2>2 DEF left
  <2>4. \A i \in 1..Len(rest) : rest[i] = cells[r.off + i]
    BY <2>3
  <2> QED
    BY <2>3, <2>4 DEF left
<1> HIDE DEF need, rest, fill, chunk, some
<1>4. /\ rest \in Seq(Cell) /\ Len(rest) \in Nat /\ Len(rest) = Len(cells) - r.off
  BY <1>q
<1> DEFINE L == Len(r.buf)
           N == Len(cells)
           o == r.off
           R == Len(rest)
<1>s. /\ L \in Nat /\ N \in Nat /\ o \in Nat /\ R \in Nat /\ need \in Int /\ p \in Nat /\ n \in Nat \ {0}
      /\ o = p + L /\ o <= N /\ R = N - o /\ n = need + L
  BY <1>1, <1>2, <1>4
<1>5. want \in Nat /\ want >= need
  BY <1>0, <1>2
<1> HIDE DEF want
<1>6. CASE need <= 0
  <2> DEFINE got == SubSeq(r.buf, 1, n)
             buf == SubSeq(r.buf, n + 1, Len(r.buf))
  <2>1. Len(got) = n /\ \A i \in 1..n : got[i] = r.buf[i]
    <3>1. n <= Len(r.buf) /\ n \in Nat
      BY <1>1, <1>2, <1>6
    <3> QED
      BY <1>1, <3>1, FirstPart
  <2>2. Len(buf) = Len(r.buf) - n /\ \A i \in 1..Len(buf) : buf[i] = r.buf[n + i]
    <3>1. n <= Len(r.buf) /\ n \in Nat
      BY <1>1, <1>2, <1>6
    <3> QED
      BY <1>1, <3>1, Slice
  <2> HIDE DEF got, buf
  <2>3. Fetch(r, cells, n) = [got |-> got, rd |-> [off |-> r.off, buf |-> buf]]
    BY <1>3, <1>6 DEF got, buf
  <2>4. \A i \in 1..n : got[i] = cells[p + i]
    <3>1. \A i \in 1..n : i \in 1..Len(r.buf)
      BY <1>1, <1>2, <1>6
    <3> QED
      BY <1>b, <2>1, <3>1
  <2>5. r.off = p + n + Len(buf)
    BY <1>1, <1>2, <2>2
  <2>6. \A i \in 1..Len(buf) : buf[i] = cells[p + n + i]
    <3> SUFFICES ASSUME NEW i \in 1..Len(buf) PROVE buf[i] = cells[p + n + i]
      OBVIOUS
    <3>1. n + i \in 1..Len(r.buf) /\ p + (n + i) = p + n + i
      BY <1>1, <1>2, <2>2
    <3>2. r.buf[n + i] = cells[p + (n + i)]
      BY <1>b, <3>1
    <3> QED
      BY <2>2, <3>1, <3>2
  <2>7. ~(p = Len(cells))
    BY <1>1, <1>2, <1>6
  <2> QED
    BY <1>1, <2>1, <2>3, <2>4, <2>5, <2>6, <2>7 DEF Buffered
<1>7. CASE need > 0
  <2>1. fill \in Nat /\ fill <= Len(rest) /\ (need <= Len(rest) => fill >= need)
    BY <1>2, <1>4, <1>5, MinOfTwo DEF fill
  <2>2. chunk \in Seq(Cell) /\ Len(chunk) = fill /\ \A i \in 1..fill : chunk[i] = rest[i]
    BY <1>4, <2>1, FirstPart DEF chunk
  <2>3. \A i \in 1..fill : chunk[i] = cells[r.off + i]
    BY <1>q, <2>1, <2>2
  <2>4. /\ some \in Nat /\ some <= fill /\ some <= need
        /\ need <= Len(rest) => some = need
    BY <1>2, <1>7, <2>1, MinOfTwo DEF some
  <2> DEFINE more == SubSeq(chunk, 1, some)
             got == r.buf \o more
             buf == SubSeq(chunk, need + 1, fill)
             off == r.off + fill
  <2>5. more \in Seq(Cell) /\ Len(more) = some /\ \A i \in 1..some : more[i] = chunk[i]
    BY <2>2, <2>4, FirstPart
  <2> HIDE DEF more
  <2>6. /\ got \in Seq(Cell) /\ Len(got) = Len(r.buf) + some
        /\ \A i \in 1..(Len(r.buf) + some) :
              got[i] = IF i <= Len(r.buf) THEN r.buf[i] ELSE more[i - Len(r.buf)]
    <3>1. r.buf \in Seq(Cell) /\ more \in Seq(Cell) /\ Len(more) = some
      BY <1>1, <2>5
    <3> QED
      BY <3>1, ConcatProperties
  <2>7. ~(need <= 0)
    BY <1>2, <1>7
  <2>8. Fetch(r, cells, n) = [got |-> got, rd |-> [off |-> off, buf |-> buf]]
    BY <1>3, <2>7 DEF more
  <2> HIDE DEF got, buf
  <2>9. ASSUME p = Len(cells) PROVE got = <<>>
    <3>1. some = 0 /\ Len(r.buf) = 0
      BY <1>1, <1>4, <2>1, <2>4, <2>9
    <3> QED
      BY <2>6, <3>1, EmptySeq
  <2>10. ASSUME p + n <= Len(cells)
         PROVE  /\ Len(got) = n
                /\ \A i \in 1..n : got[i] = cells[p + i]
                /\ Buffered([off |-> off, buf |-> buf], cells, p + n)
    <3> HIDE DEF L, N, o, R
    <3>0. need <= R
      BY <1>s, <2>10 DEF N
    <3>1. some = need /\ need \in Nat /\ need <= fill
      BY <1>s, <1>7, <2>1, <2>4, <3>0 DEF R
    <3>2. Len(got) = n
      BY <1>1, <1>2, <2>6, <3>1
    <3>3. ASSUME NEW i \in 1..n PROVE got[i] = cells[p + i]
      <4>1. CASE i <= Len(r.buf)
        <5>1. i \in 1..(Len(r.buf) + some) /\ i \in 1..Len(r.buf)
          BY <1>1, <1>2, <3>1, <4>1
        <5> QED
          BY <1>b, <2>6, <4>1, <5>1
      <4>2. CASE ~(i <= Len(r.buf))
        <5> DEFINE j == i - L
        <5>a. ~(i <= L) /\ i \in 1..n
          BY <4>2 DEF L
        <5>0. i \in 1..(L + some) /\ j \in 1..some /\ j \in 1..fill /\ o + j = p + i
          BY <1>s, <2>1, <3>1, <5>a
        <5>1. i \in 1..(Len(r.buf) + some) /\ j \in 1..some /\ j \in 1..fill /\ r.off + j = p + i
          BY <5>0 DEF L, o
        <5>2. got[i] = more[j]
          BY <2>6, <4>2, <5>1 DEF L
        <5> HIDE DEF j
        <5> QED
          BY <2>3, <2>5, <5>1, <5>2
      <4> QED
        BY <4>1, <4>2
    <3>4. /\ Len(buf) = fill - need
          /\ \A i \in 1..Len(buf) : buf[i] = chunk[need + i]
      BY <2>1, <2>2, <3>1, Slice DEF buf
    <3>5. off = p + n + Len(buf) /\ off <= Len(cells)
      <4>1. Len(buf) = fill - need
        BY <3>4
      <4>2. o + fill = p + n + Len(buf) /\ o + fill <= N
        BY <1>s, <2>1, <3>1, <4>1 DEF R
      <4> QED
        BY <4>2 DEF o, N
    <3>6. ASSUME NEW i \in 1..Len(buf) PROVE buf[i] = cells[p + n + i]
      <4>1. need + i \in 1..fill /\ r.off + (need + i) = p + n + i
        <5>1. Len(buf) = fill - need
          BY <3>4
        <5>2. need + i \in 1..fill /\ o + (need + i) = p + n + i
          BY <1>s, <2>1, <3>1, <5>1
        <5> QED
          BY <5>2 DEF o
      <4> QED
        BY <2>3, <3>4, <4>1
    <3> QED
      BY <3>2, <3>3, <3>5, <3>6 DEF Buffered
  <2> HIDE DEF off
  <2> QED
    BY <2>8, <2>9, <2>10
<1> QED
  BY <1>2, <1>6, <1>7

\* Writing at the end of a file appends.
LEMMA WriteAtEnd ==
    ASSUME NEW old \in Seq(Cell), NEW new \in Seq(Cell)
    PROVE  /\ WriteAt(old, Len(old), new) \in Seq(Cell)
           /\ Len(WriteAt(old, Len(old), new)) = Len(old) + Len(new)
           /\ \A i \in 1..Len(old) : WriteAt(old, Len(old), new)[i] = old[i]
           /\ \A i \in 1..Len(new) : WriteAt(old, Len(old), new)[Len(old) + i] = new[i]
<1> DEFINE n     == Len(old)
           pad   == [i \in 1..(n - n) |-> Zero]
           front == SubSeq(old \o pad, 1, n)
           tail  == SubSeq(old, n + Len(new) + 1, n)
<1>1. n \in Nat /\ Len(new) \in Nat
  OBVIOUS
<1>2. pad \in Seq(Cell)
  <2>1. 0 \in Nat /\ n - n = 0
    BY <1>1
  <2>2. pad = [i \in 1..0 |-> Zero]
    BY <2>1
  <2> QED
    BY <2>1, <2>2 DEF Cell
<1>3. WriteAt(old, Len(old), new) = front \o new \o tail
  BY DEF WriteAt
<1> HIDE DEF pad
<1>4. /\ old \o pad \in Seq(Cell) /\ Len(old \o pad) = n + Len(pad)
      /\ \A i \in 1..n : (old \o pad)[i] = old[i]
  BY <1>1, <1>2, ConcatProperties
<1>5. front \in Seq(Cell) /\ Len(front) = n /\ \A i \in 1..n : front[i] = old[i]
  <2>1. n <= Len(old \o pad)
    BY <1>1, <1>2, <1>4
  <2>2. front \in Seq(Cell) /\ Len(front) = n /\ \A i \in 1..n : front[i] = (old \o pad)[i]
    BY <1>1, <1>4, <2>1, FirstPart
  <2> QED
    BY <1>4, <2>2
<1>6. tail \in Seq(Cell) /\ Len(tail) = 0
  BY <1>1, Part
<1>7. WriteAt(old, n, new) = front \o new \o tail
  BY <1>3
<1> HIDE DEF front, tail, n
<1> DEFINE both == front \o new
<1>8. /\ both \in Seq(Cell) /\ Len(both) = n + Len(new)
      /\ \A i \in 1..(n + Len(new)) : both[i] = IF i <= n THEN front[i] ELSE new[i - n]
  BY <1>1, <1>5, ConcatProperties
<1>9. both \o tail = both
  <2>1. tail = <<>>
    BY <1>6, EmptySeq
  <2> QED
    BY <1>8, <2>1, ConcatEmptySeq
<1>10. WriteAt(old, n, new) = both
  BY <1>7, <1>9
<1> HIDE DEF both
<1>11. ASSUME NEW i \in 1..n PROVE both[i] = old[i]
  <2>1. i \in 1..(n + Len(new)) /\ i <= n
    BY <1>1
  <2> QED
    BY <1>5, <1>8, <2>1
<1>12. ASSUME NEW i \in 1..Len(new) PROVE both[n + i] = new[i]
  <2>1. n + i \in 1..(n + Len(new)) /\ ~(n + i <= n) /\ (n + i) - n = i
    BY <1>1
  <2> QED
    BY <1>8, <2>1
<1> QED
  BY <1>8, <1>10, <1>11, <1>12 DEF n

\* A message appended to a file that is laid out and not full leaves it laid
\* out.
LEMMA LaidAppend ==
    ASSUME NEW limit \in Nat, NEW cells \in Seq(Cell), Laid(limit, cells), Len(cells) < limit,
           NEW m \in Message, m.len \in MinMsgSize..MaxMsgSize,
           NEW new \in Seq(Cell), Len(new) = Len(cells) + Size(m),
           \A i \in 1..Len(cells) : new[i] = cells[i],
           \A k \in 1..Size(m) : new[Len(cells) + k] = [msg |-> m, at |-> k - 1]
    PROVE  /\ Laid(limit, new)
           /\ \A p : Boundary(cells, p) => Boundary(new, p)
<1>1. Len(cells) \in Nat /\ Size(m) \in Nat \ {0} /\ Len(new) \in Nat
  BY CellsType
<1>2. ASSUME NEW p, Boundary(cells, p) PROVE Boundary(new, p)
  <2>1. p \in 0..Len(cells) /\ (p < Len(cells) => cells[p + 1].at = 0)
    BY <1>2 DEF Boundary
  <2>2. CASE p < Len(cells)
    <3>1. p + 1 \in 1..Len(cells) /\ p \in 0..Len(new)
      BY <1>1, <2>1, <2>2
    <3>2. new[p + 1] = cells[p + 1]
      BY <3>1
    <3> QED
      BY <2>1, <2>2, <3>1, <3>2 DEF Boundary
  <2>3. CASE ~(p < Len(cells))
    <3>1. p = Len(cells) /\ p \in 0..Len(new) /\ 1 \in 1..Size(m)
      BY <1>1, <2>1, <2>3
    <3>2. new[Len(cells) + 1] = [msg |-> m, at |-> 1 - 1]
      BY <3>1
    <3>3. new[p + 1].at = 0
      BY <3>1, <3>2
    <3> QED
      BY <3>1, <3>3 DEF Boundary
  <2> QED
    BY <2>2, <2>3
<1>3. Boundary(new, 0)
  BY <1>2 DEF Laid
<1>4. ASSUME NEW p \in 0..(Len(new) - 1), new[p + 1].at = 0
      PROVE  WholeAt(limit, new, p)
  <2>1. CASE p < Len(cells)
    <3>1. p + 1 \in 1..Len(cells) /\ p \in 0..(Len(cells) - 1)
      BY <1>1, <2>1
    <3>2. new[p + 1] = cells[p + 1]
      BY <3>1
    <3>3. WholeAt(limit, cells, p)
      BY <1>4, <3>1, <3>2 DEF Laid
    <3> DEFINE w == cells[p + 1].msg
    <3>4. /\ w \in Message /\ w.len \in MinMsgSize..MaxMsgSize /\ p < limit
          /\ Boundary(cells, p + Size(w))
          /\ \A k \in 1..Size(w) : cells[p + k] = [msg |-> w, at |-> k - 1]
      BY <3>3 DEF WholeAt
    <3>5. new[p + 1].msg = w
      BY <3>2
    <3> HIDE DEF w
    <3>6. Boundary(new, p + Size(w))
      BY <1>2, <3>4
    <3>7. Size(w) \in Nat
      BY <3>4, CellsType
    <3>8. \A k \in 1..Size(w) : p + k \in 1..Len(cells)
      <4>1. p + Size(w) \in 0..Len(cells)
        BY <3>4 DEF Boundary
      <4> QED
        BY <1>1, <3>1, <3>7, <4>1
    <3>9. \A k \in 1..Size(w) : new[p + k] = [msg |-> w, at |-> k - 1]
      BY <3>4, <3>8
    <3> QED
      BY <3>4, <3>5, <3>6, <3>9 DEF WholeAt
  <2>2. CASE ~(p < Len(cells))
    <3> DEFINE k == p - Len(cells) + 1
    <3>1. k \in 1..Size(m) /\ Len(cells) + k = p + 1
      BY <1>1, <1>4, <2>2
    <3>2. new[p + 1] = [msg |-> m, at |-> k - 1]
      BY <3>1
    <3>3. k - 1 = 0
      BY <1>4, <3>2
    <3>4. p = Len(cells)
      BY <1>1, <1>4, <3>3
    <3>5. new[p + 1].msg = m
      BY <3>2
    <3>6. Boundary(new, p + Size(m))
      BY <1>1, <3>4 DEF Boundary
    <3> QED
      BY <3>4, <3>5, <3>6 DEF WholeAt
  <2> QED
    BY <2>1, <2>2
<1> QED
  BY <1>2, <1>3, <1>4 DEF Laid

\* What readOne returns from a file that is laid out, at the start of a message
\* or the end of the file.
LEMMA ReadAt ==
    ASSUME Typed, Laid(WLimit, CellsOf(readFileNum)), Boundary(CellsOf(readFileNum), readPos),
           readFile # Nil => Buffered(reader, CellsOf(readFileNum), readPos)
    PROVE  /\ readPos < Len(CellsOf(readFileNum)) =>
                \A o \in ReadOutcomes :
                    /\ o.ok
                    /\ o.size = Size(CellsOf(readFileNum)[readPos + 1].msg)
                    /\ o.msg = CellsOf(readFileNum)[readPos + 1].msg
                    /\ Buffered(o.rd, CellsOf(readFileNum), readPos + o.size)
           /\ readPos = Len(CellsOf(readFileNum)) => \A o \in ReadOutcomes : ~o.ok
<1> DEFINE cells == FileAt(files, readFileNum).cells
           start == IF readFile = Nil THEN [off |-> readPos, buf |-> <<>>] ELSE reader
           head  == Fetch(start, cells, 1)
           body(len) == Fetch(head.rd, cells, len)
           outcome(len) ==
              IF len \in MinMsgSize..MaxMsgSize /\ Len(body(len).got) = len
              THEN [ok |-> TRUE, msg |-> MessageOf(head.got \o body(len).got),
                    size |-> len + 1, rd |-> body(len).rd]
              ELSE [ok |-> FALSE]
<1>1. cells \in Seq(Cell) /\ Len(cells) \in Nat
  BY FileAtType DEF File, Typed
<1>2. readPos \in Nat
  BY Constants DEF Typed, PositionsOK
<1>3. start \in Reader /\ Len(start.buf) <= BufSize
  BY <1>2, Constants DEF Typed, HandlesOK, Reader
<1>4. Buffered(start, cells, readPos)
  <2>1. readPos <= Len(cells)
    BY <1>1, <1>2 DEF Boundary, CellsOf
  <2>2. CASE readFile = Nil
    BY <1>2, <2>1, <2>2 DEF Buffered
  <2>3. CASE readFile # Nil
    BY <2>3 DEF CellsOf
  <2> QED
    BY <2>2, <2>3
<1>5. ReadOutcomes = IF (readFile = Nil /\ readFileNum \notin DOMAIN files) \/ head.got = <<>>
                     THEN {[ok |-> FALSE]} ELSE {outcome(len) : len \in LensOf(head.got[1])}
  BY DEF ReadOutcomes
<1>6. CellsOf(readFileNum) = cells /\ Laid(WLimit, cells) /\ Boundary(cells, readPos)
  BY DEF CellsOf
<1>a. readFileNum \notin DOMAIN files => cells = <<>>
  BY DEF FileAt, NoFile
<1> HIDE DEF cells, start
<1>7. /\ head.rd \in Reader /\ Len(head.rd.buf) <= BufSize /\ head.got \in Seq(Cell)
  BY <1>1, <1>3, FetchType
<1>8. ASSUME readPos = Len(cells) PROVE \A o \in ReadOutcomes : ~o.ok
  <2>1. head.got = <<>>
    BY <1>1, <1>2, <1>3, <1>4, <1>8, FetchAt
  <2>2. ReadOutcomes = {[ok |-> FALSE]}
    BY <1>5, <2>1
  <2> QED
    BY <2>2
<1>9. ASSUME readPos < Len(cells), NEW o \in ReadOutcomes
      PROVE  /\ o.ok /\ o.size = Size(cells[readPos + 1].msg)
             /\ o.msg = cells[readPos + 1].msg
             /\ Buffered(o.rd, cells, readPos + o.size)
  <2> DEFINE m == cells[readPos + 1].msg
  <2>1. /\ m \in Message /\ m.len \in MinMsgSize..MaxMsgSize
        /\ readPos + Size(m) <= Len(cells)
        /\ \A k \in 1..Size(m) : cells[readPos + k] = [msg |-> m, at |-> k - 1]
    <3>1. readPos \in 0..(Len(cells) - 1) /\ cells[readPos + 1].at = 0
      BY <1>1, <1>2, <1>6, <1>9 DEF Boundary
    <3>2. WholeAt(WLimit, cells, readPos)
      BY <1>6, <3>1 DEF Laid
    <3> QED
      BY <3>2 DEF WholeAt, Boundary
  <2>2. Cells(m) \in Seq(Cell) /\ Len(Cells(m)) = Size(m) /\ Size(m) \in Nat \ {0}
        /\ \A i \in 1..Size(m) : Cells(m)[i] = [msg |-> m, at |-> i - 1]
    BY <2>1, CellsType
  <2>3. m.len \in Nat \ {0} /\ Size(m) = m.len + 1 /\ m.id # 0
    BY <2>1, Constants DEF Message, Size
  <2> HIDE DEF m
  <2>4. readPos + 1 <= Len(cells) /\ 1 \in Nat \ {0}
    BY <1>1, <1>2, <1>9
  <2>5. /\ Len(head.got) = 1 /\ head.got[1] = cells[readPos + 1]
        /\ Buffered(head.rd, cells, readPos + 1)
    <3>1. /\ Len(head.got) = 1 /\ \A i \in 1..1 : head.got[i] = cells[readPos + i]
          /\ Buffered(head.rd, cells, readPos + 1)
      <4> DEFINE one == 1
      <4>1. one \in Nat \ {0} /\ readPos + one <= Len(cells)
        BY <2>4
      <4> HIDE DEF one
      <4>2. /\ Len(Fetch(start, cells, one).got) = one
            /\ \A i \in 1..one : Fetch(start, cells, one).got[i] = cells[readPos + i]
            /\ Buffered(Fetch(start, cells, one).rd, cells, readPos + one)
        BY <1>1, <1>2, <1>3, <1>4, <4>1, FetchAt
      <4> QED
        BY <4>2 DEF one
    <3> QED
      BY <3>1
  <2>6. head.got[1] = [msg |-> m, at |-> 0] /\ head.got # <<>>
    <3>1. 1 \in 1..Size(m) /\ 1 - 1 = 0
      BY <2>2
    <3>2. cells[readPos + 1] = [msg |-> m, at |-> 1 - 1]
      BY <2>1, <3>1
    <3> QED
      BY <2>5, <3>1, <3>2, EmptySeq
  <2> HIDE DEF head
  <2>7. LensOf(head.got[1]) = {m.len}
    <3>1. m # Garbage
      BY <2>3 DEF Garbage
    <3> QED
      BY <2>6, <3>1 DEF LensOf, Zero
  <2>8. readFileNum \in DOMAIN files
    BY <1>1, <1>2, <1>9, <1>a, EmptySeq
  <2>9. o = outcome(m.len)
    BY <1>5, <2>6, <2>7, <2>8
  <2>10. readPos + 1 \in Nat /\ readPos + 1 + m.len <= Len(cells)
         /\ readPos + 1 + m.len = readPos + Size(m)
    BY <1>1, <1>2, <2>1, <2>3
  <2>11. /\ Len(body(m.len).got) = m.len
         /\ \A i \in 1..m.len : body(m.len).got[i] = cells[readPos + 1 + i]
         /\ Buffered(body(m.len).rd, cells, readPos + 1 + m.len)
         /\ body(m.len).got \in Seq(Cell)
    <3> DEFINE rd == head.rd
               q  == readPos + 1
    <3>1. /\ rd \in Reader /\ Len(rd.buf) <= BufSize /\ Buffered(rd, cells, q)
          /\ q \in Nat /\ q + m.len <= Len(cells)
      BY <1>7, <2>5, <2>10
    <3> HIDE DEF rd, q
    <3>2. Fetch(rd, cells, m.len).got \in Seq(Cell)
      BY <1>1, <2>3, <3>1, FetchType
    <3>3. /\ Len(Fetch(rd, cells, m.len).got) = m.len
          /\ \A i \in 1..m.len : Fetch(rd, cells, m.len).got[i] = cells[q + i]
          /\ Buffered(Fetch(rd, cells, m.len).rd, cells, q + m.len)
      BY <1>1, <2>3, <3>1, FetchAt
    <3> QED
      BY <3>2, <3>3 DEF rd, q
  <2> DEFINE b == body(m.len).got
             c == head.got \o b
  <2>12. c = Cells(m) /\ c[1] = [msg |-> m, at |-> 0]
    <3>1. head.got \in Seq(Cell) /\ b \in Seq(Cell) /\ Len(head.got) = 1 /\ Len(b) = m.len
      BY <1>7, <2>5, <2>11
    <3>2. \A i \in 1..m.len : b[i] = cells[readPos + 1 + i]
      BY <2>11
    <3> HIDE DEF b
    <3>3. /\ c \in Seq(Cell) /\ Len(c) = 1 + m.len
          /\ \A i \in 1..(1 + m.len) : c[i] = IF i <= 1 THEN head.got[i] ELSE b[i - 1]
      <4> DEFINE h == head.got
      <4>1. h \in Seq(Cell) /\ Len(h) = 1
        BY <3>1
      <4> HIDE DEF h
      <4>2. /\ h \o b \in Seq(Cell) /\ Len(h \o b) = Len(h) + Len(b)
            /\ \A i \in 1..(Len(h) + Len(b)) :
                  (h \o b)[i] = IF i <= Len(h) THEN h[i] ELSE b[i - Len(h)]
        BY <3>1, <4>1, ConcatProperties
      <4>3. /\ h \o b \in Seq(Cell) /\ Len(h \o b) = 1 + m.len
            /\ \A i \in 1..(1 + m.len) : (h \o b)[i] = IF i <= 1 THEN h[i] ELSE b[i - 1]
        BY <3>1, <4>1, <4>2
      <4> QED
        BY <4>3 DEF h
    <3> HIDE DEF c
    <3>4. ASSUME NEW i \in 1..Size(m) PROVE c[i] = cells[readPos + i]
      <4>1. CASE i = 1
        BY <2>3, <2>5, <3>3, <4>1
      <4>2. CASE i # 1
        <5>1. i \in 1..(1 + m.len) /\ ~(i <= 1) /\ i - 1 \in 1..m.len
              /\ readPos + 1 + (i - 1) = readPos + i
          BY <1>2, <2>3, <4>2
        <5> QED
          BY <3>2, <3>3, <5>1
      <4> QED
        BY <4>1, <4>2
    <3>5. \A i \in 1..Size(m) : c[i] = Cells(m)[i]
      BY <2>1, <2>2, <3>4
    <3>6. c = Cells(m)
      BY <2>2, <2>3, <3>3, <3>5, SeqEqual
    <3> QED
      BY <2>2, <3>6
  <2> HIDE DEF body
  <2>13. outcome(m.len) = [ok |-> TRUE, msg |-> MessageOf(c), size |-> m.len + 1,
                           rd |-> body(m.len).rd]
    BY <2>1, <2>11
  <2> HIDE DEF c
  <2>14. MessageOf(c) = m
    BY <2>12 DEF MessageOf
  <2> HIDE DEF outcome
  <2>15. o.ok /\ o.size = m.len + 1 /\ o.msg = m /\ o.rd = body(m.len).rd
    BY <2>9, <2>13, <2>14
  <2> QED
    BY <2>3, <2>10, <2>11, <2>15 DEF m
<1> QED
  BY <1>6, <1>8, <1>9

LEMMA Limits ==
    ASSUME Typed
    PROVE  /\ WLimit \in Nat \ {0} /\ MaxBytesPerFile <= WLimit /\ WLimit <= MaxBytesPerFile + 1
           /\ WLimit <= MaxBytesPerFile => setup.copy = "dqueue"
           /\ \A pos \in Int : WRolls(pos) <=> pos >= WLimit
<1>1. setup.copy \in {"diskqueue", "dqueue"} /\ MaxBytesPerFile \in Nat \ {0}
  BY Constants DEF Typed, ControlOK
<1> QED
  BY <1>1 DEF WLimit, WRolls

LEMMA CellsOfType ==
    ASSUME Typed, NEW f
    PROVE  CellsOf(f) \in Seq(Cell) /\ Len(CellsOf(f)) \in Nat
  BY FileAtType DEF CellsOf, File, Typed

LEMMA LaidEmpty ==
    ASSUME NEW limit
    PROVE  Laid(limit, <<>>)
<1>1. Len(<<>>) = 0 /\ 0..(0 - 1) = {}
  OBVIOUS
<1>2. Boundary(<<>>, 0)
  BY <1>1 DEF Boundary
<1> QED
  BY <1>1, <1>2 DEF Laid

\* The place of the read position depends on the cells of the read file only.
LEMMA FrameFiles ==
    ASSUME Typed, Placed, setup' = setup,
           \A f \in Nat : CellsOf(f)' = CellsOf(f),
           DOMAIN files' \subseteq DOMAIN files \cup {writeFileNum},
           UNCHANGED <<readFileNum, readPos, writeFileNum, writePos, bad>>
    PROVE  /\ Span' /\ Layout' /\ BadFull'
           /\ Boundary(CellsOf(readFileNum), readPos)'
<1>1. readFileNum \in Nat /\ writeFileNum \in Nat
  BY DEF Typed, PositionsOK
<1>2. WLimit' = WLimit
  BY DEF WLimit
<1>3. Layout'
  BY <1>2 DEF Placed, Layout
<1>4. BadFull'
  BY DEF Placed, BadFull
<1>5. Boundary(CellsOf(readFileNum), readPos)'
  <2>1. CellsOf(readFileNum)' = CellsOf(readFileNum)
    BY <1>1 DEF CellsOf
  <2> QED
    BY <2>1 DEF Placed, ReadPlace, Boundary
<1>6. Span'
  <2>1. CellsOf(writeFileNum)' = CellsOf(writeFileNum)
    BY <1>1 DEF CellsOf
  <2>2. /\ readFileNum <= writeFileNum
        /\ DOMAIN files \subseteq readFileNum..writeFileNum
        /\ \A f \in readFileNum..(writeFileNum - 1) : Len(CellsOf(f)) >= WLimit
        /\ writePos = Len(CellsOf(writeFileNum)) /\ writePos < WLimit
    BY DEF Placed, Span
  <2>3. DOMAIN files' \subseteq readFileNum..writeFileNum
    BY <1>1, <2>2
  <2>4. \A f \in readFileNum..(writeFileNum - 1) : f \in Nat
    BY <1>1
  <2>5. \A f \in readFileNum..(writeFileNum - 1) : Len(CellsOf(f)') >= WLimit'
    BY <1>2, <2>2, <2>4
  <2> QED
    BY <1>2, <2>1, <2>2, <2>3, <2>5 DEF Span
<1> QED
  BY <1>3, <1>4, <1>5, <1>6

\* And a step that moves neither position, and leaves the reader or closes it.
LEMMA FrameRead ==
    ASSUME Typed, Placed, setup' = setup,
           \A f \in Nat : CellsOf(f)' = CellsOf(f),
           DOMAIN files' \subseteq DOMAIN files \cup {writeFileNum},
           UNCHANGED <<readFileNum, readPos, writeFileNum, writePos, bad,
                       nextReadFileNum, nextReadPos, dataRead>>,
           readFile' = Nil \/ UNCHANGED <<readFile, reader>>
    PROVE  /\ Span' /\ Layout' /\ BadFull' /\ ReadPlace' /\ ReaderPlace'
           /\ Loaded => Loaded'
<1>1. Span' /\ Layout' /\ BadFull' /\ Boundary(CellsOf(readFileNum), readPos)'
  BY FrameFiles
<1>2. CellsOf(readFileNum)' = CellsOf(readFileNum)
  BY DEF CellsOf, Typed, PositionsOK
<1>3. Loaded => Loaded'
  BY <1>2 DEF Loaded
<1>4. ReadPlace'
  BY <1>1, <1>3 DEF Placed, ReadPlace, Fresh
<1>5. ReaderPlace'
  <2>1. CASE readFile' = Nil
    BY <2>1 DEF ReaderPlace
  <2>2. CASE UNCHANGED <<readFile, reader>>
    BY <1>2, <2>2 DEF Placed, ReaderPlace, Buffered
  <2> QED
    BY <2>1, <2>2
<1> QED
  BY <1>1, <1>3, <1>4, <1>5

LEMMA SyncCells ==
    ASSUME Typed, Sync
    PROVE  /\ \A f \in Nat : CellsOf(f)' = CellsOf(f)
           /\ DOMAIN files' = DOMAIN files
           /\ bad' = bad
           /\ meta' = [depth |-> depth, rf |-> readFileNum, rp |-> readPos,
                       wf |-> writeFileNum, wp |-> writePos]
<1>1. CASE writeFile \notin DOMAIN files
  BY <1>1 DEF Sync, FsyncWriteFile, PersistMetaData, CellsOf
<1>2. CASE writeFile \in DOMAIN files
  <2> DEFINE file == [files[writeFile] EXCEPT !.synced = Len(files[writeFile].cells)]
  <2>1. files[writeFile] \in File
    BY <1>2 DEF Typed, FilesOK
  <2>2. file.cells = files[writeFile].cells
    BY <2>1 DEF File
  <2>3. files' = SetFile(files, writeFile, file)
    BY <1>2 DEF Sync, FsyncWriteFile
  <2> HIDE DEF file
  <2>4. DOMAIN files' = DOMAIN files /\ \A f \in DOMAIN files : files'[f].cells = files[f].cells
    BY <1>2, <2>2, <2>3 DEF SetFile
  <2>5. \A f \in Nat : CellsOf(f)' = CellsOf(f)
    BY <2>4 DEF CellsOf, FileAt
  <2> QED
    BY <2>4, <2>5 DEF Sync, FsyncWriteFile, PersistMetaData
<1> QED
  BY <1>1, <1>2

\* The message at the read position, once read.
LEMMA LoadedAt ==
    ASSUME Typed, Placed, Loaded
    PROVE  LET cells == CellsOf(readFileNum)
               next  == readPos + Size(cells[readPos + 1].msg)
           IN  /\ next \in Nat
               /\ Boundary(cells, next)
               /\ next > MaxBytesPerFile => readFileNum < writeFileNum /\ next = Len(cells)
               /\ \A i \in (readPos + 2)..next : cells[i].at # 0
               /\ dataRead \in Message /\ cells[readPos + 1].at = 0
<1> DEFINE cells == CellsOf(readFileNum)
           m     == cells[readPos + 1].msg
           next  == readPos + Size(m)
<1>1. /\ cells \in Seq(Cell) /\ Len(cells) \in Nat /\ readPos \in Nat
      /\ readFileNum \in Nat /\ writeFileNum \in Nat /\ MaxBytesPerFile \in Nat
  BY CellsOfType, Constants DEF Typed, PositionsOK
<1>2. Laid(WLimit, cells) /\ Boundary(cells, readPos) /\ readPos < Len(cells)
  BY <1>1 DEF Placed, Layout, ReadPlace, Loaded
<1>3. WholeAt(WLimit, cells, readPos)
  <2>1. readPos \in 0..(Len(cells) - 1) /\ cells[readPos + 1].at = 0
    BY <1>1, <1>2 DEF Boundary
  <2> QED
    BY <1>2, <2>1 DEF Laid
<1>4. Boundary(cells, next) /\ m \in Message
  BY <1>3 DEF WholeAt
<1>5. next \in Nat
  BY <1>1, <1>4, CellsType
<1>6. /\ WLimit \in Nat /\ WLimit <= MaxBytesPerFile + 1
      /\ readFileNum <= writeFileNum
      /\ writePos = Len(CellsOf(writeFileNum)) /\ writePos < WLimit
  BY Limits DEF Placed, Span
<1> HIDE DEF next
<1>7. ASSUME next > MaxBytesPerFile PROVE readFileNum < writeFileNum /\ next = Len(cells)
  <2>1. next = Len(cells)
    <3> SUFFICES ASSUME next # Len(cells) PROVE FALSE
      OBVIOUS
    <3>1. next \in 0..(Len(cells) - 1) /\ cells[next + 1].at = 0
      BY <1>1, <1>4, <1>5 DEF Boundary
    <3>2. WholeAt(WLimit, cells, next)
      BY <1>2, <3>1 DEF Laid
    <3>3. next < WLimit
      BY <3>2 DEF WholeAt
    <3> QED
      BY <1>1, <1>5, <1>6, <1>7, <3>3
  <2>2. CASE readFileNum = writeFileNum
    <3>1. writePos = next
      BY <1>6, <2>1, <2>2
    <3> QED
      BY <1>1, <1>5, <1>6, <1>7, <3>1
  <2> QED
    BY <1>1, <1>6, <2>1, <2>2
<1>8. ASSUME NEW i \in (readPos + 2)..next PROVE cells[i].at # 0
  <2>1. \A k \in 1..Size(m) : cells[readPos + k] = [msg |-> m, at |-> k - 1]
    BY <1>3 DEF WholeAt
  <2>2. Size(m) \in Nat
    BY <1>4, CellsType
  <2>3. PICK k \in 1..Size(m) : i = readPos + k /\ k - 1 # 0
    <3>1. i - readPos \in 1..Size(m) /\ i = readPos + (i - readPos) /\ (i - readPos) - 1 # 0
      BY <1>1, <2>2 DEF next
    <3> QED
      BY <3>1
  <2>4. cells[i] = [msg |-> m, at |-> k - 1]
    BY <2>1, <2>3
  <2> QED
    BY <2>3, <2>4
<1>9. dataRead = m /\ cells[readPos + 1].at = 0
  BY <1>1, <1>2 DEF Loaded, Boundary
<1> QED
  BY <1>4, <1>5, <1>7, <1>8, <1>9 DEF next

\* Leaving the read file for the next one, and removing it.
LEMMA NextFile ==
    ASSUME Typed, Placed, readFileNum < writeFileNum, setup' = setup,
           files' = Removed(files, {readFileNum}),
           readFileNum' = readFileNum + 1, readPos' = 0,
           UNCHANGED <<writeFileNum, writePos>>
    PROVE  Span' /\ Layout' /\ Boundary(CellsOf(readFileNum), readPos)'
<1>1. readFileNum \in Nat /\ writeFileNum \in Nat
  BY DEF Typed, PositionsOK
<1>2. WLimit' = WLimit
  BY DEF WLimit
<1>3. \A f \in Nat : CellsOf(f)' = IF f = readFileNum THEN <<>> ELSE CellsOf(f)
  BY DEF CellsOf, FileAt, Removed, NoFile
<1>4. Layout'
  <2>1. ASSUME NEW f \in Nat PROVE Laid(WLimit, CellsOf(f)')
    BY <1>3, LaidEmpty DEF Placed, Layout
  <2> QED
    BY <1>2, <2>1 DEF Layout
<1>5. Boundary(CellsOf(readFileNum), readPos)'
  <2>1. readFileNum' \in Nat
    BY <1>1
  <2>2. Laid(WLimit', CellsOf(readFileNum)')
    BY <1>4, <2>1 DEF Layout, CellsOf
  <2> QED
    BY <2>2 DEF Laid
<1>6. Span'
  <2>1. /\ DOMAIN files \subseteq readFileNum..writeFileNum
        /\ \A f \in readFileNum..(writeFileNum - 1) : Len(CellsOf(f)) >= WLimit
        /\ writePos = Len(CellsOf(writeFileNum)) /\ writePos < WLimit
    BY DEF Placed, Span
  <2>2. DOMAIN files' \subseteq (readFileNum + 1)..writeFileNum
    BY <1>1, <2>1 DEF Removed
  <2>3. \A f \in (readFileNum + 1)..(writeFileNum - 1) :
          f \in readFileNum..(writeFileNum - 1) /\ f \in Nat /\ f # readFileNum
    BY <1>1
  <2>4. \A f \in (readFileNum + 1)..(writeFileNum - 1) : Len(CellsOf(f)') >= WLimit'
    BY <1>2, <1>3, <2>1, <2>3
  <2>5. readFileNum # writeFileNum /\ readFileNum + 1 <= writeFileNum
    BY <1>1
  <2>6. CellsOf(writeFileNum)' = CellsOf(writeFileNum)
    BY <1>1, <1>3, <2>5 DEF CellsOf
  <2> QED
    BY <1>2, <2>1, <2>2, <2>4, <2>5, <2>6 DEF Span
<1> QED
  BY <1>4, <1>5, <1>6

\* Starting again in a new file, the others being removed.
LEMMA SkipPlaced ==
    ASSUME Typed, Placed, NEW fs, NEW rf, setup' = setup, bad' = bad, pc' # "down",
           pc' # "select",
           \/ fs = files /\ rf = readFileNum
           \/ fs = Removed(files, {readFileNum}) /\ rf = readFileNum + 1,
           SkipToNextRWFile(fs, rf)
    PROVE  Placed'
<1>1. readFileNum \in Nat /\ writeFileNum \in Nat
  BY DEF Typed, PositionsOK
<1>2. DOMAIN files \subseteq readFileNum..writeFileNum
  BY DEF Placed, Span
<1>3. DOMAIN fs \subseteq rf..writeFileNum
  <2>1. CASE fs = files /\ rf = readFileNum
    BY <1>2, <2>1
  <2>2. CASE fs = Removed(files, {readFileNum}) /\ rf = readFileNum + 1
    BY <1>1, <1>2, <2>2 DEF Removed
  <2> QED
    BY <2>1, <2>2
<1>4. DOMAIN files' = {}
  BY <1>3 DEF SkipToNextRWFile, Removed
<1>5. /\ readFileNum' = writeFileNum + 1 /\ writeFileNum' = writeFileNum + 1
      /\ nextReadFileNum' = writeFileNum + 1
      /\ readPos' = 0 /\ writePos' = 0 /\ nextReadPos' = 0 /\ readFile' = Nil
  BY DEF SkipToNextRWFile
<1>6. WLimit' = WLimit /\ WLimit \in Nat \ {0}
  BY Limits DEF WLimit
<1>7. \A f : CellsOf(f)' = <<>>
  BY <1>4 DEF CellsOf, FileAt, NoFile
<1>8. Layout'
  BY <1>7, LaidEmpty DEF Layout
<1>9. Boundary(<<>>, 0)
  BY LaidEmpty DEF Laid
<1>10. CellsOf(readFileNum)' = <<>> /\ CellsOf(writeFileNum)' = <<>>
  BY <1>4 DEF CellsOf, FileAt, NoFile
<1>11. ReadPlace' /\ ReaderPlace' /\ Offered' /\ Stored' /\ BadFull'
  BY <1>5, <1>9, <1>10 DEF ReadPlace, Fresh, ReaderPlace, Offered, Stored, Placed, BadFull
<1>12. Span'
  <2>1. (writeFileNum + 1)..(writeFileNum + 1 - 1) = {} /\ writeFileNum + 1 <= writeFileNum + 1
    BY <1>1
  <2>2. 0 = Len(<<>>) /\ 0 < WLimit
    BY <1>6
  <2> QED
    BY <1>4, <1>5, <1>6, <1>10, <2>1, <2>2 DEF Span
<1> QED
  BY <1>8, <1>11, <1>12 DEF Placed

LEMMA ReadOnePlaced ==
    ASSUME Typed, Placed, ReadOne
    PROVE  Placed'
<1>1. /\ pc' = "select" /\ CanRead /\ nextReadPos = readPos
      /\ UNCHANGED <<readFileNum, readPos, writeFileNum, writePos, files, bad, setup>>
  BY DEF ReadOne, ReadOneTo, writeVars, disk, bounds
<1>2. PICK o \in ReadOutcomes :
        /\ o.ok
        /\ dataRead' = o.msg
        /\ IF readPos + o.size > MaxBytesPerFile
              THEN /\ readFile' = Nil /\ reader' = NoReader
                   /\ nextReadFileNum' = readFileNum + 1 /\ nextReadPos' = 0
              ELSE /\ readFile' = readFileNum /\ reader' = o.rd
                   /\ nextReadFileNum' = readFileNum
                   /\ nextReadPos' = readPos + o.size
  BY DEF ReadOne, ReadOneTo, RollsAfter
<1> DEFINE cells == CellsOf(readFileNum)
<1>3. /\ \A f \in Nat : CellsOf(f)' = CellsOf(f)
      /\ DOMAIN files' \subseteq DOMAIN files \cup {writeFileNum}
  BY <1>1 DEF CellsOf
<1>4. Span' /\ Layout' /\ BadFull' /\ Boundary(CellsOf(readFileNum), readPos)'
  BY <1>1, <1>3, FrameFiles
<1>5. /\ Laid(WLimit, cells) /\ Boundary(cells, readPos)
      /\ readFile # Nil => Buffered(reader, cells, readPos)
  BY <1>1 DEF Placed, Layout, ReadPlace, ReaderPlace, Typed, PositionsOK
<1>6. readPos < Len(cells)
  <2>1. ~(readPos = Len(cells))
    BY <1>2, <1>5, ReadAt
  <2>2. readPos \in 0..Len(cells) /\ Len(cells) \in Nat
    BY <1>5, CellsOfType DEF Boundary
  <2> HIDE DEF cells
  <2> QED
    BY <2>1, <2>2
<1>7. /\ o.size = Size(cells[readPos + 1].msg) /\ Buffered(o.rd, cells, readPos + o.size)
      /\ o.msg = cells[readPos + 1].msg
  BY <1>2, <1>5, <1>6, ReadAt
<1>8. CellsOf(readFileNum)' = cells
  BY <1>1 DEF CellsOf
<1> HIDE DEF cells
<1>9. Loaded'
  BY <1>1, <1>2, <1>6, <1>7, <1>8 DEF Loaded
<1>10. ReaderPlace'
  BY <1>1, <1>2, <1>7, <1>8 DEF ReaderPlace
<1> QED
  BY <1>1, <1>4, <1>9, <1>10 DEF Placed, ReadPlace, Offered, Stored

LEMMA ReadErrorPlaced ==
    ASSUME Typed, Placed, ReadError
    PROVE  Placed'
<1> DEFINE cells == CellsOf(readFileNum)
<1>1. /\ CanRead /\ nextReadPos = readPos /\ setup' = setup /\ pc' = "loop"
      /\ readFile' = Nil
      /\ readFileNum' = readFileNum + 1 /\ readPos' = 0
      /\ nextReadFileNum' = readFileNum + 1 /\ nextReadPos' = 0
      /\ files' = Removed(files, {readFileNum})
      /\ bad' = [f \in DOMAIN bad \cup ({readFileNum} \cap DOMAIN files) |->
                    IF f \in DOMAIN bad THEN bad[f] ELSE files[f].cells]
      /\ readFileNum # writeFileNum => UNCHANGED <<writeFileNum, writePos>>
  BY DEF ReadError, bounds, writeVars
<1>2. PICK o \in ReadOutcomes : ~o.ok
  BY DEF ReadError
<1>3. /\ Laid(WLimit, cells) /\ Boundary(cells, readPos)
      /\ readFile # Nil => Buffered(reader, cells, readPos)
  BY <1>1 DEF Placed, Layout, ReadPlace, ReaderPlace, Typed, PositionsOK
<1>4. /\ readPos \in 0..Len(cells) /\ Len(cells) \in Nat /\ readPos \in 0..MaxBytesPerFile
      /\ readFileNum \in Nat /\ writeFileNum \in Nat /\ MaxBytesPerFile \in Nat
      /\ writePos \in Nat
  BY <1>3, CellsOfType, Constants DEF Boundary, Typed, PositionsOK
<1>5. ~(readPos < Len(cells))
  BY <1>2, <1>3, ReadAt
<1>6. /\ readFileNum <= writeFileNum
      /\ \A f \in readFileNum..(writeFileNum - 1) : Len(CellsOf(f)) >= WLimit
      /\ writePos = Len(CellsOf(writeFileNum))
  BY DEF Placed, Span
<1>7. readFileNum < writeFileNum
  <2>1. ASSUME readFileNum = writeFileNum PROVE FALSE
    <3>1. writePos = Len(cells)
      BY <1>6, <2>1
    <3> HIDE DEF cells
    <3> QED
      BY <1>1, <1>4, <1>5, <2>1, <3>1 DEF CanRead
  <2> QED
    BY <1>4, <1>6, <2>1
<1>8. Len(cells) >= WLimit
  <2>1. readFileNum \in readFileNum..(writeFileNum - 1)
    BY <1>4, <1>7
  <2> QED
    BY <1>6, <2>1
<1>9. Len(cells) = MaxBytesPerFile /\ setup.copy = "dqueue"
  <2> HIDE DEF cells
  <2>1. /\ WLimit \in Nat /\ MaxBytesPerFile <= WLimit
        /\ WLimit <= MaxBytesPerFile => setup.copy = "dqueue"
    BY Limits
  <2>2. Len(cells) = MaxBytesPerFile /\ WLimit <= MaxBytesPerFile
    BY <1>4, <1>5, <1>8, <2>1
  <2> QED
    BY <2>1, <2>2
<1>10. BadFull'
  <2> SUFFICES ASSUME NEW f \in DOMAIN bad'
               PROVE  setup'.copy = "dqueue" /\ Len(bad'[f]) = MaxBytesPerFile
    BY DEF BadFull
  <2>1. CASE f \in DOMAIN bad
    BY <1>1, <2>1 DEF Placed, BadFull
  <2>2. CASE f \notin DOMAIN bad
    <3>1. f = readFileNum /\ f \in DOMAIN files /\ bad'[f] = files[f].cells
      BY <1>1, <2>2
    <3>2. bad'[f] = cells
      BY <3>1 DEF CellsOf, FileAt
    <3> QED
      BY <1>1, <1>9, <3>2
  <2> QED
    BY <2>1, <2>2
<1>11. UNCHANGED <<writeFileNum, writePos>>
  BY <1>1, <1>4, <1>7
<1>12. Span' /\ Layout' /\ Boundary(CellsOf(readFileNum), readPos)'
  BY <1>1, <1>7, <1>11, NextFile
<1> QED
  BY <1>1, <1>10, <1>12 DEF Placed, ReadPlace, Fresh, Offered, ReaderPlace, Stored

LEMMA DeliverPlaced ==
    ASSUME Typed, Placed, Deliver
    PROVE  Placed'
<1>1. /\ pc = "select" /\ CanRead /\ pc' = "loop" /\ setup' = setup /\ bad' = bad
      /\ \/ files' = AfterRead /\ \E d : Advance(d)
         \/ SkipToNextRWFile(AfterRead, nextReadFileNum)
  BY DEF Deliver, MoveForward, bounds
<1>2. Loaded
  BY <1>1 DEF Placed, Offered
<1> DEFINE cells == CellsOf(readFileNum)
           next  == readPos + Size(cells[readPos + 1].msg)
<1>3. /\ next \in Nat /\ Boundary(cells, next)
      /\ next > MaxBytesPerFile => readFileNum < writeFileNum
  BY <1>2, LoadedAt
<1>4. IF next > MaxBytesPerFile
      THEN nextReadFileNum = readFileNum + 1 /\ nextReadPos = 0
      ELSE nextReadFileNum = readFileNum /\ nextReadPos = next
  BY <1>2 DEF Loaded
<1> HIDE DEF next, cells
<1>5. readFileNum \in Nat /\ readFileNum + 1 # readFileNum
  BY DEF Typed, PositionsOK
<1>6. CASE files' = AfterRead /\ \E d : Advance(d)
  <2>1. /\ readFileNum' = nextReadFileNum /\ readPos' = nextReadPos
        /\ UNCHANGED <<nextReadFileNum, nextReadPos, writeFileNum, writePos, readFile, reader>>
    BY <1>6 DEF Advance, writeVars, handles
  <2>2. CASE next > MaxBytesPerFile
    <3>1. nextReadFileNum = readFileNum + 1 /\ nextReadPos = 0
      BY <1>4, <2>2
    <3>2. files' = Removed(files, {readFileNum})
      BY <1>5, <1>6, <3>1 DEF AfterRead
    <3>3. readFileNum < writeFileNum
      BY <1>3, <2>2
    <3>4. Span' /\ Layout' /\ Boundary(CellsOf(readFileNum), readPos)'
      BY <1>1, <2>1, <3>1, <3>2, <3>3, NextFile
    <3>5. readFile = Nil
      BY <1>5, <3>1 DEF Placed, ReaderPlace
    <3>6. BadFull'
      BY <1>1 DEF Placed, BadFull
    <3> QED
      BY <1>1, <2>1, <3>4, <3>5, <3>6
         DEF Placed, ReadPlace, Fresh, Offered, ReaderPlace, Stored
  <2>3. CASE ~(next > MaxBytesPerFile)
    <3>1. nextReadFileNum = readFileNum /\ nextReadPos = next
      BY <1>4, <2>3
    <3>2. files' = files
      BY <1>6, <3>1 DEF AfterRead
    <3>3. readFileNum' = readFileNum /\ readPos' = next
      BY <2>1, <3>1
    <3>4. CellsOf(readFileNum)' = cells /\ CellsOf(writeFileNum)' = CellsOf(writeFileNum)
      BY <2>1, <3>2, <3>3 DEF CellsOf, cells
    <3>5. WLimit' = WLimit /\ \A f \in Nat : CellsOf(f)' = CellsOf(f)
      BY <1>1, <3>2 DEF WLimit, CellsOf
    <3>6. Layout'
      BY <3>5 DEF Placed, Layout
    <3>7. Span'
      <4>1. \A f \in readFileNum..(writeFileNum - 1) : f \in Nat
        BY DEF Typed, PositionsOK
      <4> QED
        BY <2>1, <3>2, <3>3, <3>4, <3>5, <4>1 DEF Placed, Span
    <3>8. ReadPlace'
      BY <1>3, <2>1, <3>3, <3>4 DEF ReadPlace, Fresh
    <3>9. ReaderPlace'
      BY <2>1, <3>1, <3>3, <3>4 DEF Placed, ReaderPlace, cells
    <3> QED
      BY <1>1, <3>6, <3>7, <3>8, <3>9 DEF Placed, Offered, Stored, BadFull
  <2> QED
    BY <2>2, <2>3
<1>7. CASE SkipToNextRWFile(AfterRead, nextReadFileNum)
  <2>1. \/ AfterRead = files /\ nextReadFileNum = readFileNum
        \/ AfterRead = Removed(files, {readFileNum}) /\ nextReadFileNum = readFileNum + 1
    BY <1>4, <1>5 DEF AfterRead
  <2> QED
    BY <1>1, <1>7, <2>1, SkipPlaced
<1> QED
  BY <1>1, <1>6, <1>7

LEMMA WriteOnePlaced ==
    ASSUME Typed, Placed, NEW len \in Lens, WriteOne(len, WRolls)
    PROVE  Placed'
<1> DEFINE m    == [id |-> puts + 1, len |-> len]
           old  == CellsOf(writeFileNum)
           new  == WriteAt(old, writePos, Cells(m))
           file == [cells |-> new, synced |-> Min({FileAt(files, writeFileNum).synced, writePos})]
<1>1. /\ pc' \in {"loop", "roll"} /\ puts < MaxPuts /\ len \in MinMsgSize..MaxMsgSize
      /\ UNCHANGED <<readFileNum, readPos, nextReadFileNum, nextReadPos, readFile, reader,
                     bad, setup, dataRead>>
  BY DEF WriteOne, readVars
<1>2. /\ files' = SetFile(files, writeFileNum, file)
      /\ \/ WRolls(Written(m)) /\ writeFileNum' = writeFileNum + 1 /\ writePos' = 0
         \/ ~WRolls(Written(m)) /\ writePos' = Written(m) /\ writeFileNum' = writeFileNum
  BY DEF WriteOne, CellsOf
<1>3. m \in Message /\ m.len \in MinMsgSize..MaxMsgSize
  <2>1. puts + 1 \in 1..MaxPuts
    BY <1>1, Constants DEF Typed, ControlOK
  <2> QED
    BY <1>1, <2>1 DEF Message
<1>4. /\ Cells(m) \in Seq(Cell) /\ Len(Cells(m)) = Size(m) /\ Size(m) \in Nat \ {0}
      /\ \A i \in 1..Size(m) : Cells(m)[i] = [msg |-> m, at |-> i - 1]
  BY <1>3, CellsType
<1> HIDE DEF m
<1>5. /\ readFileNum \in Nat /\ writeFileNum \in Nat /\ old \in Seq(Cell) /\ Len(old) \in Nat
      /\ WLimit \in Nat
  BY CellsOfType, Limits DEF Typed, PositionsOK
<1>6. /\ readFileNum <= writeFileNum
      /\ DOMAIN files \subseteq readFileNum..writeFileNum
      /\ \A f \in readFileNum..(writeFileNum - 1) : Len(CellsOf(f)) >= WLimit
      /\ writePos = Len(old) /\ writePos < WLimit
  BY DEF Placed, Span
<1>7. /\ new \in Seq(Cell) /\ Len(new) = Len(old) + Size(m)
      /\ \A i \in 1..Len(old) : new[i] = old[i]
      /\ \A i \in 1..Size(m) : new[Len(old) + i] = [msg |-> m, at |-> i - 1]
  <2>1. new = WriteAt(old, Len(old), Cells(m))
    BY <1>6
  <2> HIDE DEF old, new
  <2> DEFINE c == Cells(m)
  <2>2. c \in Seq(Cell) /\ Len(c) = Size(m) /\ \A i \in 1..Size(m) : c[i] = [msg |-> m, at |-> i - 1]
    BY <1>4
  <2>3. new = WriteAt(old, Len(old), c)
    BY <2>1
  <2> HIDE DEF c
  <2>4. /\ new \in Seq(Cell) /\ Len(new) = Len(old) + Len(c)
        /\ \A i \in 1..Len(old) : new[i] = old[i]
        /\ \A i \in 1..Len(c) : new[Len(old) + i] = c[i]
    BY <1>5, <2>2, <2>3, WriteAtEnd
  <2> QED
    BY <2>2, <2>4
<1>8. Laid(WLimit, new) /\ \A p : Boundary(old, p) => Boundary(new, p)
  <2>1. Laid(WLimit, old) /\ Len(old) < WLimit
    BY <1>5, <1>6 DEF Placed, Layout
  <2> HIDE DEF old, new
  <2> QED
    BY <1>3, <1>5, <1>7, <2>1, LaidAppend
<1>9. \A f \in Nat : FileAt(files', f).cells = IF f = writeFileNum THEN new ELSE CellsOf(f)
  BY <1>2 DEF CellsOf, FileAt, SetFile
<1>10. DOMAIN files' = DOMAIN files \cup {writeFileNum} /\ WLimit' = WLimit
  BY <1>1, <1>2 DEF SetFile, WLimit
<1> HIDE DEF new, file
<1>11. Layout'
  <2>1. ASSUME NEW f \in Nat PROVE Laid(WLimit, FileAt(files', f).cells)
    BY <1>8, <1>9 DEF Placed, Layout
  <2> QED
    BY <1>10, <2>1 DEF Layout, CellsOf
<1>12. Written(m) = Len(new) /\ (WRolls(Written(m)) <=> Len(new) >= WLimit)
  <2>1. Written(m) = Len(old) + Size(m) /\ Written(m) \in Int
    BY <1>4, <1>5, <1>6 DEF Written
  <2> QED
    BY <1>7, <2>1, Limits
<1>13. Span'
  <2>1. \A f \in readFileNum..(writeFileNum - 1) : f \in Nat /\ f # writeFileNum
    BY <1>5
  <2>2. \A f \in readFileNum..(writeFileNum - 1) : Len(FileAt(files', f).cells) >= WLimit
    BY <1>6, <1>9, <2>1
  <2>3. CASE WRolls(Written(m)) /\ writeFileNum' = writeFileNum + 1 /\ writePos' = 0
    <3>1. writeFileNum + 1 \notin DOMAIN files' /\ writeFileNum + 1 # writeFileNum
      BY <1>5, <1>6, <1>10
    <3>2. CellsOf(writeFileNum)' = <<>>
      BY <2>3, <3>1 DEF CellsOf, FileAt, NoFile
    <3>3. Len(new) >= WLimit
      BY <1>12, <2>3
    <3>4. \A f \in readFileNum..writeFileNum : f \in readFileNum..(writeFileNum - 1) \/ f = writeFileNum
      BY <1>5
    <3>5. \A f \in readFileNum..writeFileNum : Len(FileAt(files', f).cells) >= WLimit
      BY <1>5, <1>9, <2>2, <3>3, <3>4
    <3>6. DOMAIN files' \subseteq readFileNum..(writeFileNum + 1) /\ readFileNum <= writeFileNum + 1
          /\ (writeFileNum + 1) - 1 = writeFileNum
      BY <1>5, <1>6, <1>10
    <3>7. 0 = Len(<<>>) /\ 0 < WLimit
      BY Limits
    <3>8. writePos' = Len(CellsOf(writeFileNum)') /\ writePos' < WLimit'
      BY <1>10, <2>3, <3>2, <3>7
    <3> QED
      BY <1>1, <1>10, <2>3, <3>5, <3>6, <3>8 DEF Span, CellsOf
  <2>4. CASE ~WRolls(Written(m)) /\ writePos' = Written(m) /\ writeFileNum' = writeFileNum
    <3>1. CellsOf(writeFileNum)' = new
      BY <1>5, <1>9, <2>4 DEF CellsOf
    <3>2. Len(new) < WLimit
      BY <1>5, <1>7, <1>12, <2>4
    <3>3. DOMAIN files' \subseteq readFileNum..writeFileNum
      BY <1>5, <1>6, <1>10
    <3>4. writePos' = Len(CellsOf(writeFileNum)') /\ writePos' < WLimit'
      BY <1>10, <1>12, <2>4, <3>1, <3>2
    <3> QED
      BY <1>1, <1>6, <1>10, <2>2, <2>4, <3>3, <3>4 DEF Span, CellsOf
  <2> QED
    BY <1>2, <2>3, <2>4
<1> DEFINE was == CellsOf(readFileNum)
           is  == FileAt(files', readFileNum).cells
<1>14. /\ is = was \/ (is = new /\ was = old)
       /\ was \in Seq(Cell) /\ Len(was) \in Nat
  BY <1>5, <1>9, CellsOfType
<1> HIDE DEF was, is, old
<1>15. /\ Len(is) \in Nat /\ Len(was) <= Len(is)
       /\ \A i \in 1..Len(was) : is[i] = was[i]
       /\ \A p : Boundary(was, p) => Boundary(is, p)
  BY <1>4, <1>5, <1>7, <1>8, <1>14
<1>16. CellsOf(readFileNum)' = is
  BY <1>1 DEF CellsOf, is
<1>17. readPos \in Nat /\ nextReadPos \in Nat
  BY Constants DEF Typed, PositionsOK
<1>18. Loaded => Loaded'
  <2> SUFFICES ASSUME Loaded PROVE Loaded'
    OBVIOUS
  <2>1. readPos < Len(was)
    BY DEF Loaded, was
  <2>2. readPos + 1 \in 1..Len(was) /\ readPos < Len(is)
    BY <1>14, <1>15, <1>17, <2>1
  <2>3. is[readPos + 1] = was[readPos + 1]
    BY <1>15, <2>2
  <2> QED
    BY <1>1, <1>16, <2>2, <2>3 DEF Loaded, was
<1>19. ReadPlace'
  <2>1. Boundary(is, readPos)
    BY <1>15 DEF Placed, ReadPlace, was
  <2> QED
    BY <1>1, <1>16, <1>18, <2>1 DEF Placed, ReadPlace, Fresh
<1>20. ReaderPlace'
  <2> SUFFICES ASSUME readFile # Nil PROVE ReaderPlace'
    BY <1>1 DEF ReaderPlace
  <2>1. readFile = readFileNum /\ nextReadFileNum = readFileNum
        /\ Buffered(reader, was, nextReadPos)
    BY DEF Placed, ReaderPlace, was
  <2>2. reader.off \in Nat /\ Len(reader.buf) \in Nat
    BY DEF Typed, HandlesOK, Reader
  <2>3. /\ reader.off = nextReadPos + Len(reader.buf) /\ reader.off <= Len(was)
        /\ \A i \in 1..Len(reader.buf) : reader.buf[i] = was[nextReadPos + i]
    BY <2>1 DEF Buffered
  <2>4. reader.off <= Len(is)
    BY <1>14, <1>15, <2>2, <2>3
  <2>5. \A i \in 1..Len(reader.buf) : nextReadPos + i \in 1..Len(was)
    <3>1. nextReadPos + Len(reader.buf) <= Len(was)
      BY <2>3
    <3> QED
      BY <1>14, <1>17, <2>2, <3>1
  <2>6. Buffered(reader, is, nextReadPos)
    BY <1>15, <2>3, <2>4, <2>5 DEF Buffered
  <2> QED
    BY <1>1, <1>16, <2>1, <2>6 DEF ReaderPlace
<1>21. BadFull' /\ Offered' /\ Stored'
  BY <1>1 DEF Placed, BadFull, Offered, Stored
<1> QED
  BY <1>11, <1>13, <1>19, <1>20, <1>21 DEF Placed

LEMMA PlacedStep == ASSUME Typed, Placed, Step, crashes' = 0 PROVE Placed'
<1>0. ASSUME files' = files
      PROVE  /\ \A f \in Nat : CellsOf(f)' = CellsOf(f)
             /\ DOMAIN files' \subseteq DOMAIN files \cup {writeFileNum}
  BY <1>0 DEF CellsOf
<1>1. CASE New
  <2>1. /\ RetrieveMetaData.rf = readFileNum /\ RetrieveMetaData.rp = readPos
        /\ RetrieveMetaData.wf = writeFileNum /\ RetrieveMetaData.wp = writePos
    BY <1>1 DEF Placed, Stored, New, NewFrom
  <2>2. /\ UNCHANGED <<readFileNum, readPos, writeFileNum, writePos, bad, setup, files>>
        /\ nextReadFileNum' = readFileNum /\ nextReadPos' = readPos
        /\ pc' = "loop" /\ readFile' = Nil
    BY <1>1, <2>1 DEF New, NewFrom, disk, bounds
  <2>3. Span' /\ Layout' /\ BadFull' /\ Boundary(CellsOf(readFileNum), readPos)'
    BY <1>0, <2>2, FrameFiles
  <2> QED
    BY <2>2, <2>3 DEF Placed, ReadPlace, Fresh, Offered, ReaderPlace, Stored
<1>2. CASE LoopSync
  <2>1. /\ pc' = "read"
        /\ UNCHANGED <<readFileNum, readPos, writeFileNum, writePos, nextReadFileNum, nextReadPos,
                       dataRead, readFile, reader, setup>>
    BY <1>2 DEF LoopSync, readVars, writeVars, handles, bounds
  <2>2. /\ \A f \in Nat : CellsOf(f)' = CellsOf(f)
        /\ DOMAIN files' \subseteq DOMAIN files \cup {writeFileNum} /\ bad' = bad
    <3>1. CASE SyncDue
      BY <1>2, <3>1, SyncCells DEF LoopSync
    <3>2. CASE ~SyncDue
      BY <1>0, <1>2, <3>2 DEF LoopSync, disk
    <3> QED
      BY <3>1, <3>2
  <2> QED
    BY <2>1, <2>2, FrameRead DEF Placed, Offered, Stored
<1>3. CASE ReadSkip
  <2>1. /\ pc' = "select" /\ (~CanRead \/ nextReadPos # readPos)
        /\ UNCHANGED <<readFileNum, readPos, writeFileNum, writePos, nextReadFileNum, nextReadPos,
                       dataRead, readFile, reader, setup, files, bad>>
    BY <1>3 DEF ReadSkip, readVars, writeVars, handles, disk, bounds
  <2>2. /\ Span' /\ Layout' /\ BadFull' /\ ReadPlace' /\ ReaderPlace'
        /\ Loaded => Loaded'
    BY <1>0, <2>1, FrameRead
  <2>3. Offered'
    BY <2>1, <2>2 DEF Placed, ReadPlace, Fresh, Offered, CanRead
  <2> QED
    BY <2>1, <2>2, <2>3 DEF Placed, Stored
<1>4. CASE ReadOne
  BY <1>4, ReadOnePlaced
<1>5. CASE ReadError
  BY <1>5, ReadErrorPlaced
<1>6. CASE Deliver
  BY <1>6, DeliverPlaced
<1>7. ASSUME NEW len \in Lens, PutRefused(len) PROVE Placed'
  <2>1. /\ pc' = "loop" /\ files' = SetFile(files, writeFileNum, FileAt(files, writeFileNum))
        /\ UNCHANGED <<readFileNum, readPos, writeFileNum, writePos, nextReadFileNum, nextReadPos,
                       dataRead, readFile, reader, setup, bad>>
    BY <1>7 DEF PutRefused, readVars, writeVars, bounds
  <2>2. /\ \A f \in Nat : CellsOf(f)' = CellsOf(f)
        /\ DOMAIN files' \subseteq DOMAIN files \cup {writeFileNum}
    BY <2>1 DEF CellsOf, SetFile, FileAt
  <2> QED
    BY <2>1, <2>2, FrameRead DEF Placed, Offered, Stored
<1>8. ASSUME NEW len \in Lens, WriteOne(len, WRolls) PROVE Placed'
  BY <1>8, WriteOnePlaced
<1>9. CASE Roll
  <2>1. /\ pc' = "loop"
        /\ UNCHANGED <<readFileNum, readPos, writeFileNum, writePos, nextReadFileNum, nextReadPos,
                       dataRead, readFile, reader, setup>>
    BY <1>9 DEF Roll, readVars, writeVars, bounds
  <2>2. /\ \A f \in Nat : CellsOf(f)' = CellsOf(f)
        /\ DOMAIN files' \subseteq DOMAIN files \cup {writeFileNum} /\ bad' = bad
    BY <1>9, SyncCells DEF Roll
  <2> QED
    BY <2>1, <2>2, FrameRead DEF Placed, Offered, Stored
<1>10. CASE Empty
  <2>1. /\ SkipToNextRWFile(files, readFileNum) /\ setup' = setup /\ bad' = bad
        /\ pc' = "emptying"
    BY <1>10 DEF Empty
  <2> QED
    BY <2>1, SkipPlaced
<1>11. ASSUME RemoveMeta \/ SyncTick \/ QReadTick PROVE Placed'
  <2>1. /\ pc' = "loop"
        /\ UNCHANGED <<readFileNum, readPos, writeFileNum, writePos, nextReadFileNum, nextReadPos,
                       dataRead, readFile, reader, setup, files, bad>>
    BY <1>11 DEF RemoveMeta, SyncTick, QReadTick, readVars, writeVars, handles, disk, bounds
  <2> QED
    BY <1>0, <2>1, FrameRead DEF Placed, Offered, Stored
<1>12. CASE Close
  <2>1. /\ pc' = "exited" /\ readFile' = Nil
        /\ UNCHANGED <<readFileNum, readPos, writeFileNum, writePos, nextReadFileNum, nextReadPos,
                       dataRead, setup, files, bad>>
    BY <1>12 DEF Close, readVars, writeVars, disk
  <2> QED
    BY <1>0, <2>1, FrameRead DEF Placed, Offered, Stored
<1>13. CASE CloseSync
  <2>1. /\ pc' = "down"
        /\ UNCHANGED <<readFileNum, readPos, writeFileNum, writePos, nextReadFileNum, nextReadPos,
                       dataRead, readFile, reader, setup, depth>>
    BY <1>13 DEF CloseSync, readVars, writeVars, handles, bounds
  <2>2. /\ \A f \in Nat : CellsOf(f)' = CellsOf(f)
        /\ DOMAIN files' \subseteq DOMAIN files \cup {writeFileNum} /\ bad' = bad
        /\ meta' = [depth |-> depth, rf |-> readFileNum, rp |-> readPos,
                    wf |-> writeFileNum, wp |-> writePos]
    BY <1>13, SyncCells DEF CloseSync
  <2>3. meta' # Nil
    <3>1. meta' \in MetaData
      BY <2>2, Constants DEF Typed, PositionsOK, MetaData
    <3> QED
      BY <3>1, Constants
  <2>4. Stored'
    BY <2>1, <2>2, <2>3 DEF Stored, RetrieveMetaData
  <2> QED
    BY <2>1, <2>2, <2>4, FrameRead DEF Placed, Offered
<1>14. ASSUME Delete \/ Crash PROVE FALSE
  <2>1. crashes' = crashes + 1 /\ crashes \in Nat
    BY <1>14 DEF Delete, Crash, Typed, ControlOK
  <2> QED
    BY <2>1
<1> QED
  BY <1>1, <1>2, <1>3, <1>4, <1>5, <1>6, <1>7, <1>8, <1>9, <1>10, <1>11, <1>12, <1>13, <1>14
     DEF Step

\* Crashes are only counted where they may happen.
LEMMA CrashesGrow ==
    ASSUME Typed, Step
    PROVE  /\ setup' = setup
           /\ crashes' = crashes \/ (crashes' = crashes + 1 /\ setup.mayCrash)
  BY DEF Step, New, NewFrom, LoopSync, ReadSkip, ReadOne, ReadOneTo, ReadError, Deliver,
         PutRefused, WriteOne, Roll, Empty, RemoveMeta, SyncTick, QReadTick, Close, CloseSync,
         Delete, Crash, bounds

LEMMA SoundInit == Init => Sound
<1> SUFFICES ASSUME Init PROVE Placed
  BY DEF Sound, Init
<1>1. Typed
  BY TypedInit
<1>2. /\ readFileNum = 0 /\ readPos = 0 /\ nextReadFileNum = 0 /\ nextReadPos = 0
      /\ writeFileNum = 0 /\ writePos = 0 /\ depth = 0
      /\ readFile = Nil /\ meta = Nil /\ pc = "down"
      /\ DOMAIN files = {} /\ DOMAIN bad = {}
  BY DEF Init
<1>3. \A f : CellsOf(f) = <<>>
  BY <1>2 DEF CellsOf, FileAt, NoFile
<1>4. Layout
  BY <1>3, LaidEmpty DEF Layout
<1>5. Span
  <2>1. 0..(0 - 1) = {} /\ 0 <= 0 /\ Len(<<>>) = 0 /\ 0 < WLimit
    BY <1>1, Limits
  <2> QED
    BY <1>2, <1>3, <2>1 DEF Span
<1>6. Boundary(<<>>, 0)
  BY LaidEmpty DEF Laid
<1>7. ReadPlace /\ Offered /\ ReaderPlace /\ BadFull
  BY <1>2, <1>3, <1>6 DEF ReadPlace, Fresh, Offered, ReaderPlace, BadFull
<1>8. Stored
  BY <1>2 DEF Stored, RetrieveMetaData
<1> QED
  BY <1>4, <1>5, <1>7, <1>8 DEF Placed

LEMMA SoundNext == Typed /\ Sound /\ [EitherNext]_vars => Sound'
<1>1. ASSUME Typed, Sound, Step PROVE Sound'
  <2>1. crashes \in Nat /\ setup.mayCrash \in BOOLEAN
    BY <1>1, Constants DEF Typed, ControlOK
  <2>2. /\ setup' = setup
        /\ crashes' = crashes \/ (crashes' = crashes + 1 /\ setup.mayCrash)
    BY <1>1, CrashesGrow
  <2>3. crashes' = 0 => crashes = 0
    BY <2>1, <2>2
  <2>4. crashes' = 0 => Placed'
    BY <1>1, <2>3, PlacedStep DEF Sound
  <2>5. ~setup'.mayCrash => crashes' = 0
    BY <1>1, <2>2 DEF Sound
  <2> QED
    BY <2>4, <2>5 DEF Sound
<1>2. ASSUME Sound, UNCHANGED vars PROVE Sound'
  BY <1>2 DEF vars, readVars, writeVars, handles, disk, bounds, Sound, Placed, Span, Layout,
              ReadPlace, Fresh, Loaded, Offered, ReaderPlace, BadFull, Stored, CellsOf, CanRead,
              WLimit, RetrieveMetaData
<1> QED
  BY <1>1, <1>2, Steps

\* As long as the process does not crash, the data files are those between the
\* read and the write position, all of them, and a file is put aside as bad only
\* by the second copy and only when it is exactly full: the end of a file is
\* never taken for a corruption elsewhere, whatever the message lengths, the
\* size of a file and the reader's buffer (diskqueue.go:283-360, 362-438,
\* dqueue/diskqueue.go:336, 402).
THEOREM FilesAreThoseNeeded == EitherSpec => []FilesExact
<1>1. Init => Typed /\ Sound
  BY TypedInit, SoundInit
<1>2. Typed /\ Sound /\ [EitherNext]_vars => (Typed /\ Sound)'
  BY TypedNext, SoundNext
<1>3. Sound => FilesExact
  BY DEF Sound, Placed, Span, BadFull, FilesExact
<1> QED
  BY <1>1, <1>2, <1>3, PTL DEF EitherSpec

-----------------------------------------------------------------------------
(* The messages in the files *)

HeadAt(f, i) == i \in 1..Len(CellsOf(f)) /\ CellsOf(f)[i].at = 0

IdAt(f, i) == CellsOf(f)[i].msg.id

\* Messages lie in the files in the order in which they were put.
InOrder ==
    \A f, g \in Nat : \A i \in 1..Len(CellsOf(f)) : \A j \in 1..Len(CellsOf(g)) :
        HeadAt(f, i) /\ HeadAt(g, j) =>
            /\ IdAt(f, i) <= puts
            /\ f < g \/ (f = g /\ i < j) => IdAt(f, i) < IdAt(g, j)

Counted == IsFiniteSet(Queued) /\ depth = Cardinality(Queued)

Exact == crashes = 0 => InOrder /\ Counted /\ ret \in Message \cup {Nil}

\* A message waits when its header lies behind the read position.
Waits(m) ==
    \E f \in Nat : \E i \in Nat :
        /\ HeadAt(f, i) /\ CellsOf(f)[i].msg = m
        /\ f > readFileNum \/ (f = readFileNum /\ i > readPos)

\* Headers are those of messages.
LEMMA HeadOf ==
    ASSUME Typed, Placed, NEW f \in Nat, NEW i, HeadAt(f, i)
    PROVE  /\ CellsOf(f)[i].msg \in Message /\ CellsOf(f)[i] # Zero
           /\ f \in readFileNum..writeFileNum /\ f \in DOMAIN files
           /\ CellsOf(f) = files[f].cells /\ i \in Nat /\ IdAt(f, i) \in Nat
<1> DEFINE cells == CellsOf(f)
<1>1. Laid(WLimit, cells) /\ Len(cells) \in Nat /\ cells \in Seq(Cell)
  BY CellsOfType DEF Placed, Layout
<1>2. i \in 1..Len(cells) /\ cells[i].at = 0
  BY DEF HeadAt
<1>3. f \in DOMAIN files
  BY <1>2, EmptySeq DEF CellsOf, FileAt, NoFile
<1>4. cells = files[f].cells
  BY <1>3 DEF CellsOf, FileAt
<1> HIDE DEF cells
<1>5. PICK p \in 0..(Len(cells) - 1) : i = p + 1
  <2>1. i - 1 \in 0..(Len(cells) - 1) /\ i = (i - 1) + 1
    BY <1>1, <1>2
  <2> QED
    BY <2>1
<1>6. WholeAt(WLimit, cells, p)
  BY <1>1, <1>2, <1>5 DEF Laid
<1>7. cells[i].msg \in Message
  BY <1>5, <1>6 DEF WholeAt
<1>8. cells[i] # Zero
  BY <1>7 DEF Message, Zero, Garbage
<1>9. IdAt(f, i) \in Nat
  BY <1>7, Constants DEF IdAt, Message, cells
<1> QED
  BY <1>1, <1>2, <1>3, <1>4, <1>7, <1>8, <1>9 DEF Placed, Span, cells

LEMMA QueuedIs ==
    ASSUME Typed, Placed, NEW m
    PROVE  m \in Queued <=> Waits(m)
<1>1. readFileNum \in Nat /\ writeFileNum \in Nat /\ readPos \in Nat /\ writePos \in Nat
  BY Constants DEF Typed, PositionsOK
<1>2. ASSUME m \in Queued PROVE Waits(m)
  <2>0. PICK f \in DOMAIN files \cap readFileNum..writeFileNum :
          \E i \in DOMAIN files[f].cells :
            /\ f = readFileNum => i > readPos
            /\ files[f].cells[i].at = 0
            /\ m = files[f].cells[i].msg
    BY <1>2, BetweenIs DEF Queued
  <2>1. PICK i \in DOMAIN files[f].cells :
          /\ f = readFileNum => i > readPos
          /\ files[f].cells[i].at = 0
          /\ m = files[f].cells[i].msg
    BY <2>0
  <2>2. f \in Nat /\ CellsOf(f) = files[f].cells /\ f \in readFileNum..writeFileNum
    BY <1>1, <2>1 DEF CellsOf, FileAt
  <2>3. CellsOf(f) \in Seq(Cell)
    BY CellsOfType
  <2>4. i \in 1..Len(CellsOf(f)) /\ i \in Nat
    BY <2>1, <2>2, <2>3
  <2>5. HeadAt(f, i) /\ CellsOf(f)[i].msg = m
    BY <2>1, <2>2, <2>4 DEF HeadAt
  <2>6. f > readFileNum \/ (f = readFileNum /\ i > readPos)
    BY <1>1, <2>1, <2>2
  <2> QED
    BY <2>2, <2>4, <2>5, <2>6 DEF Waits
<1>3. ASSUME Waits(m) PROVE m \in Queued
  <2>1. PICK f \in Nat, i \in Nat :
          /\ HeadAt(f, i) /\ CellsOf(f)[i].msg = m
          /\ f > readFileNum \/ (f = readFileNum /\ i > readPos)
    BY <1>3 DEF Waits
  <2>2. /\ CellsOf(f)[i] # Zero /\ f \in DOMAIN files
        /\ f \in readFileNum..writeFileNum /\ CellsOf(f) = files[f].cells
    BY <2>1, HeadOf
  <2>3. CellsOf(f) \in Seq(Cell)
    BY CellsOfType
  <2>4. i \in DOMAIN files[f].cells /\ files[f].cells[i].at = 0 /\ files[f].cells[i] # Zero
        /\ m = files[f].cells[i].msg
    BY <2>1, <2>2, <2>3 DEF HeadAt
  <2>5. f = readFileNum => i > readPos
    BY <1>1, <2>1
  <2>6. f = writeFileNum => i <= writePos
    <3>1. writePos = Len(CellsOf(writeFileNum)) /\ i \in 1..Len(CellsOf(f))
      BY <2>1 DEF Placed, Span, HeadAt
    <3> QED
      BY <1>1, <3>1
  <2> QED
    BY <2>2, <2>4, <2>5, <2>6, BetweenIs DEF Queued
<1> QED
  BY <1>2, <1>3

LEMMA QueuedWaits == Typed /\ Placed => Queued = {m \in Message : Waits(m)}
<1> SUFFICES ASSUME Typed, Placed PROVE Queued = {m \in Message : Waits(m)}
  OBVIOUS
<1>1. \A f \in DOMAIN files : files[f].cells \in Seq(Cell)
  BY DEF Typed, FilesOK, File
<1>2. Queued \subseteq Message
  BY <1>1, BetweenType DEF Queued
<1> QED
  BY <1>2, QueuedIs

\* The same after a step.
LEMMA QueuedWaitsNext ==
    (Typed /\ Placed => Queued = {m \in Message : Waits(m)})'
  BY QueuedWaits, PTL

\* Nothing waits when the positions meet.
LEMMA TailEmpty ==
    Typed /\ Placed /\ readFileNum = writeFileNum /\ readPos = writePos => Queued = {}
<1> SUFFICES ASSUME Typed, Placed, readFileNum = writeFileNum, readPos = writePos,
                    NEW m \in Queued
             PROVE  FALSE
  OBVIOUS
<1>1. PICK f \in Nat, i \in Nat :
        /\ HeadAt(f, i)
        /\ f > readFileNum \/ (f = readFileNum /\ i > readPos)
  BY QueuedIs DEF Waits
<1>2. f \in readFileNum..writeFileNum /\ i \in 1..Len(CellsOf(f))
  BY <1>1, HeadOf DEF HeadAt
<1>3. writePos = Len(CellsOf(writeFileNum)) /\ readFileNum \in Nat /\ readPos \in Nat
  BY Constants DEF Placed, Span, Typed, PositionsOK
<1>4. f = readFileNum
  BY <1>2, <1>3
<1>5. i <= writePos
  BY <1>2, <1>3, <1>4
<1> QED
  BY <1>1, <1>3, <1>4, <1>5

LEMMA TailEmptyNext ==
    (Typed /\ Placed /\ readFileNum = writeFileNum /\ readPos = writePos => Queued = {})'
  BY TailEmpty, PTL

\* Steps that leave the messages and the read position.
LEMMA QuietQueued ==
    ASSUME Typed, Placed, Typed', Placed',
           \A f \in Nat : CellsOf(f)' = CellsOf(f), UNCHANGED <<readFileNum, readPos>>
    PROVE  Queued' = Queued
<1>1. Queued = {m \in Message : Waits(m)} /\ Queued' = {m \in Message : Waits(m)'}
  BY QueuedWaits, QueuedWaitsNext
<1>2. ASSUME NEW m PROVE Waits(m)' <=> Waits(m)
  BY DEF Waits, HeadAt
<1> QED
  BY <1>1, <1>2

\* Going on to the next file forgets the headers in this one.
LEMMA NextFileQueued ==
    ASSUME Typed, Placed, Typed', Placed',
           files' = Removed(files, {readFileNum}), readFileNum' = readFileNum + 1, readPos' = 0
    PROVE  \A m : m \in Queued' <=>
              \E f \in Nat : \E i \in Nat :
                  f > readFileNum /\ HeadAt(f, i) /\ CellsOf(f)[i].msg = m
<1>1. readFileNum \in Nat
  BY DEF Typed, PositionsOK
<1>2. \A f \in Nat : CellsOf(f)' = IF f = readFileNum THEN <<>> ELSE CellsOf(f)
  BY DEF CellsOf, FileAt, Removed, NoFile
<1>3. Queued' = {m \in Message : Waits(m)'}
  BY QueuedWaitsNext
<1>4. ASSUME NEW m
      PROVE  Waits(m)' <=> \E f \in Nat : \E i \in Nat :
                  f > readFileNum /\ HeadAt(f, i) /\ CellsOf(f)[i].msg = m
  <2>1. ASSUME Waits(m)'
        PROVE  \E f \in Nat : \E i \in Nat :
                  f > readFileNum /\ HeadAt(f, i) /\ CellsOf(f)[i].msg = m
    <3>1. PICK f \in Nat, i \in Nat :
            /\ HeadAt(f, i)' /\ (CellsOf(f)[i].msg = m)'
            /\ f > readFileNum + 1 \/ (f = readFileNum + 1 /\ i > 0)
      BY <2>1 DEF Waits
    <3>2. f > readFileNum /\ f # readFileNum
      BY <1>1, <3>1
    <3>3. HeadAt(f, i) /\ CellsOf(f)[i].msg = m
      BY <1>2, <3>1, <3>2 DEF HeadAt
    <3> QED
      BY <3>2, <3>3
  <2>2. ASSUME NEW f \in Nat, NEW i \in Nat, f > readFileNum, HeadAt(f, i), CellsOf(f)[i].msg = m
        PROVE  Waits(m)'
    <3>1. f # readFileNum /\ (f > readFileNum + 1 \/ f = readFileNum + 1)
      BY <1>1, <2>2
    <3>2. i > 0
      BY <2>2 DEF HeadAt
    <3>3. HeadAt(f, i)' /\ (CellsOf(f)[i].msg = m)'
      BY <1>2, <2>2, <3>1 DEF HeadAt
    <3> QED
      BY <3>1, <3>2, <3>3 DEF Waits
  <2> QED
    BY <2>1, <2>2
<1>5. ASSUME NEW f \in Nat, NEW i \in Nat, HeadAt(f, i) PROVE CellsOf(f)[i].msg \in Message
  BY <1>5, HeadOf
<1> QED
  BY <1>3, <1>4, <1>5

\* Removing messages leaves the others in order.
LEMMA InOrderFewer ==
    ASSUME InOrder, \A f \in Nat : CellsOf(f)' = CellsOf(f) \/ CellsOf(f)' = <<>>, puts' = puts
    PROVE  InOrder'
<1>1. \A f \in Nat : \A i : HeadAt(f, i)' => HeadAt(f, i) /\ CellsOf(f)' = CellsOf(f)
  BY DEF HeadAt
<1> SUFFICES ASSUME NEW f \in Nat, NEW g \in Nat, NEW i, NEW j, HeadAt(f, i)', HeadAt(g, j)'
             PROVE  /\ IdAt(f, i)' <= puts
                    /\ f < g \/ (f = g /\ i < j) => IdAt(f, i)' < IdAt(g, j)'
  BY DEF InOrder
<1>2. HeadAt(f, i) /\ HeadAt(g, j) /\ CellsOf(f)' = CellsOf(f) /\ CellsOf(g)' = CellsOf(g)
  BY <1>1
<1>3. IdAt(f, i)' = IdAt(f, i) /\ IdAt(g, j)' = IdAt(g, j)
  BY <1>2 DEF IdAt
<1>4. i \in 1..Len(CellsOf(f)) /\ j \in 1..Len(CellsOf(g))
  BY <1>2 DEF HeadAt
<1> QED
  BY <1>2, <1>3, <1>4 DEF InOrder

\* Headers of the same message are the same.
LEMMA HeadsDiffer ==
    ASSUME Typed, Placed, InOrder, NEW f \in Nat, NEW g \in Nat, NEW i, NEW j,
           HeadAt(f, i), HeadAt(g, j), CellsOf(f)[i].msg = CellsOf(g)[j].msg
    PROVE  f = g /\ i = j
<1>1. i \in 1..Len(CellsOf(f)) /\ j \in 1..Len(CellsOf(g))
  BY DEF HeadAt
<1>2. IdAt(f, i) \in Nat /\ IdAt(g, j) \in Nat /\ IdAt(f, i) = IdAt(g, j) /\ i \in Nat /\ j \in Nat
  BY HeadOf DEF IdAt
<1>3. /\ f < g \/ (f = g /\ i < j) => IdAt(f, i) < IdAt(g, j)
      /\ g < f \/ (f = g /\ j < i) => IdAt(g, j) < IdAt(f, i)
  BY <1>1 DEF InOrder
<1> QED
  BY <1>2, <1>3

\* At the end of what was written the two positions agree: checkTailCorruption
\* finds none.
LEMMA TailAgrees ==
    ASSUME Typed, Placed, Loaded, ~(nextReadFileNum < writeFileNum \/ nextReadPos < writePos)
    PROVE  nextReadFileNum = writeFileNum /\ nextReadPos = writePos
<1> DEFINE cells == CellsOf(readFileNum)
           next  == readPos + Size(cells[readPos + 1].msg)
<1>1. /\ next \in Nat /\ Boundary(cells, next)
      /\ next > MaxBytesPerFile => readFileNum < writeFileNum
  BY LoadedAt
<1>2. IF next > MaxBytesPerFile
      THEN nextReadFileNum = readFileNum + 1 /\ nextReadPos = 0
      ELSE nextReadFileNum = readFileNum /\ nextReadPos = next
  BY DEF Loaded
<1>3. next <= Len(cells)
  BY <1>1 DEF Boundary
<1> HIDE DEF next
<1>4. /\ readFileNum \in Nat /\ writeFileNum \in Nat /\ writePos \in Nat
      /\ readFileNum <= writeFileNum /\ writePos = Len(CellsOf(writeFileNum))
  BY Constants DEF Typed, PositionsOK, Placed, Span
<1>5. CASE next > MaxBytesPerFile
  BY <1>1, <1>2, <1>4, <1>5
<1>6. CASE ~(next > MaxBytesPerFile)
  <2>1. readFileNum = writeFileNum
    BY <1>2, <1>4, <1>6
  <2>2. writePos = Len(cells)
    BY <1>4, <2>1
  <2> HIDE DEF cells
  <2> QED
    BY <1>1, <1>2, <1>3, <1>4, <1>6, <2>1, <2>2
<1> QED
  BY <1>5, <1>6

\* A delivery takes the first message, and that one only.
LEMMA DeliverQueued ==
    ASSUME Typed, Placed, Typed', Placed', InOrder, Deliver
    PROVE  /\ dataRead \in Queued /\ Queued' = Queued \ {dataRead}
           /\ dataRead \in Message
           /\ \A m \in Queued : dataRead.id <= m.id
           /\ files' = AfterRead
           /\ \/ nextReadFileNum = readFileNum
              \/ nextReadFileNum = readFileNum + 1 /\ readPos' = 0
           /\ readFileNum' = nextReadFileNum
           /\ UNCHANGED <<writeFileNum, writePos, writeFile>>
           /\ depth' = depth - 1 \/ (depth' = 0 /\ Queued' = {})
<1>1. pc = "select" /\ CanRead /\ MoveForward
  BY DEF Deliver
<1>2. Loaded
  BY <1>1 DEF Placed, Offered
<1> DEFINE cells == CellsOf(readFileNum)
           next  == readPos + Size(cells[readPos + 1].msg)
<1>3. /\ next \in Nat
      /\ next > MaxBytesPerFile => readFileNum < writeFileNum /\ next = Len(cells)
      /\ \A i \in (readPos + 2)..next : cells[i].at # 0
      /\ dataRead \in Message /\ cells[readPos + 1].at = 0
  BY <1>2, LoadedAt
<1>4. /\ readPos < Len(cells) /\ dataRead = cells[readPos + 1].msg
      /\ IF next > MaxBytesPerFile
         THEN nextReadFileNum = readFileNum + 1 /\ nextReadPos = 0
         ELSE nextReadFileNum = readFileNum /\ nextReadPos = next
  BY <1>2 DEF Loaded
<1>5. /\ readFileNum \in Nat /\ readPos \in Nat /\ Len(cells) \in Nat
      /\ cells = CellsOf(readFileNum)
  BY CellsOfType, Constants DEF Typed, PositionsOK
<1>a. next >= readPos + 1
  <2>1. Size(dataRead) \in Nat \ {0}
    BY <1>3, CellsType
  <2> QED
    BY <1>4, <1>5, <2>1
<1> HIDE DEF next, cells
<1>6. HeadAt(readFileNum, readPos + 1) /\ CellsOf(readFileNum)[readPos + 1].msg = dataRead
  BY <1>3, <1>4, <1>5 DEF HeadAt
<1>7. dataRead \in Queued
  <2>1. readPos + 1 \in Nat /\ readPos + 1 > readPos
    BY <1>5
  <2> QED
    BY <1>5, <1>6, <2>1, QueuedIs DEF Waits
<1>8. /\ files' = AfterRead /\ readFileNum' = nextReadFileNum /\ readPos' = nextReadPos
      /\ UNCHANGED <<writeFileNum, writePos, writeFile, nextReadFileNum, nextReadPos>>
      /\ \/ depth' = depth - 1
         \/ depth' = 0 /\ nextReadFileNum = writeFileNum /\ nextReadPos = writePos
  BY <1>1, <1>2, TailAgrees DEF MoveForward, Advance, writeVars, handles
\* A header behind the read position is the first, or behind the message.
<1>9. ASSUME NEW i, HeadAt(readFileNum, i), i > readPos
      PROVE  i = readPos + 1 \/ i > next
  <2>1. i \in 1..Len(cells) /\ cells[i].at = 0
    BY <1>5, <1>9 DEF HeadAt
  <2> QED
    BY <1>3, <1>5, <1>9, <2>1
<1>10. ASSUME NEW m \in Queued PROVE dataRead.id <= m.id
  <2>1. PICK f \in Nat, i \in Nat :
          /\ HeadAt(f, i) /\ CellsOf(f)[i].msg = m
          /\ f > readFileNum \/ (f = readFileNum /\ i > readPos)
    BY QueuedIs DEF Waits
  <2>2. IdAt(f, i) = m.id /\ IdAt(readFileNum, readPos + 1) = dataRead.id
    BY <1>6, <2>1 DEF IdAt
  <2>3. readPos + 1 \in 1..Len(CellsOf(readFileNum)) /\ i \in 1..Len(CellsOf(f))
    BY <1>6, <2>1 DEF HeadAt
  <2>4. \/ readFileNum < f
        \/ readFileNum = f /\ readPos + 1 < i
        \/ readFileNum = f /\ readPos + 1 = i
    BY <1>5, <2>1
  <2>5. CASE readFileNum = f /\ readPos + 1 = i
    BY <1>3, <2>2, <2>5, Constants DEF Message
  <2>6. CASE readFileNum < f \/ (readFileNum = f /\ readPos + 1 < i)
    <3>1. dataRead.id < m.id
      BY <1>5, <1>6, <2>1, <2>2, <2>3, <2>6 DEF InOrder
    <3>2. dataRead.id \in Nat /\ m.id \in Nat
      BY <1>3, <2>1, <2>2, HeadOf, Constants DEF Message
    <3> QED
      BY <3>1, <3>2
  <2> QED
    BY <2>4, <2>5, <2>6
<1>11. Queued' = Queued \ {dataRead}
  <2>1. CASE next > MaxBytesPerFile
    <3>1. files' = Removed(files, {readFileNum}) /\ readFileNum' = readFileNum + 1 /\ readPos' = 0
      BY <1>4, <1>5, <1>8, <2>1 DEF AfterRead
    <3>2. \A m : m \in Queued' <=>
              \E f \in Nat : \E i \in Nat :
                  f > readFileNum /\ HeadAt(f, i) /\ CellsOf(f)[i].msg = m
      BY <3>1, NextFileQueued
    <3>3. ASSUME NEW m \in Queued' PROVE m \in Queued \ {dataRead}
      <4>1. PICK f \in Nat, i \in Nat : f > readFileNum /\ HeadAt(f, i) /\ CellsOf(f)[i].msg = m
        BY <3>2, <3>3
      <4>2. m \in Queued
        BY <4>1, QueuedIs DEF Waits
      <4>3. m # dataRead
        <5>1. ASSUME m = dataRead PROVE f = readFileNum
          BY <1>5, <1>6, <4>1, <5>1, HeadsDiffer
        <5> QED
          BY <1>5, <4>1, <5>1
      <4> QED
        BY <4>2, <4>3
    <3>4. ASSUME NEW m \in Queued \ {dataRead} PROVE m \in Queued'
      <4>1. PICK f \in Nat, i \in Nat :
              /\ HeadAt(f, i) /\ CellsOf(f)[i].msg = m
              /\ f > readFileNum \/ (f = readFileNum /\ i > readPos)
        BY <3>4, QueuedIs DEF Waits
      <4>2. ASSUME f = readFileNum PROVE FALSE
        <5>1. i = readPos + 1 \/ i > next
          BY <1>5, <1>9, <4>1, <4>2
        <5>2. i # readPos + 1
          BY <1>6, <3>4, <4>1, <4>2
        <5>3. i <= Len(cells)
          BY <1>5, <4>1, <4>2 DEF HeadAt
        <5> QED
          BY <1>3, <1>5, <2>1, <5>1, <5>2, <5>3
      <4>3. f > readFileNum
        BY <4>1, <4>2
      <4> QED
        BY <3>2, <4>1, <4>3
    <3> QED
      BY <3>3, <3>4
  <2>2. CASE ~(next > MaxBytesPerFile)
    <3>1. readFileNum' = readFileNum /\ readPos' = next /\ files' = files
      BY <1>4, <1>8, <2>2 DEF AfterRead
    <3>2. \A f : CellsOf(f)' = CellsOf(f)
      BY <3>1 DEF CellsOf
    <3>3. Queued = {m \in Message : Waits(m)} /\ Queued' = {m \in Message : Waits(m)'}
      BY QueuedWaits, QueuedWaitsNext
    <3>4. ASSUME NEW m, Waits(m)' PROVE Waits(m) /\ m # dataRead
      <4>1. PICK f \in Nat, i \in Nat :
              /\ HeadAt(f, i) /\ CellsOf(f)[i].msg = m
              /\ f > readFileNum \/ (f = readFileNum /\ i > next)
        BY <3>1, <3>2, <3>4 DEF Waits, HeadAt
      <4>2. f > readFileNum \/ (f = readFileNum /\ i > readPos /\ i > readPos + 1)
        BY <1>3, <1>5, <1>a, <4>1
      <4>3. Waits(m)
        BY <4>1, <4>2 DEF Waits
      <4>4. m # dataRead
        <5>1. ASSUME m = dataRead PROVE f = readFileNum /\ i = readPos + 1
          BY <1>5, <1>6, <4>1, <5>1, HeadsDiffer
        <5> QED
          BY <1>5, <4>1, <4>2, <5>1
      <4> QED
        BY <4>3, <4>4
    <3>5. ASSUME NEW m, Waits(m), m # dataRead PROVE Waits(m)'
      <4>1. PICK f \in Nat, i \in Nat :
              /\ HeadAt(f, i) /\ CellsOf(f)[i].msg = m
              /\ f > readFileNum \/ (f = readFileNum /\ i > readPos)
        BY <3>5 DEF Waits
      <4>2. f > readFileNum \/ (f = readFileNum /\ i > next)
        <5>1. ASSUME f = readFileNum PROVE i > next
          BY <1>6, <1>9, <3>5, <4>1, <5>1
        <5> QED
          BY <4>1, <5>1
      <4> QED
        BY <3>1, <3>2, <4>1, <4>2 DEF Waits, HeadAt
    <3> QED
      BY <3>3, <3>4, <3>5
  <2> QED
    BY <2>1, <2>2
<1>12. depth' = depth - 1 \/ (depth' = 0 /\ Queued' = {})
  <2>1. CASE depth' = 0 /\ nextReadFileNum = writeFileNum /\ nextReadPos = writePos
    <3>1. readFileNum' = writeFileNum' /\ readPos' = writePos'
      BY <1>8, <2>1
    <3>2. Queued' = {}
      BY <3>1, TailEmptyNext
    <3> QED
      BY <2>1, <3>2
  <2> QED
    BY <1>8, <2>1
<1>13. nextReadFileNum = readFileNum \/ (nextReadFileNum = readFileNum + 1 /\ readPos' = 0)
  BY <1>4, <1>8
<1> QED
  BY <1>3, <1>7, <1>8, <1>10, <1>11, <1>12, <1>13

\* A Put appends its message to the write file.
LEMMA WriteOneCells ==
    ASSUME Typed, Placed, NEW len \in Lens, WriteOne(len, WRolls)
    PROVE  LET m == [id |-> puts + 1, len |-> len]
           IN  /\ m \in Message /\ Size(m) \in Nat \ {0}
               /\ \A f \in Nat : f # writeFileNum => CellsOf(f)' = CellsOf(f)
               /\ \A f \in Nat : f = writeFileNum =>
                    /\ Len(CellsOf(f)') = Len(CellsOf(f)) + Size(m)
                    /\ \A i \in 1..Len(CellsOf(f)) : CellsOf(f)'[i] = CellsOf(f)[i]
                    /\ \A k \in 1..Size(m) :
                          CellsOf(f)'[Len(CellsOf(f)) + k] = [msg |-> m, at |-> k - 1]
<1> DEFINE m    == [id |-> puts + 1, len |-> len]
           old  == CellsOf(writeFileNum)
           c    == Cells(m)
           new  == WriteAt(old, writePos, c)
           file == [cells |-> new, synced |-> Min({FileAt(files, writeFileNum).synced, writePos})]
<1>1. files' = SetFile(files, writeFileNum, file) /\ puts < MaxPuts
  BY DEF WriteOne, CellsOf
<1>2. m \in Message
  <2>1. puts + 1 \in 1..MaxPuts
    BY <1>1, Constants DEF Typed, ControlOK
  <2> QED
    BY <2>1 DEF Message
<1>3. /\ c \in Seq(Cell) /\ Len(c) = Size(m) /\ Size(m) \in Nat \ {0}
      /\ \A i \in 1..Size(m) : c[i] = [msg |-> m, at |-> i - 1]
  BY <1>2, CellsType
<1>4. old \in Seq(Cell) /\ Len(old) \in Nat /\ writePos = Len(old)
  BY CellsOfType DEF Placed, Span
<1>5. \A f \in Nat : CellsOf(f)' = IF f = writeFileNum THEN new ELSE CellsOf(f)
  BY <1>1 DEF CellsOf, FileAt, SetFile
<1> HIDE DEF m, c
<1>6. /\ Len(new) = Len(old) + Len(c)
      /\ \A i \in 1..Len(old) : new[i] = old[i]
      /\ \A i \in 1..Len(c) : new[Len(old) + i] = c[i]
  <2>1. new = WriteAt(old, Len(old), c)
    BY <1>4
  <2> HIDE DEF old, new
  <2> QED
    BY <1>3, <1>4, <2>1, WriteAtEnd
<1> HIDE DEF new
<1>7. /\ Len(new) = Len(old) + Size(m)
      /\ \A k \in 1..Size(m) : new[Len(old) + k] = [msg |-> m, at |-> k - 1]
  BY <1>3, <1>6
<1> QED
  BY <1>2, <1>3, <1>5, <1>6, <1>7 DEF m

\* What a Put adds to the queue.
LEMMA WriteOneQueued ==
    ASSUME Typed, Placed, Typed', Placed', InOrder, NEW len \in Lens, WriteOne(len, WRolls)
    PROVE  LET m == [id |-> puts + 1, len |-> len]
           IN  m \notin Queued /\ Queued' = Queued \cup {m} /\ InOrder'
<1> DEFINE m == [id |-> puts + 1, len |-> len]
<1>1. /\ m \in Message /\ Size(m) \in Nat \ {0}
      /\ \A f \in Nat : f # writeFileNum => CellsOf(f)' = CellsOf(f)
      /\ \A f \in Nat : f = writeFileNum =>
            /\ Len(CellsOf(f)') = Len(CellsOf(f)) + Size(m)
            /\ \A i \in 1..Len(CellsOf(f)) : CellsOf(f)'[i] = CellsOf(f)[i]
            /\ \A k \in 1..Size(m) :
                  CellsOf(f)'[Len(CellsOf(f)) + k] = [msg |-> m, at |-> k - 1]
  BY WriteOneCells
<1>2. m.id = puts + 1 /\ puts \in Nat /\ puts' = puts + 1
  BY Constants DEF Typed, ControlOK, WriteOne
<1> HIDE DEF m
<1>3. /\ readFileNum \in Nat /\ writeFileNum \in Nat /\ readPos \in Nat
      /\ readFileNum <= writeFileNum /\ readPos <= Len(CellsOf(readFileNum))
      /\ UNCHANGED <<readFileNum, readPos>>
  BY Constants DEF Typed, PositionsOK, Placed, Span, ReadPlace, Boundary, WriteOne, readVars
<1>4. ASSUME NEW f \in Nat PROVE Len(CellsOf(f)) \in Nat
  BY CellsOfType
\* The headers after the Put: the old ones and its own.
<1>5. ASSUME NEW f \in Nat, NEW i, HeadAt(f, i)
      PROVE  HeadAt(f, i)' /\ CellsOf(f)'[i] = CellsOf(f)[i]
  <2>1. i \in 1..Len(CellsOf(f)) /\ CellsOf(f)[i].at = 0
    BY <1>5 DEF HeadAt
  <2>2. CASE f # writeFileNum
    BY <1>1, <2>1, <2>2 DEF HeadAt
  <2>3. CASE f = writeFileNum
    <3>1. CellsOf(f)'[i] = CellsOf(f)[i] /\ Len(CellsOf(f)') = Len(CellsOf(f)) + Size(m)
      BY <1>1, <2>1, <2>3
    <3>2. i \in 1..Len(CellsOf(f)')
      BY <1>1, <1>4, <2>1, <3>1
    <3> QED
      BY <2>1, <3>1, <3>2 DEF HeadAt
  <2> QED
    BY <2>2, <2>3
<1>6. ASSUME NEW f \in Nat, NEW i, HeadAt(f, i)'
      PROVE  \/ HeadAt(f, i) /\ CellsOf(f)'[i] = CellsOf(f)[i]
             \/ f = writeFileNum /\ i = Len(CellsOf(f)) + 1 /\ CellsOf(f)'[i].msg = m
  <2>1. i \in 1..Len(CellsOf(f)') /\ CellsOf(f)'[i].at = 0
    BY <1>6 DEF HeadAt
  <2>2. CASE f # writeFileNum
    BY <1>1, <2>1, <2>2 DEF HeadAt
  <2>3. CASE f = writeFileNum /\ i \in 1..Len(CellsOf(f))
    <3>1. CellsOf(f)'[i] = CellsOf(f)[i]
      BY <1>1, <2>3
    <3> QED
      BY <2>1, <2>3, <3>1 DEF HeadAt
  <2>4. CASE f = writeFileNum /\ ~(i \in 1..Len(CellsOf(f)))
    <3> DEFINE n == Len(CellsOf(f))
    <3>0. n \in Nat
      BY <1>4
    <3>1. Len(CellsOf(f)') = n + Size(m)
      BY <1>1, <2>4
    <3> HIDE DEF n
    <3>2. PICK k \in 1..Size(m) : i = n + k
      <4>1. i - n \in 1..Size(m) /\ i = n + (i - n)
        BY <1>1, <2>1, <2>4, <3>0, <3>1 DEF n
      <4> QED
        BY <4>1
    <3>3. CellsOf(f)'[i] = [msg |-> m, at |-> k - 1]
      BY <1>1, <2>4, <3>2 DEF n
    <3>4. k - 1 = 0
      BY <2>1, <3>3
    <3>5. i = n + 1
      BY <3>0, <3>2, <3>4
    <3> QED
      BY <2>4, <3>3, <3>5 DEF n
  <2> QED
    BY <2>2, <2>3, <2>4
<1>7. ASSUME NEW f \in Nat, NEW i, f = writeFileNum, i = Len(CellsOf(f)) + 1
      PROVE  HeadAt(f, i)' /\ CellsOf(f)'[i].msg = m /\ i \in Nat
  <2>1. 1 \in 1..Size(m) /\ Len(CellsOf(f)) \in Nat
    BY <1>1, <1>4
  <2>2. CellsOf(f)'[i] = [msg |-> m, at |-> 1 - 1] /\ Len(CellsOf(f)') = Len(CellsOf(f)) + Size(m)
    BY <1>1, <1>7, <2>1
  <2>3. i \in 1..Len(CellsOf(f)') /\ i \in Nat
    BY <1>1, <1>7, <2>1, <2>2
  <2> QED
    BY <2>2, <2>3 DEF HeadAt
<1>8. ASSUME NEW f \in Nat, NEW i, HeadAt(f, i)
      PROVE  IdAt(f, i) <= puts /\ IdAt(f, i) \in Nat
  <2>1. i \in 1..Len(CellsOf(f))
    BY <1>8 DEF HeadAt
  <2> QED
    BY <1>8, <2>1, HeadOf DEF InOrder
<1>9. m \notin Queued
  <2> SUFFICES ASSUME m \in Queued PROVE FALSE
    OBVIOUS
  <2>1. PICK f \in Nat, i \in Nat : HeadAt(f, i) /\ CellsOf(f)[i].msg = m
    BY QueuedIs DEF Waits
  <2>2. IdAt(f, i) = puts + 1 /\ IdAt(f, i) <= puts
    BY <1>2, <1>8, <2>1 DEF IdAt
  <2> QED
    BY <1>2, <2>2
<1>10. Queued' = Queued \cup {m}
  <2>1. Queued = {x \in Message : Waits(x)} /\ Queued' = {x \in Message : Waits(x)'}
    BY QueuedWaits, QueuedWaitsNext
  <2>2. ASSUME NEW x, Waits(x)' PROVE Waits(x) \/ x = m
    <3>1. PICK f \in Nat, i \in Nat :
            /\ HeadAt(f, i)' /\ CellsOf(f)'[i].msg = x
            /\ f > readFileNum \/ (f = readFileNum /\ i > readPos)
      BY <1>3, <2>2 DEF Waits
    <3>2. CASE HeadAt(f, i) /\ CellsOf(f)'[i] = CellsOf(f)[i]
      BY <3>1, <3>2 DEF Waits
    <3> QED
      BY <1>6, <3>1, <3>2
  <2>3. ASSUME NEW x, Waits(x) PROVE Waits(x)'
    <3>1. PICK f \in Nat, i \in Nat :
            /\ HeadAt(f, i) /\ CellsOf(f)[i].msg = x
            /\ f > readFileNum \/ (f = readFileNum /\ i > readPos)
      BY <2>3 DEF Waits
    <3>2. HeadAt(f, i)' /\ CellsOf(f)'[i].msg = x
      BY <1>5, <3>1
    <3> QED
      BY <1>3, <3>1, <3>2 DEF Waits
  <2>4. ASSUME NEW x, x = m PROVE Waits(x)'
    <3>1. PICK f \in Nat, i \in Nat : f = writeFileNum /\ i = Len(CellsOf(f)) + 1
      <4>1. Len(CellsOf(writeFileNum)) + 1 \in Nat
        BY <1>3, <1>4
      <4> QED
        BY <1>3, <4>1
    <3>2. HeadAt(f, i)' /\ CellsOf(f)'[i].msg = x
      BY <1>7, <2>4, <3>1
    <3>3. f > readFileNum \/ (f = readFileNum /\ i > readPos)
      <4>1. CASE f = readFileNum
        <5>1. Len(CellsOf(f)) \in Nat /\ readPos <= Len(CellsOf(f))
          BY <1>3, <1>4, <4>1
        <5> QED
          BY <1>3, <3>1, <4>1, <5>1
      <4>2. CASE f # readFileNum
        BY <1>3, <3>1, <4>2
      <4> QED
        BY <4>1, <4>2
    <3> QED
      BY <1>3, <3>2, <3>3 DEF Waits
  <2>5. PICK w \in Message : w = m
    BY <1>1
  <2>6. Waits(w)'
    BY <2>4, <2>5
  <2>7. Queued' = Queued \cup {w}
    BY <2>1, <2>2, <2>3, <2>5, <2>6
  <2> QED
    BY <2>5, <2>7
<1>11. InOrder'
  <2> SUFFICES ASSUME NEW f \in Nat, NEW g \in Nat, NEW i, NEW j, HeadAt(f, i)', HeadAt(g, j)'
               PROVE  /\ IdAt(f, i)' <= puts + 1
                      /\ f < g \/ (f = g /\ i < j) => IdAt(f, i)' < IdAt(g, j)'
    BY <1>2 DEF InOrder
  <2>1. \/ HeadAt(f, i) /\ IdAt(f, i)' = IdAt(f, i)
        \/ f = writeFileNum /\ i = Len(CellsOf(f)) + 1 /\ IdAt(f, i)' = puts + 1
    BY <1>2, <1>6 DEF IdAt
  <2>2. \/ HeadAt(g, j) /\ IdAt(g, j)' = IdAt(g, j)
        \/ g = writeFileNum /\ j = Len(CellsOf(g)) + 1 /\ IdAt(g, j)' = puts + 1
    BY <1>2, <1>6 DEF IdAt
  <2>3. IdAt(f, i)' <= puts + 1
    BY <1>2, <1>8, <2>1
  <2>4. ASSUME f < g \/ (f = g /\ i < j) PROVE IdAt(f, i)' < IdAt(g, j)'
    <3>1. CASE HeadAt(f, i) /\ IdAt(f, i)' = IdAt(f, i)
      <4>1. CASE HeadAt(g, j) /\ IdAt(g, j)' = IdAt(g, j)
        <5>1. i \in 1..Len(CellsOf(f)) /\ j \in 1..Len(CellsOf(g))
          BY <3>1, <4>1 DEF HeadAt
        <5> QED
          BY <2>4, <3>1, <4>1, <5>1 DEF InOrder
      <4>2. CASE IdAt(g, j)' = puts + 1
        BY <1>2, <1>8, <3>1, <4>2
      <4> QED
        BY <2>2, <4>1, <4>2
    <3>2. CASE f = writeFileNum /\ i = Len(CellsOf(f)) + 1
      <4>1. CASE HeadAt(g, j)
        <5>1. g \in readFileNum..writeFileNum /\ j \in 1..Len(CellsOf(g))
          BY <4>1, HeadOf DEF HeadAt
        <5>2. Len(CellsOf(f)) \in Nat /\ Len(CellsOf(g)) \in Nat
          BY <1>4
        <5>3. f = g
          BY <1>3, <2>4, <3>2, <5>1
        <5> QED
          BY <2>4, <3>2, <5>1, <5>2, <5>3
      <4>2. CASE g = writeFileNum /\ j = Len(CellsOf(g)) + 1
        <5>1. Len(CellsOf(f)) \in Nat
          BY <1>4
        <5> QED
          BY <1>3, <2>4, <3>2, <4>2, <5>1
      <4> QED
        BY <2>2, <4>1, <4>2
    <3> QED
      BY <2>1, <3>1, <3>2
  <2> QED
    BY <2>3, <2>4
<1> QED
  BY <1>9, <1>10, <1>11 DEF m

\* A file that is put aside has been read to its end.
LEMMA ReadErrorQueued ==
    ASSUME Typed, Placed, Typed', Placed', ReadError
    PROVE  /\ Queued' = Queued
           /\ files' = Removed(files, {readFileNum})
           /\ readFileNum' = readFileNum + 1 /\ readPos' = 0
           /\ UNCHANGED <<writeFile, writeFileNum>>
<1> DEFINE cells == CellsOf(readFileNum)
<1>1. /\ nextReadPos = readPos /\ CanRead /\ files' = Removed(files, {readFileNum})
      /\ readFileNum' = readFileNum + 1 /\ readPos' = 0
      /\ readFileNum # writeFileNum => UNCHANGED <<writeFile, writeFileNum>>
  BY DEF ReadError, writeVars
<1>2. PICK o \in ReadOutcomes : ~o.ok
  BY DEF ReadError
<1>3. /\ Laid(WLimit, cells) /\ Boundary(cells, readPos)
      /\ readFile # Nil => Buffered(reader, cells, readPos)
  BY <1>1 DEF Placed, Layout, ReadPlace, ReaderPlace, Typed, PositionsOK
<1>4. ~(readPos < Len(cells))
  BY <1>2, <1>3, ReadAt
<1>5. /\ readPos \in 0..Len(cells) /\ Len(cells) \in Nat
      /\ readFileNum \in Nat /\ writeFileNum \in Nat /\ writePos \in Nat
      /\ readFileNum <= writeFileNum
      /\ writePos = Len(CellsOf(writeFileNum))
  BY <1>3, CellsOfType, Constants DEF Boundary, Typed, PositionsOK, Placed, Span
<1>6. readFileNum # writeFileNum
  <2> SUFFICES ASSUME readFileNum = writeFileNum PROVE FALSE
    OBVIOUS
  <2>1. writePos = Len(cells)
    BY <1>5
  <2> HIDE DEF cells
  <2> QED
    BY <1>1, <1>4, <1>5, <2>1 DEF CanRead
<1>7. \A m : m \in Queued' <=>
        \E f \in Nat : \E i \in Nat : f > readFileNum /\ HeadAt(f, i) /\ CellsOf(f)[i].msg = m
  BY <1>1, NextFileQueued
<1>8. ASSUME NEW i \in Nat, HeadAt(readFileNum, i) PROVE ~(i > readPos)
  <2>1. i \in 1..Len(cells)
    BY <1>8 DEF HeadAt
  <2> HIDE DEF cells
  <2> QED
    BY <1>4, <1>5, <2>1
<1>9. \A m : m \in Queued' <=> m \in Queued
  BY <1>7, <1>8, QueuedIs DEF Waits
<1> QED
  BY <1>1, <1>6, <1>9

\* The steps that leave messages and positions alone.
Quiet ==
    /\ \A f \in Nat : CellsOf(f)' = CellsOf(f)
    /\ UNCHANGED <<readFileNum, readPos, depth, puts, ret>>

LEMMA StepKinds ==
    ASSUME Typed, Placed, Step, crashes' = 0
    PROVE  \/ Quiet \/ ReadError \/ Deliver \/ Empty
           \/ \E len \in Lens : WriteOne(len, WRolls)
<1>0. ASSUME files' = files PROVE \A f \in Nat : CellsOf(f)' = CellsOf(f)
  BY <1>0 DEF CellsOf
<1>1. CASE New
  <2>1. /\ RetrieveMetaData.rf = readFileNum /\ RetrieveMetaData.rp = readPos
        /\ RetrieveMetaData.depth = depth
    BY <1>1 DEF Placed, Stored, New, NewFrom
  <2> QED
    BY <1>0, <1>1, <2>1 DEF New, NewFrom, disk, bounds, Quiet
<1>2. CASE LoopSync
  <2>1. \A f \in Nat : CellsOf(f)' = CellsOf(f)
    <3>1. CASE SyncDue
      BY <1>2, <3>1, SyncCells DEF LoopSync
    <3>2. CASE ~SyncDue
      BY <1>0, <1>2, <3>2 DEF LoopSync, disk
    <3> QED
      BY <3>1, <3>2
  <2> QED
    BY <1>2, <2>1 DEF LoopSync, readVars, bounds, Quiet
<1>3. CASE ReadSkip \/ ReadOne
  BY <1>0, <1>3 DEF ReadSkip, ReadOne, ReadOneTo, readVars, disk, history, bounds, Quiet
<1>4. ASSUME NEW len \in Lens, PutRefused(len) PROVE Quiet
  <2>1. files' = SetFile(files, writeFileNum, FileAt(files, writeFileNum))
    BY <1>4 DEF PutRefused
  <2>2. \A f \in Nat : CellsOf(f)' = CellsOf(f)
    BY <2>1 DEF CellsOf, SetFile, FileAt
  <2> QED
    BY <1>4, <2>2 DEF PutRefused, readVars, history, bounds, Quiet
<1>5. CASE Roll
  BY <1>5, SyncCells DEF Roll, readVars, bounds, Quiet
<1>6. CASE RemoveMeta \/ SyncTick \/ QReadTick
  BY <1>0, <1>6 DEF RemoveMeta, SyncTick, QReadTick, readVars, disk, history, bounds, Quiet
<1>7. CASE Close
  BY <1>0, <1>7 DEF Close, readVars, disk, history, Quiet
<1>8. CASE CloseSync
  BY <1>8, SyncCells DEF CloseSync, readVars, bounds, Quiet
<1>9. ASSUME Delete \/ Crash PROVE FALSE
  <2>1. crashes' = crashes + 1 /\ crashes \in Nat
    BY <1>9 DEF Delete, Crash, Typed, ControlOK
  <2> QED
    BY <2>1
<1> QED
  BY <1>1, <1>2, <1>3, <1>4, <1>5, <1>6, <1>7, <1>8, <1>9 DEF Step

\* An Empty leaves nothing.
LEMMA EmptyQueued ==
    ASSUME Typed, Placed, Typed', Placed', Empty
    PROVE  /\ DOMAIN files' = {} /\ Queued' = {} /\ depth' = 0
           /\ readFileNum' = writeFileNum' /\ readPos' = 0 /\ writePos' = 0
<1>1. SkipToNextRWFile(files, readFileNum)
  BY DEF Empty
<1>2. DOMAIN files \subseteq readFileNum..writeFileNum
  BY DEF Placed, Span
<1>3. DOMAIN files' = {}
  BY <1>1, <1>2 DEF SkipToNextRWFile, Removed
<1>4. readFileNum' = writeFileNum' /\ readPos' = 0 /\ writePos' = 0 /\ depth' = 0
  BY <1>1 DEF SkipToNextRWFile
<1>5. Queued' = {}
  BY <1>4, TailEmptyNext
<1> QED
  BY <1>3, <1>4, <1>5

LEMMA ExactStep ==
    ASSUME Typed, Placed, Typed', Placed', InOrder, Counted, ret \in Message \cup {Nil},
           Step, crashes' = 0
    PROVE  InOrder' /\ Counted' /\ ret' \in Message \cup {Nil}
<1>0. IsFiniteSet({}) /\ Cardinality({}) = 0
  BY FS_EmptySet
<1>1. CASE Quiet
  <2>1. Queued' = Queued
    BY <1>1, QuietQueued DEF Quiet
  <2> QED
    BY <1>1, <2>1, InOrderFewer DEF Quiet, Counted
<1>2. CASE ReadError
  <2>1. Queued' = Queued /\ files' = Removed(files, {readFileNum})
    BY <1>2, ReadErrorQueued
  <2>2. \A f \in Nat : CellsOf(f)' = CellsOf(f) \/ CellsOf(f)' = <<>>
    BY <2>1 DEF CellsOf, FileAt, Removed, NoFile
  <2>3. puts' = puts /\ ret' = ret /\ depth' = depth
    BY <1>2 DEF ReadError, history, bounds
  <2> QED
    BY <2>1, <2>2, <2>3, InOrderFewer DEF Counted
<1>3. CASE Deliver
  <2>1. /\ dataRead \in Queued /\ Queued' = Queued \ {dataRead} /\ dataRead \in Message
        /\ files' = AfterRead
        /\ depth' = depth - 1 \/ (depth' = 0 /\ Queued' = {})
    BY <1>3, DeliverQueued
  <2>2. \A f \in Nat : CellsOf(f)' = CellsOf(f) \/ CellsOf(f)' = <<>>
    BY <2>1 DEF CellsOf, FileAt, AfterRead, Removed, NoFile
  <2>3. puts' = puts /\ ret' = dataRead
    BY <1>3 DEF Deliver, bounds
  <2>4. Counted'
    <3>1. /\ IsFiniteSet(Queued \ {dataRead})
          /\ Cardinality(Queued \ {dataRead}) = Cardinality(Queued) - 1
      BY <2>1, FS_RemoveElement DEF Counted
    <3>2. CASE depth' = depth - 1
      BY <2>1, <3>1, <3>2 DEF Counted
    <3>3. CASE depth' = 0 /\ Queued' = {}
      BY <1>0, <3>3 DEF Counted
    <3> QED
      BY <2>1, <3>2, <3>3
  <2> QED
    BY <2>1, <2>2, <2>3, <2>4, InOrderFewer
<1>4. CASE Empty
  <2>1. DOMAIN files' = {} /\ Queued' = {} /\ depth' = 0
    BY <1>4, EmptyQueued
  <2>2. \A f \in Nat : CellsOf(f)' = <<>>
    BY <2>1 DEF CellsOf, FileAt, NoFile
  <2>3. puts' = puts /\ ret' = ret
    BY <1>4 DEF Empty
  <2> QED
    BY <1>0, <2>1, <2>2, <2>3, InOrderFewer DEF Counted
<1>5. ASSUME NEW len \in Lens, WriteOne(len, WRolls)
      PROVE  InOrder' /\ Counted' /\ ret' \in Message \cup {Nil}
  <2> DEFINE m == [id |-> puts + 1, len |-> len]
  <2>1. m \notin Queued /\ Queued' = Queued \cup {m} /\ InOrder'
    BY <1>5, WriteOneQueued
  <2>2. ret' = ret /\ depth' = depth + 1
    BY <1>5 DEF WriteOne, history
  <2> HIDE DEF m
  <2>3. /\ IsFiniteSet(Queued \cup {m})
        /\ Cardinality(Queued \cup {m}) = Cardinality(Queued) + 1
    BY <2>1, FS_AddElement DEF Counted
  <2> QED
    BY <2>1, <2>2, <2>3 DEF Counted
<1> QED
  BY <1>1, <1>2, <1>3, <1>4, <1>5, StepKinds

LEMMA ExactInit == Init => Exact
<1> SUFFICES ASSUME Init PROVE InOrder /\ Counted /\ ret \in Message \cup {Nil}
  BY DEF Exact
<1>1. Typed /\ Placed
  BY TypedInit, SoundInit DEF Sound, Init
<1>2. /\ readFileNum = writeFileNum /\ readPos = writePos /\ depth = 0 /\ ret = Nil
      /\ DOMAIN files = {}
  BY DEF Init
<1>3. Queued = {}
  BY <1>1, <1>2, TailEmpty
<1>4. \A f \in Nat : CellsOf(f) = <<>>
  BY <1>2 DEF CellsOf, FileAt, NoFile
<1>5. InOrder
  BY <1>4 DEF InOrder
<1> QED
  BY <1>2, <1>3, <1>5, FS_EmptySet DEF Counted

\* No step brings the first crash back.
LEMMA StillNone ==
    ASSUME Typed, Step, crashes' = 0 PROVE crashes = 0
<1>1. crashes \in Nat
  BY DEF Typed, ControlOK
<1> QED
  BY <1>1, CrashesGrow

LEMMA ExactNext ==
    Typed /\ Sound /\ Exact /\ Typed' /\ Sound' /\ [EitherNext]_vars => Exact'
<1>1. ASSUME Typed, Sound, Exact, Typed', Sound', Step, crashes' = 0
      PROVE  InOrder' /\ Counted' /\ ret' \in Message \cup {Nil}
  <2>1. crashes = 0
    BY <1>1, StillNone
  <2>2. Placed /\ Placed' /\ InOrder /\ Counted /\ ret \in Message \cup {Nil}
    BY <1>1, <2>1 DEF Sound, Exact
  <2> QED
    BY <1>1, <2>2, ExactStep
<1>2. ASSUME Exact, UNCHANGED vars PROVE Exact'
  BY <1>2 DEF vars, readVars, writeVars, disk, history, bounds, Exact, InOrder, Counted, HeadAt,
              IdAt, CellsOf, Queued
<1> QED
  BY <1>1, <1>2, Steps DEF Exact

\* Depth is the number of messages in the files, in the middle of a roll or an
\* Empty and after Close and New too, as long as the process does not crash:
\* every change of the depth goes with the change of the files and positions it
\* counts, and the resets to zero in moveForward and skipToNextRWFile find the
\* queue empty (diskqueue.go:276, 416, 543-557, 583).
THEOREM DepthIsExact == EitherSpec => []DepthExact
<1>1. Init => Typed /\ Sound /\ Exact
  BY TypedInit, SoundInit, ExactInit
<1>2. Typed /\ Sound /\ Exact /\ [EitherNext]_vars => (Typed /\ Sound /\ Exact)'
  BY TypedNext, SoundNext, ExactNext
<1>3. Sound /\ Exact => DepthExact
  BY DEF Sound, Exact, Counted, DepthExact
<1> QED
  BY <1>1, <1>2, <1>3, PTL DEF EitherSpec

\* What a consumer receives without a crash: the oldest message in the queue,
\* whole, and once; and no other step takes a message out, except Empty.
Receives ==
    Deliver => /\ ret' \in Queued /\ \A m \in Queued : ret'.id <= m.id
               /\ Queued' = Queued \ {ret'}
Keeps == ~Deliver /\ ~Empty => Queued \subseteq Queued'
FirstOut == ~setup.mayCrash => Receives /\ Keeps

\* First in, first out, of both copies: a consumer receives the oldest message
\* of those put and neither received nor emptied, across file rolls, Close and
\* New and the files the second copy puts aside, and nothing but a delivery or
\* Empty takes a message out (diskqueue.go:58, 283-360, 534-650).
THEOREM OldestFirst == EitherSpec => [][FirstOut]_vars
<1>1. Init => Typed /\ Sound /\ Exact
  BY TypedInit, SoundInit, ExactInit
<1>2. Typed /\ Sound /\ Exact /\ [EitherNext]_vars => (Typed /\ Sound /\ Exact)'
  BY TypedNext, SoundNext, ExactNext
<1>3. Typed /\ Sound /\ Exact /\ (Typed /\ Sound /\ Exact)' /\ [EitherNext]_vars => [FirstOut]_vars
  <2> SUFFICES ASSUME Typed, Sound, Exact, Typed', Sound', Exact', Step, ~setup.mayCrash
               PROVE  Receives /\ Keeps
    BY Steps DEF FirstOut
  <2>1. setup' = setup /\ crashes = 0 /\ crashes' = 0
    BY CrashesGrow DEF Sound
  <2>2. Placed /\ Placed' /\ InOrder
    BY <2>1 DEF Sound, Exact
  <2>3. Receives
    <3> SUFFICES ASSUME Deliver
                 PROVE  /\ ret' \in Queued /\ \A m \in Queued : ret'.id <= m.id
                        /\ Queued' = Queued \ {ret'}
      BY DEF Receives
    <3>1. ret' = dataRead
      BY DEF Deliver
    <3> QED
      BY <2>2, <3>1, DeliverQueued
  <2>4. Keeps
    <3>1. CASE Quiet
      <4>1. Queued' = Queued
        BY <2>2, <3>1, QuietQueued DEF Quiet
      <4> QED
        BY <4>1 DEF Keeps
    <3>2. CASE ReadError
      <4>1. Queued' = Queued
        BY <2>2, <3>2, ReadErrorQueued
      <4> QED
        BY <4>1 DEF Keeps
    <3>3. ASSUME NEW len \in Lens, WriteOne(len, WRolls) PROVE Keeps
      <4> DEFINE m == [id |-> puts + 1, len |-> len]
      <4>1. Queued' = Queued \cup {m}
        BY <2>2, <3>3, WriteOneQueued
      <4> HIDE DEF m
      <4> QED
        BY <4>1 DEF Keeps
    <3> QED
      BY <2>1, <2>2, <3>1, <3>2, <3>3, StepKinds DEF Keeps
  <2> QED
    BY <2>3, <2>4
<1> QED
  BY <1>1, <1>2, <1>3, PTL DEF EitherSpec

-----------------------------------------------------------------------------
(* What survives a crash *)

\* A header in the fsynced part of a file,
Fixed(f, i) ==
    /\ f \in DOMAIN files /\ i \in 1..files[f].synced
    /\ files[f].cells[i] # Zero /\ files[f].cells[i].at = 0

\* within the positions of the metadata file.
InMeta(f, i) ==
    /\ meta # Nil /\ f \in meta.rf..meta.wf
    /\ f = meta.rf => i > meta.rp
    /\ f = meta.wf => i <= meta.wp

Survives(m) ==
    \E f \in Nat : \E i \in Nat :
        Fixed(f, i) /\ InMeta(f, i) /\ files[f].cells[i].msg = m

\* Every file but the one being written is fsynced to its end.
Fsynced ==
    /\ pc # "roll" => writeFile \in {Nil, writeFileNum}
    /\ \A f \in DOMAIN files : f # writeFile => files[f].synced = Len(files[f].cells)

\* Nothing is left while the queue is emptied, nor was there before it started.
Bare == pc \in {"emptying", "down"} => DOMAIN files = {}

\* What a crash would undo.
Drift == (Queued \ Recoverable) \cup (Recoverable \ Queued)

\* What is owed to the last sync can be recovered, and each operation since has
\* added at most one message to what a crash would undo.
Backed ==
    /\ saved \subseteq Queued \cap Recoverable
    /\ IsFiniteSet(Drift) /\ Cardinality(Drift) <= count

Durable ==
    setup.mayCrash =>
        /\ pc # "exited"
        /\ crashes = 0 => Fsynced /\ Bare /\ Backed
        /\ crashes = 1 /\ pc = "down" => saved \subseteq Recoverable

LEMMA RecoverableIs == Typed => Recoverable = {m \in Message : Survives(m)}
<1> SUFFICES ASSUME Typed PROVE Recoverable = {m \in Message : Survives(m)}
  OBVIOUS
<1> DEFINE durable == [f \in DOMAIN files |->
                          [files[f] EXCEPT !.cells = SubSeq(@, 1, files[f].synced)]]
<1>1. Recoverable = IF meta = Nil THEN {}
                    ELSE Between(durable, meta.rf, meta.rp, meta.wf, meta.wp)
  BY DEF Recoverable
<1>2. DOMAIN durable = DOMAIN files /\ DOMAIN files \subseteq Nat
  BY DEF Typed, FilesOK
<1>3. ASSUME NEW f \in DOMAIN files
      PROVE  /\ durable[f].cells \in Seq(Cell)
             /\ DOMAIN durable[f].cells = 1..files[f].synced
             /\ \A i \in 1..files[f].synced : durable[f].cells[i] = files[f].cells[i]
  <2>1. /\ files[f] \in File /\ files[f].cells \in Seq(Cell) /\ files[f].synced \in Nat
        /\ files[f].synced <= Len(files[f].cells)
    BY DEF Typed, FilesOK, File
  <2>2. durable[f].cells = SubSeq(files[f].cells, 1, files[f].synced)
    BY <2>1 DEF File
  <2> HIDE DEF durable
  <2> DEFINE c == files[f].cells
             n == files[f].synced
  <2>3. /\ SubSeq(c, 1, n) \in Seq(Cell) /\ Len(SubSeq(c, 1, n)) = n
        /\ \A i \in 1..n : SubSeq(c, 1, n)[i] = c[i]
    <3>1. c \in Seq(Cell) /\ n \in 0..Len(c)
      BY <2>1
    <3> HIDE DEF c, n
    <3> QED
      BY <3>1, FirstPart
  <2> QED
    BY <2>2, <2>3
<1> HIDE DEF durable
<1>4. meta # Nil => meta \in MetaData
  BY DEF Typed, BadMetaOK
<1>5. Recoverable \subseteq Message
  <2>1. CASE meta = Nil
    BY <1>1, <2>1
  <2>2. CASE meta # Nil
    <3>1. \A f \in DOMAIN durable : durable[f].cells \in Seq(Cell)
      BY <1>2, <1>3
    <3> QED
      BY <1>1, <2>2, <3>1, BetweenType
  <2> QED
    BY <2>1, <2>2
<1>6. ASSUME NEW m, m \in Recoverable PROVE Survives(m)
  <2>1. meta # Nil /\ m \in Between(durable, meta.rf, meta.rp, meta.wf, meta.wp)
    BY <1>1, <1>6
  <2>2. PICK f \in DOMAIN durable \cap meta.rf..meta.wf : \E i \in DOMAIN durable[f].cells :
          /\ f = meta.rf => i > meta.rp
          /\ f = meta.wf => i <= meta.wp
          /\ durable[f].cells[i] # Zero /\ durable[f].cells[i].at = 0
          /\ m = durable[f].cells[i].msg
    BY <2>1, BetweenIs
  <2>3. PICK i \in DOMAIN durable[f].cells :
          /\ f = meta.rf => i > meta.rp
          /\ f = meta.wf => i <= meta.wp
          /\ durable[f].cells[i] # Zero /\ durable[f].cells[i].at = 0
          /\ m = durable[f].cells[i].msg
    BY <2>2
  <2>4. f \in DOMAIN files /\ f \in Nat /\ files[f].synced \in Nat
    BY <1>2, <2>2 DEF Typed, FilesOK, File
  <2>5. i \in 1..files[f].synced /\ durable[f].cells[i] = files[f].cells[i] /\ i \in Nat
    BY <1>3, <2>3, <2>4
  <2>6. Fixed(f, i) /\ files[f].cells[i].msg = m
    BY <2>3, <2>4, <2>5 DEF Fixed
  <2>7. InMeta(f, i)
    BY <2>1, <2>2, <2>3 DEF InMeta
  <2> QED
    BY <2>4, <2>5, <2>6, <2>7 DEF Survives
<1>7. ASSUME NEW m, Survives(m) PROVE m \in Recoverable
  <2>1. PICK f \in Nat, i \in Nat : Fixed(f, i) /\ InMeta(f, i) /\ files[f].cells[i].msg = m
    BY <1>7 DEF Survives
  <2>2. /\ f \in DOMAIN durable \cap meta.rf..meta.wf /\ i \in DOMAIN durable[f].cells
        /\ durable[f].cells[i] = files[f].cells[i]
    BY <1>2, <1>3, <2>1 DEF Fixed, InMeta
  <2>3. m \in Between(durable, meta.rf, meta.rp, meta.wf, meta.wp)
    BY <2>1, <2>2, BetweenIs DEF Fixed, InMeta
  <2> QED
    BY <1>1, <2>1, <2>3 DEF InMeta
<1> QED
  BY <1>5, <1>6, <1>7

\* The same after a step.
LEMMA RecoverableNext == (Typed => Recoverable = {m \in Message : Survives(m)})'
  BY RecoverableIs, PTL

\* Without files nothing survives, and nothing waits.
LEMMA NoFiles == DOMAIN files = {} /\ Typed => Recoverable = {} /\ Queued = {} /\ Drift = {}
<1> SUFFICES ASSUME DOMAIN files = {}, Typed PROVE Recoverable = {} /\ Queued = {}
  BY DEF Drift
<1>1. Recoverable = {}
  BY RecoverableIs DEF Survives, Fixed
<1>2. Queued = {}
  BY BetweenIs DEF Queued
<1> QED
  BY <1>1, <1>2

LEMMA NoFilesNext ==
    (DOMAIN files = {} /\ Typed => Recoverable = {} /\ Queued = {} /\ Drift = {})'
  BY NoFiles, PTL

\* Right after a sync the disk holds the queue.
LEMMA SyncDurable ==
    ASSUME Typed, Placed, Typed', Placed', Fsynced, Sync,
           UNCHANGED <<readFileNum, readPos, writeFileNum, writePos>>
    PROVE  /\ \A f \in DOMAIN files' : files'[f].synced = Len(files'[f].cells)
           /\ Recoverable' = Queued' /\ saved' = Queued'
<1>1. ASSUME NEW f \in DOMAIN files' PROVE files'[f].synced = Len(files'[f].cells)
  <2>1. CASE writeFile \notin DOMAIN files
    BY <2>1, <1>1 DEF Sync, FsyncWriteFile, Fsynced
  <2>2. CASE writeFile \in DOMAIN files
    <3> DEFINE file == [files[writeFile] EXCEPT !.synced = Len(files[writeFile].cells)]
    <3>1. files[writeFile] \in File
      BY <2>2 DEF Typed, FilesOK
    <3>2. file.cells = files[writeFile].cells /\ file.synced = Len(files[writeFile].cells)
      BY <3>1 DEF File
    <3>3. files' = SetFile(files, writeFile, file)
      BY <2>2 DEF Sync, FsyncWriteFile
    <3> HIDE DEF file
    <3>4. f \in DOMAIN files /\ files'[f] = IF f = writeFile THEN file ELSE files[f]
      BY <1>1, <2>2, <3>3 DEF SetFile
    <3> QED
      BY <3>2, <3>4 DEF Fsynced
  <2> QED
    BY <2>1, <2>2
<1>2. Queued' = Queued
  BY SyncCells, QuietQueued
<1>3. saved' = Queued
  BY DEF Sync, PersistMetaData
<1>4. meta' = [depth |-> depth, rf |-> readFileNum, rp |-> readPos,
               wf |-> writeFileNum, wp |-> writePos]
  BY SyncCells
<1>5. meta' # Nil
  <2>1. meta' \in MetaData
    BY <1>4, Constants DEF Typed, PositionsOK, MetaData
  <2> QED
    BY <2>1, Constants
<1>6. /\ meta'.rf = readFileNum /\ meta'.rp = readPos
      /\ meta'.wf = writeFileNum /\ meta'.wp = writePos
  BY <1>4
<1>7. \A f \in DOMAIN files' : /\ f \in Nat
                               /\ DOMAIN files'[f].cells = 1..files'[f].synced
  <2> SUFFICES ASSUME NEW f \in DOMAIN files'
               PROVE  f \in Nat /\ DOMAIN files'[f].cells = 1..files'[f].synced
    OBVIOUS
  <2>1. f \in Nat /\ files'[f].cells \in Seq(Cell)
    BY DEF Typed, FilesOK, File
  <2> QED
    BY <1>1, <2>1
<1>8. Recoverable' = {m \in Message : Survives(m)'}
  BY RecoverableNext
<1>9. Queued' = Between(files', readFileNum, readPos, writeFileNum, writePos)
  BY DEF Queued
<1>10. Queued' \subseteq Message
  BY <1>9, BetweenType DEF Typed, FilesOK, File
<1>11. ASSUME NEW m, m \in Queued' PROVE Survives(m)'
  <2>1. PICK f \in DOMAIN files' \cap readFileNum..writeFileNum :
          \E i \in DOMAIN files'[f].cells :
            /\ f = readFileNum => i > readPos
            /\ f = writeFileNum => i <= writePos
            /\ files'[f].cells[i] # Zero /\ files'[f].cells[i].at = 0
            /\ m = files'[f].cells[i].msg
    BY <1>9, <1>11, BetweenIs
  <2>2. PICK i \in DOMAIN files'[f].cells :
            /\ f = readFileNum => i > readPos
            /\ f = writeFileNum => i <= writePos
            /\ files'[f].cells[i] # Zero /\ files'[f].cells[i].at = 0
            /\ m = files'[f].cells[i].msg
    BY <2>1
  <2>3. f \in Nat /\ i \in Nat /\ i \in 1..files'[f].synced
    <3>1. files'[f].synced \in Nat
      BY DEF Typed, FilesOK, File
    <3> QED
      BY <1>7, <3>1
  <2>4. Fixed(f, i)'
    BY <2>2, <2>3 DEF Fixed
  <2>5. InMeta(f, i)'
    BY <1>5, <1>6, <2>2 DEF InMeta
  <2> QED
    BY <2>2, <2>3, <2>4, <2>5 DEF Survives
<1>12. ASSUME NEW m, Survives(m)' PROVE m \in Queued'
  <2>1. PICK f \in Nat, i \in Nat :
          Fixed(f, i)' /\ InMeta(f, i)' /\ files'[f].cells[i].msg = m
    BY <1>12 DEF Survives
  <2>2. f \in DOMAIN files' /\ i \in DOMAIN files'[f].cells
    BY <1>7, <2>1 DEF Fixed
  <2> QED
    BY <1>6, <1>9, <2>1, <2>2, BetweenIs DEF Fixed, InMeta
<1> QED
  BY <1>1, <1>2, <1>3, <1>8, <1>10, <1>11, <1>12

\* Removing files takes out what they held; what still waits survives as before.
LEMMA FewerFiles ==
    ASSUME Typed, Placed, Typed', Placed', InOrder, meta' = meta,
           DOMAIN files' \subseteq DOMAIN files,
           \A f \in DOMAIN files' : files'[f] = files[f]
    PROVE  /\ Recoverable' \subseteq Recoverable
           /\ Queued' \cap Recoverable \subseteq Recoverable'
<1>1. /\ Recoverable = {m \in Message : Survives(m)}
      /\ Recoverable' = {m \in Message : Survives(m)'}
  BY RecoverableIs, RecoverableNext
<1>2. ASSUME NEW f \in DOMAIN files', NEW i
      PROVE  (Fixed(f, i)' <=> Fixed(f, i)) /\ (InMeta(f, i)' <=> InMeta(f, i))
  BY DEF Fixed, InMeta
<1>3. ASSUME NEW m, Survives(m)' PROVE Survives(m)
  <2>1. PICK f \in Nat, i \in Nat :
          Fixed(f, i)' /\ InMeta(f, i)' /\ files'[f].cells[i].msg = m
    BY <1>3 DEF Survives
  <2>2. f \in DOMAIN files'
    BY <2>1 DEF Fixed
  <2> QED
    BY <1>2, <2>1, <2>2 DEF Survives
<1>4. ASSUME NEW m \in Queued', Survives(m) PROVE Survives(m)'
  <2>1. PICK g \in Nat, j \in Nat : Fixed(g, j) /\ InMeta(g, j) /\ files[g].cells[j].msg = m
    BY <1>4 DEF Survives
  <2>2. HeadAt(g, j) /\ CellsOf(g)[j].msg = m
    <3>1. g \in DOMAIN files /\ j \in 1..files[g].synced /\ files[g].cells[j].at = 0
      BY <2>1 DEF Fixed
    <3>2. CellsOf(g) = files[g].cells
      BY <3>1 DEF CellsOf, FileAt
    <3>3. files[g].synced \in Nat /\ files[g].cells \in Seq(Cell)
          /\ files[g].synced <= Len(files[g].cells)
      BY <3>1 DEF Typed, FilesOK, File
    <3>4. j \in 1..Len(files[g].cells)
      BY <3>1, <3>3
    <3> QED
      BY <2>1, <3>1, <3>2, <3>4 DEF HeadAt
  <2>3. Waits(m)'
    BY QueuedWaitsNext
  <2>4. PICK f \in Nat, i \in Nat : HeadAt(f, i)' /\ CellsOf(f)'[i].msg = m
    BY <2>3 DEF Waits
  <2>5. f \in DOMAIN files'
    BY <2>4, EmptySeq DEF HeadAt, CellsOf, FileAt, NoFile
  <2>6. CellsOf(f)' = CellsOf(f)
    BY <2>5 DEF CellsOf, FileAt
  <2>7. HeadAt(f, i) /\ CellsOf(f)[i].msg = m
    BY <2>4, <2>6 DEF HeadAt
  <2>8. f = g
    BY <2>2, <2>7, HeadsDiffer
  <2>9. g \in DOMAIN files'
    BY <2>5, <2>8
  <2> QED
    BY <1>2, <2>1, <2>9 DEF Survives
<1> QED
  BY <1>1, <1>3, <1>4

\* Steps that leave what is fsynced.
LEMMA SameFixed ==
    ASSUME Typed, Typed', meta' = meta,
           \A f \in Nat : \A i \in Nat :
              /\ Fixed(f, i)' <=> Fixed(f, i)
              /\ Fixed(f, i) => files'[f].cells[i] = files[f].cells[i]
    PROVE  Recoverable' = Recoverable
<1>1. /\ Recoverable = {m \in Message : Survives(m)}
      /\ Recoverable' = {m \in Message : Survives(m)'}
  BY RecoverableIs, RecoverableNext
<1>2. \A f, i : InMeta(f, i)' <=> InMeta(f, i)
  BY DEF InMeta
<1>3. ASSUME NEW m PROVE Survives(m)' <=> Survives(m)
  BY <1>2 DEF Survives
<1> QED
  BY <1>1, <1>3

\* A Put leaves what is fsynced: it writes behind it.
LEMMA WriteOneFixed ==
    ASSUME Typed, Placed, Typed', NEW len \in Lens, WriteOne(len, WRolls)
    PROVE  /\ Recoverable' = Recoverable
           /\ DOMAIN files' = DOMAIN files \cup {writeFileNum}
           /\ \A f \in DOMAIN files : f # writeFileNum => files'[f] = files[f]
<1> DEFINE old  == FileAt(files, writeFileNum)
           new  == WriteAt(old.cells, writePos, Cells([id |-> puts + 1, len |-> len]))
           file == [cells |-> new, synced |-> Min({old.synced, writePos})]
<1>1. files' = SetFile(files, writeFileNum, file) /\ meta' = meta
  BY DEF WriteOne
<1>2. /\ DOMAIN files' = DOMAIN files \cup {writeFileNum}
      /\ \A f \in DOMAIN files' : files'[f] = IF f = writeFileNum THEN file ELSE files[f]
  BY <1>1 DEF SetFile
<1>3. old \in File /\ old.synced \in Nat /\ old.synced <= Len(old.cells)
  BY FileAtType DEF Typed, FilesOK, File
<1>4. writeFileNum \in Nat /\ writePos = Len(old.cells) /\ writePos \in Nat
  BY Constants DEF Typed, PositionsOK, Placed, Span, CellsOf
<1>5. file.synced = old.synced /\ file.cells = new
  BY <1>3, <1>4, MinOfTwo
<1>6. \A i \in 1..Len(old.cells) : new[i] = old.cells[i]
  <2>1. \A f \in Nat : f = writeFileNum =>
           \A i \in 1..Len(CellsOf(f)) : CellsOf(f)'[i] = CellsOf(f)[i]
    BY WriteOneCells
  <2>2. \A f \in Nat : f = writeFileNum => CellsOf(f)' = new /\ CellsOf(f) = old.cells
    BY <1>2, <1>5 DEF CellsOf, FileAt
  <2> QED
    BY <1>4, <2>1, <2>2
<1>7. ASSUME NEW f \in Nat, NEW i \in Nat
      PROVE  /\ Fixed(f, i)' <=> Fixed(f, i)
             /\ Fixed(f, i) => files'[f].cells[i] = files[f].cells[i]
  <2>1. CASE f # writeFileNum
    BY <1>2, <2>1 DEF Fixed
  <2>2. CASE f = writeFileNum
    <3>1. Fixed(f, i)' <=> i \in 1..old.synced /\ new[i] # Zero /\ new[i].at = 0
      BY <1>2, <1>5, <2>2 DEF Fixed
    <3>2. CASE f \in DOMAIN files
      <4>1. old = files[f]
        BY <2>2, <3>2 DEF FileAt
      <4>2. i \in 1..old.synced => i \in 1..Len(old.cells)
        BY <1>3
      <4>3. i \in 1..old.synced => new[i] = old.cells[i]
        BY <1>6, <4>2
      <4>4. files'[f].cells = new
        BY <1>2, <1>5, <2>2
      <4> QED
        BY <3>1, <3>2, <4>1, <4>3, <4>4 DEF Fixed
    <3>3. CASE f \notin DOMAIN files
      <4>1. old.synced = 0
        BY <2>2, <3>3 DEF FileAt, NoFile
      <4> QED
        BY <3>1, <3>3, <4>1 DEF Fixed
    <3> QED
      BY <3>2, <3>3
  <2> QED
    BY <2>1, <2>2
<1>8. Recoverable' = Recoverable
  BY <1>1, <1>7, SameFixed
<1> QED
  BY <1>2, <1>8

\* The disk holds what is in the queue.
LEMMA BackedAnew ==
    ASSUME Typed', Recoverable' = Queued', saved' \subseteq Queued'
    PROVE  Backed'
<1>1. Drift' = {}
  BY DEF Drift
<1>2. 0 <= count'
  BY Constants DEF Typed, ControlOK
<1> QED
  BY <1>1, <1>2, FS_EmptySet DEF Backed

LEMMA BackedFewer ==
    ASSUME Typed, Typed', Backed, saved' \subseteq Queued' \cap Recoverable',
           Drift' \subseteq Drift, count <= count'
    PROVE  Backed'
<1>1. count \in Nat /\ count' \in Nat /\ Cardinality(Drift) \in Nat
  BY Constants, FS_CardinalityType DEF Typed, ControlOK, Backed
<1>2. IsFiniteSet(Drift') /\ Cardinality(Drift') <= Cardinality(Drift)
  BY FS_Subset DEF Backed
<1>3. Cardinality(Drift') \in Nat
  BY <1>2, FS_CardinalityType
<1>4. Cardinality(Drift) <= count
  BY DEF Backed
<1>5. Cardinality(Drift') <= count'
  BY <1>1, <1>2, <1>3, <1>4
<1> QED
  BY <1>2, <1>5 DEF Backed

LEMMA BackedOneMore ==
    ASSUME Typed, Typed', Backed, saved' \subseteq Queued' \cap Recoverable',
           NEW x, Drift' \subseteq Drift \cup {x}, count' = count + 1
    PROVE  Backed'
<1>1. count \in Nat /\ Cardinality(Drift) \in Nat /\ Cardinality(Drift) <= count
  BY Constants, FS_CardinalityType DEF Typed, ControlOK, Backed
<1>2. /\ IsFiniteSet(Drift \cup {x})
      /\ Cardinality(Drift \cup {x}) = Cardinality(Drift)
         \/ Cardinality(Drift \cup {x}) = Cardinality(Drift) + 1
  BY FS_AddElement DEF Backed
<1>3. IsFiniteSet(Drift') /\ Cardinality(Drift') <= Cardinality(Drift \cup {x})
  BY <1>2, FS_Subset
<1>4. Cardinality(Drift') \in Nat
  BY <1>3, FS_CardinalityType
<1>5. Cardinality(Drift') <= count'
  BY <1>1, <1>2, <1>3, <1>4
<1> QED
  BY <1>3, <1>5 DEF Backed

\* Steps that write nothing to the disk.
LEMMA SameFiles ==
    ASSUME Typed, Placed, Typed', Placed', Backed, Fsynced,
           pc' \notin {"emptying", "down", "roll"}, pc # "roll",
           UNCHANGED <<files, meta, saved, count, writeFile, readFileNum, readPos,
                       writeFileNum, writePos>>
    PROVE  Fsynced' /\ Bare' /\ Backed'
<1>1. Queued' = Queued /\ Recoverable' = Recoverable
  BY DEF Queued, Recoverable
<1>2. Backed'
  BY <1>1 DEF Backed, Drift
<1> QED
  BY <1>2 DEF Fsynced, Bare

\* A sync leaves every file fsynced.
LEMMA SyncBacked ==
    ASSUME Typed, Placed, Typed', Placed', Fsynced, Sync,
           UNCHANGED <<readFileNum, readPos, writeFileNum, writePos>>,
           pc' \notin {"emptying", "down", "roll"},
           writeFile' = Nil \/ (writeFile' = writeFile /\ pc # "roll")
    PROVE  Fsynced' /\ Bare' /\ Backed'
<1>1. /\ \A f \in DOMAIN files' : files'[f].synced = Len(files'[f].cells)
      /\ Recoverable' = Queued' /\ saved' = Queued'
  BY SyncDurable
<1>2. Backed'
  BY <1>1, BackedAnew
<1>3. writeFile' \in {Nil, writeFileNum'}
  BY DEF Fsynced
<1> QED
  BY <1>1, <1>2, <1>3 DEF Fsynced, Bare

\* A Put that is refused adds at most an empty file.
LEMMA RefusedBacked ==
    ASSUME Typed, Placed, Typed', Placed', Fsynced, Backed, NEW len, PutRefused(len)
    PROVE  Fsynced' /\ Bare' /\ Backed'
<1>1. /\ pc = "select" /\ pc' = "loop" /\ count' = count + 1
      /\ writeFile' = writeFileNum /\ writeFileNum' = writeFileNum
      /\ files' = SetFile(files, writeFileNum, FileAt(files, writeFileNum))
      /\ UNCHANGED <<meta, saved, readFileNum, readPos>>
  BY DEF PutRefused, readVars, writeVars, history
<1>2. /\ DOMAIN files' = DOMAIN files \cup {writeFileNum}
      /\ \A f \in DOMAIN files : files'[f] = files[f]
      /\ writeFileNum \notin DOMAIN files => files'[writeFileNum] = NoFile
  BY <1>1 DEF SetFile, FileAt
<1>3. \A f \in Nat : CellsOf(f)' = CellsOf(f)
  BY <1>1 DEF CellsOf, SetFile, FileAt
<1>4. Queued' = Queued
  BY <1>1, <1>3, QuietQueued
<1>5. ASSUME NEW f \in Nat, NEW i \in Nat
      PROVE  /\ Fixed(f, i)' <=> Fixed(f, i)
             /\ Fixed(f, i) => files'[f].cells[i] = files[f].cells[i]
  <2>1. CASE f \in DOMAIN files
    BY <1>2, <2>1 DEF Fixed
  <2>2. CASE f \notin DOMAIN files
    <3>1. f \in DOMAIN files' => files'[f].synced = 0
      BY <1>2, <2>2 DEF NoFile
    <3> QED
      BY <2>2, <3>1 DEF Fixed
  <2> QED
    BY <2>1, <2>2
<1>6. Recoverable' = Recoverable
  BY <1>1, <1>5, SameFixed
<1>7. Backed'
  <2>1. Drift' = Drift /\ saved' \subseteq Queued' \cap Recoverable'
    BY <1>1, <1>4, <1>6 DEF Drift, Backed
  <2>2. count <= count'
    BY <1>1, Constants DEF Typed, ControlOK
  <2> QED
    BY <2>1, <2>2, BackedFewer
<1>8. Fsynced'
  <2>1. ASSUME NEW f \in DOMAIN files', f # writeFileNum
        PROVE  files'[f].synced = Len(files'[f].cells)
    <3>1. f \in DOMAIN files /\ files'[f] = files[f] /\ f \in Nat
      BY <1>2, <2>1 DEF Typed, FilesOK
    <3>2. writeFile # f
      BY <1>1, <2>1, <3>1, Constants DEF Fsynced
    <3> QED
      BY <3>1, <3>2 DEF Fsynced
  <2> QED
    BY <1>1, <2>1 DEF Fsynced
<1> QED
  BY <1>1, <1>7, <1>8 DEF Bare

LEMMA WriteBacked ==
    ASSUME Typed, Placed, Typed', Placed', InOrder, Fsynced, Backed, NEW len \in Lens,
           WriteOne(len, WRolls)
    PROVE  Fsynced' /\ Bare' /\ Backed'
<1> DEFINE m == [id |-> puts + 1, len |-> len]
<1>1. /\ pc = "select" /\ count' = count + 1 /\ writeFile' = writeFileNum /\ saved' = saved
      /\ pc' = "roll" \/ (pc' = "loop" /\ writeFileNum' = writeFileNum)
  BY DEF WriteOne, history
<1>2. Queued' = Queued \cup {m}
  BY WriteOneQueued
<1>3. /\ Recoverable' = Recoverable
      /\ DOMAIN files' = DOMAIN files \cup {writeFileNum}
      /\ \A f \in DOMAIN files : f # writeFileNum => files'[f] = files[f]
  BY WriteOneFixed
<1> HIDE DEF m
<1>4. PICK x : x = m
  OBVIOUS
<1>5. Drift' \subseteq Drift \cup {x} /\ saved' \subseteq Queued' \cap Recoverable'
  BY <1>1, <1>2, <1>3, <1>4 DEF Drift, Backed
<1>6. Backed'
  BY <1>1, <1>5, BackedOneMore
<1>7. Fsynced'
  <2>1. ASSUME NEW f \in DOMAIN files', f # writeFileNum
        PROVE  files'[f].synced = Len(files'[f].cells)
    <3>1. f \in DOMAIN files /\ files'[f] = files[f] /\ f \in Nat
      BY <1>3, <2>1 DEF Typed, FilesOK
    <3>2. writeFile # f
      BY <1>1, <2>1, <3>1, Constants DEF Fsynced
    <3> QED
      BY <3>1, <3>2 DEF Fsynced
  <2> QED
    BY <1>1, <2>1 DEF Fsynced
<1> QED
  BY <1>1, <1>6, <1>7 DEF Bare

\* A delivery, and the file it removes.
LEMMA DeliverBacked ==
    ASSUME Typed, Placed, Typed', Placed', InOrder, Fsynced, Backed, Deliver
    PROVE  Fsynced' /\ Bare' /\ Backed'
<1>1. /\ pc = "select" /\ pc' = "loop" /\ count' = count + 1 /\ meta' = meta
      /\ saved' = saved \ {dataRead}
  BY DEF Deliver
<1>2. /\ Queued' = Queued \ {dataRead} /\ files' = AfterRead
      /\ UNCHANGED <<writeFileNum, writeFile>>
  BY DeliverQueued
<1>3. /\ DOMAIN files' \subseteq DOMAIN files
      /\ \A f \in DOMAIN files' : files'[f] = files[f]
  BY <1>2 DEF AfterRead, Removed
<1>4. Recoverable' \subseteq Recoverable /\ Queued' \cap Recoverable \subseteq Recoverable'
  BY <1>1, <1>3, FewerFiles
<1>5. PICK x : x = dataRead
  OBVIOUS
<1>6. Drift' \subseteq Drift \cup {x} /\ saved' \subseteq Queued' \cap Recoverable'
  BY <1>1, <1>2, <1>4, <1>5 DEF Drift, Backed
<1>7. Backed'
  BY <1>1, <1>6, BackedOneMore
<1>8. Fsynced'
  BY <1>1, <1>2, <1>3 DEF Fsynced
<1> QED
  BY <1>1, <1>7, <1>8 DEF Bare

LEMMA ReadErrorBacked ==
    ASSUME Typed, Placed, Typed', Placed', InOrder, Fsynced, Backed, ReadError
    PROVE  Fsynced' /\ Bare' /\ Backed'
<1>1. /\ pc = "read" /\ pc' = "loop" /\ count' = count /\ meta' = meta /\ saved' = saved
  BY DEF ReadError, history
<1>2. /\ Queued' = Queued /\ files' = Removed(files, {readFileNum})
      /\ UNCHANGED <<writeFileNum, writeFile>>
  BY ReadErrorQueued
<1>3. /\ DOMAIN files' \subseteq DOMAIN files
      /\ \A f \in DOMAIN files' : files'[f] = files[f]
  BY <1>2 DEF Removed
<1>4. Recoverable' \subseteq Recoverable /\ Queued' \cap Recoverable \subseteq Recoverable'
  BY <1>1, <1>3, FewerFiles
<1>5. Drift' \subseteq Drift /\ saved' \subseteq Queued' \cap Recoverable'
  BY <1>1, <1>2, <1>4 DEF Drift, Backed
<1>6. count <= count'
  BY <1>1, Constants DEF Typed, ControlOK
<1>7. Backed'
  BY <1>5, <1>6, BackedFewer
<1>8. Fsynced'
  BY <1>1, <1>2, <1>3 DEF Fsynced
<1> QED
  BY <1>1, <1>7, <1>8 DEF Bare

LEMMA DurableStep ==
    ASSUME Typed, Placed, Typed', Placed', InOrder, Fsynced, Bare, Backed, setup.mayCrash,
           pc # "exited", Step, crashes' = 0
    PROVE  Fsynced' /\ Bare' /\ Backed'
<1>0. ASSUME DOMAIN files' = {}, saved' \subseteq {}, writeFile' \in {Nil, writeFileNum'}
      PROVE  Fsynced' /\ Bare' /\ Backed'
  <2>1. Recoverable' = {} /\ Queued' = {}
    BY <1>0, NoFilesNext
  <2>2. Backed'
    BY <1>0, <2>1, BackedAnew
  <2> QED
    BY <1>0, <2>2 DEF Fsynced, Bare
<1>1. CASE New
  <2>1. pc = "down" /\ files' = files /\ writeFile' = Nil
        /\ \E rf, rp, wf, wp : saved' = Between(files, rf, rp, wf, wp)
    BY <1>1 DEF New, NewFrom, disk
  <2>2. DOMAIN files = {}
    BY <2>1 DEF Bare
  <2>3. saved' \subseteq {}
    BY <2>1, <2>2, BetweenIs
  <2> QED
    BY <1>0, <2>1, <2>2, <2>3
<1>2. CASE LoopSync
  <2>1. /\ pc = "loop" /\ pc' = "read"
        /\ UNCHANGED <<readFileNum, readPos, writeFileNum, writePos, writeFile>>
    BY <1>2 DEF LoopSync, readVars, writeVars, handles
  <2>2. CASE SyncDue
    <3>1. Sync
      BY <1>2, <2>2 DEF LoopSync
    <3> QED
      BY <2>1, <3>1, SyncBacked
  <2>3. CASE ~SyncDue
    <3>1. UNCHANGED <<files, meta, saved, count>>
      BY <1>2, <2>3 DEF LoopSync, disk
    <3> QED
      BY <2>1, <3>1, SameFiles
  <2> QED
    BY <2>2, <2>3
<1>3. CASE ReadSkip \/ ReadOne \/ SyncTick \/ QReadTick
  <2>1. /\ pc' \in {"select", "loop"} /\ pc \in {"read", "select"}
        /\ UNCHANGED <<files, meta, saved, count, writeFile, readFileNum, readPos,
                       writeFileNum, writePos>>
    BY <1>3 DEF ReadSkip, ReadOne, ReadOneTo, SyncTick, QReadTick, readVars, writeVars, handles,
                disk, history
  <2>2. pc' \notin {"emptying", "down", "roll"} /\ pc # "roll"
    BY <2>1
  <2> QED
    BY <2>1, <2>2, SameFiles
<1>4. CASE ReadError
  BY <1>4, ReadErrorBacked
<1>5. CASE Deliver
  BY <1>5, DeliverBacked
<1>6. ASSUME NEW len \in Lens, PutRefused(len) PROVE Fsynced' /\ Bare' /\ Backed'
  BY <1>6, RefusedBacked
<1>7. ASSUME NEW len \in Lens, WriteOne(len, WRolls) PROVE Fsynced' /\ Bare' /\ Backed'
  BY <1>7, WriteBacked
<1>8. CASE Roll
  <2>1. /\ Sync /\ pc' = "loop" /\ writeFile' = Nil
        /\ UNCHANGED <<readFileNum, readPos, writeFileNum, writePos>>
    BY <1>8 DEF Roll, readVars, writeVars
  <2>2. pc' \notin {"emptying", "down", "roll"}
    BY <2>1
  <2> QED
    BY <2>1, <2>2, SyncBacked
<1>9. CASE Empty
  <2>1. DOMAIN files' = {}
    BY <1>9, EmptyQueued
  <2>2. saved' = {} /\ writeFile' = Nil
    BY <1>9 DEF Empty, SkipToNextRWFile
  <2> QED
    BY <1>0, <2>1, <2>2
<1>10. CASE RemoveMeta
  <2>1. pc = "emptying" /\ UNCHANGED <<files, saved, writeFile, writeFileNum>>
    BY <1>10 DEF RemoveMeta, handles, writeVars, history
  <2>2. DOMAIN files = {}
    BY <2>1 DEF Bare
  <2>3. saved \subseteq {}
    BY <2>2, NoFiles DEF Backed
  <2> QED
    BY <1>0, <2>1, <2>2, <2>3 DEF Fsynced
<1>11. CASE Close \/ CloseSync
  BY <1>11 DEF Close, CloseSync
<1>12. ASSUME Delete \/ Crash PROVE FALSE
  <2>1. crashes' = crashes + 1 /\ crashes \in Nat
    BY <1>12 DEF Delete, Crash, Typed, ControlOK
  <2> QED
    BY <2>1
<1> QED
  BY <1>1, <1>2, <1>3, <1>4, <1>5, <1>6, <1>7, <1>8, <1>9, <1>10, <1>11, <1>12 DEF Step

\* A crash leaves the fsynced part of every file.
LEMMA CrashKeeps ==
    ASSUME Typed, Typed', Crash
    PROVE  Recoverable \subseteq Recoverable'
<1>1. PICK most \in 0..(MaxBytesPerFile + MaxMsgSize + 1) :
        files' = [f \in DOMAIN files |->
                LET kept == Max({files[f].synced, Min({most, Len(files[f].cells)})})
                IN  [cells |-> SubSeq(files[f].cells, 1, kept), synced |-> kept]]
  BY DEF Crash
<1>2. meta' = meta /\ most \in Nat
  BY <1>1, Constants DEF Crash
<1>3. ASSUME NEW f \in Nat, NEW i \in Nat, Fixed(f, i)
      PROVE  Fixed(f, i)' /\ files'[f].cells[i] = files[f].cells[i]
  <2> DEFINE c    == files[f].cells
             n    == files[f].synced
             low  == Min({most, Len(c)})
             kept == Max({n, low})
  <2>1. /\ f \in DOMAIN files /\ i \in 1..n /\ c[i] # Zero /\ c[i].at = 0
        /\ n \in Nat /\ c \in Seq(Cell) /\ n <= Len(c) /\ Len(c) \in Nat
    BY <1>3 DEF Fixed, Typed, FilesOK, File
  <2>2. files'[f] = [cells |-> SubSeq(c, 1, kept), synced |-> kept] /\ f \in DOMAIN files'
    BY <1>1, <2>1
  <2> HIDE DEF c, n
  <2>3. low \in Nat /\ low <= Len(c)
    BY <1>2, <2>1, MinOfTwo
  <2> HIDE DEF low
  <2>4. kept \in Nat /\ kept <= Len(c) /\ n <= kept
    BY <2>1, <2>3, MaxOfTwo
  <2> HIDE DEF kept
  <2>5. i \in 1..kept
    BY <2>1, <2>4
  <2>6. SubSeq(c, 1, kept)[i] = c[i]
    BY <2>1, <2>4, <2>5, FirstPart
  <2>7. files'[f].cells[i] = c[i] /\ files'[f].synced = kept
    <3> DEFINE part == SubSeq(c, 1, kept)
    <3>1. files'[f] = [cells |-> part, synced |-> kept] /\ part[i] = c[i]
      BY <2>2, <2>6
    <3> HIDE DEF part
    <3> QED
      BY <3>1
  <2>8. Fixed(f, i)'
    BY <2>1, <2>2, <2>5, <2>7 DEF Fixed
  <2> QED
    BY <2>7, <2>8 DEF c
<1>4. /\ Recoverable = {m \in Message : Survives(m)}
      /\ Recoverable' = {m \in Message : Survives(m)'}
  BY RecoverableIs, RecoverableNext
<1>5. \A f, i : InMeta(f, i)' <=> InMeta(f, i)
  BY <1>2 DEF InMeta
<1>6. ASSUME NEW m, Survives(m) PROVE Survives(m)'
  BY <1>3, <1>5, <1>6 DEF Survives
<1> QED
  BY <1>4, <1>6

LEMMA DurableInit == Init => Durable
<1> SUFFICES ASSUME Init PROVE Durable
  OBVIOUS
<1>1. Typed
  BY TypedInit
<1>2. /\ pc = "down" /\ DOMAIN files = {} /\ saved = {} /\ crashes = 0 /\ writeFile = Nil
      /\ count = 0
  BY DEF Init
<1>3. Drift = {}
  BY <1>1, <1>2, NoFiles
<1>4. Backed
  BY <1>2, <1>3, FS_EmptySet DEF Backed
<1> QED
  BY <1>2, <1>4 DEF Durable, Fsynced, Bare

LEMMA DurableNext ==
    Typed /\ Sound /\ Exact /\ Durable /\ Typed' /\ Sound' /\ [EitherNext]_vars => Durable'
<1>1. ASSUME Typed, Sound, Exact, Durable, Typed', Sound', Step, setup.mayCrash PROVE Durable'
  <2>1. /\ pc # "exited" /\ crashes \in Nat
        /\ crashes' = crashes \/ crashes' = crashes + 1
    BY <1>1, CrashesGrow DEF Durable, Typed, ControlOK
  <2>2. pc' # "exited"
    BY <1>1, <2>1 DEF Step, New, NewFrom, LoopSync, ReadSkip, ReadOne, ReadOneTo, ReadError,
         Deliver, PutRefused, WriteOne, Roll, Empty, RemoveMeta, SyncTick, QReadTick, Close,
         CloseSync, Delete, Crash
  <2>3. ASSUME crashes' = 0 PROVE Fsynced' /\ Bare' /\ Backed'
    <3>1. crashes = 0
      BY <2>1, <2>3
    <3>2. Placed /\ Placed' /\ InOrder /\ Fsynced /\ Bare /\ Backed
      BY <1>1, <2>3, <3>1 DEF Sound, Exact, Durable
    <3> QED
      BY <1>1, <2>1, <2>3, <3>2, DurableStep
  <2>4. ASSUME crashes' = 1, pc' = "down" PROVE saved' \subseteq Recoverable'
    <3>1. Delete \/ Crash
      BY <1>1, <2>1, <2>4 DEF Step, New, NewFrom, LoopSync, ReadSkip, ReadOne, ReadOneTo,
         ReadError, Deliver, PutRefused, WriteOne, Roll, Empty, RemoveMeta, SyncTick, QReadTick,
         Close, CloseSync
    <3>2. crashes = 0 /\ saved' = saved
      BY <2>1, <2>4, <3>1 DEF Delete, Crash, history
    <3>3. saved \subseteq Recoverable
      BY <1>1, <3>2 DEF Durable, Backed
    <3>4. CASE Delete
      <4>1. Recoverable' = Recoverable
        BY <3>4 DEF Delete, disk, Recoverable
      <4> QED
        BY <3>2, <3>3, <4>1
    <3>5. CASE Crash
      BY <1>1, <3>2, <3>3, <3>5, CrashKeeps
    <3> QED
      BY <3>1, <3>4, <3>5
  <2> QED
    BY <2>2, <2>3, <2>4 DEF Durable
<1>2. ASSUME Typed, Step, ~setup.mayCrash PROVE Durable'
  BY <1>2, CrashesGrow DEF Durable
<1>3. ASSUME Durable, UNCHANGED vars PROVE Durable'
  BY <1>3 DEF vars, readVars, writeVars, handles, disk, history, bounds, Durable, Fsynced, Bare,
              Backed, Drift, Queued, Recoverable
<1> QED
  BY <1>1, <1>2, <1>3, Steps

\* The inductive invariant of both copies.
Whole == Typed /\ Sound /\ Exact /\ Durable

LEMMA WholeAlways == EitherSpec => []Whole
<1>1. Init => Whole
  BY TypedInit, SoundInit, ExactInit, DurableInit DEF Whole
<1>2. Whole /\ [EitherNext]_vars => Whole'
  BY TypedNext, SoundNext, ExactNext, DurableNext DEF Whole
<1> QED
  BY <1>1, <1>2, PTL DEF EitherSpec

\* A message that was in the queue at the last sync and has not been delivered
\* or emptied since survives the first crash, at whatever point of a roll, an
\* Empty, a delivery or a sync it comes: the files behind the metadata's read
\* position are removed only after their messages were delivered, and a file is
\* fsynced before the metadata names a position in it (diskqueue.go:440-459,
\* 490-520, 579-599).
THEOREM SyncedSurvivesFirstCrash == EitherSpec => [](crashes <= 1 => SyncedRecoverable)
<1>1. Whole => (crashes <= 1 => SyncedRecoverable)
  <2> SUFFICES ASSUME Whole, crashes <= 1, setup.mayCrash, crashes = 0 \/ pc = "down"
               PROVE  saved \subseteq Recoverable
    BY DEF SyncedRecoverable
  <2>1. crashes = 0 \/ crashes = 1
    BY DEF Whole, Typed, ControlOK
  <2> QED
    BY <2>1 DEF Whole, Durable, Backed
<1> QED
  BY <1>1, WholeAlways, PTL

\* A crash undoes at most SyncEvery operations: it loses no more messages, and
\* delivers no more again, than there were operations since the last sync, and
\* the loop never counts beyond SyncEvery (diskqueue.go:662-674, 692-707).
THEOREM CrashUndoesFew == EitherSpec => []CrashUndoesAtMostSyncEvery
<1>1. Whole => CrashUndoesAtMostSyncEvery
  <2> SUFFICES ASSUME Whole, setup.mayCrash, crashes = 0
               PROVE  Cardinality(Drift) <= SyncEvery
    BY DEF CrashUndoesAtMostSyncEvery, Drift
  <2>1. IsFiniteSet(Drift) /\ Cardinality(Drift) <= count
    BY DEF Whole, Durable, Backed
  <2>2. Cardinality(Drift) \in Nat /\ count \in 0..SyncEvery /\ SyncEvery \in Nat
    BY <2>1, FS_CardinalityType, Constants DEF Whole, Typed, ControlOK
  <2> QED
    BY <2>1, <2>2
<1> QED
  BY <1>1, WholeAlways, PTL

-----------------------------------------------------------------------------
(* The disk queue implements FifoQueue *)

\* A one-to-one correspondence keeps the number of elements.
LEMMA SameSize ==
    ASSUME NEW S, NEW T, NEW F \in [S -> T], IsFiniteSet(T),
           \A a, b \in S : F[a] = F[b] => a = b, \A t \in T : \E a \in S : F[a] = t
    PROVE  IsFiniteSet(S) /\ Cardinality(S) = Cardinality(T)
<1>1. F \in Injection(S, T) /\ F \in Surjection(S, T)
  BY DEF Injection, Surjection, IsInjective
<1> QED
  BY <1>1, FS_Injection

\* Messages in the order of their ids.
Older(Q, m) == {k \in Q : k.id <= m.id}
NthOf(Q, n) == {m \in Q : Cardinality(Older(Q, m)) = n}
ById(Q) == [n \in 1..Cardinality(Q) |-> The(NthOf(Q, n))]

\* No two of the messages have the same id.
Distinct(Q) == \A a, b \in Q : a.id \in Nat /\ (a.id = b.id => a = b)

LEMMA ByIdSeq ==
    ASSUME NEW Q, IsFiniteSet(Q)
    PROVE  /\ Cardinality(Q) \in Nat /\ Len(ById(Q)) = Cardinality(Q)
           /\ \E S : ById(Q) \in Seq(S)
           /\ \A n \in 1..Cardinality(Q) : ById(Q)[n] = The(NthOf(Q, n))
<1> DEFINE N == Cardinality(Q)
           S == {The(NthOf(Q, n)) : n \in 1..N}
<1>1. N \in Nat
  BY FS_CardinalityType
<1>2. ById(Q) = [n \in 1..N |-> The(NthOf(Q, n))]
  BY DEF ById
<1> HIDE DEF N
<1>3. ById(Q) \in [1..N -> S]
  BY <1>2
<1> HIDE DEF S
<1>4. ById(Q) \in Seq(S) /\ Len(ById(Q)) = N
  BY <1>1, <1>3
<1> QED
  BY <1>1, <1>2, <1>4 DEF N

LEMMA OneOf == ASSUME NEW m PROVE The({m}) = m
  BY DEF The

\* A message of a new, higher id comes last.
LEMMA ByIdPut ==
    ASSUME NEW Q, IsFiniteSet(Q), Distinct(Q), NEW m, m \notin Q, m.id \in Nat,
           \A k \in Q : k.id < m.id
    PROVE  ById(Q \cup {m}) = Append(ById(Q), m)
<1> DEFINE P == Q \cup {m}
           N == Cardinality(Q)
<1>1. N \in Nat /\ IsFiniteSet(P) /\ Cardinality(P) = N + 1
  BY FS_AddElement, FS_CardinalityType
<1>2. ASSUME NEW k \in Q
      PROVE  Older(P, k) = Older(Q, k) /\ Cardinality(Older(Q, k)) \in 1..N
  <2>1. k.id \in Nat /\ k.id < m.id /\ ~(m.id <= k.id)
    BY DEF Distinct
  <2>2. Older(P, k) = Older(Q, k)
    BY <2>1 DEF Older
  <2>3. Older(Q, k) \in SUBSET Q /\ k \in Older(Q, k)
    BY <2>1 DEF Older
  <2>4. IsFiniteSet(Older(Q, k)) /\ Cardinality(Older(Q, k)) <= N
    BY <2>3, FS_Subset
  <2>5. Cardinality(Older(Q, k)) \in Nat /\ Cardinality(Older(Q, k)) # 0
    BY <2>3, <2>4, FS_CardinalityType, FS_EmptySet
  <2> QED
    BY <1>1, <2>2, <2>4, <2>5
<1>3. Older(P, m) = P
  BY DEF Older, Distinct
<1>4. ASSUME NEW n \in 1..N PROVE NthOf(P, n) = NthOf(Q, n)
  <2>1. Cardinality(Older(P, m)) # n
    BY <1>1, <1>3
  <2> QED
    BY <1>2, <2>1 DEF NthOf
<1>5. NthOf(P, N + 1) = {m}
  <2>1. \A k \in Q : Cardinality(Older(P, k)) # N + 1
    BY <1>1, <1>2
  <2> QED
    BY <1>1, <1>3, <2>1 DEF NthOf
<1>6. /\ N = Len(ById(Q)) /\ \E S : ById(Q) \in Seq(S)
      /\ \A n \in 1..N : ById(Q)[n] = The(NthOf(Q, n))
      /\ Len(ById(P)) = N + 1 /\ \E S : ById(P) \in Seq(S)
      /\ \A n \in 1..(N + 1) : ById(P)[n] = The(NthOf(P, n))
  BY <1>1, ByIdSeq
<1> HIDE DEF N, P
<1> DEFINE old == ById(Q)
           new == ById(P)
<1> HIDE DEF old, new
<1>7. PICK S, T : old \in Seq(S) /\ new \in Seq(T)
  BY <1>6 DEF old, new
<1>8. \A n \in 1..N : new[n] = old[n]
  BY <1>1, <1>4, <1>6 DEF old, new
<1>9. new[N + 1] = m
  <2>1. N + 1 \in 1..(N + 1)
    BY <1>1
  <2>2. new[N + 1] = The(NthOf(P, N + 1))
    BY <1>6, <2>1 DEF new
  <2> QED
    BY <1>5, <2>2, OneOf
<1>10. Len(old) = N /\ Len(new) = N + 1
  BY <1>6 DEF old, new
<1>11. new = Append(old, m)
  <2>1. old \in Seq(S \cup {m}) /\ m \in S \cup {m} /\ new \in Seq(S \cup T \cup {m})
        /\ old \in Seq(S \cup T \cup {m}) /\ m \in S \cup T \cup {m}
    BY <1>7
  <2>2. /\ Append(old, m) \in Seq(S \cup T \cup {m}) /\ Len(Append(old, m)) = N + 1
        /\ \A n \in 1..N : Append(old, m)[n] = old[n]
        /\ Append(old, m)[N + 1] = m
    BY <1>1, <1>10, <2>1, AppendProperties
  <2>3. \A n \in 1..(N + 1) : new[n] = Append(old, m)[n]
    BY <1>1, <1>8, <1>9, <2>2
  <2> QED
    BY <1>10, <2>1, <2>2, <2>3, SeqEqual
<1> QED
  BY <1>11 DEF old, new, P

\* Without its oldest message the others follow one turn earlier.
LEMMA ByIdTake ==
    ASSUME NEW Q, IsFiniteSet(Q), Distinct(Q), NEW m \in Q, \A k \in Q : m.id <= k.id
    PROVE  /\ ById(Q) # <<>> /\ Head(ById(Q)) = m
           /\ Tail(ById(Q)) = ById(Q \ {m})
<1> DEFINE P == Q \ {m}
           N == Cardinality(P)
<1>1. N \in Nat /\ IsFiniteSet(P) /\ Cardinality(Q) = N + 1
  <2>1. IsFiniteSet(P) /\ Cardinality(P) = Cardinality(Q) - 1
    BY FS_RemoveElement
  <2>2. Cardinality(Q) \in Nat /\ Cardinality(P) \in Nat
    BY <2>1, FS_CardinalityType
  <2> QED
    BY <2>1, <2>2
<1>2. Older(Q, m) = {m} /\ Cardinality({m}) = 1
  <2>1. \A k \in Q : k.id \in Nat /\ m.id \in Nat /\ (k.id <= m.id => k.id = m.id)
    BY DEF Distinct
  <2> QED
    BY <2>1, FS_Singleton DEF Older, Distinct
<1>3. ASSUME NEW k \in P
      PROVE  /\ Cardinality(Older(P, k)) \in Nat \ {0}
             /\ Cardinality(Older(Q, k)) = Cardinality(Older(P, k)) + 1
  <2>1. Older(Q, k) = Older(P, k) \cup {m} /\ m \notin Older(P, k)
    BY DEF Older
  <2>2. k \in Older(P, k) /\ Older(P, k) \in SUBSET P
    BY DEF Older, Distinct
  <2>3. IsFiniteSet(Older(P, k))
    BY <1>1, <2>2, FS_Subset
  <2>4. Cardinality(Older(P, k)) \in Nat /\ Cardinality(Older(P, k)) # 0
    BY <2>2, <2>3, FS_CardinalityType, FS_EmptySet
  <2> QED
    BY <2>1, <2>3, <2>4, FS_AddElement
<1>4. ASSUME NEW n \in 1..N PROVE NthOf(Q, n + 1) = NthOf(P, n)
  <2>1. Cardinality(Older(Q, m)) # n + 1
    BY <1>2
  <2>2. ASSUME NEW k \in P
        PROVE  Cardinality(Older(Q, k)) = n + 1 <=> Cardinality(Older(P, k)) = n
    <3>1. /\ Cardinality(Older(P, k)) \in Nat
          /\ Cardinality(Older(Q, k)) = Cardinality(Older(P, k)) + 1
      BY <1>3
    <3> QED
      BY <3>1
  <2> QED
    BY <2>1, <2>2 DEF NthOf
<1>5. NthOf(Q, 1) = {m}
  <2>1. \A k \in P : Cardinality(Older(Q, k)) # 1
    BY <1>3
  <2> QED
    BY <1>2, <2>1 DEF NthOf
<1>6. /\ Len(ById(P)) = N /\ \E S : ById(P) \in Seq(S)
      /\ \A n \in 1..N : ById(P)[n] = The(NthOf(P, n))
      /\ Len(ById(Q)) = N + 1 /\ \E S : ById(Q) \in Seq(S)
      /\ \A n \in 1..(N + 1) : ById(Q)[n] = The(NthOf(Q, n))
  BY <1>1, ByIdSeq
<1> HIDE DEF N, P
<1> DEFINE old == ById(Q)
           new == ById(P)
<1> HIDE DEF old, new
<1>7. PICK S, T : old \in Seq(S) /\ new \in Seq(T)
  BY <1>6 DEF old, new
<1>8. \A n \in 1..N : old[n + 1] = new[n]
  BY <1>1, <1>4, <1>6 DEF old, new
<1>9. old[1] = m
  <2>1. 1 \in 1..(N + 1)
    BY <1>1
  <2>2. old[1] = The(NthOf(Q, 1))
    BY <1>6, <2>1 DEF old
  <2> QED
    BY <1>5, <2>2, OneOf
<1>10. Len(old) = N + 1 /\ Len(new) = N
  BY <1>6 DEF old, new
<1>11. old # <<>> /\ Head(old) = m /\ Tail(old) = new
  <2>1. old \in Seq(S \cup T) /\ new \in Seq(S \cup T)
    BY <1>7
  <2>2. old # <<>>
    BY <1>1, <1>10
  <2>3. Head(old) = m
    BY <1>9, <2>1, <2>2
  <2>4. /\ Tail(old) \in Seq(S \cup T) /\ Len(Tail(old)) = N
        /\ \A n \in 1..N : Tail(old)[n] = old[n + 1]
    BY <1>1, <1>10, <2>1, <2>2, HeadTailProperties
  <2>5. \A n \in 1..N : Tail(old)[n] = new[n]
    BY <1>8, <2>4
  <2> QED
    BY <1>10, <2>1, <2>2, <2>3, <2>4, <2>5, SeqEqual
<1> QED
  BY <1>11 DEF old, new, P

\* The headers of the queue are those behind the read position, each of a message
\* of its own.
LEMMA WaitingIs ==
    ASSUME Typed, Placed, NEW h
    PROVE  h \in Waiting <=>
             \E f \in Nat, i \in Nat :
                 /\ HeadAt(f, i) /\ h = <<f, i>>
                 /\ f > readFileNum \/ (f = readFileNum /\ i > readPos)
<1>1. readFileNum \in Nat /\ writeFileNum \in Nat /\ readPos \in Nat /\ writePos \in Nat
  BY Constants DEF Typed, PositionsOK
<1>2. ASSUME h \in Waiting
      PROVE  \E f \in Nat, i \in Nat :
                 /\ HeadAt(f, i) /\ h = <<f, i>>
                 /\ f > readFileNum \/ (f = readFileNum /\ i > readPos)
  <2>0. PICK f \in DOMAIN files \cap readFileNum..writeFileNum :
          \E i \in DOMAIN files[f].cells :
            /\ f = readFileNum => i > readPos
            /\ files[f].cells[i].at = 0
            /\ h = <<f, i>>
    BY <1>2, HeadersAre DEF Waiting
  <2>1. PICK i \in DOMAIN files[f].cells :
          /\ f = readFileNum => i > readPos
          /\ files[f].cells[i].at = 0
          /\ h = <<f, i>>
    BY <2>0
  <2>2. f \in Nat /\ CellsOf(f) = files[f].cells /\ f \in readFileNum..writeFileNum
    BY <1>1, <2>1 DEF CellsOf, FileAt
  <2>3. CellsOf(f) \in Seq(Cell)
    BY CellsOfType
  <2>4. i \in 1..Len(CellsOf(f)) /\ i \in Nat
    BY <2>1, <2>2, <2>3
  <2>5. HeadAt(f, i)
    BY <2>1, <2>2, <2>4 DEF HeadAt
  <2>6. f > readFileNum \/ (f = readFileNum /\ i > readPos)
    BY <1>1, <2>1, <2>2
  <2> QED
    BY <2>1, <2>2, <2>4, <2>5, <2>6
<1>3. ASSUME NEW f \in Nat, NEW i \in Nat, HeadAt(f, i), h = <<f, i>>,
             f > readFileNum \/ (f = readFileNum /\ i > readPos)
      PROVE  h \in Waiting
  <2>2. /\ CellsOf(f)[i] # Zero /\ f \in DOMAIN files
        /\ f \in readFileNum..writeFileNum /\ CellsOf(f) = files[f].cells
    BY <1>3, HeadOf
  <2>3. CellsOf(f) \in Seq(Cell)
    BY CellsOfType
  <2>4. i \in DOMAIN files[f].cells /\ files[f].cells[i].at = 0 /\ files[f].cells[i] # Zero
    BY <1>3, <2>2, <2>3 DEF HeadAt
  <2>5. f = readFileNum => i > readPos
    BY <1>1, <1>3
  <2>6. f = writeFileNum => i <= writePos
    <3>1. writePos = Len(CellsOf(writeFileNum)) /\ i \in 1..Len(CellsOf(f))
      BY <1>3 DEF Placed, Span, HeadAt
    <3> QED
      BY <1>1, <3>1
  <2> QED
    BY <1>3, <2>2, <2>4, <2>5, <2>6, HeadersAre DEF Waiting
<1> QED
  BY <1>2, <1>3

MsgAt(h) == files[h[1]].cells[h[2]].msg

\* Positions and ids are in the same order.
LEMMA WaitingOrder ==
    ASSUME Typed, Placed, InOrder, NEW g \in Waiting, NEW h \in Waiting
    PROVE  /\ MsgAt(g) \in Message /\ MsgAt(g).id \in Nat /\ MsgAt(g).id <= puts
           /\ MsgAt(g) = MsgAt(h) => g = h
           /\ MsgAt(g).id = MsgAt(h).id => g = h
           /\ g \in UpTo(h) <=> MsgAt(g).id <= MsgAt(h).id
<1>1. PICK f \in Nat, i \in Nat : HeadAt(f, i) /\ g = <<f, i>>
  BY WaitingIs
<1>2. PICK e \in Nat, j \in Nat : HeadAt(e, j) /\ h = <<e, j>>
  BY WaitingIs
<1>3. /\ CellsOf(f)[i].msg \in Message /\ CellsOf(f) = files[f].cells /\ IdAt(f, i) \in Nat
      /\ CellsOf(e)[j].msg \in Message /\ CellsOf(e) = files[e].cells /\ IdAt(e, j) \in Nat
  BY <1>1, <1>2, HeadOf
<1>4. g[1] = f /\ g[2] = i /\ h[1] = e /\ h[2] = j
  BY <1>1, <1>2
<1>5. /\ MsgAt(g) = CellsOf(f)[i].msg /\ MsgAt(g).id = IdAt(f, i)
      /\ MsgAt(h) = CellsOf(e)[j].msg /\ MsgAt(h).id = IdAt(e, j)
  BY <1>3, <1>4 DEF MsgAt, IdAt
<1>6. i \in 1..Len(CellsOf(f)) /\ j \in 1..Len(CellsOf(e))
  BY <1>1, <1>2 DEF HeadAt
<1>7. /\ f < e \/ (f = e /\ i < j) => IdAt(f, i) < IdAt(e, j)
      /\ e < f \/ (e = f /\ j < i) => IdAt(e, j) < IdAt(f, i)
      /\ IdAt(f, i) <= puts
  BY <1>1, <1>2, <1>6 DEF InOrder
<1>8. /\ (f < e \/ (f = e /\ i <= j)) <=> IdAt(f, i) <= IdAt(e, j)
      /\ IdAt(f, i) = IdAt(e, j) => f = e /\ i = j
  <2> HIDE DEF IdAt
  <2> QED
    BY <1>3, <1>7
<1>9. g \in UpTo(h) <=> (f < e \/ (f = e /\ i <= j))
  BY <1>4 DEF UpTo
<1>10. MsgAt(g).id = MsgAt(h).id => g = h
  BY <1>1, <1>2, <1>5, <1>8
<1> QED
  BY <1>3, <1>5, <1>7, <1>8, <1>9, <1>10

LEMMA QueuedAre == Queued = {MsgAt(h) : h \in Waiting}
  BY DEF Queued, Between, Waiting, MsgAt

\* So the queue holds its messages in the order of their ids.
LEMMA ContentsAre ==
    Typed /\ Placed /\ InOrder /\ Counted =>
        Contents = ById(Queued) /\ Distinct(Queued) /\ \A m \in Queued : m.id <= puts
<1> SUFFICES ASSUME Typed, Placed, InOrder, Counted
             PROVE  Contents = ById(Queued) /\ Distinct(Queued) /\ \A m \in Queued : m.id <= puts
  OBVIOUS
<1>1. Queued = {MsgAt(h) : h \in Waiting} /\ IsFiniteSet(Queued)
  BY QueuedAre DEF Counted
<1>2. \A g, h \in Waiting :
        /\ MsgAt(g).id \in Nat /\ MsgAt(g).id <= puts
        /\ MsgAt(g) = MsgAt(h) => g = h
        /\ MsgAt(g).id = MsgAt(h).id => g = h
        /\ g \in UpTo(h) <=> MsgAt(g).id <= MsgAt(h).id
  BY WaitingOrder
<1>3. Distinct(Queued) /\ \A m \in Queued : m.id <= puts
  BY <1>1, <1>2 DEF Distinct
<1>4. Cardinality(Waiting) = Cardinality(Queued)
  <2> DEFINE F == [h \in Waiting |-> MsgAt(h)]
  <2>1. F \in [Waiting -> Queued] /\ \A h \in Waiting : F[h] = MsgAt(h)
    BY <1>1
  <2>2. \A t \in Queued : \E h \in Waiting : F[h] = t
    BY <1>1
  <2> HIDE DEF F
  <2>3. \A g, h \in Waiting : F[g] = F[h] => g = h
    BY <1>2, <2>1
  <2> QED
    BY <1>1, <2>1, <2>2, <2>3, SameSize
<1>5. ASSUME NEW h \in Waiting
      PROVE  Cardinality(UpTo(h)) = Cardinality(Older(Queued, MsgAt(h)))
  <2> DEFINE F == [g \in UpTo(h) |-> MsgAt(g)]
             T == Older(Queued, MsgAt(h))
  <2>0. UpTo(h) \subseteq Waiting
    BY DEF UpTo
  <2>1. F \in [UpTo(h) -> T] /\ \A g \in UpTo(h) : F[g] = MsgAt(g)
    BY <1>1, <1>2, <2>0 DEF Older
  <2>2. \A t \in T : \E g \in UpTo(h) : MsgAt(g) = t
    BY <1>1, <1>2 DEF Older
  <2>3. IsFiniteSet(T)
    <3>1. T \in SUBSET Queued
      BY DEF Older
    <3> QED
      BY <1>1, <3>1, FS_Subset
  <2> HIDE DEF F, T
  <2>4. \A a, b \in UpTo(h) : F[a] = F[b] => a = b
    BY <1>2, <2>0, <2>1
  <2>5. \A t \in T : \E g \in UpTo(h) : F[g] = t
    BY <2>1, <2>2
  <2>6. Cardinality(UpTo(h)) = Cardinality(T)
    BY <2>1, <2>3, <2>4, <2>5, SameSize
  <2> QED
    BY <2>6 DEF T
<1>6. ASSUME NEW n PROVE AtTurn(n) = NthOf(Queued, n)
  <2>1. AtTurn(n) = {MsgAt(h) : h \in {g \in Waiting : Cardinality(UpTo(g)) = n}}
    BY DEF AtTurn, MsgAt
  <2>2. \A h \in Waiting : MsgAt(h) \in NthOf(Queued, n) <=> Cardinality(UpTo(h)) = n
    BY <1>1, <1>5 DEF NthOf
  <2>3. \A m \in NthOf(Queued, n) : \E h \in Waiting : m = MsgAt(h)
    BY <1>1 DEF NthOf
  <2> QED
    BY <2>1, <2>2, <2>3
<1>7. Contents = ById(Queued)
  BY <1>4, <1>6 DEF Contents, ById
<1> QED
  BY <1>3, <1>7

LEMMA ContentsNext ==
    (Typed /\ Placed /\ InOrder /\ Counted => Contents = ById(Queued))'
<1>1. Typed /\ Placed /\ InOrder /\ Counted => Contents = ById(Queued)
  BY ContentsAre
<1> QED
  BY <1>1, PTL

LEMMA NoneById == ById({}) = <<>>
<1>1. Cardinality({}) = 0
  BY FS_EmptySet
<1>2. 1..0 = {}
  OBVIOUS
<1> QED
  BY <1>1, <1>2 DEF ById

\* Every step of a queue that has not crashed is a step of FifoQueue.
LEMMA FifoStep ==
    ASSUME Typed, Placed, Typed', Placed', InOrder, Counted, InOrder', Counted',
           Step, crashes' = 0
    PROVE  \/ Contents' = Contents /\ ret' = ret
           \/ \E m \in Message : Contents' = Append(Contents, m) /\ ret' = ret
           \/ Contents # <<>> /\ ret' = Head(Contents) /\ Contents' = Tail(Contents)
           \/ Contents' = <<>> /\ ret' = ret
<1>1. /\ Contents = ById(Queued) /\ Distinct(Queued)
      /\ \A m \in Queued : m.id <= puts
      /\ Contents' = ById(Queued')
      /\ IsFiniteSet(Queued)
  BY ContentsAre, ContentsNext DEF Counted
<1>2. CASE Quiet
  <2>1. Queued' = Queued /\ ret' = ret
    BY <1>2, QuietQueued DEF Quiet
  <2> QED
    BY <1>1, <2>1
<1>3. CASE ReadError
  <2>1. Queued' = Queued /\ ret' = ret
    BY <1>3, ReadErrorQueued DEF ReadError, history
  <2> QED
    BY <1>1, <2>1
<1>4. CASE Deliver
  <2>1. /\ dataRead \in Queued /\ Queued' = Queued \ {dataRead}
        /\ \A m \in Queued : dataRead.id <= m.id
    BY <1>4, DeliverQueued
  <2>2. ret' = dataRead
    BY <1>4 DEF Deliver
  <2>3. /\ ById(Queued) # <<>> /\ Head(ById(Queued)) = dataRead
        /\ Tail(ById(Queued)) = ById(Queued \ {dataRead})
    BY <1>1, <2>1, ByIdTake
  <2> QED
    BY <1>1, <2>1, <2>2, <2>3
<1>5. CASE Empty
  <2>1. Queued' = {} /\ ret' = ret
    BY <1>5, EmptyQueued DEF Empty
  <2> QED
    BY <1>1, <2>1, NoneById
<1>6. ASSUME NEW len \in Lens, WriteOne(len, WRolls)
      PROVE  \E m \in Message : Contents' = Append(Contents, m) /\ ret' = ret
  <2> DEFINE m == [id |-> puts + 1, len |-> len]
  <2>1. m \notin Queued /\ Queued' = Queued \cup {m}
    BY <1>6, WriteOneQueued
  <2>2. ret' = ret /\ puts < MaxPuts
    BY <1>6 DEF WriteOne, history
  <2>3. puts \in Nat /\ MaxPuts \in Nat
    BY Constants DEF Typed, ControlOK, MessagesOK
  <2>4. m \in Message /\ m.id = puts + 1
    BY <2>2, <2>3 DEF Message
  <2> HIDE DEF m
  <2>5. m.id \in Nat /\ \A k \in Queued : k.id < m.id
    BY <1>1, <2>3, <2>4 DEF Distinct
  <2>6. ById(Queued \cup {m}) = Append(ById(Queued), m)
    BY <1>1, <2>1, <2>5, ByIdPut
  <2> QED
    BY <1>1, <2>1, <2>2, <2>4, <2>6
<1> QED
  BY <1>2, <1>3, <1>4, <1>5, <1>6, StepKinds

\* Both copies of the disk queue implement a first-in first-out queue as long as
\* the process does not crash: whatever is put, and however the files roll and
\* are put aside, whenever Empty, Close and New come in between, consumers
\* receive the messages in the order of the Puts, each once, until Empty drops
\* those that are left (diskqueue.go:58, 160-207, 283-430, 534-690).
THEOREM DiskQueueIsFifo == EitherSpec => ImplementsFifo
<1> DEFINE items == IF setup.mayCrash THEN <<>> ELSE Contents
           out   == IF setup.mayCrash THEN Nil ELSE ret
<1>1. Init => Fifo!Init
  <2> SUFFICES ASSUME Init PROVE items = <<>> /\ out = Nil
    BY DEF Fifo!Init
  <2>1. Typed /\ Placed /\ InOrder /\ Counted
    BY TypedInit, SoundInit, ExactInit DEF Sound, Exact, Init
  <2>2. Contents = ById(Queued)
    BY <2>1, ContentsAre
  <2>3. Queued = {}
    BY <2>1, TailEmpty DEF Init
  <2> QED
    BY <2>2, <2>3, NoneById DEF Init
<1>2. Whole /\ Whole' /\ [EitherNext]_vars => [Fifo!Next]_<<items, out>>
  <2> SUFFICES ASSUME Whole, Whole', [EitherNext]_vars, ~(UNCHANGED <<items, out>>)
               PROVE  Fifo!Next
    OBVIOUS
  <2>1. CASE UNCHANGED vars
    <3>1. UNCHANGED <<items, out>>
      BY <2>1 DEF vars, readVars, writeVars, handles, disk, history, bounds, Contents, AtTurn,
                  UpTo, Waiting
    <3> QED
      BY <3>1
  <2>2. CASE Step
    <3>1. setup' = setup
      BY <2>2, CrashesGrow DEF Whole
    <3>2. ~setup.mayCrash /\ ~setup'.mayCrash
      BY <3>1
    <3>3. crashes = 0 /\ crashes' = 0
      BY <3>2 DEF Whole, Sound
    <3>4. /\ Typed /\ Placed /\ Typed' /\ Placed'
          /\ InOrder /\ Counted /\ InOrder' /\ Counted'
      BY <3>3 DEF Whole, Sound, Exact
    <3>5. items = Contents /\ items' = Contents' /\ out = ret /\ out' = ret'
      BY <3>2
    <3> HIDE DEF items, out
    <3>6. \/ \E m \in Message : items' = Append(items, m) /\ out' = out
          \/ items # <<>> /\ out' = Head(items) /\ items' = Tail(items)
          \/ items' = <<>> /\ out' = out
      BY <2>2, <3>3, <3>4, <3>5, FifoStep
    <3> QED
      BY <3>6 DEF Fifo!Next, Fifo!Put, Fifo!Take, Fifo!Clear, items, out
  <2> QED
    BY <2>1, <2>2, Steps
<1> QED
  BY <1>1, <1>2, WholeAlways, PTL DEF EitherSpec, ImplementsFifo, Fifo!Spec
=============================================================================
