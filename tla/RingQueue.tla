----------------------------- MODULE RingQueue -----------------------------
(***************************************************************************)
(* The ring-buffer queue of workpool/queue/queue.go: a slice whose length  *)
(* doubles when it is full and halves when it is a quarter full, with head *)
(* and tail indices wrapped by the bit mask "& (len(buf) - 1)".            *)
(*                                                                         *)
(* The mask is written here as the modulus it stands for; that the length  *)
(* is always a power of two, so that the two agree, is an invariant,       *)
(* MaskIsModulo, about the bits of the numbers.                            *)
(*                                                                         *)
(* The queue is not safe for concurrent use; its caller, MyQueue, holds a  *)
(* lock.  Peek, Get and Remove panic on an empty queue or a bad index; the *)
(* guards below are those conditions.                                      *)
(***************************************************************************)
EXTENDS Integers, Sequences

CONSTANTS
    Elem,         \* the values stored
    Nil,          \* Go's nil: an unused slot
    MinQueueLen,  \* minQueueLen, 16 in the code
    MaxCount      \* bound: elements in the queue at the same time

ASSUME QueueAssumption ==
    /\ Nil \notin Elem
    /\ MinQueueLen \in Nat /\ MinQueueLen > 0
    /\ MaxCount \in Nat

\* The powers of two up to n: 1 is their only odd divisor.
PowersOfTwo(n) == {w \in 1..n : \A d \in 1..w : w % d = 0 => d = 1 \/ d % 2 = 0}

\* It must be a power of two for the bitwise modulus (queue.go:11).
ASSUME LengthAssumption == MinQueueLen \in PowersOfTwo(MinQueueLen)

VARIABLES
    buf,    \* the slice, indexed 0 .. cap - 1
    cap,    \* len(buf)
    head,   \* index of the oldest element
    tail,   \* index of the next free slot
    count,  \* number of elements
    ret     \* history: what the last Remove returned

vars == <<buf, cap, head, tail, count, ret>>

TypeOK ==
    /\ cap \in Nat /\ cap > 0
    /\ buf \in [0..(cap - 1) -> Elem \cup {Nil}]
    /\ head \in 0..(cap - 1)
    /\ tail \in 0..(cap - 1)
    /\ count \in 0..cap
    /\ ret \in Elem \cup {Nil}

\* New
Init ==
    /\ cap = MinQueueLen
    /\ buf = [i \in 0..(MinQueueLen - 1) |-> Nil]
    /\ head = 0
    /\ tail = 0
    /\ count = 0
    /\ ret = Nil

\* Fault: an index is not wrapped.
WrapNone(x, n) == x

\* "x & (n - 1)" for n a power of two.
Wrap(x, n) == x % n

\* Fault: the new slice grows by a constant amount.
NewLenLinear(n) == n + MinQueueLen

\* The length of the slice resize allocates: count << 1.
NewLen(n) == 2 * n

\* Fault: the wrapped part of the old slice is not copied.
ResizedOneCopy(b, c, h, t, n) ==
    [i \in 0..(NewLen(n) - 1) |->
        IF t > h
        THEN IF i < t - h THEN b[h + i] ELSE Nil
        ELSE IF i < c - h THEN b[h + i] ELSE Nil]

\* The slice resize builds from slice b of length c holding n elements from
\* head h to tail t: one copy, or two when the elements wrap around.
Resized(b, c, h, t, n) ==
    [i \in 0..(NewLen(n) - 1) |->
        IF t > h
        THEN IF i < t - h THEN b[h + i] ELSE Nil
        ELSE IF i < c - h THEN b[h + i]
        ELSE IF i < c - h + t THEN b[i - (c - h)]
        ELSE Nil]

-----------------------------------------------------------------------------
(* Add *)

AddInPlace(e) ==
    /\ count < MaxCount
    /\ count # cap
    /\ buf' = [buf EXCEPT ![tail] = e]
    /\ tail' = Wrap(tail + 1, cap)
    /\ count' = count + 1
    /\ UNCHANGED <<cap, head, ret>>

\* The slice is full: resize first.
AddGrow(e) ==
    /\ count < MaxCount
    /\ count = cap
    /\ cap' = NewLen(count)
    /\ buf' = [Resized(buf, cap, head, tail, count) EXCEPT ![count] = e]
    /\ head' = 0
    /\ tail' = Wrap(count + 1, NewLen(count))
    /\ count' = count + 1
    /\ UNCHANGED ret

Add(e) == AddInPlace(e) \/ AddGrow(e)

-----------------------------------------------------------------------------
(* Remove *)

Peek == buf[head]

\* The slice is worth halving once an element has gone.
Shrinks == cap > MinQueueLen /\ 4 * (count - 1) = cap

\* Fault: the vacated slot keeps its element.
ClearedKept == buf

\* The slice with the slot of the removed element set to nil.
Cleared == [buf EXCEPT ![head] = Nil]

RemoveInPlace ==
    /\ count > 0
    /\ ~Shrinks
    /\ ret' = Peek
    /\ buf' = Cleared
    /\ head' = Wrap(head + 1, cap)
    /\ count' = count - 1
    /\ UNCHANGED <<cap, tail>>

\* Fault: resize leaves tail where it was.
RemoveShrinkKeepsTail ==
    /\ count > 0
    /\ Shrinks
    /\ ret' = Peek
    /\ cap' = NewLen(count - 1)
    /\ buf' = Resized(Cleared, cap, Wrap(head + 1, cap), tail, count - 1)
    /\ head' = 0
    /\ count' = count - 1
    /\ UNCHANGED tail

RemoveShrink ==
    /\ count > 0
    /\ Shrinks
    /\ ret' = Peek
    /\ cap' = NewLen(count - 1)
    /\ buf' = Resized(Cleared, cap, Wrap(head + 1, cap), tail, count - 1)
    /\ head' = 0
    /\ tail' = count - 1
    /\ count' = count - 1

Remove == RemoveInPlace \/ RemoveShrink

-----------------------------------------------------------------------------
Next == (\E e \in Elem : Add(e)) \/ Remove

Spec == Init /\ [][Next]_vars

\* Get(i): a negative index counts from the end.
GetPos(i) == IF i < 0 THEN i + count ELSE i

Get(i) == buf[Wrap(head + GetPos(i), cap)]

-----------------------------------------------------------------------------
(* Properties *)

\* The elements, oldest first, as Get(0), Get(1), ... returns them.
Contents == [i \in 1..count |-> Get(i - 1)]

\* tail is where head and count say it is: the next Add neither overwrites an
\* element nor leaves a hole, also after the indices have wrapped and after a
\* resize in either direction.
TailConsistent == tail = Wrap(head + count, cap)

\* A slot outside the elements is nil and one inside is not: Remove and resize
\* keep no reference to a removed element.
UsedSlots == {Wrap(head + i, cap) : i \in 0..(count - 1)}
OnlyLiveSlots == \A s \in 0..(cap - 1) : buf[s] # Nil <=> s \in UsedSlots

\* The bits that are set in x, each by its weight.
Bits(x) == {w \in PowersOfTwo(x) : (x \div w) % 2 = 1}

\* The mask of the code is the modulus of the model: on every index the code
\* masks, "x & (len(buf) - 1)", which has the bits set in both, is
\* "x % len(buf)".  Only a length that is a power of two does that, through
\* every resize (queue.go:11).
MaskIsModulo ==
    \A x \in 0..(2 * cap) : Bits(Wrap(x, cap)) = Bits(x) \cap Bits(cap - 1)

\* The ring buffer is a first-in first-out queue.
Fifo == INSTANCE FifoQueue WITH items <- Contents
ImplementsFifo == Fifo!Spec

=============================================================================
