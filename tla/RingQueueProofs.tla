-------------------------- MODULE RingQueueProofs --------------------------
(***************************************************************************)
(* Proofs about the ring buffer, for every element set, every minimal      *)
(* length and any number of elements: its indices stay consistent through  *)
(* wrapping and resizing, it keeps no reference to a removed element, and  *)
(* it implements a first-in first-out queue.                               *)
(*                                                                         *)
(* The arguments are about intervals of slots, so the modulus is first     *)
(* replaced by the case distinction it amounts to (WrapValue) and the used *)
(* slots by one or two intervals (Used).                                   *)
(***************************************************************************)
EXTENDS RingQueue, SequenceTheorems, WellFoundedInduction, TLAPS

\* The slot k places after slot h in a slice of length c.
Slot(h, k, c) == IF h + k < c THEN h + k ELSE h + k - c

\* Wrapping an index less than twice the length takes the length off at most
\* once: all the code's masks are of such indices.
LEMMA WrapValue ==
    ASSUME NEW c \in Nat, c > 0, NEW h \in 0..(c - 1), NEW k \in 0..c
    PROVE  Wrap(h + k, c) = Slot(h, k, c)
  BY DEF Wrap, Slot

\* Slot s holds an element, for head h, n elements and length c: one interval,
\* or two when the elements wrap around.
Used(s, h, n, c) ==
    IF h + n <= c THEN h <= s /\ s < h + n
                  ELSE h <= s \/ s < h + n - c

\* The inductive invariant.
QueueInv ==
    /\ TypeOK
    /\ tail = Slot(head, count, cap)
    /\ \A s \in 0..(cap - 1) : buf[s] # Nil <=> Used(s, head, count, cap)

LEMMA QueueInit == Init => QueueInv
  BY QueueAssumption DEF Init, QueueInv, TypeOK, Slot, Used

LEMMA AddInPlaceStep ==
    ASSUME QueueInv, NEW e \in Elem, AddInPlace(e) PROVE QueueInv'
<1> USE QueueAssumption DEF QueueInv, TypeOK
<1>1. tail' = Slot(tail, 1, cap)
  BY WrapValue DEF AddInPlace
<1>2. TypeOK'
  BY <1>1 DEF AddInPlace, Slot
<1>3. tail' = Slot(head', count', cap')
  BY <1>1 DEF AddInPlace, Slot
<1>4. ASSUME NEW s \in 0..(cap' - 1)
      PROVE  buf'[s] # Nil <=> Used(s, head', count', cap')
  BY DEF AddInPlace, Slot, Used
<1> QED
  BY <1>2, <1>3, <1>4

LEMMA AddGrowStep ==
    ASSUME QueueInv, NEW e \in Elem, AddGrow(e) PROVE QueueInv'
<1> USE QueueAssumption DEF QueueInv, TypeOK
<1> DEFINE R == Resized(buf, cap, head, tail, count)
\* What resize builds: the elements in order from slot 0, then nils.
<1>1. R = [i \in 0..(2 * count - 1) |->
              IF i < count THEN buf[Slot(head, i, cap)] ELSE Nil]
  BY DEF AddGrow, Resized, NewLen, Slot
<1>2. \A i \in 0..(count - 1) : Slot(head, i, cap) \in 0..(cap - 1)
                             /\ buf[Slot(head, i, cap)] \in Elem
  BY DEF AddGrow, Slot, Used
<1>3. /\ cap' = 2 * count /\ head' = 0 /\ count' = count + 1 /\ ret' = ret
      /\ buf' = [R EXCEPT ![count] = e]
      /\ count = cap
  BY DEF AddGrow, NewLen
<1> HIDE DEF R
<1>4. tail' = Slot(0, count + 1, 2 * count)
  BY <1>3, WrapValue DEF AddGrow, NewLen
<1>5. \A i \in 0..(2 * count - 1) : buf'[i] =
         IF i < count THEN buf[Slot(head, i, cap)] ELSE IF i = count THEN e ELSE Nil
  BY <1>1, <1>3
<1>6. TypeOK'
  BY <1>1, <1>2, <1>3, <1>4, <1>5 DEF Slot
<1>7. ASSUME NEW s \in 0..(cap' - 1)
      PROVE  buf'[s] # Nil <=> Used(s, head', count', cap')
  <2>1. s \in 0..(2 * count - 1) /\ Nil \notin Elem
    BY <1>3
  <2>2. buf'[s] # Nil <=> s <= count
    BY <2>1, <1>2, <1>5
  <2>3. Used(s, 0, count + 1, 2 * count) <=> s <= count
    BY <2>1, <1>3 DEF Used
  <2> QED
    BY <2>2, <2>3, <1>3
<1> QED
  BY <1>3, <1>4, <1>6, <1>7

LEMMA RemoveInPlaceStep ==
    ASSUME QueueInv, RemoveInPlace PROVE QueueInv'
<1> USE QueueAssumption DEF QueueInv, TypeOK
<1>1. head' = Slot(head, 1, cap)
  BY WrapValue DEF RemoveInPlace
<1>2. TypeOK'
  BY <1>1 DEF RemoveInPlace, Cleared, Peek, Slot
<1>3. tail' = Slot(head', count', cap')
  BY <1>1 DEF RemoveInPlace, Slot
<1>4. ASSUME NEW s \in 0..(cap' - 1)
      PROVE  buf'[s] # Nil <=> Used(s, head', count', cap')
  BY <1>1 DEF RemoveInPlace, Cleared, Slot, Used
<1> QED
  BY <1>2, <1>3, <1>4

LEMMA RemoveShrinkStep ==
    ASSUME QueueInv, RemoveShrink PROVE QueueInv'
<1> USE QueueAssumption DEF QueueInv, TypeOK
<1> DEFINE h == Slot(head, 1, cap)
           R == Resized(Cleared, cap, h, tail, count - 1)
<1>1. /\ h \in 0..(cap - 1)
      /\ Wrap(head + 1, cap) = h
      /\ tail = Slot(h, count - 1, cap)
      /\ count - 1 \in 1..cap
  BY WrapValue DEF RemoveShrink, Shrinks, Slot
<1>2. R = [i \in 0..(2 * (count - 1) - 1) |->
              IF i < count - 1 THEN Cleared[Slot(h, i, cap)] ELSE Nil]
  BY <1>1 DEF Resized, NewLen, Slot
<1>3. \A i \in 0..(count - 2) : Slot(h, i, cap) \in 0..(cap - 1)
                             /\ Cleared[Slot(h, i, cap)] \in Elem
  BY DEF RemoveShrink, Slot, Used, Cleared
<1>4. /\ cap' = 2 * (count - 1) /\ head' = 0 /\ count' = count - 1
      /\ tail' = count - 1 /\ buf' = R /\ ret' = buf[head]
  BY <1>1 DEF RemoveShrink, NewLen, Peek
<1> HIDE DEF R, h
<1>5. TypeOK'
  <2>1. buf' \in [0..(cap' - 1) -> Elem \cup {Nil}]
    BY <1>2, <1>3, <1>4
  <2> QED
    BY <2>1, <1>1, <1>4
<1>6. tail' = Slot(head', count', cap')
  BY <1>1, <1>4 DEF Slot
<1>7. ASSUME NEW s \in 0..(cap' - 1)
      PROVE  buf'[s] # Nil <=> Used(s, head', count', cap')
  BY <1>1, <1>2, <1>3, <1>4 DEF Used
<1> QED
  BY <1>5, <1>6, <1>7

LEMMA QueueStep == QueueInv /\ [Next]_vars => QueueInv'
<1> SUFFICES ASSUME QueueInv, [Next]_vars PROVE QueueInv'
  OBVIOUS
<1>1. CASE UNCHANGED vars
  BY <1>1 DEF vars, QueueInv, TypeOK
<1> QED
  BY <1>1, AddInPlaceStep, AddGrowStep, RemoveInPlaceStep, RemoveShrinkStep
     DEF Next, Add, Remove

\* The slice, its indices and its count stay in range in every behaviour.
THEOREM TypeCorrect == Spec => []TypeOK
<1>1. QueueInv => TypeOK
  BY DEF QueueInv
<1> QED
  BY QueueInit, QueueStep, <1>1, PTL DEF Spec

\* The next free slot is always head + count places round the ring, so Add
\* neither overwrites an element nor leaves a hole.
THEOREM TailIsConsistent == Spec => []TailConsistent
<1>1. QueueInv => TailConsistent
  BY WrapValue DEF QueueInv, TypeOK, TailConsistent
<1> QED
  BY QueueInit, QueueStep, <1>1, PTL DEF Spec

\* Slots outside the elements are nil: no removed element is kept reachable.
THEOREM NoReferenceKept == Spec => []OnlyLiveSlots
<1>1. QueueInv => OnlyLiveSlots
  <2> SUFFICES ASSUME QueueInv, NEW s \in 0..(cap - 1)
               PROVE  Used(s, head, count, cap) <=> s \in UsedSlots
    BY DEF OnlyLiveSlots, QueueInv
  <2> USE DEF QueueInv, TypeOK
  <2>1. \A i \in 0..(count - 1) : Wrap(head + i, cap) = Slot(head, i, cap)
    BY WrapValue
  <2>2. ASSUME s \in UsedSlots PROVE Used(s, head, count, cap)
    BY <2>1, <2>2 DEF UsedSlots, Used, Slot
  <2>3. ASSUME Used(s, head, count, cap) PROVE s \in UsedSlots
    <3> DEFINE k == IF s >= head THEN s - head ELSE s + cap - head
    <3>1. k \in 0..(count - 1) /\ Slot(head, k, cap) = s
      BY <2>3 DEF Used, Slot
    <3> QED
      BY <3>1, <2>1 DEF UsedSlots
  <2> QED
    BY <2>2, <2>3
<1> QED
  BY QueueInit, QueueStep, <1>1, PTL DEF Spec

-----------------------------------------------------------------------------
(* Refinement *)

\* The sequence of elements, without the modulus.
ContentsAre ==
    /\ Contents \in Seq(Elem)
    /\ Len(Contents) = count
    /\ \A i \in 1..count : Contents[i] = buf[Slot(head, i - 1, cap)]

LEMMA ContentsValue == QueueInv => ContentsAre
<1> USE DEF QueueInv, TypeOK
<1> SUFFICES ASSUME QueueInv PROVE ContentsAre
  OBVIOUS
<1>1. ASSUME NEW i \in 1..count
      PROVE  /\ Get(i - 1) = buf[Slot(head, i - 1, cap)]
             /\ buf[Slot(head, i - 1, cap)] \in Elem
  <2>1. Get(i - 1) = buf[Wrap(head + (i - 1), cap)]
    BY DEF Get, GetPos
  <2>2. Wrap(head + (i - 1), cap) = Slot(head, i - 1, cap)
    BY WrapValue
  <2>3. Slot(head, i - 1, cap) \in 0..(cap - 1) /\ Used(Slot(head, i - 1, cap), head, count, cap)
    BY DEF Slot, Used
  <2> QED
    BY <2>1, <2>2, <2>3
<1>2. Contents \in [1..count -> Elem]
  BY <1>1 DEF Contents
<1>3. Contents \in Seq(Elem) /\ Len(Contents) = count
  BY <1>2
<1> QED
  BY <1>1, <1>3 DEF Contents, ContentsAre

\* An Add appends its element, whether or not the slice grows.
LEMMA AddAppends ==
    ASSUME QueueInv, QueueInv', ContentsAre, ContentsAre', NEW e \in Elem, Add(e)
    PROVE  Contents' = Append(Contents, e) /\ ret' = ret
<1> USE DEF QueueInv, TypeOK
<1>1. count' = count + 1 /\ ret' = ret
  BY DEF Add, AddInPlace, AddGrow
<1>2. ASSUME NEW i \in 1..count
      PROVE  buf'[Slot(head', i - 1, cap')] = buf[Slot(head, i - 1, cap)]
  <2>1. CASE AddInPlace(e)
    BY <2>1 DEF AddInPlace, Slot
  <2>2. CASE AddGrow(e)
    BY <2>2 DEF AddGrow, Resized, NewLen, Slot
  <2> QED
    BY <2>1, <2>2 DEF Add
<1>3. buf'[Slot(head', count, cap')] = e
  <2>1. CASE AddInPlace(e)
    BY <2>1 DEF AddInPlace, Slot
  <2>2. CASE AddGrow(e)
    BY <2>2 DEF AddGrow, Resized, NewLen, Slot
  <2> QED
    BY <2>1, <2>2 DEF Add
<1>4. /\ Append(Contents, e) \in Seq(Elem)
      /\ Len(Append(Contents, e)) = count + 1
      /\ \A i \in 1..count : Append(Contents, e)[i] = Contents[i]
      /\ Append(Contents, e)[count + 1] = e
  BY AppendProperties DEF ContentsAre
<1>5. \A i \in 1..(count + 1) : Contents'[i] = Append(Contents, e)[i]
  <2> SUFFICES ASSUME NEW i \in 1..(count + 1)
               PROVE  Contents'[i] = Append(Contents, e)[i]
    OBVIOUS
  <2>1. Contents'[i] = buf'[Slot(head', i - 1, cap')]
    BY <1>1 DEF ContentsAre
  <2>2. CASE i \in 1..count
    BY <2>1, <2>2, <1>2, <1>4 DEF ContentsAre
  <2>3. CASE i = count + 1
    BY <2>1, <2>3, <1>3, <1>4
  <2>4. count \in Nat
    OBVIOUS
  <2>5. i \in 1..count \/ i = count + 1
    BY <2>4
  <2> QED
    BY <2>2, <2>3, <2>5
<1>6. Contents' \in Seq(Elem) /\ Len(Contents') = count + 1
  BY <1>1 DEF ContentsAre
<1> QED
  BY <1>1, <1>4, <1>5, <1>6, SeqEqual

\* A Remove takes the oldest element, whether or not the slice shrinks.
LEMMA RemoveTakes ==
    ASSUME QueueInv, QueueInv', ContentsAre, ContentsAre', Remove
    PROVE  /\ Contents # <<>>
           /\ ret' = Head(Contents)
           /\ Contents' = Tail(Contents)
<1> USE DEF QueueInv, TypeOK
<1>1. count > 0 /\ count' = count - 1 /\ ret' = buf[head]
  BY DEF Remove, RemoveInPlace, RemoveShrink, Peek
<1>2. Contents # <<>>
  BY <1>1 DEF ContentsAre
<1>3. ret' = Head(Contents)
  <2>1. Head(Contents) = Contents[1]
    BY <1>2 DEF ContentsAre
  <2>2. Contents[1] = buf[Slot(head, 1 - 1, cap)]
    BY <1>1 DEF ContentsAre
  <2>3. Slot(head, 1 - 1, cap) = head
    BY DEF Slot
  <2> QED
    BY <2>1, <2>2, <2>3, <1>1
<1>4. /\ Tail(Contents) \in Seq(Elem)
      /\ Len(Tail(Contents)) = count - 1
      /\ \A i \in 1..(count - 1) : Tail(Contents)[i] = Contents[i + 1]
  BY <1>2, HeadTailProperties DEF ContentsAre
<1>5. ASSUME NEW i \in 1..(count - 1)
      PROVE  buf'[Slot(head', i - 1, cap')] = buf[Slot(head, i, cap)]
  <2>1. Wrap(head + 1, cap) = Slot(head, 1, cap)
    BY WrapValue
  <2>2. CASE RemoveInPlace
    <3>1. /\ Slot(head', i - 1, cap') = Slot(head, i, cap)
          /\ Slot(head, i, cap) \in 0..(cap - 1) \ {head}
      <4>1. head' = Slot(head, 1, cap) /\ cap' = cap
        BY <2>1, <2>2 DEF RemoveInPlace
      <4>2. cap \in Nat /\ head \in 0..(cap - 1) /\ count \in 0..cap
        OBVIOUS
      <4>3. Slot(Slot(head, 1, cap), i - 1, cap) = Slot(head, i, cap)
        BY <4>2 DEF Slot
      <4>4. Slot(head, i, cap) \in 0..(cap - 1) \ {head}
        BY <4>2 DEF Slot
      <4> QED
        BY <4>1, <4>3, <4>4
    <3>2. buf' = [buf EXCEPT ![head] = Nil]
      BY <2>2 DEF RemoveInPlace, Cleared
    <3> QED
      BY <3>1, <3>2
  <2>3. CASE RemoveShrink
    <3> DEFINE h == Slot(head, 1, cap)
               j == i - 1
    <3>1. /\ cap' = 2 * (count - 1) /\ head' = 0
          /\ buf' = Resized(Cleared, cap, h, tail, count - 1)
      BY <2>1, <2>3 DEF RemoveShrink, NewLen
    <3>2. /\ cap \in Nat /\ cap > 0 /\ head \in 0..(cap - 1) /\ count \in 0..cap /\ i \in 1..(count - 1)
          /\ tail = Slot(head, count, cap)
      OBVIOUS
    <3>3. j \in 0..(2 * (count - 1) - 1) /\ Slot(head', j, cap') = j
      BY <3>1, <3>2 DEF Slot
    <3>4. buf'[j] = IF tail > h
                    THEN IF j < tail - h THEN Cleared[h + j] ELSE Nil
                    ELSE IF j < cap - h THEN Cleared[h + j]
                    ELSE IF j < cap - h + tail THEN Cleared[j - (cap - h)]
                    ELSE Nil
      BY <3>1, <3>3 DEF Resized, NewLen
    <3>5. /\ tail > h => j < tail - h /\ h + j = Slot(head, i, cap)
          /\ ~(tail > h) /\ j < cap - h => h + j = Slot(head, i, cap)
          /\ ~(tail > h) /\ ~(j < cap - h) =>
                j < cap - h + tail /\ j - (cap - h) = Slot(head, i, cap)
      BY <3>2 DEF Slot
    <3>6. Slot(head, i, cap) \in 0..(cap - 1) \ {head}
      BY <3>2 DEF Slot
    <3>7. buf'[j] = Cleared[Slot(head, i, cap)]
      <4> HIDE DEF j, h
      <4> QED
        BY <3>4, <3>5
    <3>8. Cleared[Slot(head, i, cap)] = buf[Slot(head, i, cap)]
      BY <3>6 DEF Cleared
    <3> QED
      BY <3>3, <3>7, <3>8
  <2> QED
    BY <2>2, <2>3 DEF Remove
<1>6. \A i \in 1..(count - 1) : Contents'[i] = Tail(Contents)[i]
  <2> SUFFICES ASSUME NEW i \in 1..(count - 1)
               PROVE  Contents'[i] = Tail(Contents)[i]
    OBVIOUS
  <2>1. Contents'[i] = buf'[Slot(head', i - 1, cap')]
    BY <1>1 DEF ContentsAre
  <2>2. Contents[i + 1] = buf[Slot(head, i, cap)]
    BY DEF ContentsAre
  <2> QED
    BY <2>1, <2>2, <1>4, <1>5
<1>7. Contents' \in Seq(Elem) /\ Len(Contents') = count - 1
  BY <1>1 DEF ContentsAre
<1> QED
  BY <1>2, <1>3, <1>4, <1>6, <1>7, SeqEqual

\* The ring buffer implements a first-in first-out queue: elements come out of
\* Remove in the order Add put them in, each once, however often the slice
\* grew or shrank in between.
THEOREM RingIsFifo == Spec => ImplementsFifo
<1>1. Init => Fifo!Init
  <2>1. Init => Contents = <<>>
    BY DEF Init, Contents
  <2> QED
    BY <2>1 DEF Init, Fifo!Init
<1>2. QueueInv /\ QueueInv' /\ ContentsAre /\ ContentsAre' /\ [Next]_vars
         => [Fifo!Next]_<<Contents, ret>>
  <2> SUFFICES ASSUME QueueInv, QueueInv', ContentsAre, ContentsAre', [Next]_vars
               PROVE  [Fifo!Next]_<<Contents, ret>>
    OBVIOUS
  <2>1. ASSUME NEW e \in Elem, Add(e) PROVE Fifo!Next
    BY <2>1, AddAppends DEF Fifo!Next, Fifo!Put
  <2>2. CASE Remove
    BY <2>2, RemoveTakes DEF Fifo!Next, Fifo!Take
  <2>3. CASE UNCHANGED vars
    BY <2>3 DEF vars, Contents, Get, GetPos, Wrap
  <2> QED
    BY <2>1, <2>2, <2>3 DEF Next
<1> QED
  BY <1>1, <1>2, QueueInit, QueueStep, ContentsValue, PTL
     DEF Spec, ImplementsFifo, Fifo!Spec

-----------------------------------------------------------------------------
(* The mask *)

IsPower(w) == w \in Nat \ {0} /\ \A d \in 1..w : w % d = 0 => d = 1 \/ d % 2 = 0

LEMMA QuotientIs ==
    ASSUME NEW a \in Nat, NEW d \in Nat \ {0}
    PROVE  /\ a \div d \in Nat /\ a % d \in 0..(d - 1) /\ a % d \in Nat
           /\ a = d * (a \div d) + (a % d)
  OBVIOUS

LEMMA QuotientOnly ==
    ASSUME NEW a \in Nat, NEW d \in Nat \ {0}, NEW q \in Int, NEW r \in 0..(d - 1), a = d * q + r
    PROVE  a \div d = q /\ a % d = r
  OBVIOUS

LEMMA Distributes ==
    ASSUME NEW w \in Nat, NEW x \in Nat, NEW y \in Nat
    PROVE  w * x + w * y = w * (x + y) /\ w * x \in Nat /\ w * y \in Nat
  OBVIOUS

LEMMA Divides ==
    ASSUME NEW a \in Nat, NEW d \in Nat \ {0}, a % d = 0
    PROVE  \E e \in Nat : a = d * e
<1>1. PICK e \in Nat : e = a \div d
  BY QuotientIs
<1>2. a = d * e + (a % d)
  BY <1>1, QuotientIs
<1>3. d * e \in Nat
  OBVIOUS
<1> QED
  BY <1>2, <1>3

\* Twice a power of two, and half of one, are powers of two.
LEMMA TwicePower == ASSUME NEW c, IsPower(c) PROVE IsPower(2 * c)
<1>1. c \in Nat \ {0} /\ 2 * c \in Nat \ {0}
  BY DEF IsPower
<1>2. ASSUME NEW d \in 1..(2 * c), (2 * c) % d = 0, d % 2 # 0 PROVE d = 1
  <2>0. d \in Nat \ {0}
    BY <1>1
  <2>1. PICK e \in Nat : 2 * c = d * e
    BY <1>1, <1>2, <2>0, Divides
  <2>2. PICK a \in Nat : d = 2 * a + 1
    BY <1>2, <2>0, QuotientIs
  <2>3. PICK f \in Int : f = c - a * e
    BY <1>1, <2>1, <2>2
  <2>4. e = 2 * f
    BY <1>1, <2>1, <2>2, <2>3
  <2>5. c = d * f
    BY <1>1, <2>0, <2>1, <2>4
  <2>6. f \in Nat /\ f >= 1
    BY <1>1, <2>1, <2>4, <2>5
  <2>7. d <= c
    BY <1>1, <2>0, <2>5, <2>6
  <2>8. c = d * f + 0 /\ 0 \in 0..(d - 1)
    BY <1>1, <2>0, <2>5, <2>6
  <2>9. c % d = 0
    BY <1>1, <2>0, <2>6, <2>8, QuotientOnly
  <2>10. d \in 1..c
    BY <1>1, <2>0, <2>7
  <2> QED
    BY <1>2, <2>9, <2>10 DEF IsPower
<1> QED
  BY <1>1, <1>2 DEF IsPower

LEMMA HalfPower == ASSUME NEW c \in Nat \ {0}, IsPower(2 * c) PROVE IsPower(c)
<1>1. ASSUME NEW d \in 1..c, c % d = 0 PROVE d = 1 \/ d % 2 = 0
  <2>0. d \in Nat \ {0} /\ d \in 1..(2 * c)
    OBVIOUS
  <2>1. PICK e \in Nat : c = d * e
    BY <1>1, <2>0, Divides
  <2>2. 2 * c = d * (2 * e) + 0 /\ 2 * e \in Int /\ 0 \in 0..(d - 1) /\ 2 * c \in Nat
    BY <2>0, <2>1
  <2>3. (2 * c) % d = 0
    BY <2>0, <2>2, QuotientOnly
  <2> QED
    BY <2>0, <2>3 DEF IsPower
<1> QED
  BY <1>1 DEF IsPower

\* A power of two above 1 is even, and half of it is one.
LEMMA PowerHalves ==
    ASSUME NEW w, IsPower(w), w > 1
    PROVE  \E h \in Nat \ {0} : w = 2 * h /\ IsPower(h)
<1>1. w \in Nat \ {0} /\ w \in 1..w /\ w = w * 1 + 0 /\ 0 \in 0..(w - 1)
  BY DEF IsPower
<1>2. w % w = 0
  BY <1>1, QuotientOnly
<1>3. w % 2 = 0
  BY <1>1, <1>2 DEF IsPower
<1>4. PICK h \in Nat : w = 2 * h
  BY <1>1, <1>3, QuotientIs
<1>5. h \in Nat \ {0}
  BY <1>1, <1>4
<1> QED
  BY <1>4, <1>5, HalfPower

\* The smaller of two powers of two divides half of the larger: there is no
\* least one that does not.
Half(w, c) == \E m \in Nat \ {0} : c = 2 * (w * m)

Smaller == {p \in Nat \X Nat : p[1] < p[2]}

LEMMA PowersDivide ==
    ASSUME NEW x, IsPower(x), NEW y, IsPower(y), x < y
    PROVE  Half(x, y)
<1> SUFFICES ASSUME ~Half(x, y) PROVE FALSE
  OBVIOUS
<1> DEFINE S == {w \in Nat : IsPower(w) /\ \E c \in Nat : IsPower(c) /\ w < c /\ ~Half(w, c)}
<1>1. x \in S /\ S \subseteq Nat
  BY DEF IsPower
<1>2. IsWellFoundedOn(Smaller, Nat)
  BY NatLessThanWellFounded DEF OpToRel, Smaller
<1>3. PICK w \in S : \A v \in S : ~(<<v, w>> \in Smaller)
  BY <1>1, <1>2, WFMin
<1>4. PICK c \in Nat : IsPower(c) /\ w < c /\ ~Half(w, c)
  BY <1>3
<1>5. w \in Nat \ {0} /\ IsPower(w)
  BY <1>3 DEF IsPower
<1>6. PICK k \in Nat \ {0} : c = 2 * k /\ IsPower(k)
  BY <1>4, <1>5, PowerHalves
<1>7. CASE w = 1
  <2>1. c = 2 * (w * k)
    BY <1>6, <1>7
  <2> QED
    BY <1>4, <1>6, <2>1 DEF Half
<1>8. CASE w # 1
  <2>1. PICK h \in Nat \ {0} : w = 2 * h /\ IsPower(h)
    BY <1>5, <1>8, PowerHalves
  <2>2. h < k /\ h < w
    BY <1>4, <1>5, <1>6, <2>1
  <2>3. <<h, w>> \in Smaller
    BY <1>5, <2>1, <2>2 DEF Smaller
  <2>4. Half(h, k)
    BY <1>3, <1>6, <2>1, <2>2, <2>3
  <2>5. PICK m \in Nat \ {0} : k = 2 * (h * m)
    BY <2>4 DEF Half
  <2>6. c = 2 * (w * m)
    BY <1>6, <2>1, <2>5
  <2> QED
    BY <1>4, <2>6 DEF Half
<1> QED
  BY <1>7, <1>8

LEMMA InBits ==
    ASSUME NEW x \in Nat, NEW w
    PROVE  w \in Bits(x) <=> IsPower(w) /\ (x \div w) % 2 = 1
<1>1. w \in Bits(x) <=> w \in 1..x /\ IsPower(w) /\ (x \div w) % 2 = 1
  BY DEF Bits, PowersOfTwo, IsPower
<1>2. ASSUME IsPower(w), w > x PROVE (x \div w) % 2 = 0
  <2>1. w \in Nat \ {0} /\ x = w * 0 + x /\ x \in 0..(w - 1)
    BY <1>2 DEF IsPower
  <2>2. x \div w = 0
    BY <2>1, QuotientOnly
  <2> QED
    BY <2>2
<1>3. IsPower(w) /\ ~(w > x) => w \in 1..x
  BY DEF IsPower
<1> QED
  BY <1>1, <1>2, <1>3

\* For a power of two c, the bits of x % c are those x has in common with c - 1.
LEMMA MaskBitsAre ==
    ASSUME NEW c, IsPower(c), NEW x \in Nat
    PROVE  Bits(x % c) = Bits(x) \cap Bits(c - 1)
<1> DEFINE r == x % c
           q == x \div c
<1>1. c \in Nat \ {0} /\ c - 1 \in Nat
  BY DEF IsPower
<1>2. r \in 0..(c - 1) /\ r \in Nat /\ q \in Nat /\ x = c * q + r
  BY <1>1, QuotientIs
<1> HIDE DEF r, q
<1>3. ASSUME NEW w, IsPower(w)
      PROVE  (r \div w) % 2 = 1 <=> (x \div w) % 2 = 1 /\ ((c - 1) \div w) % 2 = 1
  <2>0. w \in Nat \ {0}
    BY <1>3 DEF IsPower
  <2>1. CASE w < c
    <3>1. PICK m \in Nat \ {0} : c = 2 * (w * m)
      BY <1>3, <2>1, PowersDivide DEF Half
    <3>2. PICK a \in Nat, b \in 0..(w - 1) : a = r \div w /\ r = w * a + b
      <4>1. r \div w \in Nat /\ r % w \in 0..(w - 1) /\ r = w * (r \div w) + (r % w)
        BY <1>2, <2>0, QuotientIs
      <4> QED
        BY <4>1
    <3>3. x \div w = 2 * (m * q) + a
      <4>1. PICK n \in Nat : n = m * q
        BY <1>2, <3>1
      <4>2. c * q = w * (2 * n)
        BY <1>2, <2>0, <3>1, <4>1
      <4>3. w * (2 * n) + w * a = w * (2 * n + a) /\ w * (2 * n) \in Nat /\ w * a \in Nat
        <5>1. w \in Nat /\ 2 * n \in Nat
          BY <2>0, <4>1
        <5> QED
          BY <3>2, <5>1, Distributes
      <4>4. x = w * (2 * n + a) + b /\ 2 * n + a \in Int
        BY <1>2, <2>0, <3>2, <4>1, <4>2, <4>3
      <4> QED
        BY <2>0, <3>2, <4>1, <4>4, QuotientOnly
    <3>4. (c - 1) \div w = 2 * (m - 1) + 1
      <4>1. c - 1 = w * (2 * (m - 1) + 1) + (w - 1) /\ 2 * (m - 1) + 1 \in Int /\ w - 1 \in 0..(w - 1)
        BY <1>1, <2>0, <3>1
      <4> QED
        BY <1>1, <2>0, <4>1, QuotientOnly
    <3>5. (2 * (m * q) + a) % 2 = a % 2
      <4>1. PICK n \in Nat : n = m * q
        BY <1>2, <3>1
      <4>2. (2 * n + a) % 2 = a % 2
        BY <3>2, <4>1
      <4> QED
        BY <4>1, <4>2
    <3>6. (2 * (m - 1) + 1) % 2 = 1
      BY <3>1
    <3> QED
      BY <3>2, <3>3, <3>4, <3>5, <3>6
  <2>2. CASE ~(w < c)
    <3>1. r = w * 0 + r /\ r \in 0..(w - 1) /\ c - 1 = w * 0 + (c - 1) /\ c - 1 \in 0..(w - 1)
      BY <1>1, <1>2, <2>0, <2>2
    <3>2. r \div w = 0 /\ (c - 1) \div w = 0
      BY <1>1, <1>2, <2>0, <3>1, QuotientOnly
    <3> QED
      BY <3>2
  <2> QED
    BY <2>1, <2>2
<1>4. ASSUME NEW w PROVE w \in Bits(r) <=> w \in Bits(x) \cap Bits(c - 1)
  BY <1>1, <1>2, <1>3, InBits
<1> QED
  BY <1>4 DEF r

LengthIsPower == IsPower(cap)

\* The length of the slice is a power of two, whatever the resizes: on every
\* index the bit mask of queue.go is the modulus the model has in its place.
THEOREM MasksAreModuli == Spec => []MaskIsModulo
<1>1. Init => LengthIsPower
  BY LengthAssumption, QueueAssumption DEF Init, LengthIsPower, PowersOfTwo, IsPower
<1>2. QueueInv /\ LengthIsPower /\ [Next]_vars => LengthIsPower'
  <2> SUFFICES ASSUME QueueInv, IsPower(cap), [Next]_vars PROVE IsPower(cap')
    BY DEF LengthIsPower
  <2>1. ASSUME NEW e \in Elem, AddGrow(e) PROVE IsPower(cap')
    BY <2>1, TwicePower DEF AddGrow, NewLen
  <2>2. CASE RemoveShrink
    <3>1. count \in Nat /\ cap \in Nat /\ cap > 0 /\ cap = 4 * (count - 1) /\ cap' = 2 * (count - 1)
      BY <2>2 DEF QueueInv, TypeOK, RemoveShrink, Shrinks, NewLen
    <3>2. PICK n \in Nat \ {0} : n = 2 * (count - 1) /\ cap = 2 * n
      BY <3>1
    <3> QED
      BY <3>1, <3>2, HalfPower
  <2>3. CASE UNCHANGED cap
    BY <2>3
  <2> QED
    BY <2>1, <2>2, <2>3 DEF Next, Add, Remove, AddInPlace, RemoveInPlace, vars
<1>3. LengthIsPower => MaskIsModulo
  <2> SUFFICES ASSUME IsPower(cap), NEW x \in 0..(2 * cap)
               PROVE  Bits(Wrap(x, cap)) = Bits(x) \cap Bits(cap - 1)
    BY DEF MaskIsModulo, LengthIsPower
  <2>1. x \in Nat
    BY DEF IsPower
  <2> QED
    BY <2>1, MaskBitsAre DEF Wrap
<1> QED
  BY <1>1, <1>2, <1>3, QueueInit, QueueStep, PTL DEF Spec

=============================================================================
