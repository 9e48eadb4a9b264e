--------------------------- MODULE WorkPoolProofs ---------------------------
(***************************************************************************)
(* Proofs about the work pool and the queue it is built on, for any        *)
(* workers, users, poppers and number of tasks.                            *)
(*                                                                         *)
(* The queue: QInv holds initially and every method keeps it, whoever      *)
(* calls it.  NothingLost adds up how many values are where.  What is      *)
(* inductive is that the places are disjoint and that no value is twice in *)
(* one of them (Placed); the sum follows.  It needs to know when a         *)
(* goroutine has a value in hand (Held): a pop must not overwrite one.     *)
(* NoLostWakeup needs to know who sleeps (Asleep), since a signal wakes    *)
(* exactly one.                                                            *)
(*                                                                         *)
(* The pool: PInv adds what the pool's goroutines know of each other.      *)
(* That Wait means done is the end of a chain: the queue was found empty   *)
(* before it was closed (CallerAt), startQueue had ended its work when     *)
(* isQueTask was read (FeederAt), so nothing is sent any more and a worker *)
(* that ends leaves the channel empty (WorkersAt); the WaitGroup counts    *)
(* the workers that have not ended (Counting), a task that has gone ahead  *)
(* is in the hands of one of them (Accounted), and an error or a timeout   *)
(* is in errChan before it can close the pool (Reported, Failing).         *)
(***************************************************************************)
EXTENDS WorkPool, FiniteSetTheorems, TLAPS

-----------------------------------------------------------------------------
(* The queue *)

\* The places of a goroutine, those of startQueue included.
Places == {"idle", "pop", "popped", "select", "send", "start", "break", "done", "panic"}

QTypeOK ==
    /\ buffer \in Seq(Nat) /\ count \in Nat /\ qclosed \in BOOLEAN
    /\ waiting \in Seq(Goroutines)
    /\ cc \in Seq(Nat) /\ Len(cc) <= 1
    /\ at \in [Goroutines -> Places]
    /\ hand \in [Goroutines -> Nat]
    /\ puts \in 0..MaxPuts

\* No element of a sequence is there twice.
Apart(s) == \A i, k \in DOMAIN s : s[i] = s[k] => i = k

\* Only a goroutine that has popped has a value in hand, and no other has it.
Held ==
    \A g, h \in Goroutines :
        hand[g] # Nil => /\ at[g] \in {"popped", "send"}
                         /\ hand[h] = hand[g] => h = g

\* Who sleeps is in a blocking pop, and sleeps once.
Asleep == Apart(waiting) /\ \A g \in ToSet(waiting) : at[g] = "pop"

\* Sets b, c, h and g part the numbers from 1 to n.
Parted(b, c, h, g, n) ==
    /\ b \cup c \cup h \cup g = 1..n
    /\ b \cap c = {} /\ b \cap h = {} /\ b \cap g = {}
    /\ c \cap h = {} /\ c \cap g = {} /\ h \cap g = {}

Placed == Apart(buffer) /\ Parted(ToSet(buffer), InChan, InHand, got, puts)

Counted == count = IF qclosed THEN 0 ELSE Len(buffer)

QInv == QTypeOK /\ Held /\ Asleep /\ Placed /\ Counted /\ NoLostWakeup

-----------------------------------------------------------------------------
(* Sequences, hands and parts *)

\* Taking the first element off a sequence without repetition.
LEMMA TakeFirst ==
    ASSUME NEW S, NEW s \in Seq(S), s # <<>>, Apart(s)
    PROVE  /\ Head(s) \in S /\ Head(s) \in ToSet(s)
           /\ Tail(s) \in Seq(S) /\ Apart(Tail(s))
           /\ ToSet(Tail(s)) = ToSet(s) \ {Head(s)}
           /\ Len(s) \in Nat /\ Len(s) >= 1 /\ Len(Tail(s)) = Len(s) - 1
<1>1. /\ Len(s) \in Nat /\ Len(s) >= 1 /\ DOMAIN s = 1..Len(s)
      /\ Head(s) = s[1] /\ s[1] \in S /\ Tail(s) \in Seq(S)
      /\ Len(Tail(s)) = Len(s) - 1 /\ DOMAIN Tail(s) = 1..(Len(s) - 1)
      /\ \A i \in 1..(Len(s) - 1) : Tail(s)[i] = s[i + 1]
  OBVIOUS
<1>2. Apart(Tail(s))
  BY <1>1 DEF Apart
<1>3. ASSUME NEW x \in ToSet(Tail(s)) PROVE x \in ToSet(s) \ {Head(s)}
  <2>1. PICK i \in 1..(Len(s) - 1) : x = s[i + 1]
    BY <1>1, <1>3 DEF ToSet
  <2>2. i + 1 \in DOMAIN s /\ i + 1 # 1 /\ 1 \in DOMAIN s
    BY <1>1
  <2> QED
    BY <1>1, <2>1, <2>2 DEF ToSet, Apart
<1>4. ASSUME NEW x \in ToSet(s) \ {Head(s)} PROVE x \in ToSet(Tail(s))
  <2>1. PICK i \in 1..Len(s) : x = s[i]
    BY <1>1 DEF ToSet
  <2>2. i - 1 \in DOMAIN Tail(s) /\ Tail(s)[i - 1] = x
    BY <1>1, <2>1
  <2> QED
    BY <2>2 DEF ToSet
<1>5. Head(s) \in ToSet(s)
  BY <1>1 DEF ToSet
<1> QED
  BY <1>1, <1>2, <1>3, <1>4, <1>5

\* Appending an element that is not there yet.
LEMMA PutLast ==
    ASSUME NEW S, NEW s \in Seq(S), Apart(s), NEW e \in S, e \notin ToSet(s)
    PROVE  /\ Append(s, e) \in Seq(S) /\ Apart(Append(s, e))
           /\ ToSet(Append(s, e)) = ToSet(s) \cup {e}
           /\ Len(s) \in Nat /\ Len(Append(s, e)) = Len(s) + 1
<1> DEFINE t == Append(s, e)
<1>1. /\ Len(s) \in Nat /\ DOMAIN s = 1..Len(s)
      /\ t \in Seq(S) /\ Len(t) = Len(s) + 1 /\ DOMAIN t = 1..(Len(s) + 1)
      /\ \A i \in 1..Len(s) : t[i] = s[i]
      /\ t[Len(s) + 1] = e
  OBVIOUS
<1> HIDE DEF t
<1>2. \A i \in 1..Len(s) : s[i] # e
  BY <1>1 DEF ToSet
<1>3. Apart(t)
  BY <1>1, <1>2 DEF Apart
<1>4. ToSet(t) = ToSet(s) \cup {e}
  BY <1>1 DEF ToSet
<1> QED
  BY <1>1, <1>3, <1>4 DEF t

\* The channel holds nothing or one value.
LEMMA Channel ==
    /\ ToSet(<<>>) = {}
    /\ \A v \in Nat : ToSet(<<v>>) = {v} /\ Head(<<v>>) = v /\ <<v>> # <<>>
                      /\ <<v>> \in Seq(Nat) /\ Len(<<v>>) <= 1
  BY DEF ToSet

LEMMA ChannelFull ==
    ASSUME NEW c \in Seq(Nat), Len(c) <= 1, c # <<>>
    PROVE  Head(c) \in Nat /\ ToSet(c) = {Head(c)}
<1>1. Len(c) \in Nat /\ Len(c) >= 1 /\ DOMAIN c = 1..Len(c) /\ Head(c) = c[1] /\ c[1] \in Nat
  OBVIOUS
<1>2. DOMAIN c = {1}
  BY <1>1
<1> QED
  BY <1>1, <1>2 DEF ToSet

\* A goroutine with an empty hand takes v.
LEMMA HandTakes ==
    ASSUME NEW f \in [Goroutines -> Nat], NEW g \in Goroutines, NEW v \in Nat, f[g] = Nil
    PROVE  LET e == [f EXCEPT ![g] = v]
           IN  {e[h] : h \in Goroutines} \ {Nil}
                  = ({f[h] : h \in Goroutines} \ {Nil}) \cup ({v} \ {Nil})
<1> DEFINE e == [f EXCEPT ![g] = v]
<1>1. e[g] = v /\ \A h \in Goroutines : h # g => e[h] = f[h]
  OBVIOUS
<1> HIDE DEF e
<1> QED
  BY <1>1 DEF e

\* A goroutine gives away what only it has.
LEMMA HandGives ==
    ASSUME NEW f \in [Goroutines -> Nat], NEW g \in Goroutines,
           \A h \in Goroutines : f[g] # Nil /\ f[h] = f[g] => h = g
    PROVE  LET e == [f EXCEPT ![g] = Nil]
           IN  {e[h] : h \in Goroutines} \ {Nil}
                  = ({f[h] : h \in Goroutines} \ {Nil}) \ {f[g]}
<1> DEFINE e == [f EXCEPT ![g] = Nil]
<1>1. e[g] = Nil /\ \A h \in Goroutines : h # g => e[h] = f[h]
  OBVIOUS
<1> HIDE DEF e
<1> QED
  BY <1>1 DEF e

\* A value moves from one part to another.
LEMMA Moves ==
    ASSUME NEW b, NEW c, NEW h, NEW g, NEW n, Parted(b, c, h, g, n)
    PROVE  /\ \A v \in b : /\ Parted(b \ {v}, c \cup {v}, h, g, n)
                           /\ Parted(b \ {v}, c, h \cup {v}, g, n)
                           /\ Parted(b \ {v}, c, h, g \cup {v}, n)
           /\ \A v \in c : Parted(b, c \ {v}, h, g \cup {v}, n)
           /\ \A v \in h : /\ Parted(b, c \cup {v}, h \ {v}, g, n)
                           /\ Parted(b, c, h \ {v}, g \cup {v}, n)
  BY Zenon DEF Parted

\* A new value comes in.
LEMMA Grows ==
    ASSUME NEW b, NEW c, NEW h, NEW g, NEW n \in Nat, Parted(b, c, h, g, n)
    PROVE  Parted(b \cup {n + 1}, c, h, g, n + 1) /\ n + 1 \notin b
<1>1. 1..(n + 1) = 1..n \cup {n + 1} /\ n + 1 \notin 1..n
  OBVIOUS
<1> QED
  BY <1>1 DEF Parted

-----------------------------------------------------------------------------
(* Who is awake *)

AwakeSet == {g \in Goroutines : Awake(g)}

LEMMA AwakeFinite == IsFiniteSet(AwakeSet) /\ Cardinality(AwakeSet) \in Nat
<1>1. IsFiniteSet(Goroutines)
  BY QueueAssumption, FS_Union DEF Goroutines
<1>2. IsFiniteSet(AwakeSet)
  BY <1>1, FS_Subset DEF AwakeSet
<1> QED
  BY <1>2, FS_CardinalityType

\* The same, of the next state.
LEMMA AwakeFiniteNext == IsFiniteSet(AwakeSet') /\ Cardinality(AwakeSet') \in Nat
<1>1. IsFiniteSet(Goroutines)
  BY QueueAssumption, FS_Union DEF Goroutines
<1>2. AwakeSet' \subseteq Goroutines
  BY DEF AwakeSet
<1>3. IsFiniteSet(AwakeSet')
  BY <1>1, <1>2, FS_Subset
<1> QED
  BY <1>3, FS_CardinalityType

\* One more goroutine is awake, or one fewer, or more.
LEMMA OneMore ==
    ASSUME NEW g, g \notin AwakeSet, AwakeSet' = AwakeSet \cup {g}
    PROVE  Cardinality(AwakeSet') = Cardinality(AwakeSet) + 1
  BY AwakeFinite, FS_AddElement

LEMMA OneFewer ==
    ASSUME NEW g, g \in AwakeSet, AwakeSet' = AwakeSet \ {g}
    PROVE  Cardinality(AwakeSet') = Cardinality(AwakeSet) - 1
  BY AwakeFinite, FS_RemoveElement

LEMMA NoFewer ==
    ASSUME AwakeSet \subseteq AwakeSet'
    PROVE  Cardinality(AwakeSet') >= Cardinality(AwakeSet)
  BY AwakeFinite, AwakeFiniteNext, FS_Subset

\* popable.Signal wakes one sleeper, if there is any.
LEMMA SignalWakes ==
    ASSUME QTypeOK, Asleep, waiting' = Signalled, at' = at, waiting # <<>>
    PROVE  /\ waiting' \in Seq(Goroutines) /\ Asleep'
           /\ Cardinality(AwakeSet') = Cardinality(AwakeSet) + 1
<1>1. /\ waiting' = Tail(waiting) /\ waiting' \in Seq(Goroutines) /\ Apart(waiting')
      /\ Head(waiting) \in Goroutines /\ Head(waiting) \in ToSet(waiting)
      /\ ToSet(waiting') = ToSet(waiting) \ {Head(waiting)}
  BY TakeFirst DEF QTypeOK, Asleep, Signalled
<1>2. Asleep'
  BY <1>1 DEF Asleep
<1>3. at[Head(waiting)] = "pop"
  BY <1>1 DEF Asleep
<1>4. AwakeSet' = AwakeSet \cup {Head(waiting)} /\ Head(waiting) \notin AwakeSet
  BY <1>1, <1>3 DEF AwakeSet, Awake
<1> QED
  BY <1>1, <1>2, <1>4, OneMore

-----------------------------------------------------------------------------
(* The methods *)

LEMMA QInvInit == QInit => QInv
<1> SUFFICES ASSUME QInit PROVE QInv
  OBVIOUS
<1>1. QTypeOK
  <2>1. qclosed \in BOOLEAN
    BY DEF QInit
  <2>2. at \in [Goroutines -> Places] /\ hand \in [Goroutines -> Nat]
    BY DEF QInit, Places, Nil
  <2> QED
    BY <2>1, <2>2, QueueAssumption DEF QInit, QTypeOK
<1>2. Held
  BY DEF QInit, Held, Nil
<1>3. Asleep
  BY Channel DEF QInit, Asleep, Apart
<1>4. Placed
  <2>1. ToSet(buffer) = {} /\ InChan = {} /\ got = {} /\ puts = 0 /\ Apart(buffer)
    BY Channel DEF QInit, InChan, Apart
  <2>2. InHand = {}
    BY DEF QInit, InHand
  <2> QED
    BY <2>1, <2>2 DEF Placed, Parted
<1>5. Counted /\ NoLostWakeup
  BY DEF QInit, Counted, NoLostWakeup
<1> QED
  BY <1>1, <1>2, <1>3, <1>4, <1>5 DEF QInv

LEMMA QInvStutters == QInv /\ UNCHANGED qvars => QInv'
<1> SUFFICES ASSUME QInv, UNCHANGED qvars PROVE QInv'
  OBVIOUS
<1> USE DEF qvars, queue, QInv
<1>1. QTypeOK' /\ Held' /\ Asleep'
  BY DEF QTypeOK, Held, Asleep, Apart
<1>2. Placed' /\ Counted' /\ NoLostWakeup'
  BY DEF Placed, Apart, Parted, InChan, InHand, Counted, NoLostWakeup, Awake
<1> QED
  BY <1>1, <1>2

\* What a push does to the open queue.
LEMMA InvAdd ==
    ASSUME QInv, Push, ~qclosed
    PROVE  QInv'
<1> USE DEF QInv
<1>1. /\ buffer' = Append(buffer, puts + 1) /\ count' = count + 1 /\ puts' = puts + 1
      /\ waiting' = Signalled /\ puts < MaxPuts
      /\ UNCHANGED <<qclosed, mu, cc, at, hand, got>>
  BY DEF Push, Add
<1>2. /\ Parted(ToSet(buffer) \cup {puts + 1}, InChan, InHand, got, puts + 1)
      /\ puts + 1 \notin ToSet(buffer) /\ puts + 1 \in Nat
  BY Grows DEF QTypeOK, Placed
<1>3. /\ buffer' \in Seq(Nat) /\ Apart(buffer')
      /\ ToSet(buffer') = ToSet(buffer) \cup {puts + 1}
      /\ Len(buffer) \in Nat /\ Len(buffer') = Len(buffer) + 1
  BY <1>1, <1>2, PutLast DEF QTypeOK, Placed
<1>4. InChan' = InChan /\ InHand' = InHand
  BY <1>1 DEF InChan, InHand
<1>5. Placed'
  BY <1>1, <1>2, <1>3, <1>4 DEF Placed
<1>6. waiting' \in Seq(Goroutines) /\ Asleep' /\ NoLostWakeup'
  <2>1. CASE waiting = <<>>
    <3>1. waiting' = waiting
      BY <1>1, <2>1 DEF Signalled
    <3> QED
      BY <1>1, <2>1, <3>1 DEF QTypeOK, Asleep, NoLostWakeup
  <2>2. CASE waiting # <<>>
    <3>1. /\ waiting' \in Seq(Goroutines) /\ Asleep'
          /\ Cardinality(AwakeSet') = Cardinality(AwakeSet) + 1
      BY <1>1, <2>2, SignalWakes
    <3>2. Len(buffer) <= Cardinality(AwakeSet) /\ ~qclosed'
      BY <1>1, <2>2 DEF NoLostWakeup, AwakeSet
    <3>3. Len(buffer') <= Cardinality(AwakeSet')
      BY <1>3, <3>1, <3>2, AwakeFinite
    <3> QED
      BY <3>1, <3>2, <3>3 DEF NoLostWakeup, AwakeSet
  <2> QED
    BY <2>1, <2>2
<1>7. QTypeOK'
  BY <1>1, <1>2, <1>3, <1>6, QueueAssumption DEF QTypeOK
<1>8. Held'
  BY <1>1 DEF Held
<1>9. Counted'
  BY <1>1, <1>3 DEF Counted
<1> QED
  BY <1>5, <1>6, <1>7, <1>8, <1>9

\* Push.
LEMMA InvPush ==
    ASSUME QInv, Push
    PROVE  QInv'
<1>1. CASE qclosed
  <2>1. UNCHANGED qvars
    BY <1>1 DEF Push, qvars, queue
  <2> QED
    BY <2>1, QInvStutters
<1> QED
  BY <1>1, InvAdd

\* Close wakes everybody; the elements stay where they are.
LEMMA InvClose ==
    ASSUME QInv, Close
    PROVE  QInv'
<1> USE DEF QInv
<1>1. /\ qclosed' = TRUE /\ count' = 0 /\ waiting' = <<>>
      /\ UNCHANGED <<buffer, mu, cc, at, hand, puts, got>>
  BY DEF Close
<1>2. QTypeOK' /\ Held'
  BY <1>1 DEF QTypeOK, Held
<1>3. Asleep' /\ Counted' /\ NoLostWakeup'
  BY <1>1, Channel DEF Asleep, Apart, Counted, NoLostWakeup
<1>4. Placed'
  BY <1>1 DEF Placed, InChan, InHand
<1> QED
  BY <1>2, <1>3, <1>4

\* A pop goes to sleep: the queue is empty.
LEMMA InvSleep ==
    ASSUME QInv, NEW g \in Goroutines, Sleep(g)
    PROVE  QInv'
<1> USE DEF QInv
<1>1. /\ waiting' = Append(waiting, g) /\ Awake(g) /\ MustSleep
      /\ UNCHANGED <<buffer, count, qclosed, mu, cc, at, hand, puts, got>>
  BY DEF Sleep, queue
<1>2. /\ waiting' \in Seq(Goroutines) /\ Apart(waiting')
      /\ ToSet(waiting') = ToSet(waiting) \cup {g}
  BY <1>1, PutLast DEF QTypeOK, Asleep, Awake
<1>3. QTypeOK' /\ Held'
  BY <1>1, <1>2 DEF QTypeOK, Held
<1>4. Asleep'
  BY <1>1, <1>2 DEF Asleep, Awake
<1>5. Placed' /\ Counted'
  BY <1>1 DEF Placed, InChan, InHand, Counted
<1>6. NoLostWakeup'
  <2>1. ~qclosed' /\ Len(buffer') = 0
    BY <1>1 DEF MustSleep, Counted
  <2> QED
    BY <2>1, AwakeFiniteNext DEF NoLostWakeup, AwakeSet
<1> QED
  BY <1>3, <1>4, <1>5, <1>6

\* What a pop takes: the first element of an open queue, nothing of a closed one.
LEMMA Takes ==
    ASSUME QInv, RemoveOldest, ~MustSleep, qclosed' = qclosed
    PROVE  /\ Oldest \in Nat
           /\ buffer' \in Seq(Nat) /\ Apart(buffer') /\ count' \in Nat /\ Counted'
           /\ qclosed => Oldest = Nil /\ buffer' = buffer
           /\ ~qclosed => /\ Oldest # Nil /\ Oldest \in ToSet(buffer)
                          /\ ToSet(buffer') = ToSet(buffer) \ {Oldest}
                          /\ Len(buffer) \in Nat /\ Len(buffer') = Len(buffer) - 1
<1> USE DEF QInv
<1>1. CASE qclosed
  BY <1>1 DEF Oldest, RemoveOldest, Nil, QTypeOK, Placed, Counted
<1>2. CASE ~qclosed
  <2>1. /\ buffer' = Tail(buffer) /\ count' = count - 1 /\ Oldest = Head(buffer)
        /\ count = Len(buffer) /\ count # 0
    BY <1>2 DEF RemoveOldest, Oldest, MustSleep, Counted
  <2>2. buffer # <<>>
    BY <2>1
  <2>3. /\ Head(buffer) \in Nat /\ Head(buffer) \in ToSet(buffer)
        /\ Tail(buffer) \in Seq(Nat) /\ Apart(Tail(buffer))
        /\ ToSet(Tail(buffer)) = ToSet(buffer) \ {Head(buffer)}
        /\ Len(buffer) \in Nat /\ Len(buffer) >= 1 /\ Len(Tail(buffer)) = Len(buffer) - 1
    BY <2>2, TakeFirst DEF QTypeOK, Placed
  <2>4. Head(buffer) # Nil
    <3>1. Head(buffer) \in 1..puts
      BY <2>3 DEF Placed, Parted
    <3> QED
      BY <3>1 DEF Nil
  <2>5. Counted' /\ count' \in Nat
    BY <1>2, <2>1, <2>3 DEF Counted
  <2> QED
    BY <1>2, <2>1, <2>3, <2>4, <2>5
<1> QED
  BY <1>1, <1>2

\* A pop that was awake takes a value and leaves.
LEMMA PopLeaves ==
    ASSUME QInv, NEW g \in Goroutines, Awake(g), ~MustSleep, RemoveOldest,
           NEW p \in Places \ {"pop"}, at' = [at EXCEPT ![g] = p],
           waiting' = waiting, qclosed' = qclosed
    PROVE  Asleep' /\ NoLostWakeup' /\ at' \in [Goroutines -> Places]
<1> USE DEF QInv
<1>1. at' \in [Goroutines -> Places] /\ at'[g] = p /\ \A h \in Goroutines : h # g => at'[h] = at[h]
  BY DEF QTypeOK
<1>2. g \notin ToSet(waiting) /\ ToSet(waiting) \subseteq Goroutines
  BY DEF Awake, QTypeOK, ToSet
<1>3. Asleep'
  BY <1>1, <1>2 DEF Asleep
<1>4. AwakeSet' = AwakeSet \ {g} /\ g \in AwakeSet
  BY <1>1 DEF AwakeSet, Awake
<1>5. NoLostWakeup'
  <2> SUFFICES ASSUME waiting # <<>>
               PROVE  ~qclosed /\ Len(buffer') <= Cardinality(AwakeSet')
    BY DEF NoLostWakeup, AwakeSet
  <2>1. ~qclosed /\ Len(buffer) <= Cardinality(AwakeSet)
    BY DEF NoLostWakeup, AwakeSet
  <2>2. Len(buffer) \in Nat /\ Len(buffer') = Len(buffer) - 1
    BY <2>1, Takes
  <2>3. Cardinality(AwakeSet') = Cardinality(AwakeSet) - 1
    BY <1>4, OneFewer
  <2> QED
    BY <2>1, <2>2, <2>3, AwakeFinite
<1> QED
  BY <1>1, <1>3, <1>5

\* Pop takes a value into its hand.
LEMMA InvPop ==
    ASSUME QInv, NEW g \in Goroutines, Pop(g)
    PROVE  QInv'
<1> USE DEF QInv
<1>1. /\ Awake(g) /\ ~MustSleep /\ RemoveOldest
      /\ hand' = [hand EXCEPT ![g] = Oldest] /\ at' = [at EXCEPT ![g] = "popped"]
      /\ UNCHANGED <<qclosed, mu, waiting, cc, puts, got>>
  BY DEF Pop
<1>2. /\ Oldest \in Nat
      /\ buffer' \in Seq(Nat) /\ Apart(buffer') /\ count' \in Nat /\ Counted'
      /\ qclosed => Oldest = Nil /\ buffer' = buffer
      /\ ~qclosed => /\ Oldest # Nil /\ Oldest \in ToSet(buffer)
                     /\ ToSet(buffer') = ToSet(buffer) \ {Oldest}
  BY <1>1, Takes
<1>3. Asleep' /\ NoLostWakeup' /\ at' \in [Goroutines -> Places]
  BY <1>1, PopLeaves DEF Places
<1>4. hand[g] = Nil
  BY <1>1 DEF Held, Awake
<1>5. /\ hand' \in [Goroutines -> Nat] /\ hand'[g] = Oldest /\ at'[g] = "popped"
      /\ \A h \in Goroutines : h # g => hand'[h] = hand[h] /\ at'[h] = at[h]
  BY <1>1, <1>2 DEF QTypeOK
<1>6. QTypeOK'
  BY <1>1, <1>2, <1>3, <1>5 DEF QTypeOK
<1>7. InHand' = InHand \cup ({Oldest} \ {Nil})
  BY <1>1, <1>2, <1>4, HandTakes DEF InHand, QTypeOK
<1>8. InChan' = InChan
  BY <1>1 DEF InChan
<1>9. Placed'
  <2>1. CASE qclosed
    <3>1. InHand' = InHand /\ buffer' = buffer
      BY <1>2, <1>7, <2>1
    <3> QED
      BY <1>1, <1>8, <3>1 DEF Placed
  <2>2. CASE ~qclosed
    <3>1. InHand' = InHand \cup {Oldest} /\ ToSet(buffer') = ToSet(buffer) \ {Oldest}
          /\ Oldest \in ToSet(buffer)
      BY <1>2, <1>7, <2>2
    <3>2. Parted(ToSet(buffer) \ {Oldest}, InChan, InHand \cup {Oldest}, got, puts)
      BY <3>1, Moves DEF Placed
    <3> QED
      BY <1>1, <1>2, <1>8, <3>1, <3>2 DEF Placed
  <2> QED
    BY <2>1, <2>2
<1>10. Held'
  <2>1. Oldest # Nil => Oldest \notin InHand
    BY <1>2 DEF Placed, Parted
  <2>2. \A h \in Goroutines : Oldest # Nil => hand[h] # Oldest
    BY <2>1 DEF InHand
  <2> QED
    BY <1>5, <2>2 DEF Held
<1> QED
  BY <1>2, <1>3, <1>6, <1>9, <1>10

\* popChan puts the value into the channel, or keeps it in its hand.
LEMMA InvPopChan ==
    ASSUME QInv, NEW g \in Goroutines, PopChan(g)
    PROVE  QInv'
<1> USE DEF QInv
<1>1. /\ Awake(g) /\ ~MustSleep /\ RemoveOldest
      /\ UNCHANGED <<qclosed, waiting, puts, got>>
  BY DEF PopChan
<1>2. /\ Oldest \in Nat
      /\ buffer' \in Seq(Nat) /\ Apart(buffer') /\ count' \in Nat /\ Counted'
      /\ qclosed => Oldest = Nil /\ buffer' = buffer
      /\ ~qclosed => /\ Oldest # Nil /\ Oldest \in ToSet(buffer)
                     /\ ToSet(buffer') = ToSet(buffer) \ {Oldest}
  BY <1>1, Takes
<1>3. hand[g] = Nil
  BY <1>1 DEF Held, Awake
<1>4. CASE cc = <<>>
  <2>1. cc' = <<Oldest>> /\ at' = [at EXCEPT ![g] = "done"] /\ hand' = hand
    BY <1>4 DEF PopChan
  <2>2. Asleep' /\ NoLostWakeup' /\ at' \in [Goroutines -> Places]
    BY <1>1, <2>1, PopLeaves DEF Places
  <2>3. InChan = {} /\ InChan' = {Oldest} \ {Nil} /\ cc' \in Seq(Nat) /\ Len(cc') <= 1
    BY <1>2, <1>4, <2>1, Channel DEF InChan
  <2>4. QTypeOK'
    BY <1>1, <1>2, <2>1, <2>2, <2>3 DEF QTypeOK
  <2>5. InHand' = InHand
    BY <2>1 DEF InHand
  <2>6. Placed'
    <3>1. CASE qclosed
      BY <1>1, <1>2, <2>3, <2>5, <3>1 DEF Placed
    <3>2. CASE ~qclosed
      <4>1. InChan' = InChan \cup {Oldest} /\ ToSet(buffer') = ToSet(buffer) \ {Oldest}
            /\ Oldest \in ToSet(buffer)
        BY <1>2, <2>3, <3>2
      <4>2. Parted(ToSet(buffer) \ {Oldest}, InChan \cup {Oldest}, InHand, got, puts)
        BY <4>1, Moves DEF Placed
      <4> QED
        BY <1>1, <1>2, <2>5, <4>1, <4>2 DEF Placed
    <3> QED
      BY <3>1, <3>2
  <2>7. Held'
    BY <1>3, <2>1 DEF Held, QTypeOK
  <2> QED
    BY <1>2, <2>2, <2>4, <2>6, <2>7
<1>5. CASE cc # <<>>
  <2>1. /\ hand' = [hand EXCEPT ![g] = Oldest] /\ at' = [at EXCEPT ![g] = "send"]
        /\ cc' = cc
    BY <1>5 DEF PopChan
  <2>2. Asleep' /\ NoLostWakeup' /\ at' \in [Goroutines -> Places]
    BY <1>1, <2>1, PopLeaves DEF Places
  <2>3. /\ hand' \in [Goroutines -> Nat] /\ hand'[g] = Oldest /\ at'[g] = "send"
        /\ \A h \in Goroutines : h # g => hand'[h] = hand[h] /\ at'[h] = at[h]
    BY <1>2, <2>1 DEF QTypeOK
  <2>4. QTypeOK'
    BY <1>1, <1>2, <2>1, <2>2, <2>3 DEF QTypeOK
  <2>5. InHand' = InHand \cup ({Oldest} \ {Nil}) /\ InChan' = InChan
    BY <1>2, <1>3, <2>1, HandTakes DEF InHand, InChan, QTypeOK
  <2>6. Placed'
    <3>1. CASE qclosed
      BY <1>1, <1>2, <2>5, <3>1 DEF Placed
    <3>2. CASE ~qclosed
      <4>1. InHand' = InHand \cup {Oldest} /\ ToSet(buffer') = ToSet(buffer) \ {Oldest}
            /\ Oldest \in ToSet(buffer)
        BY <1>2, <2>5, <3>2
      <4>2. Parted(ToSet(buffer) \ {Oldest}, InChan, InHand \cup {Oldest}, got, puts)
        BY <4>1, Moves DEF Placed
      <4> QED
        BY <1>1, <1>2, <2>5, <4>1, <4>2 DEF Placed
    <3> QED
      BY <3>1, <3>2
  <2>7. Held'
    <3>1. Oldest # Nil => Oldest \notin InHand
      BY <1>2 DEF Placed, Parted
    <3>2. \A h \in Goroutines : Oldest # Nil => hand[h] # Oldest
      BY <3>1 DEF InHand
    <3> QED
      BY <2>3, <3>2 DEF Held
  <2> QED
    BY <1>2, <2>2, <2>4, <2>6, <2>7
<1> QED
  BY <1>4, <1>5

-----------------------------------------------------------------------------
(* Steps that take nothing out of the queue *)

\* No pop leaves, and at most a signal is given.
LEMMA Elsewhere ==
    ASSUME QInv, at' \in [Goroutines -> Places],
           \A h \in Goroutines : at[h] = "pop" => at'[h] = "pop",
           waiting' = waiting \/ waiting' = Signalled,
           buffer' = buffer, qclosed' = qclosed
    PROVE  waiting' \in Seq(Goroutines) /\ Asleep' /\ NoLostWakeup'
<1> USE DEF QInv
<1>1. /\ waiting' \in Seq(Goroutines) /\ Apart(waiting')
      /\ ToSet(waiting') \subseteq ToSet(waiting) /\ ToSet(waiting) \subseteq Goroutines
      /\ waiting = <<>> => waiting' = <<>>
  <2>1. ToSet(waiting) \subseteq Goroutines
    BY DEF QTypeOK, ToSet
  <2>2. CASE waiting' = waiting
    BY <2>1, <2>2 DEF QTypeOK, Asleep
  <2>3. CASE waiting' = Signalled /\ waiting = <<>>
    <3>1. waiting' = waiting
      BY <2>3 DEF Signalled
    <3> QED
      BY <2>1, <3>1, <2>3 DEF QTypeOK, Asleep
  <2>4. CASE waiting' = Signalled /\ waiting # <<>>
    BY <2>1, <2>4, TakeFirst DEF QTypeOK, Asleep, Signalled
  <2> QED
    BY <2>2, <2>3, <2>4
<1>2. Asleep'
  BY <1>1 DEF Asleep
<1>3. AwakeSet \subseteq AwakeSet'
  BY <1>1 DEF AwakeSet, Awake
<1>4. NoLostWakeup'
  <2> SUFFICES ASSUME waiting' # <<>>
               PROVE  ~qclosed /\ Len(buffer) <= Cardinality(AwakeSet')
    BY DEF NoLostWakeup, AwakeSet
  <2>1. ~qclosed /\ Len(buffer) <= Cardinality(AwakeSet)
    BY <1>1 DEF NoLostWakeup, AwakeSet
  <2>2. Len(buffer) \in Nat
    BY DEF QTypeOK
  <2> QED
    BY <1>3, <2>1, <2>2, NoFewer, AwakeFinite, AwakeFiniteNext
<1> QED
  BY <1>1, <1>2, <1>4

\* Goroutine g, not in a blocking pop, goes to p with what it has in hand.
LEMMA Steps ==
    ASSUME QInv, NEW g \in Goroutines, at[g] # "pop", NEW p \in Places,
           hand[g] = Nil \/ p \in {"popped", "send"},
           at' = [at EXCEPT ![g] = p],
           UNCHANGED <<buffer, count, qclosed, waiting, cc, hand, puts, got>>
    PROVE  QInv'
<1> USE DEF QInv
<1>1. /\ at' \in [Goroutines -> Places] /\ at'[g] = p
      /\ \A h \in Goroutines : h # g => at'[h] = at[h]
  BY DEF QTypeOK
<1>2. Asleep' /\ NoLostWakeup'
  BY <1>1, Elsewhere
<1>3. QTypeOK'
  BY <1>1 DEF QTypeOK
<1>4. Held'
  BY <1>1 DEF Held
<1>5. Placed' /\ Counted'
  BY DEF Placed, InChan, InHand, Counted
<1> QED
  BY <1>2, <1>3, <1>4, <1>5

\* Goroutine g empties its hand.
LEMMA Empties ==
    ASSUME QInv, NEW g \in Goroutines, NEW p \in Places,
           hand' = [hand EXCEPT ![g] = Nil], at' = [at EXCEPT ![g] = p]
    PROVE  /\ hand[g] \in Nat /\ hand' \in [Goroutines -> Nat]
           /\ at' \in [Goroutines -> Places]
           /\ \A h \in Goroutines : h # g => at'[h] = at[h]
           /\ Held' /\ InHand' = InHand \ {hand[g]}
           /\ hand[g] = Nil \/ hand[g] \in InHand
<1> USE DEF QInv
<1>1. /\ hand' \in [Goroutines -> Nat] /\ hand[g] \in Nat /\ hand'[g] = Nil
      /\ at' \in [Goroutines -> Places]
      /\ \A h \in Goroutines : h # g => hand'[h] = hand[h] /\ at'[h] = at[h]
  BY DEF QTypeOK, Nil
<1>2. Held'
  BY <1>1 DEF Held
<1>3. \A h \in Goroutines : hand[g] # Nil /\ hand[h] = hand[g] => h = g
  BY DEF Held
<1>4. InHand' = InHand \ {hand[g]}
  BY <1>3, HandGives DEF InHand, QTypeOK
<1>5. hand[g] = Nil \/ hand[g] \in InHand
  BY DEF InHand
<1> QED
  BY <1>1, <1>2, <1>4, <1>5

\* The values where g returns what it has.
LEMMA Given ==
    ASSUME QInv, NEW g \in Goroutines, NEW p \in Places, Return(hand[g]),
           hand' = [hand EXCEPT ![g] = Nil], at' = [at EXCEPT ![g] = p],
           UNCHANGED <<buffer, cc, puts>>
    PROVE  Placed'
<1> USE DEF QInv
<1>1. InHand' = InHand \ {hand[g]} /\ (hand[g] = Nil \/ hand[g] \in InHand)
  BY Empties
<1>2. InChan' = InChan
  BY DEF InChan
<1>3. CASE hand[g] = Nil
  <2>1. got' = got /\ InHand' = InHand
    BY <1>1, <1>3 DEF Return, InHand
  <2> QED
    BY <1>2, <2>1 DEF Placed
<1>4. CASE hand[g] # Nil
  <2>1. got' = got \cup {hand[g]} /\ hand[g] \in InHand
    BY <1>1, <1>4 DEF Return
  <2>2. Parted(ToSet(buffer), InChan, InHand \ {hand[g]}, got \cup {hand[g]}, puts)
    BY <2>1, Moves DEF Placed
  <2> QED
    BY <1>1, <1>2, <2>1, <2>2 DEF Placed
<1> QED
  BY <1>3, <1>4

\* g returns what it has, and goes to p.
LEMMA Returns ==
    ASSUME QInv, NEW g \in Goroutines, at[g] # "pop", NEW p \in Places, Return(hand[g]),
           hand' = [hand EXCEPT ![g] = Nil], at' = [at EXCEPT ![g] = p],
           UNCHANGED <<buffer, count, qclosed, waiting, cc, puts>>
    PROVE  QInv'
<1> USE DEF QInv
<1>1. /\ hand' \in [Goroutines -> Nat] /\ at' \in [Goroutines -> Places]
      /\ \A h \in Goroutines : h # g => at'[h] = at[h]
      /\ Held'
  BY Empties
<1>2. Asleep' /\ NoLostWakeup'
  BY <1>1, Elsewhere
<1>3. QTypeOK' /\ Counted'
  BY <1>1 DEF QTypeOK, Counted
<1> QED
  BY <1>1, <1>2, <1>3, Given

\* g returns what it has, goes to p, and closes the queue.
LEMMA Drops ==
    ASSUME QInv, NEW g \in Goroutines, NEW p \in Places, Return(hand[g]),
           hand' = [hand EXCEPT ![g] = Nil], at' = [at EXCEPT ![g] = p],
           qclosed' = TRUE, count' = 0, waiting' = <<>>,
           UNCHANGED <<buffer, cc, puts>>
    PROVE  QInv'
<1> USE DEF QInv
<1>1. hand' \in [Goroutines -> Nat] /\ at' \in [Goroutines -> Places] /\ Held'
  BY Empties
<1>2. Asleep' /\ NoLostWakeup' /\ Counted'
  BY Channel DEF Asleep, Apart, NoLostWakeup, Counted
<1>3. QTypeOK'
  BY <1>1 DEF QTypeOK
<1> QED
  BY <1>1, <1>2, <1>3, Given

\* The goroutine of TryPopTimeout sends at last.
LEMMA InvPopChanSend ==
    ASSUME QInv, NEW g \in Goroutines, PopChanSend(g)
    PROVE  QInv'
<1> USE DEF QInv
<1>1. /\ at[g] = "send" /\ cc = <<>> /\ cc' = <<hand[g]>>
      /\ hand' = [hand EXCEPT ![g] = Nil] /\ at' = [at EXCEPT ![g] = "done"]
      /\ UNCHANGED <<buffer, count, qclosed, waiting, puts, got>>
  BY DEF PopChanSend, queue
<1>2. /\ hand[g] \in Nat /\ hand' \in [Goroutines -> Nat] /\ at' \in [Goroutines -> Places]
      /\ \A h \in Goroutines : h # g => at'[h] = at[h]
      /\ Held' /\ InHand' = InHand \ {hand[g]}
      /\ hand[g] = Nil \/ hand[g] \in InHand
  BY <1>1, Empties DEF Places
<1>3. Asleep' /\ NoLostWakeup'
  BY <1>1, <1>2, Elsewhere
<1>4. InChan = {} /\ InChan' = {hand[g]} \ {Nil} /\ cc' \in Seq(Nat) /\ Len(cc') <= 1
  BY <1>1, <1>2, Channel DEF InChan
<1>5. QTypeOK' /\ Counted'
  BY <1>1, <1>2, <1>4 DEF QTypeOK, Counted
<1>6. Placed'
  <2>1. CASE hand[g] = Nil
    <3>1. InChan' = InChan /\ InHand' = InHand
      BY <1>2, <1>4, <2>1 DEF InHand
    <3> QED
      BY <1>1, <3>1 DEF Placed
  <2>2. CASE hand[g] # Nil
    <3>1. InChan' = InChan \cup {hand[g]} /\ hand[g] \in InHand
      BY <1>2, <1>4, <2>2
    <3>2. Parted(ToSet(buffer), InChan \cup {hand[g]}, InHand \ {hand[g]}, got, puts)
      BY <3>1, Moves DEF Placed
    <3> QED
      BY <1>1, <1>2, <3>1, <3>2 DEF Placed
  <2> QED
    BY <2>1, <2>2
<1> QED
  BY <1>2, <1>3, <1>5, <1>6

\* TryPop takes a value, or finds none.
LEMMA InvTryPop ==
    ASSUME QInv, NEW u \in Goroutines, TryPop(u)
    PROVE  QInv'
<1> USE DEF QInv
<1>1. UNCHANGED <<qclosed, mu, waiting, cc, at, hand, puts>>
  BY DEF TryPop
<1>2. CASE ~(count > 0)
  <2>1. UNCHANGED qvars
    BY <1>1, <1>2 DEF TryPop, qvars, queue
  <2> QED
    BY <2>1, QInvStutters
<1>3. CASE count > 0
  <2>1. RemoveOldest /\ ~MustSleep /\ Return(Oldest)
    BY <1>3 DEF TryPop, MustSleep, QTypeOK
  <2>2. ~qclosed
    BY <1>3 DEF Counted
  <2>3. /\ buffer' \in Seq(Nat) /\ Apart(buffer') /\ count' \in Nat /\ Counted'
        /\ Oldest # Nil /\ Oldest \in ToSet(buffer)
        /\ ToSet(buffer') = ToSet(buffer) \ {Oldest}
        /\ Len(buffer) \in Nat /\ Len(buffer') = Len(buffer) - 1
    BY <1>1, <2>1, <2>2, Takes
  <2>4. QTypeOK' /\ Held' /\ Asleep'
    BY <1>1, <2>3 DEF QTypeOK, Held, Asleep
  <2>5. Placed'
    <3>1. got' = got \cup {Oldest} /\ InChan' = InChan /\ InHand' = InHand
      BY <1>1, <2>1, <2>3 DEF Return, InChan, InHand
    <3>2. Parted(ToSet(buffer) \ {Oldest}, InChan, InHand, got \cup {Oldest}, puts)
      BY <2>3, Moves DEF Placed
    <3> QED
      BY <1>1, <2>3, <3>1, <3>2 DEF Placed
  <2>6. NoLostWakeup'
    <3>1. AwakeSet' = AwakeSet
      BY <1>1 DEF AwakeSet, Awake
    <3>2. waiting # <<>> => ~qclosed /\ Len(buffer) <= Cardinality(AwakeSet)
      BY DEF NoLostWakeup, AwakeSet
    <3>3. waiting # <<>> => Len(buffer') <= Cardinality(AwakeSet')
      BY <2>3, <3>1, <3>2, AwakeFinite
    <3> QED
      BY <1>1, <2>2, <3>3 DEF NoLostWakeup, AwakeSet
  <2> QED
    BY <2>3, <2>4, <2>5, <2>6
<1> QED
  BY <1>2, <1>3

\* A call of TryPopTimeout starts a goroutine.
LEMMA InvTryPopTimeout ==
    ASSUME QInv, NEW u \in Goroutines, TryPopTimeout(u)
    PROVE  QInv'
<1> USE DEF QInv
<1>1. PICK g \in Poppers : at[g] = "idle" /\ at' = [at EXCEPT ![u] = "select", ![g] = "pop"]
  BY DEF TryPopTimeout
<1>2. at[u] = "idle" /\ UNCHANGED <<buffer, count, qclosed, waiting, cc, hand, puts, got>>
  BY DEF TryPopTimeout, queue
<1>3. /\ at' \in [Goroutines -> Places]
      /\ \A h \in Goroutines : at'[h] = at[h] \/ at[h] = "idle"
  BY <1>1, <1>2 DEF QTypeOK, Places, Goroutines
<1>4. Asleep' /\ NoLostWakeup'
  BY <1>2, <1>3, Elsewhere
<1>5. QTypeOK' /\ Counted'
  BY <1>2, <1>3 DEF QTypeOK, Counted
<1>6. Held'
  BY <1>2, <1>3 DEF Held
<1>7. Placed'
  BY <1>2 DEF Placed, InChan, InHand
<1> QED
  BY <1>4, <1>5, <1>6, <1>7

\* The select of TryPopTimeout receives a value.
LEMMA InvReceive ==
    ASSUME QInv, NEW u \in Goroutines, Receive(u)
    PROVE  QInv'
<1> USE DEF QInv
<1>1. /\ at[u] = "select" /\ cc # <<>> /\ Return(Head(cc)) /\ cc' = <<>>
      /\ at' = [at EXCEPT ![u] = "idle"]
      /\ UNCHANGED <<buffer, count, qclosed, waiting, hand, puts>>
  BY DEF Receive, queue
<1>2. /\ at' \in [Goroutines -> Places] /\ at'[u] = "idle"
      /\ \A h \in Goroutines : h # u => at'[h] = at[h]
  BY <1>1 DEF QTypeOK, Places
<1>3. Asleep' /\ NoLostWakeup'
  BY <1>1, <1>2, Elsewhere
<1>4. QTypeOK' /\ Counted'
  BY <1>1, <1>2 DEF QTypeOK, Counted
<1>5. Held'
  BY <1>1, <1>2 DEF Held
<1>6. Placed'
  <2>1. ToSet(cc) = {Head(cc)} /\ Head(cc) \in Nat
    BY <1>1, ChannelFull DEF QTypeOK
  <2>2. InChan = {Head(cc)} \ {Nil} /\ InChan' = {} /\ InHand' = InHand
    BY <1>1, <2>1, Channel DEF InChan, InHand
  <2>3. CASE Head(cc) = Nil
    <3>1. InChan' = InChan /\ got' = got
      BY <1>1, <2>2, <2>3 DEF Return
    <3> QED
      BY <1>1, <2>2, <3>1 DEF Placed
  <2>4. CASE Head(cc) # Nil
    <3>1. /\ InChan' = InChan \ {Head(cc)} /\ Head(cc) \in InChan
          /\ got' = got \cup {Head(cc)}
      BY <1>1, <2>2, <2>4 DEF Return
    <3>2. Parted(ToSet(buffer), InChan \ {Head(cc)}, InHand, got \cup {Head(cc)}, puts)
      BY <3>1, Moves DEF Placed
    <3> QED
      BY <1>1, <2>2, <3>1, <3>2 DEF Placed
  <2> QED
    BY <2>3, <2>4
<1> QED
  BY <1>3, <1>4, <1>5, <1>6

\* The select of TryPopTimeout ends by its timeout, and signals.
LEMMA InvTimeout ==
    ASSUME QInv, NEW u \in Goroutines, Timeout(u)
    PROVE  QInv'
<1> USE DEF QInv
<1>1. /\ at[u] = "select" /\ at' = [at EXCEPT ![u] = "idle"]
      /\ waiting' = waiting \/ waiting' = Signalled
      /\ UNCHANGED <<buffer, count, qclosed, cc, hand, puts, got>>
  BY DEF Timeout, queue
<1>2. /\ at' \in [Goroutines -> Places] /\ at'[u] = "idle"
      /\ \A h \in Goroutines : h # u => at'[h] = at[h]
  BY <1>1 DEF QTypeOK, Places
<1>3. waiting' \in Seq(Goroutines) /\ Asleep' /\ NoLostWakeup'
  BY <1>1, <1>2, Elsewhere
<1>4. QTypeOK' /\ Counted'
  BY <1>1, <1>2, <1>3 DEF QTypeOK, Counted
<1>5. Held'
  BY <1>1, <1>2 DEF Held
<1>6. Placed'
  BY <1>1 DEF Placed, InChan, InHand
<1> QED
  BY <1>3, <1>4, <1>5, <1>6

\* Every method keeps the invariant.
LEMMA QInvNext ==
    ASSUME QInv, QNext
    PROVE  QInv'
<1> USE DEF QInv
<1>1. ASSUME NEW u \in Users, CallPop(u) PROVE QInv'
  <2>1. u \in Goroutines /\ hand[u] = Nil
    BY <1>1 DEF Goroutines, CallPop, Held
  <2> QED
    BY <1>1, <2>1, Steps DEF CallPop, queue, Places
<1>2. ASSUME NEW u \in Users, PopReturns(u) PROVE QInv'
  BY <1>2, Returns DEF PopReturns, queue, Places, Goroutines
<1>3. ASSUME NEW u \in Users,
             \/ Sleep(u) \/ Pop(u) \/ TryPop(u)
             \/ TryPopTimeout(u) \/ Receive(u) \/ Timeout(u) \/ Push \/ Close
      PROVE  QInv'
  <2>1. u \in Goroutines
    BY DEF Goroutines
  <2> QED
    BY <1>3, <2>1, InvSleep, InvPop, InvTryPop, InvTryPopTimeout, InvReceive,
       InvTimeout, InvPush, InvClose
<1>4. ASSUME NEW g \in Poppers, Sleep(g) \/ PopChan(g) \/ PopChanSend(g) PROVE QInv'
  <2>1. g \in Goroutines
    BY DEF Goroutines
  <2> QED
    BY <1>4, <2>1, InvSleep, InvPopChan, InvPopChanSend
<1> QED
  BY <1>1, <1>2, <1>3, <1>4 DEF QNext

-----------------------------------------------------------------------------
(* How many values are where *)

\* A sequence without repetition has as many elements as places.
LEMMA ApartCounts ==
    ASSUME NEW S, NEW s \in Seq(S), Apart(s)
    PROVE  IsFiniteSet(ToSet(s)) /\ Cardinality(ToSet(s)) = Len(s)
<1>1. Len(s) \in Nat /\ DOMAIN s = 1..Len(s)
  OBVIOUS
<1>2. IsFiniteSet(1..Len(s)) /\ Cardinality(1..Len(s)) = Len(s)
  BY <1>1, FS_Interval
<1>3. s \in Bijection(1..Len(s), ToSet(s))
  BY <1>1 DEF Bijection, Injection, Surjection, IsInjective, ToSet, Apart
<1>4. ExistsBijection(1..Len(s), ToSet(s))
  BY <1>3 DEF ExistsBijection
<1> QED
  BY <1>2, <1>4, FS_Bijection

\* The parts of a whole add up to it.
LEMMA PartsAddUp ==
    ASSUME NEW b, NEW c, NEW h, NEW g, NEW n \in Nat, Parted(b, c, h, g, n)
    PROVE  Cardinality(b) + Cardinality(c) + Cardinality(h) + Cardinality(g) = n
<1>1. IsFiniteSet(1..n) /\ Cardinality(1..n) = n
  BY FS_Interval
<1>2. IsFiniteSet(b) /\ IsFiniteSet(c) /\ IsFiniteSet(h) /\ IsFiniteSet(g)
  <2>1. b \subseteq 1..n /\ c \subseteq 1..n /\ h \subseteq 1..n /\ g \subseteq 1..n
    BY DEF Parted
  <2> QED
    BY <1>1, <2>1, FS_Subset
<1>3. /\ Cardinality(b) \in Nat /\ Cardinality(c) \in Nat
      /\ Cardinality(h) \in Nat /\ Cardinality(g) \in Nat
  BY <1>2, FS_CardinalityType
<1>4. ASSUME NEW s, NEW t, IsFiniteSet(s), IsFiniteSet(t), s \cap t = {}
      PROVE  /\ IsFiniteSet(s \cup t)
             /\ Cardinality(s \cup t) = Cardinality(s) + Cardinality(t)
  <2>1. /\ IsFiniteSet(s \cup t)
        /\ Cardinality(s \cup t) = Cardinality(s) + Cardinality(t) - Cardinality(s \cap t)
    BY <1>4, FS_Union
  <2>2. Cardinality(s \cap t) = 0
    BY <1>4, FS_EmptySet
  <2>3. Cardinality(s) \in Nat /\ Cardinality(t) \in Nat
    BY <1>4, FS_CardinalityType
  <2> QED
    BY <2>1, <2>2, <2>3
<1>5. IsFiniteSet(b \cup c) /\ Cardinality(b \cup c) = Cardinality(b) + Cardinality(c)
  BY <1>2, <1>4 DEF Parted
<1>6. /\ IsFiniteSet((b \cup c) \cup h)
      /\ Cardinality((b \cup c) \cup h) = Cardinality(b \cup c) + Cardinality(h)
  <2>1. (b \cup c) \cap h = {}
    BY DEF Parted
  <2> QED
    BY <1>2, <1>4, <1>5, <2>1
<1>7. Cardinality(((b \cup c) \cup h) \cup g) = Cardinality((b \cup c) \cup h) + Cardinality(g)
  <2>1. ((b \cup c) \cup h) \cap g = {}
    BY DEF Parted
  <2> QED
    BY <1>2, <1>4, <1>6, <2>1
<1>8. ((b \cup c) \cup h) \cup g = 1..n
  BY DEF Parted
<1> QED
  BY <1>1, <1>3, <1>5, <1>6, <1>7, <1>8

\* The invariant implies that nothing is lost.
LEMMA QInvNothingLost == QInv => NothingLost
<1> SUFFICES ASSUME QInv PROVE NothingLost
  OBVIOUS
<1> USE DEF QInv
<1>1. Cardinality(ToSet(buffer)) = Len(buffer)
  BY ApartCounts DEF QTypeOK, Placed
<1>2. puts \in Nat
  BY DEF QTypeOK
<1>3. Cardinality(ToSet(buffer)) + Cardinality(InChan) + Cardinality(InHand) + Cardinality(got)
         = puts
  BY <1>2, PartsAddUp DEF Placed
<1>4. ToSet(buffer) \cup InChan \cup InHand \cup got = 1..puts
  BY DEF Placed, Parted
<1> QED
  BY <1>1, <1>3, <1>4 DEF NothingLost, Counted

-----------------------------------------------------------------------------
(* The pool *)

\* Where the caller is once it has called queue.Close.
Closing == {"isDone", "isQueTask", "closeTask", "wgWait", "select", "returned"}

\* Where it is once it has seen that startQueue is not at work.
Quiet == {"closeTask", "wgWait", "select", "returned"}

PTypeOK ==
    /\ setup \in Setup
    /\ task \in Seq(Nat)
    /\ errChan \in {<<>>, <<"error">>, <<"timeout">>}
    /\ worker \in [Workers -> {"none", "range", "run", "report", "mark", "done"}]
    /\ job \in [Workers -> Nat]
    /\ timer \in [1..MaxPuts -> {"none", "armed", "stopped", "send", "mark", "done"}]

\* startQueue: its mark, and its hand.
FeederAt ==
    /\ at[Feeder] \in {"idle", "start", "pop", "popped", "send", "break", "done"}
    /\ loopAt = "start" => at[Feeder] = "idle"
    /\ isQueTask <=> at[Feeder] \in {"pop", "popped", "send", "break"}
    /\ at[Feeder] = "send" => hand[Feeder] # Nil
    /\ main \in Quiet => hand[Feeder] = Nil /\ at[Feeder] # "send"

\* Wait closes the queue when it is empty, unless the pool is closed, and the
\* channel later.
CallerAt ==
    /\ main \in Closing => qclosed
    /\ main \notin Closing /\ qclosed => closed
    /\ main \in Closing \cup {"close"} /\ ~closed => buffer = <<>>
    /\ taskClosed <=> main \in {"wgWait", "select", "returned"}

\* The workers: loop starts all of them, and each ends when the closed channel
\* is empty.
WorkersAt ==
    /\ loopAt \in {"start", "add", "done"}
    /\ loopAt # "done" => \A w \in setup.workers : worker[w] = "none"
    /\ loopAt = "done" => \A w \in setup.workers : worker[w] # "none"
    /\ \A w \in setup.workers : worker[w] = "done" => taskClosed /\ task = <<>>
    /\ setup.workers = {} => task = <<>>

\* The WaitGroup counts the workers that are at work.
AtWork   == {w \in setup.workers : worker[w] \notin {"none", "done"}}
Counting == wg = Cardinality(AtWork)

\* Every task that was accepted is somewhere on its way, and only those are.
Running(i) == \E w \in setup.workers : worker[w] = "run" /\ job[w] = i
Accounted ==
    /\ ToSet(task) \subseteq 1..puts /\ ended \subseteq 1..puts
    /\ \A w \in setup.workers : worker[w] \in {"run", "report"} => job[w] \in 1..puts
    /\ ~closed => \A i \in 1..puts :
          \/ i \in ToSet(buffer) \/ i = hand[Feeder] \/ i \in ToSet(task)
          \/ Running(i) \/ i \in ended

\* An error is in errChan before the pool is closed for it.
Reported ==
    \/ errChan # <<>> \/ main = "returned"
    \/ /\ ~closed
       /\ \A w \in setup.workers : worker[w] # "mark"
       /\ \A i \in 1..MaxPuts : timer[i] # "mark"

\* A failed task is being reported or has been.
Failing ==
    main # "returned" =>
        \A i \in failed :
            \/ errChan # <<>>
            \/ \E w \in setup.workers : worker[w] = "report" /\ job[w] = i

\* Wait after wg.Wait, and after its end.
Waited ==
    /\ main \in {"select", "returned"} /\ ~early =>
          loopAt = "done" /\ \A w \in setup.workers : worker[w] = "done"
    /\ main = "returned" /\ ~early /\ result = "nil" => ended = 1..puts /\ failed = {}

\* The queue alone leaves the pool as it was made.
Direct == main = "idle" /\ at[Feeder] # "panic"

PoolInv ==
    /\ FeederAt /\ CallerAt /\ WorkersAt /\ Counting
    /\ Accounted /\ Reported /\ Failing /\ Waited

PInv == PTypeOK /\ (setup.pool => PoolInv) /\ (~setup.pool => Direct)

-----------------------------------------------------------------------------
(* Sequences, and the parts a step leaves alone *)

\* Appending to a sequence, and taking its first element.
LEMMA SetOfAppend ==
    ASSUME NEW s \in Seq(Nat), NEW e \in Nat
    PROVE  Append(s, e) \in Seq(Nat) /\ ToSet(Append(s, e)) = ToSet(s) \cup {e}
<1> DEFINE t == Append(s, e)
<1>1. /\ Len(s) \in Nat /\ DOMAIN s = 1..Len(s)
      /\ t \in Seq(Nat) /\ Len(t) = Len(s) + 1 /\ DOMAIN t = 1..(Len(s) + 1)
      /\ \A i \in 1..Len(s) : t[i] = s[i]
      /\ t[Len(s) + 1] = e
  OBVIOUS
<1> HIDE DEF t
<1>2. ToSet(t) = ToSet(s) \cup {e}
  BY <1>1 DEF ToSet
<1> QED
  BY <1>1, <1>2 DEF t

LEMMA SetOfTail ==
    ASSUME NEW s \in Seq(Nat), s # <<>>
    PROVE  /\ Head(s) \in Nat /\ Tail(s) \in Seq(Nat)
           /\ ToSet(s) = ToSet(Tail(s)) \cup {Head(s)}
<1>1. /\ Len(s) \in Nat /\ Len(s) >= 1 /\ DOMAIN s = 1..Len(s)
      /\ Head(s) = s[1] /\ s[1] \in Nat /\ Tail(s) \in Seq(Nat)
      /\ DOMAIN Tail(s) = 1..(Len(s) - 1)
      /\ \A i \in 1..(Len(s) - 1) : Tail(s)[i] = s[i + 1]
  OBVIOUS
<1>2. ASSUME NEW x \in ToSet(Tail(s)) PROVE x \in ToSet(s)
  <2>1. PICK i \in 1..(Len(s) - 1) : x = s[i + 1]
    BY <1>1 DEF ToSet
  <2>2. i + 1 \in DOMAIN s
    BY <1>1
  <2> QED
    BY <2>1, <2>2 DEF ToSet
<1>3. ASSUME NEW x \in ToSet(s), x # Head(s) PROVE x \in ToSet(Tail(s))
  <2>1. PICK i \in 1..Len(s) : x = s[i]
    BY <1>1 DEF ToSet
  <2>2. i - 1 \in DOMAIN Tail(s) /\ Tail(s)[i - 1] = x
    BY <1>1, <1>3, <2>1
  <2> QED
    BY <2>2 DEF ToSet
<1>4. Head(s) \in ToSet(s)
  BY <1>1 DEF ToSet
<1> QED
  BY <1>1, <1>2, <1>3, <1>4

\* What each part of the invariant depends on.
LEMMA Frames ==
    ASSUME PTypeOK, PoolInv, setup' = setup
    PROVE  /\ UNCHANGED <<task, errChan, worker, job, timer>> => PTypeOK'
           /\ UNCHANGED <<at, loopAt, isQueTask, hand, main>> => FeederAt'
           /\ UNCHANGED <<main, qclosed, closed, buffer, taskClosed>> => CallerAt'
           /\ UNCHANGED <<loopAt, worker, task, taskClosed>> => WorkersAt'
           /\ UNCHANGED <<worker, wg>> => Counting'
           /\ UNCHANGED <<task, ended, worker, job, puts, closed, buffer, hand>> => Accounted'
           /\ UNCHANGED <<errChan, closed, worker, timer, main>> => Reported'
           /\ UNCHANGED <<errChan, failed, worker, job, main>> => Failing'
           /\ UNCHANGED <<main, early, loopAt, worker, result, ended, puts, failed>> => Waited'
<1> USE DEF PoolInv
<1>1. UNCHANGED <<task, errChan, worker, job, timer>> => PTypeOK'
  BY DEF PTypeOK
<1>2. UNCHANGED <<at, loopAt, isQueTask, hand, main>> => FeederAt'
  BY DEF FeederAt
<1>3. UNCHANGED <<main, qclosed, closed, buffer, taskClosed>> => CallerAt'
  BY DEF CallerAt
<1>4. UNCHANGED <<loopAt, worker, task, taskClosed>> => WorkersAt'
  BY DEF WorkersAt
<1>5. UNCHANGED <<worker, wg>> => Counting'
  BY DEF Counting, AtWork
<1>6. UNCHANGED <<task, ended, worker, job, puts, closed, buffer, hand>> => Accounted'
  BY DEF Accounted, Running
<1>7. UNCHANGED <<errChan, closed, worker, timer, main>> => Reported'
  BY DEF Reported
<1>8. UNCHANGED <<errChan, failed, worker, job, main>> => Failing'
  BY DEF Failing
<1>9. UNCHANGED <<main, early, loopAt, worker, result, ended, puts, failed>> => Waited'
  BY DEF Waited
<1> QED
  BY <1>1, <1>2, <1>3, <1>4, <1>5, <1>6, <1>7, <1>8, <1>9

-----------------------------------------------------------------------------
(* The caller *)

\* Do, DoWait and Wait are called, DoWait returns.
LEMMA PoolCalls ==
    ASSUME PTypeOK, PoolInv, setup' = setup, Do \/ DoWait \/ DoWaitReturns \/ Wait
    PROVE  PTypeOK' /\ PoolInv'
<1> USE DEF PoolInv
<1>1. /\ main \in {"idle", "doWait"} /\ main' \in {"idle", "push", "pushWait", "wait"}
      /\ UNCHANGED <<qvars, fields, awaited, early, result, crew>>
  BY DEF Do, DoWait, DoWaitReturns, Wait, Goes
<1>2. PTypeOK' /\ WorkersAt' /\ Counting' /\ Accounted'
  BY <1>1, Frames DEF qvars, queue, fields, crew
<1>3. FeederAt' /\ CallerAt'
  BY <1>1 DEF FeederAt, CallerAt, Closing, Quiet, qvars, queue, fields, crew
<1>4. Reported' /\ Failing' /\ Waited'
  BY <1>1 DEF Reported, Failing, Waited, fields, crew
<1> QED
  BY <1>2, <1>3, <1>4

\* Do and DoWait push their task.
LEMMA PoolPushTask ==
    ASSUME PTypeOK, PoolInv, setup' = setup, QInv, PushTask
    PROVE  PTypeOK' /\ PoolInv'
<1> USE DEF PoolInv
<1>1. /\ main \in {"push", "pushWait"} /\ main' \in {"idle", "doWait"}
      /\ UNCHANGED <<qclosed, mu, cc, at, hand, got>>
      /\ UNCHANGED <<fields, early, result, crew>>
  BY DEF PushTask, Push
<1>2. PTypeOK' /\ WorkersAt' /\ Counting'
  BY <1>1, Frames DEF fields, crew
<1>3. FeederAt' /\ CallerAt'
  BY <1>1 DEF FeederAt, CallerAt, Closing, Quiet, fields, crew
<1>4. Reported' /\ Failing' /\ Waited'
  BY <1>1 DEF Reported, Failing, Waited, fields, crew
<1>5. Accounted'
  <2>1. CASE qclosed
    <3>1. UNCHANGED <<buffer, puts>>
      BY <2>1 DEF PushTask, Push
    <3> QED
      BY <1>1, <3>1, Frames DEF fields, crew
  <2>2. CASE ~qclosed
    <3>1. buffer' = Append(buffer, puts + 1) /\ puts' = puts + 1 /\ puts \in Nat
          /\ buffer \in Seq(Nat)
      BY <2>2 DEF PushTask, Push, Add, QInv, QTypeOK
    <3>2. ToSet(buffer') = ToSet(buffer) \cup {puts + 1}
      BY <3>1, SetOfAppend
    <3>3. 1..puts' = 1..puts \cup {puts + 1}
      BY <3>1
    <3> HIDE DEF PoolInv
    <3>4. Accounted
      BY DEF PoolInv
    <3>5. UNCHANGED <<task, ended, worker, job, closed, hand>>
      BY <1>1 DEF fields, crew
    <3> QED
      BY <3>2, <3>3, <3>4, <3>5 DEF Accounted, Running
  <2> QED
    BY <2>1, <2>2
<1> QED
  BY <1>2, <1>3, <1>4, <1>5

\* queue.Wait: the queue is empty, or was closed with the pool.
LEMMA PoolQueueWait ==
    ASSUME PTypeOK, PoolInv, setup' = setup, QInv, QueueWait
    PROVE  PTypeOK' /\ PoolInv'
<1> USE DEF PoolInv
<1>1. /\ main = "wait" /\ main' = "close" /\ (qclosed \/ count = 0)
      /\ UNCHANGED <<qvars, fields, awaited, early, result, crew>>
  BY DEF QueueWait, Goes
<1>2. PTypeOK' /\ WorkersAt' /\ Counting' /\ Accounted'
  BY <1>1, Frames DEF qvars, queue, fields, crew
<1>3. FeederAt'
  BY <1>1 DEF FeederAt, Quiet, qvars, fields, crew
<1>4. ~qclosed => buffer = <<>>
  <2>1. ~qclosed => Len(buffer) = 0
    BY <1>1 DEF QInv, Counted
  <2> QED
    BY <2>1 DEF QInv, QTypeOK
<1>5. CallerAt'
  BY <1>1, <1>4 DEF CallerAt, Closing, qvars, queue, fields
<1>6. Reported' /\ Failing' /\ Waited'
  BY <1>1 DEF Reported, Failing, Waited, fields, crew
<1> QED
  BY <1>2, <1>3, <1>5, <1>6

\* queue.Close.
LEMMA PoolQueueClose ==
    ASSUME PTypeOK, PoolInv, setup' = setup, QueueClose
    PROVE  PTypeOK' /\ PoolInv'
<1> USE DEF PoolInv
<1>1. /\ main = "close" /\ main' = "isDone" /\ qclosed' = TRUE
      /\ UNCHANGED <<buffer, mu, cc, at, hand, puts, got>>
      /\ UNCHANGED <<fields, awaited, early, result, crew>>
  BY DEF QueueClose, Close, Goes
<1>2. PTypeOK' /\ WorkersAt' /\ Counting' /\ Accounted'
  BY <1>1, Frames DEF fields, crew
<1>3. FeederAt' /\ CallerAt'
  BY <1>1 DEF FeederAt, CallerAt, Closing, Quiet, fields, crew
<1>4. Reported' /\ Failing' /\ Waited'
  BY <1>1 DEF Reported, Failing, Waited, fields, crew
<1> QED
  BY <1>2, <1>3, <1>4

\* waitTask: when startQueue is not at work it has nothing in hand.
LEMMA PoolWaitTask ==
    ASSUME PTypeOK, PoolInv, setup' = setup, QInv, WaitIsDone \/ WaitQueTask
    PROVE  PTypeOK' /\ PoolInv'
<1> USE DEF PoolInv
<1>1. /\ main \in {"isDone", "isQueTask"} /\ main' \in {"isDone", "isQueTask", "closeTask"}
      /\ main' = "closeTask" => ~isQueTask
      /\ UNCHANGED <<qvars, fields, awaited, early, result, crew>>
  BY DEF WaitIsDone, WaitQueTask, Goes
<1>2. PTypeOK' /\ WorkersAt' /\ Counting' /\ Accounted'
  BY <1>1, Frames DEF qvars, queue, fields, crew
<1>3. CallerAt'
  BY <1>1 DEF CallerAt, Closing, qvars, queue, fields
<1>4. ~isQueTask => hand[Feeder] = Nil /\ at[Feeder] # "send"
  BY FeederAssumption DEF FeederAt, QInv, Held, Goroutines
<1>5. FeederAt'
  BY <1>1, <1>4 DEF FeederAt, Quiet, qvars, fields, crew
<1>6. Reported' /\ Failing' /\ Waited'
  BY <1>1 DEF Reported, Failing, Waited, fields, crew
<1> QED
  BY <1>2, <1>3, <1>5, <1>6

\* close(task).
LEMMA PoolCloseTask ==
    ASSUME PTypeOK, PoolInv, setup' = setup, CloseTask
    PROVE  PTypeOK' /\ PoolInv'
<1> USE DEF PoolInv
<1>1. /\ main = "closeTask" /\ main' = "wgWait" /\ taskClosed' = TRUE
      /\ UNCHANGED <<qvars, closed, isQueTask, errChan, task, wg, awaited, early, result, crew>>
  BY DEF CloseTask, Goes
<1>2. PTypeOK' /\ Counting' /\ Accounted'
  BY <1>1, Frames DEF qvars, queue, crew
<1>3. FeederAt' /\ CallerAt' /\ WorkersAt'
  BY <1>1 DEF FeederAt, CallerAt, WorkersAt, Closing, Quiet, qvars, queue, crew
<1>4. Reported' /\ Failing' /\ Waited'
  BY <1>1 DEF Reported, Failing, Waited, crew
<1> QED
  BY <1>2, <1>3, <1>4

\* The workers of a pool are finitely many.
LEMMA WorkersFinite ==
    ASSUME PTypeOK
    PROVE  setup.workers \subseteq Workers /\ IsFiniteSet(setup.workers) /\ IsFiniteSet(AtWork)
<1>1. setup.workers \subseteq Workers /\ AtWork \subseteq setup.workers
  BY DEF PTypeOK, Setup, AtWork
<1> QED
  BY <1>1, SetupsAssumption, FS_Subset

\* wg.Wait returns: every worker that was added has ended.
LEMMA PoolWgWait ==
    ASSUME PTypeOK, PoolInv, setup' = setup, WgWait
    PROVE  PTypeOK' /\ PoolInv'
<1> USE DEF PoolInv
<1>1. /\ main = "wgWait" /\ main' = "select" /\ wg = 0 /\ early' = (loopAt # "done")
      /\ UNCHANGED <<qvars, fields, awaited, result, crew>>
  BY DEF WgWait, Goes
<1>2. PTypeOK' /\ WorkersAt' /\ Counting' /\ Accounted'
  BY <1>1, Frames DEF qvars, queue, fields, crew
<1>3. FeederAt' /\ CallerAt'
  BY <1>1 DEF FeederAt, CallerAt, Closing, Quiet, qvars, queue, fields, crew
<1>4. Reported' /\ Failing'
  BY <1>1 DEF Reported, Failing, fields, crew
<1>5. AtWork = {}
  BY <1>1, WorkersFinite, FS_EmptySet DEF Counting
<1>6. loopAt = "done" => \A w \in setup.workers : worker[w] = "done"
  BY <1>5 DEF AtWork, WorkersAt
<1>7. Waited'
  BY <1>1, <1>6 DEF Waited, crew
<1> QED
  BY <1>2, <1>3, <1>4, <1>7

\* Wait returns: without an error every task has returned, and none failed.
LEMMA PoolWaitReturns ==
    ASSUME PTypeOK, PoolInv, setup' = setup, WaitReturns
    PROVE  PTypeOK' /\ PoolInv'
<1> USE DEF PoolInv
<1>1. /\ main = "select" /\ main' = "returned" /\ errChan' = <<>>
      /\ result' = IF errChan = <<>> THEN "nil" ELSE Head(errChan)
      /\ UNCHANGED <<qvars, closed, isQueTask, task, taskClosed, wg, awaited, early, crew>>
  BY DEF WaitReturns, Goes
<1>2. WorkersAt' /\ Counting' /\ Accounted'
  BY <1>1, Frames DEF qvars, queue, crew
<1>3. PTypeOK'
  BY <1>1 DEF PTypeOK, crew
<1>4. FeederAt' /\ CallerAt'
  BY <1>1 DEF FeederAt, CallerAt, Closing, Quiet, qvars, queue, crew
<1>5. Reported' /\ Failing'
  BY <1>1 DEF Reported, Failing
<1>6. result' = "nil" => errChan = <<>>
  BY <1>1 DEF PTypeOK
<1>7. ASSUME errChan = <<>>, ~early PROVE ended = 1..puts /\ failed = {}
  <2>1. ~closed /\ \A w \in setup.workers : worker[w] = "done"
    BY <1>1, <1>7 DEF Reported, Waited
  <2>2. buffer = <<>> /\ hand[Feeder] = Nil
    BY <1>1, <2>1 DEF CallerAt, FeederAt, Closing, Quiet
  <2>3. task = <<>>
    BY <2>1 DEF WorkersAt
  <2>4. failed = {}
    BY <1>1, <1>7, <2>1 DEF Failing
  <2>5. \A i \in 1..puts : i \in ToSet(buffer) \/ i = Nil \/ i \in ToSet(task) \/ i \in ended
    BY <2>1, <2>2 DEF Accounted, Running
  <2>6. 1..puts \subseteq ended
    BY <2>2, <2>3, <2>5, Channel DEF Nil
  <2> QED
    BY <2>4, <2>6 DEF Accounted
<1>8. Waited'
  BY <1>1, <1>6, <1>7 DEF Waited, qvars, crew
<1> QED
  BY <1>2, <1>3, <1>4, <1>5, <1>8

\* Every step of the caller.
LEMMA PoolCaller ==
    ASSUME PTypeOK, PoolInv, setup' = setup, QInv, Caller
    PROVE  PTypeOK' /\ PoolInv'
  BY PoolCalls, PoolPushTask, PoolQueueWait, PoolQueueClose, PoolWaitTask, PoolCloseTask,
     PoolWgWait, PoolWaitReturns DEF Caller

-----------------------------------------------------------------------------
(* loop and startQueue *)

LEMMA PoolLoop ==
    ASSUME PTypeOK, PoolInv, setup' = setup, QInv, Loop
    PROVE  PTypeOK' /\ PoolInv'
<1> USE DEF PoolInv
<1>1. CASE LoopStart
  <2>1. /\ loopAt = "start" /\ loopAt' = "add" /\ at' = [at EXCEPT ![Feeder] = "start"]
        /\ UNCHANGED <<queue, mu, waiting, cc, hand, puts, got>>
        /\ UNCHANGED <<fields, caller, worker, job, timer, ended, failed>>
    BY <1>1 DEF LoopStart
  <2>2. PTypeOK' /\ CallerAt' /\ Counting' /\ Accounted' /\ Reported' /\ Failing'
    BY <2>1, Frames DEF queue, fields, caller
  <2>3. at'[Feeder] = "start"
    BY <2>1, FeederAssumption DEF QInv, QTypeOK, Goroutines
  <2>4. FeederAt'
    BY <2>1, <2>3 DEF FeederAt, fields, caller
  <2>5. WorkersAt' /\ Waited'
    BY <2>1 DEF WorkersAt, Waited, fields, caller
  <2> QED
    BY <2>2, <2>4, <2>5
<1>2. CASE LoopWorkers
  <2>1. /\ loopAt = "add" /\ loopAt' = "done" /\ wg' = wg + Cardinality(setup.workers)
        /\ worker' = [w \in Workers |-> IF w \in setup.workers THEN "range" ELSE "none"]
        /\ UNCHANGED <<qvars, closed, isQueTask, errChan, task, taskClosed>>
        /\ UNCHANGED <<caller, job, timer, ended, failed>>
    BY <1>2 DEF LoopWorkers
  <2>2. /\ setup.workers \subseteq Workers
        /\ \A w \in setup.workers : worker[w] = "none" /\ worker'[w] = "range"
    BY <2>1, WorkersFinite DEF WorkersAt
  <2>3. PTypeOK'
    BY <2>1 DEF PTypeOK
  <2>4. FeederAt' /\ CallerAt'
    BY <2>1 DEF FeederAt, CallerAt, qvars, queue, caller
  <2>5. WorkersAt'
    BY <2>1, <2>2 DEF WorkersAt
  <2>6. Counting'
    <3>1. AtWork = {} /\ AtWork' = setup.workers
      BY <2>2 DEF AtWork
    <3>2. wg = 0 /\ Cardinality(setup.workers) \in Nat
      BY <3>1, WorkersFinite, FS_EmptySet, FS_CardinalityType DEF Counting
    <3> QED
      BY <2>1, <3>1, <3>2 DEF Counting
  <2>7. Accounted'
    BY <2>1, <2>2 DEF Accounted, Running, qvars, queue
  <2>8. Reported' /\ Failing' /\ Waited'
    BY <2>1, <2>2 DEF Reported, Failing, Waited, caller
  <2> QED
    BY <2>3, <2>4, <2>5, <2>6, <2>7, <2>8
<1> QED
  BY <1>1, <1>2 DEF Loop

\* startQueue sets its mark, and takes it back.
LEMMA PoolMark ==
    ASSUME PTypeOK, PoolInv, setup' = setup, QInv, StartQueue \/ FeederEnds
    PROVE  PTypeOK' /\ PoolInv'
<1> USE DEF PoolInv
<1>1. /\ UNCHANGED <<queue, mu, waiting, cc, hand, puts, got>>
      /\ UNCHANGED <<closed, errChan, task, taskClosed, wg, caller, crew>>
  BY DEF StartQueue, FeederEnds
<1>2. /\ PTypeOK' /\ CallerAt' /\ WorkersAt' /\ Counting' /\ Accounted'
      /\ Reported' /\ Failing' /\ Waited'
  BY <1>1, Frames DEF queue, caller, crew
<1>3. \/ at[Feeder] = "start" /\ at'[Feeder] = "pop" /\ isQueTask' = TRUE
      \/ at[Feeder] = "break" /\ at'[Feeder] = "done" /\ isQueTask' = FALSE
  BY FeederAssumption DEF StartQueue, FeederEnds, QInv, QTypeOK, Goroutines
<1>4. FeederAt'
  BY <1>1, <1>3 DEF FeederAt, caller, crew
<1> QED
  BY <1>2, <1>4

\* startQueue sleeps or pops.
LEMMA PoolFeederPop ==
    ASSUME PTypeOK, PoolInv, setup' = setup, QInv, FeederPop
    PROVE  PTypeOK' /\ PoolInv'
<1> USE DEF PoolInv
<1>1. CASE Sleep(Feeder)
  <2>1. UNCHANGED <<queue, mu, cc, at, hand, puts, got, fields, caller, crew>>
    BY <1>1 DEF FeederPop, Sleep
  <2> QED
    BY <2>1, Frames DEF queue, fields, caller, crew
<1>2. CASE Pop(Feeder)
  <2>1. /\ Awake(Feeder) /\ ~MustSleep /\ RemoveOldest
        /\ hand' = [hand EXCEPT ![Feeder] = Oldest] /\ at' = [at EXCEPT ![Feeder] = "popped"]
        /\ UNCHANGED <<qclosed, mu, waiting, cc, puts, got, fields, caller, crew>>
    BY <1>2 DEF Pop, FeederPop
  <2>2. /\ PTypeOK' /\ WorkersAt' /\ Counting' /\ Reported' /\ Failing' /\ Waited'
    BY <2>1, Frames DEF fields, caller, crew
  <2>3. /\ at[Feeder] = "pop" /\ at'[Feeder] = "popped" /\ hand'[Feeder] = Oldest
        /\ hand[Feeder] = Nil
    BY <2>1, FeederAssumption DEF Awake, QInv, QTypeOK, Held, Goroutines
  <2>4. /\ qclosed => Oldest = Nil /\ buffer' = buffer
        /\ ~qclosed => ToSet(buffer') = ToSet(buffer) \ {Oldest}
    BY <2>1, Takes
  <2>5. CallerAt'
    <3>1. CASE qclosed
      BY <2>1, <2>4, <3>1 DEF CallerAt, fields, caller
    <3>2. CASE ~qclosed
      <4>1. main \notin Closing
        BY <3>2 DEF CallerAt
      <4>2. ~closed /\ main = "close" => FALSE
        BY <2>1, <3>2 DEF CallerAt, MustSleep, QInv, Counted
      <4> QED
        BY <2>1, <3>2, <4>1, <4>2 DEF CallerAt, fields, caller
    <3> QED
      BY <3>1, <3>2
  <2>6. FeederAt'
    <3>1. main \in Quiet => Oldest = Nil
      BY <2>4 DEF CallerAt, Closing, Quiet
    <3> QED
      BY <2>1, <2>3, <3>1 DEF FeederAt, fields, caller, crew
  <2>7. Accounted'
    BY <2>1, <2>3, <2>4 DEF Accounted, Running, Nil, fields, crew
  <2> QED
    BY <2>2, <2>5, <2>6, <2>7
<1> QED
  BY <1>1, <1>2 DEF FeederPop

\* startQueue looks at what it has popped.
LEMMA PoolFeederCheck ==
    ASSUME PTypeOK, PoolInv, setup' = setup, QInv, FeederCheck
    PROVE  PTypeOK' /\ PoolInv'
<1> USE DEF PoolInv
<1>1. at[Feeder] = "popped" /\ UNCHANGED <<buffer, mu, cc, puts, fields, caller, crew>>
  BY DEF FeederCheck
<1>2. /\ PTypeOK' /\ WorkersAt' /\ Counting' /\ Reported' /\ Failing' /\ Waited'
  BY <1>1, Frames DEF fields, caller, crew
<1>3. CASE closed
  <2>1. /\ at'[Feeder] = "break" /\ hand'[Feeder] = Nil /\ qclosed' = TRUE
    BY <1>3, FeederAssumption DEF FeederCheck, QInv, QTypeOK, Goroutines
  <2>2. FeederAt' /\ CallerAt'
    BY <1>1, <1>3, <2>1 DEF FeederAt, CallerAt, fields, caller, crew
  <2>3. Accounted'
    BY <1>1, <1>3 DEF Accounted, fields, crew
  <2> QED
    BY <1>2, <2>2, <2>3
<1>4. CASE ~closed
  <2>1. /\ at'[Feeder] = IF hand[Feeder] = Nil THEN "break" ELSE "send"
        /\ UNCHANGED <<qclosed, hand>>
    BY <1>4, FeederAssumption DEF FeederCheck, QInv, QTypeOK, Goroutines
  <2>2. FeederAt'
    BY <1>1, <2>1 DEF FeederAt, fields, caller, crew
  <2>3. CallerAt' /\ Accounted'
    BY <1>1, <2>1, Frames DEF fields, caller, crew
  <2> QED
    BY <1>2, <2>2, <2>3
<1> QED
  BY <1>3, <1>4

\* startQueue sends the task: the channel is open and has room.
LEMMA PoolFeederSend ==
    ASSUME PTypeOK, PoolInv, setup' = setup, QInv, FeederSend
    PROVE  PTypeOK' /\ PoolInv'
<1> USE DEF PoolInv
<1>1. /\ at[Feeder] = "send" /\ ~taskClosed /\ main \notin Quiet
  BY DEF FeederSend, FeederAt, CallerAt, Quiet
<1>2. /\ Len(task) < Cap /\ task' = Append(task, hand[Feeder])
      /\ at' = [at EXCEPT ![Feeder] = "pop"] /\ hand' = [hand EXCEPT ![Feeder] = Nil]
      /\ UNCHANGED <<queue, mu, waiting, cc, puts>>
      /\ UNCHANGED <<closed, isQueTask, errChan, taskClosed, wg, caller, crew>>
  BY <1>1 DEF FeederSend
<1>3. /\ at'[Feeder] = "pop" /\ hand'[Feeder] = Nil /\ hand[Feeder] \in Nat
      /\ hand[Feeder] \in InHand
  BY <1>1, <1>2, FeederAssumption DEF QInv, QTypeOK, Goroutines, FeederAt, InHand
<1>4. hand[Feeder] \in 1..puts
  BY <1>3 DEF QInv, Placed, Parted
<1>5. task \in Seq(Nat) /\ task' \in Seq(Nat) /\ ToSet(task') = ToSet(task) \cup {hand[Feeder]}
  BY <1>2, <1>3, SetOfAppend DEF PTypeOK
<1>6. PTypeOK'
  BY <1>2, <1>5 DEF PTypeOK, crew
<1>7. CallerAt' /\ Counting' /\ Reported' /\ Failing' /\ Waited'
  BY <1>2, Frames DEF queue, caller, crew
<1>8. FeederAt'
  BY <1>1, <1>2, <1>3 DEF FeederAt, caller, crew
<1>9. setup.workers # {}
  <2>1. setup.workers = {} => Cap = 0
    BY FS_EmptySet DEF Cap
  <2>2. Len(task) \in Nat
    BY <1>5
  <2> QED
    BY <1>2, <2>1, <2>2
<1>10. WorkersAt'
  BY <1>1, <1>2, <1>9 DEF WorkersAt, crew
<1>11. Accounted'
  BY <1>2, <1>3, <1>4, <1>5 DEF Accounted, Running, queue, crew
<1> QED
  BY <1>6, <1>7, <1>8, <1>10, <1>11

\* Every step of startQueue.
LEMMA PoolFeed ==
    ASSUME PTypeOK, PoolInv, setup' = setup, QInv, Feed
    PROVE  PTypeOK' /\ PoolInv'
  BY PoolMark, PoolFeederPop, PoolFeederCheck, PoolFeederSend DEF Feed

-----------------------------------------------------------------------------
(* Workers and timeouts *)

\* A worker that stays at work is still counted.
LEMMA StaysAtWork ==
    ASSUME PTypeOK, Counting, setup' = setup, wg' = wg, NEW w \in setup.workers,
           worker[w] \notin {"none", "done"},
           NEW p \in {"range", "run", "report", "mark"}, worker' = [worker EXCEPT ![w] = p]
    PROVE  Counting'
<1>1. worker'[w] = p /\ \A v \in setup.workers : v # w => worker'[v] = worker[v]
  BY WorkersFinite DEF PTypeOK
<1>2. AtWork' = AtWork
  BY <1>1 DEF AtWork
<1> QED
  BY <1>2 DEF Counting

\* A worker takes the next task, or skips it when the pool is closed.
LEMMA PoolWorkerTakes ==
    ASSUME PTypeOK, PoolInv, setup' = setup, QInv, NEW w \in setup.workers, WorkerTakes(w)
    PROVE  PTypeOK' /\ PoolInv'
<1> USE DEF PoolInv
<1>1. /\ worker[w] = "range" /\ task # <<>> /\ task' = Tail(task)
      /\ UNCHANGED <<qvars, closed, isQueTask, errChan, taskClosed, wg, caller>>
      /\ UNCHANGED <<loopAt, ended, failed>>
  BY DEF WorkerTakes
<1>2. /\ Head(task) \in Nat /\ task' \in Seq(Nat)
      /\ ToSet(task) = ToSet(task') \cup {Head(task)}
  BY <1>1, SetOfTail DEF PTypeOK
<1>3. FeederAt' /\ CallerAt'
  BY <1>1, Frames DEF qvars, queue, caller
<1>4. CASE closed
  <2>1. UNCHANGED <<worker, job, timer>>
    BY <1>4 DEF WorkerTakes
  <2>2. PTypeOK' /\ WorkersAt' /\ Accounted'
    BY <1>1, <1>2, <1>4, <2>1 DEF PTypeOK, WorkersAt, Accounted, qvars, queue
  <2>3. Counting' /\ Reported' /\ Failing' /\ Waited'
    BY <1>1, <2>1, Frames DEF qvars, caller
  <2> QED
    BY <1>3, <2>2, <2>3
<1>5. CASE ~closed
  <2>1. /\ worker' = [worker EXCEPT ![w] = "run"] /\ job' = [job EXCEPT ![w] = Head(task)]
        /\ timer' = IF setup.timeout
                       THEN [timer EXCEPT ![Head(task)] = "armed"] ELSE timer
    BY <1>5 DEF WorkerTakes
  <2>2. w \in Workers /\ setup.workers \subseteq Workers
    BY WorkersFinite
  <2>3. /\ worker'[w] = "run" /\ job'[w] = Head(task)
        /\ \A v \in setup.workers : v # w => worker'[v] = worker[v] /\ job'[v] = job[v]
    BY <2>1, <2>2 DEF PTypeOK
  <2>4. Head(task) \in 1..puts /\ Head(task) \in 1..MaxPuts
    <3>1. Head(task) \in 1..puts
      BY <1>2 DEF Accounted
    <3> QED
      BY <3>1, QueueAssumption DEF QInv, QTypeOK
  <2>5. \A i \in 1..MaxPuts : timer'[i] = timer[i] \/ timer'[i] = "armed"
    BY <2>1, <2>4 DEF PTypeOK
  <2>6. PTypeOK'
    BY <1>1, <1>2, <2>1, <2>2 DEF PTypeOK
  <2>7. WorkersAt'
    BY <1>1, <2>3 DEF WorkersAt
  <2>8. Counting'
    BY <1>1, <2>1, StaysAtWork
  <2>9. Accounted'
    <3> DEFINE RunsNext(i) == \E v \in setup.workers : worker'[v] = "run" /\ job'[v] = i
    <3>1. ToSet(task') \subseteq 1..puts
      BY <1>2 DEF Accounted
    <3>2. RunsNext(Head(task))
      BY <2>3
    <3>3. \A i : Running(i) => RunsNext(i)
      BY <1>1, <2>3 DEF Running
    <3>4. \A v \in setup.workers : worker'[v] \in {"run", "report"} => job'[v] \in 1..puts
      BY <2>3, <2>4 DEF Accounted
    <3>5. \A i \in 1..puts :
             \/ i \in ToSet(buffer) \/ i = hand[Feeder] \/ i \in ToSet(task')
             \/ RunsNext(i) \/ i \in ended
      <4> HIDE DEF RunsNext
      <4> QED
        BY <1>2, <1>5, <3>2, <3>3 DEF Accounted
    <3> QED
      BY <1>1, <3>1, <3>4, <3>5 DEF Accounted, Running, qvars, queue
  <2>10. Reported' /\ Failing' /\ Waited'
    BY <1>1, <2>3, <2>5 DEF Reported, Failing, Waited, qvars, caller
  <2> QED
    BY <1>3, <2>6, <2>7, <2>8, <2>9, <2>10
<1> QED
  BY <1>4, <1>5

\* A task returns.
LEMMA PoolTaskReturns ==
    ASSUME PTypeOK, PoolInv, setup' = setup, NEW w \in setup.workers, TaskReturns(w)
    PROVE  PTypeOK' /\ PoolInv'
<1> USE DEF PoolInv
<1>1. /\ worker[w] = "run" /\ worker' = [worker EXCEPT ![w] = "report"]
      /\ ended' = ended \cup {job[w]}
      /\ failed' = failed \/ failed' = failed \cup {job[w]}
      /\ UNCHANGED <<qvars, fields, caller, loopAt, job, timer>>
  BY DEF TaskReturns
<1>2. worker'[w] = "report" /\ \A v \in setup.workers : v # w => worker'[v] = worker[v]
  BY <1>1, WorkersFinite DEF PTypeOK
<1>3. FeederAt' /\ CallerAt'
  BY <1>1, Frames DEF qvars, queue, fields, caller
<1>4. PTypeOK'
  BY <1>1, WorkersFinite DEF PTypeOK, fields
<1>5. WorkersAt'
  BY <1>1, <1>2 DEF WorkersAt, fields
<1>6. Counting'
  BY <1>1, StaysAtWork DEF fields
<1>7. Accounted'
  <2>1. job[w] \in 1..puts
    BY <1>1 DEF Accounted
  <2>2. \A i : Running(i) => Running(i)' \/ i = job[w]
    BY <1>1, <1>2 DEF Running
  <2>3. \A v \in setup.workers : worker'[v] \in {"run", "report"} => job[v] \in 1..puts
    BY <1>2, <2>1 DEF Accounted
  <2>4. ~closed => \A i \in 1..puts :
           \/ i \in ToSet(buffer) \/ i = hand[Feeder] \/ i \in ToSet(task)
           \/ Running(i)' \/ i \in ended'
    BY <1>1, <2>2 DEF Accounted
  <2> QED
    BY <1>1, <2>1, <2>3, <2>4 DEF Accounted, Running, qvars, queue, fields
<1>8. Reported' /\ Failing' /\ Waited'
  BY <1>1, <1>2 DEF Reported, Failing, Waited, qvars, fields, caller
<1> QED
  BY <1>3, <1>4, <1>5, <1>6, <1>7, <1>8

\* A worker stops the task's timer and reports its error, if errChan is empty.
LEMMA PoolWorkerReports ==
    ASSUME PTypeOK, PoolInv, setup' = setup, QInv, NEW w \in setup.workers, WorkerReports(w)
    PROVE  PTypeOK' /\ PoolInv'
<1> USE DEF PoolInv
<1>1. /\ worker[w] = "report"
      /\ timer' = [timer EXCEPT ![job[w]] = IF @ = "armed" THEN "stopped" ELSE @]
      /\ \/ /\ errChan' = <<"error">> /\ worker' = [worker EXCEPT ![w] = "mark"]
         \/ /\ job[w] \notin failed \/ errChan # <<>>
            /\ worker' = [worker EXCEPT ![w] = "range"] /\ errChan' = errChan
      /\ UNCHANGED <<qvars, closed, isQueTask, task, taskClosed, wg, caller>>
      /\ UNCHANGED <<loopAt, job, ended, failed>>
  BY DEF WorkerReports
<1>2. PICK p \in {"mark", "range"} :
         /\ worker' = [worker EXCEPT ![w] = p]
         /\ p = "mark" => errChan' = <<"error">>
         /\ p = "range" => errChan' = errChan /\ (job[w] \notin failed \/ errChan # <<>>)
  BY <1>1
<1>3. worker'[w] = p /\ \A v \in setup.workers : v # w => worker'[v] = worker[v]
  BY <1>2, WorkersFinite DEF PTypeOK
<1>4. job[w] \in 1..MaxPuts
  <2>1. job[w] \in 1..puts
    BY <1>1 DEF Accounted
  <2> QED
    BY <2>1, QueueAssumption DEF QInv, QTypeOK
<1>5. \A i \in 1..MaxPuts : timer'[i] = timer[i] \/ timer'[i] = "stopped"
  BY <1>1, <1>4 DEF PTypeOK
<1>6. errChan' # <<>> \/ errChan' = errChan
  BY <1>2
<1>7. FeederAt' /\ CallerAt'
  BY <1>1, Frames DEF qvars, queue, caller
<1>8. PTypeOK'
  <2>1. worker' \in [Workers -> {"none", "range", "run", "report", "mark", "done"}]
    BY <1>2, WorkersFinite DEF PTypeOK
  <2>2. timer' \in [1..MaxPuts -> {"none", "armed", "stopped", "send", "mark", "done"}]
    BY <1>1, <1>4 DEF PTypeOK
  <2> QED
    BY <1>1, <1>2, <2>1, <2>2 DEF PTypeOK
<1>9. WorkersAt'
  BY <1>1, <1>3 DEF WorkersAt
<1>10. Counting'
  BY <1>1, <1>2, StaysAtWork
<1>11. Accounted'
  <2>1. \A i : Running(i) => Running(i)'
    BY <1>1, <1>3 DEF Running
  <2>2. \A v \in setup.workers : worker'[v] \in {"run", "report"} => job[v] \in 1..puts
    BY <1>3 DEF Accounted
  <2> QED
    BY <1>1, <2>1, <2>2 DEF Accounted, qvars, queue
<1>12. Reported' /\ Waited'
  BY <1>1, <1>2, <1>3, <1>5, <1>6 DEF Reported, Waited, qvars, caller
<1>13. Failing'
  BY <1>1, <1>2, <1>3, <1>6 DEF Failing, caller
<1> QED
  BY <1>7, <1>8, <1>9, <1>10, <1>11, <1>12, <1>13

\* A worker closes the pool for its error.
LEMMA PoolWorkerMarks ==
    ASSUME PTypeOK, PoolInv, setup' = setup, NEW w \in setup.workers, WorkerMarks(w)
    PROVE  PTypeOK' /\ PoolInv'
<1> USE DEF PoolInv
<1>1. /\ worker[w] = "mark" /\ closed' = TRUE /\ worker' = [worker EXCEPT ![w] = "range"]
      /\ UNCHANGED <<qvars, isQueTask, errChan, task, taskClosed, wg, caller>>
      /\ UNCHANGED <<loopAt, job, timer, ended, failed>>
  BY DEF WorkerMarks
<1>2. worker'[w] = "range" /\ \A v \in setup.workers : v # w => worker'[v] = worker[v]
  BY <1>1, WorkersFinite DEF PTypeOK
<1>3. FeederAt'
  BY <1>1, Frames DEF qvars, caller
<1>4. CallerAt'
  BY <1>1 DEF CallerAt, qvars, queue, caller
<1>5. PTypeOK'
  BY <1>1, WorkersFinite DEF PTypeOK
<1>6. WorkersAt' /\ Accounted'
  BY <1>1, <1>2 DEF WorkersAt, Accounted, qvars, queue
<1>7. Counting'
  BY <1>1, StaysAtWork
<1>8. Reported' /\ Failing' /\ Waited'
  BY <1>1, <1>2 DEF Reported, Failing, Waited, qvars, caller
<1> QED
  BY <1>3, <1>4, <1>5, <1>6, <1>7, <1>8

\* A worker ends, and calls wg.Done.
LEMMA PoolWorkerEnds ==
    ASSUME PTypeOK, PoolInv, setup' = setup, NEW w \in setup.workers, WorkerEnds(w)
    PROVE  PTypeOK' /\ PoolInv'
<1> USE DEF PoolInv
<1>1. /\ worker[w] = "range" /\ taskClosed /\ task = <<>>
      /\ worker' = [worker EXCEPT ![w] = "done"] /\ wg' = wg - 1
      /\ UNCHANGED <<qvars, closed, isQueTask, errChan, task, taskClosed, caller>>
      /\ UNCHANGED <<loopAt, job, timer, ended, failed>>
  BY DEF WorkerEnds
<1>2. worker'[w] = "done" /\ \A v \in setup.workers : v # w => worker'[v] = worker[v]
  BY <1>1, WorkersFinite DEF PTypeOK
<1>3. FeederAt' /\ CallerAt'
  BY <1>1, Frames DEF qvars, queue, caller
<1>4. PTypeOK'
  BY <1>1, WorkersFinite DEF PTypeOK
<1>5. WorkersAt'
  BY <1>1, <1>2 DEF WorkersAt
<1>6. Counting'
  <2>1. AtWork' = AtWork \ {w} /\ w \in AtWork
    BY <1>1, <1>2 DEF AtWork
  <2>2. Cardinality(AtWork') = Cardinality(AtWork) - 1
    BY <2>1, WorkersFinite, FS_RemoveElement
  <2> QED
    BY <1>1, <2>2 DEF Counting
<1>7. Accounted'
  <2>1. \A i : Running(i) => Running(i)'
    BY <1>1, <1>2 DEF Running
  <2>2. \A v \in setup.workers : worker'[v] \in {"run", "report"} => job[v] \in 1..puts
    BY <1>2 DEF Accounted
  <2> QED
    BY <1>1, <2>1, <2>2 DEF Accounted, qvars, queue
<1>8. Reported' /\ Failing' /\ Waited'
  BY <1>1, <1>2 DEF Reported, Failing, Waited, qvars, caller
<1> QED
  BY <1>3, <1>4, <1>5, <1>6, <1>7, <1>8

\* A timeout goroutine: the error is in errChan before it closes the pool.
LEMMA PoolTimer ==
    ASSUME PTypeOK, PoolInv, setup' = setup, NEW i \in 1..MaxPuts, Timer(i)
    PROVE  PTypeOK' /\ PoolInv'
<1> USE DEF PoolInv
<1>1. /\ UNCHANGED <<qvars, isQueTask, task, taskClosed, wg, caller>>
      /\ UNCHANGED <<loopAt, worker, job, ended, failed>>
  BY DEF Timer, TimerExpires, TimerStops, TimerSends, TimerMarks, fields
<1>2. PICK p \in {"send", "done", "mark"} :
         /\ timer' = [timer EXCEPT ![i] = p]
         /\ \/ p # "mark" /\ errChan' = errChan
            \/ p = "mark" /\ errChan' = <<"timeout">>
         /\ \/ closed' = closed
            \/ closed' = TRUE /\ timer[i] = "mark" /\ errChan' = errChan
  BY DEF Timer, TimerExpires, TimerStops, TimerSends, TimerMarks, fields
<1>3. /\ timer'[i] = p /\ \A k \in 1..MaxPuts : k # i => timer'[k] = timer[k]
      /\ timer' \in [1..MaxPuts -> {"none", "armed", "stopped", "send", "mark", "done"}]
  BY <1>2 DEF PTypeOK
<1>4. FeederAt' /\ WorkersAt' /\ Counting' /\ Waited'
  BY <1>1, Frames DEF qvars, caller
<1>5. PTypeOK'
  BY <1>1, <1>2, <1>3 DEF PTypeOK
<1>6. CallerAt' /\ Accounted'
  BY <1>1, <1>2 DEF CallerAt, Accounted, Running, qvars, queue, caller
<1>7. Reported'
  BY <1>1, <1>2, <1>3 DEF Reported, caller
<1>8. Failing'
  BY <1>1, <1>2 DEF Failing, caller
<1> QED
  BY <1>4, <1>5, <1>6, <1>7, <1>8

-----------------------------------------------------------------------------
(* The invariant of the queue, under the steps of the pool *)

LEMMA QueueLoop ==
    ASSUME QInv, FeederAt, Loop
    PROVE  QInv'
<1>1. Feeder \in Goroutines
  BY FeederAssumption DEF Goroutines
<1>2. CASE LoopStart
  <2>1. at[Feeder] = "idle" /\ hand[Feeder] = Nil
    BY <1>1, <1>2 DEF LoopStart, FeederAt, QInv, Held
  <2> QED
    BY <1>1, <1>2, <2>1, Steps DEF LoopStart, queue, Places
<1>3. CASE LoopWorkers
  BY <1>3, QInvStutters DEF LoopWorkers
<1> QED
  BY <1>2, <1>3 DEF Loop

LEMMA QueueFeed ==
    ASSUME QInv, FeederAt, Feed
    PROVE  QInv'
<1>1. Feeder \in Goroutines
  BY FeederAssumption DEF Goroutines
<1>2. CASE StartQueue
  <2>1. at[Feeder] = "start" /\ hand[Feeder] = Nil
    BY <1>1, <1>2 DEF StartQueue, QInv, Held
  <2> QED
    BY <1>1, <1>2, <2>1, Steps DEF StartQueue, queue, Places
<1>3. CASE FeederPop
  BY <1>1, <1>3, InvSleep, InvPop DEF FeederPop
<1>4. CASE FeederCheck
  <2>1. CASE closed
    BY <1>1, <1>4, <2>1, Drops DEF FeederCheck, Places
  <2>2. CASE ~closed
    <3> DEFINE p == IF hand[Feeder] = Nil THEN "break" ELSE "send"
    <3>1. /\ at[Feeder] = "popped" /\ at' = [at EXCEPT ![Feeder] = p]
          /\ UNCHANGED <<buffer, count, qclosed, waiting, cc, hand, puts, got>>
      BY <1>4, <2>2 DEF FeederCheck
    <3>2. p \in Places /\ (hand[Feeder] = Nil \/ p \in {"popped", "send"})
      BY DEF Places
    <3> HIDE DEF p
    <3> QED
      BY <1>1, <3>1, <3>2, Steps
  <2> QED
    BY <2>1, <2>2
<1>5. CASE FeederSend
  <2> DEFINE p == IF taskClosed THEN "panic" ELSE "pop"
  <2>1. /\ at[Feeder] = "send" /\ at' = [at EXCEPT ![Feeder] = p] /\ Return(hand[Feeder])
        /\ hand' = [hand EXCEPT ![Feeder] = Nil]
        /\ UNCHANGED <<buffer, count, qclosed, waiting, cc, puts>>
    BY <1>5 DEF FeederSend, queue
  <2>2. p \in Places
    BY DEF Places
  <2> HIDE DEF p
  <2> QED
    BY <1>1, <2>1, <2>2, Returns
<1>6. CASE FeederEnds
  <2>1. at[Feeder] = "break" /\ hand[Feeder] = Nil
    BY <1>1, <1>6 DEF FeederEnds, QInv, Held
  <2> QED
    BY <1>1, <1>6, <2>1, Steps DEF FeederEnds, queue, Places
<1> QED
  BY <1>2, <1>3, <1>4, <1>5, <1>6 DEF Feed

LEMMA QueuePool ==
    ASSUME QInv, FeederAt, PoolNext
    PROVE  QInv'
<1>1. CASE Caller
  <2>1. PushTask \/ QueueClose \/ UNCHANGED qvars
    BY <1>1 DEF Caller, Do, DoWait, DoWaitReturns, Wait, QueueWait, WaitIsDone, WaitQueTask,
                CloseTask, WgWait, WaitReturns
  <2> QED
    BY <2>1, InvPush, InvClose, QInvStutters DEF PushTask, QueueClose
<1>2. ASSUME NEW w \in setup.workers, Work(w) PROVE QInv'
  <2>1. UNCHANGED qvars
    BY <1>2 DEF Work, WorkerTakes, TaskReturns, WorkerReports, WorkerMarks, WorkerEnds
  <2> QED
    BY <2>1, QInvStutters
<1>3. ASSUME NEW i \in 1..MaxPuts, Timer(i) PROVE QInv'
  <2>1. UNCHANGED qvars
    BY <1>3 DEF Timer, TimerExpires, TimerStops, TimerSends, TimerMarks
  <2> QED
    BY <2>1, QInvStutters
<1> QED
  BY <1>1, <1>2, <1>3, QueueLoop, QueueFeed DEF PoolNext

-----------------------------------------------------------------------------
(* The theorems *)

LEMMA InvInit == Init => QInv /\ PInv
<1> SUFFICES ASSUME Init PROVE QInv /\ PInv
  OBVIOUS
<1> USE DEF Init
<1>1. QInv
  BY QInvInit
<1>2. Feeder \in Goroutines /\ at[Feeder] = "idle" /\ hand[Feeder] = Nil /\ puts = 0
      /\ buffer = <<>> /\ qclosed = FALSE
  BY FeederAssumption DEF QInit, Goroutines
<1>3. PTypeOK
  <2>1. setup \in Setup
    BY SetupsAssumption
  <2>2. job \in [Workers -> Nat]
    BY DEF Nil
  <2> QED
    BY <2>1, <2>2 DEF PTypeOK
<1>4. \A w \in setup.workers : worker[w] = "none"
  BY WorkersFinite, <1>3
<1>5. FeederAt /\ CallerAt
  BY <1>2 DEF FeederAt, CallerAt, Closing, Quiet
<1>6. WorkersAt
  BY <1>4 DEF WorkersAt
<1>7. Counting
  <2>1. AtWork = {}
    BY <1>4 DEF AtWork
  <2> QED
    BY <2>1, FS_EmptySet DEF Counting
<1>8. Accounted
  <2>1. ToSet(task) = {} /\ 1..puts = {}
    BY <1>2, Channel
  <2> QED
    BY <1>4, <2>1 DEF Accounted
<1>9. Reported /\ Failing /\ Waited
  BY <1>4 DEF Reported, Failing, Waited
<1>10. Direct
  BY <1>2 DEF Direct
<1> QED
  BY <1>1, <1>3, <1>5, <1>6, <1>7, <1>8, <1>9, <1>10 DEF PInv, PoolInv

\* A bare queue never takes its users to a panic.
LEMMA DirectNext ==
    ASSUME QInv, Direct, QNext, main' = main
    PROVE  Direct'
<1>1. Feeder \in Goroutines /\ at \in [Goroutines -> Places]
  BY FeederAssumption DEF Goroutines, QInv, QTypeOK
<1>2. ASSUME NEW u \in Goroutines,
             \/ CallPop(u) \/ Pop(u) \/ PopReturns(u) \/ Receive(u) \/ Timeout(u)
             \/ PopChan(u) \/ PopChanSend(u)
      PROVE  at'[Feeder] # "panic"
  <2>1. \E p \in Places \ {"panic"} : at' = [at EXCEPT ![u] = p]
    BY <1>2 DEF CallPop, Pop, PopReturns, Receive, Timeout, PopChan, PopChanSend, Places
  <2> QED
    BY <1>1, <2>1 DEF Direct
<1>3. ASSUME NEW u \in Goroutines, TryPopTimeout(u) PROVE at'[Feeder] # "panic"
  <2>1. \E g \in Goroutines : at' = [at EXCEPT ![u] = "select", ![g] = "pop"]
    BY <1>3 DEF TryPopTimeout, Goroutines
  <2> QED
    BY <1>1, <2>1 DEF Direct
<1>4. ASSUME NEW u \in Goroutines, Sleep(u) \/ TryPop(u) \/ Push \/ Close
      PROVE  at'[Feeder] # "panic"
  BY <1>4 DEF Sleep, TryPop, Push, Close, Direct
<1>5. at'[Feeder] # "panic"
  BY <1>2, <1>3, <1>4 DEF QNext, Goroutines
<1> QED
  BY <1>5 DEF Direct

LEMMA InvNext == QInv /\ PInv /\ [Next]_vars => QInv' /\ PInv'
<1> SUFFICES ASSUME QInv, PInv, [Next]_vars PROVE QInv' /\ PInv'
  OBVIOUS
<1>1. CASE setup.pool /\ PoolNext /\ setup' = setup
  <2>1. PTypeOK /\ PoolInv /\ FeederAt
    BY <1>1 DEF PInv, PoolInv
  <2>2. QInv'
    BY <1>1, <2>1, QueuePool
  <2>3. ASSUME NEW w \in setup.workers, Work(w) PROVE PTypeOK' /\ PoolInv'
    BY <1>1, <2>1, <2>3, PoolWorkerTakes, PoolTaskReturns, PoolWorkerReports,
       PoolWorkerMarks, PoolWorkerEnds DEF Work
  <2>4. PTypeOK' /\ PoolInv'
    BY <1>1, <2>1, <2>3, PoolCaller, PoolLoop, PoolFeed, PoolTimer DEF PoolNext
  <2> QED
    BY <1>1, <2>2, <2>4 DEF PInv
<1>2. CASE ~setup.pool /\ QNext /\ UNCHANGED <<fields, caller, crew>> /\ setup' = setup
  <2>1. PTypeOK /\ Direct
    BY <1>2 DEF PInv
  <2>2. QInv'
    BY <1>2, QInvNext
  <2>3. PTypeOK'
    BY <1>2, <2>1 DEF PTypeOK, fields, crew
  <2>4. Direct'
    BY <1>2, <2>1, DirectNext DEF caller
  <2> QED
    BY <1>2, <2>2, <2>3, <2>4 DEF PInv
<1>3. CASE UNCHANGED vars
  <2>1. QInv'
    BY <1>3, QInvStutters DEF vars
  <2>2. UNCHANGED <<qvars, setup, fields, caller, crew>>
    BY <1>3 DEF vars
  <2>3. CASE setup.pool
    <3>1. PTypeOK' /\ PoolInv'
      BY <2>2, <2>3, Frames DEF PInv, PoolInv, qvars, queue, fields, caller, crew
    <3> QED
      BY <2>1, <2>2, <2>3, <3>1 DEF PInv
  <2>4. CASE ~setup.pool
    <3>1. PTypeOK' /\ Direct'
      BY <2>2, <2>4 DEF PInv, PTypeOK, Direct, qvars, fields, caller, crew
    <3> QED
      BY <2>1, <2>2, <2>4, <3>1 DEF PInv
  <2> QED
    BY <2>3, <2>4
<1> QED
  BY <1>1, <1>2, <1>3 DEF Next

LEMMA InvHolds == Spec => [](QInv /\ PInv)
  BY InvInit, InvNext, PTL DEF Spec

\* The queue loses no value and hands none out twice, whatever pops, timeouts and
\* closes come between (myqueue.go), in a pool or alone.
THEOREM QueueLosesNothing == Spec => []NothingLost
  BY InvHolds, QInvNothingLost, PTL

\* No sleeper on popable is forgotten while there is a value for it (myqueue.go:114,128).
THEOREM NoSleeperForgotten == Spec => []NoLostWakeup
<1>1. QInv => NoLostWakeup
  BY DEF QInv
<1> QED
  BY <1>1, InvHolds, PTL

\* Wait returns without an error only when every accepted task has returned without
\* one, no worker is left, and nothing is ever sent on the closed channel
\* (workpool.go:63-75), for any number of workers and tasks.
THEOREM WaitReturnsDone == Spec => []WaitMeansDone
<1>1. PInv => WaitMeansDone
  BY DEF PInv, PoolInv, Direct, FeederAt, Waited, WaitMeansDone
<1> QED
  BY <1>1, InvHolds, PTL

\* startQueue's mark says where it is, and the WaitGroup counts the workers at work:
\* what waitTask and wg.Wait go by (workpool.go:84-118, 124).
THEOREM MarksAreTrue ==
    Spec => [](setup.pool => FeederAt /\ CallerAt /\ WorkersAt /\ Counting)
<1>1. PInv => (setup.pool => FeederAt /\ CallerAt /\ WorkersAt /\ Counting)
  BY DEF PInv, PoolInv
<1> QED
  BY <1>1, InvHolds, PTL
=============================================================================
