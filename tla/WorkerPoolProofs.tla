-------------------------- MODULE WorkerPoolProofs --------------------------
(***************************************************************************)
(* Proofs about the worker pool, for any callers, channels and limits, any *)
(* number of calls and either kind of channel.                             *)
(*                                                                         *)
(* A worker that waits has exactly one party that may send to it: the list *)
(* of ready channels, a cleaning goroutine, a caller of Serve, or a        *)
(* message already in its channel.  OneSender and NoLostWorker together    *)
(* say so, and are inductive together with the types.  WorkersCounted      *)
(* bounds workersCount from below.                                         *)
(***************************************************************************)
EXTENDS WorkerPool, FiniteSetTheorems, TLAPS

-----------------------------------------------------------------------------
(* Lists of channels *)

\* Taking the first channel off a list without repetition.
LEMMA TakeHead ==
    ASSUME NEW S, NEW list \in Seq(S), list # <<>>, NoRepeat(list)
    PROVE  /\ Head(list) \in S /\ Tail(list) \in Seq(S)
           /\ NoRepeat(Tail(list))
           /\ On(Head(list), list)
           /\ \A c \in S : On(c, Tail(list)) <=> On(c, list) /\ c # Head(list)
<1>1. /\ Len(list) \in Nat /\ Len(list) >= 1
      /\ Head(list) = list[1] /\ Tail(list) \in Seq(S)
      /\ Len(Tail(list)) = Len(list) - 1
      /\ \A i \in 1..(Len(list) - 1) : Tail(list)[i] = list[i + 1]
  OBVIOUS
<1>2. NoRepeat(Tail(list))
  BY <1>1 DEF NoRepeat
<1>3. On(Head(list), list)
  BY <1>1 DEF On
<1>4. ASSUME NEW c \in S PROVE On(c, Tail(list)) <=> On(c, list) /\ c # Head(list)
  <2>1. ASSUME On(c, Tail(list)) PROVE On(c, list) /\ c # Head(list)
    <3>1. PICK i \in 1..(Len(list) - 1) : Tail(list)[i] = c
      BY <1>1, <2>1 DEF On
    <3>2. list[i + 1] = c /\ i + 1 \in 1..Len(list) /\ i + 1 # 1
      BY <1>1, <3>1
    <3> QED
      BY <1>1, <3>2 DEF On, NoRepeat
  <2>2. ASSUME On(c, list), c # Head(list) PROVE On(c, Tail(list))
    <3>1. PICK i \in 1..Len(list) : list[i] = c
      BY <2>2 DEF On
    <3>2. i - 1 \in 1..(Len(list) - 1) /\ Tail(list)[i - 1] = c
      BY <1>1, <2>2, <3>1
    <3> QED
      BY <1>1, <3>2 DEF On
  <2> QED
    BY <2>1, <2>2
<1> QED
  BY <1>1, <1>2, <1>3, <1>4

\* Cutting a list without repetition in two.
LEMMA Cut ==
    ASSUME NEW S, NEW list \in Seq(S), NoRepeat(list), NEW n \in 0..Len(list)
    PROVE  LET front == SubSeq(list, 1, n)
               rest  == SubSeq(list, n + 1, Len(list))
           IN  /\ front \in Seq(S) /\ rest \in Seq(S)
               /\ NoRepeat(front) /\ NoRepeat(rest)
               /\ \A c \in S : On(c, list) <=> On(c, front) \/ On(c, rest)
               /\ \A c \in S : ~(On(c, front) /\ On(c, rest))
<1> DEFINE front == SubSeq(list, 1, n)
           rest  == SubSeq(list, n + 1, Len(list))
<1>1. /\ front \in Seq(S) /\ Len(front) = n
      /\ \A i \in 1..n : front[i] = list[i]
  OBVIOUS
<1>2. /\ rest \in Seq(S) /\ Len(rest) = Len(list) - n
      /\ \A i \in 1..(Len(list) - n) : rest[i] = list[i + n]
  OBVIOUS
<1>3. NoRepeat(front)
  BY <1>1 DEF NoRepeat
<1>4. NoRepeat(rest)
  BY <1>2 DEF NoRepeat
<1> HIDE DEF front, rest
<1>5. ASSUME NEW c \in S PROVE On(c, list) => On(c, front) \/ On(c, rest)
  <2> SUFFICES ASSUME On(c, list) PROVE On(c, front) \/ On(c, rest)
    OBVIOUS
  <2>1. PICK i \in 1..Len(list) : list[i] = c
    BY DEF On
  <2>2. CASE i <= n
    BY <1>1, <2>1, <2>2 DEF On
  <2>3. CASE i > n
    <3>1. i - n \in 1..(Len(list) - n) /\ rest[i - n] = c
      BY <1>2, <2>1, <2>3
    <3> QED
      BY <1>2, <3>1 DEF On
  <2> QED
    BY <2>2, <2>3
<1>6. ASSUME NEW c \in S, On(c, front) PROVE On(c, list)
  <2>1. PICK i \in 1..n : front[i] = c
    BY <1>1, <1>6 DEF On
  <2> QED
    BY <1>1, <2>1 DEF On
<1>7. ASSUME NEW c \in S, On(c, rest) PROVE On(c, list)
  <2>1. PICK i \in 1..(Len(list) - n) : rest[i] = c
    BY <1>2, <1>7 DEF On
  <2>2. i + n \in 1..Len(list) /\ list[i + n] = c
    BY <1>2, <2>1
  <2> QED
    BY <2>2 DEF On
<1>8. ASSUME NEW c \in S, On(c, front), On(c, rest) PROVE FALSE
  <2>1. PICK i \in 1..n : front[i] = c
    BY <1>1, <1>8 DEF On
  <2>2. PICK j \in 1..(Len(list) - n) : rest[j] = c
    BY <1>2, <1>8 DEF On
  <2>3. /\ list[i] = c /\ list[j + n] = c /\ i # j + n
        /\ i \in 1..Len(list) /\ j + n \in 1..Len(list)
    BY <1>1, <1>2, <2>1, <2>2
  <2> QED
    BY <2>3 DEF NoRepeat
<1> QED
  BY <1>1, <1>2, <1>3, <1>4, <1>5, <1>6, <1>7, <1>8 DEF front, rest

\* Taking the last channel off a list without repetition.
LEMMA TakeLast ==
    ASSUME NEW S, NEW list \in Seq(S), list # <<>>, NoRepeat(list)
    PROVE  LET front == SubSeq(list, 1, Len(list) - 1)
               last  == list[Len(list)]
           IN  /\ last \in S /\ front \in Seq(S)
               /\ NoRepeat(front)
               /\ On(last, list)
               /\ \A c \in S : On(c, front) <=> On(c, list) /\ c # last
<1> DEFINE n     == Len(list) - 1
           front == SubSeq(list, 1, n)
           rest  == SubSeq(list, n + 1, Len(list))
           last  == list[Len(list)]
<1>1. n \in 0..Len(list) /\ n + 1 = Len(list) /\ last \in S
  OBVIOUS
<1>2. Len(rest) = 1 /\ rest[1] = last
  OBVIOUS
<1>3. /\ front \in Seq(S) /\ rest \in Seq(S) /\ NoRepeat(front)
      /\ \A c \in S : On(c, list) <=> On(c, front) \/ On(c, rest)
      /\ \A c \in S : ~(On(c, front) /\ On(c, rest))
  BY <1>1, Cut
<1> HIDE DEF front, rest, last
<1>4. \A c \in S : On(c, rest) <=> c = last
  BY <1>2, <1>3 DEF On
<1>5. \A c \in S : On(c, front) <=> On(c, list) /\ c # last
  BY <1>3, <1>4
<1>6. On(last, list)
  BY <1>1, <1>3, <1>4
<1> QED
  BY <1>1, <1>3, <1>5, <1>6 DEF front, last

\* Putting a channel at the end of a list.
LEMMA PutLast ==
    ASSUME NEW S, NEW list \in Seq(S), NoRepeat(list), NEW e \in S, ~On(e, list)
    PROVE  /\ Append(list, e) \in Seq(S)
           /\ NoRepeat(Append(list, e))
           /\ \A c \in S : On(c, Append(list, e)) <=> On(c, list) \/ c = e
<1> DEFINE new == Append(list, e)
<1>1. /\ new \in Seq(S) /\ Len(new) = Len(list) + 1 /\ new[Len(list) + 1] = e
      /\ \A i \in 1..Len(list) : new[i] = list[i]
  OBVIOUS
<1> HIDE DEF new
<1>2. NoRepeat(new)
  BY <1>1 DEF NoRepeat, On
<1>3. \A c \in S : On(c, new) <=> On(c, list) \/ c = e
  BY <1>1 DEF On
<1> QED
  BY <1>1, <1>2, <1>3 DEF new

-----------------------------------------------------------------------------
(* The inductive invariant *)

\* A cleaning goroutine fills its scratch list only when the list is empty, and
\* there is none before its Start.
ScratchDone ==
    \A k \in Cleaners : /\ clean[k] # "send" => scratch[k] = <<>>
                        /\ k > starts => clean[k] = "off"

\* A caller that sends has a channel.
HasChan == \A s \in Callers : serve[s] = "send" => held[s] \in Chans

Owned == OneSender /\ NoLostWorker
Rest  == TypeOK /\ ScratchDone /\ HasChan
Inv   == Rest /\ Owned /\ WorkersCounted

\* The two sets workersCount counts are finite.
LEMMA Counts ==
    /\ IsFiniteSet(LiveSet) /\ Cardinality(LiveSet) \in Nat
    /\ IsFiniteSet(SpawnSet) /\ Cardinality(SpawnSet) \in Nat
<1>1. LiveSet \in SUBSET Chans /\ SpawnSet \in SUBSET Callers
  BY DEF LiveSet, SpawnSet
<1>2. IsFiniteSet(LiveSet) /\ IsFiniteSet(SpawnSet)
  BY <1>1, PoolAssumption, FS_Subset
<1> QED
  BY <1>2, FS_CardinalityType

\* A step that neither makes nor ends a worker keeps the count exact.
LEMMA SameCount ==
    ASSUME WorkersCounted, workersCount' = workersCount,
           \A c \in Chans : worker'[c] \in Live <=> worker[c] \in Live,
           \A s \in Callers : serve'[s] = "spawn" <=> serve[s] = "spawn"
    PROVE  WorkersCounted'
<1>1. LiveSet' = LiveSet
  BY DEF LiveSet
<1>2. SpawnSet' = SpawnSet
  BY DEF SpawnSet
<1> QED
  BY <1>1, <1>2 DEF WorkersCounted

\* A step that touches no list, channel, worker or caller keeps the owners.
LEMMA SameOwners ==
    ASSUME Owned, UNCHANGED <<ready, scratch, worker, ch, serve, held>>
    PROVE  Owned'
  BY DEF Owned, OneSender, NoLostWorker, NoRepeat, On, HeldBy, Full, Waiting, ReadyAlone,
     CleanerAlone, CallerAlone

LEMMA InvInit == Init => Inv
<1> SUFFICES ASSUME Init PROVE Inv
  OBVIOUS
<1>1. TypeOK
  <2>1. /\ ready \in Seq(Chans) /\ scratch \in [Cleaners -> Seq(Chans)]
        /\ clean \in [Cleaners -> {"off", "clean", "send"}]
    BY DEF Init
  <2>2. 0 \in 0..MaxWorkerCount /\ 0 \in 0..MaxStarts /\ 0 \in 0..MaxServes
    BY PoolAssumption
  <2> QED
    BY <2>1, <2>2 DEF Init, TypeOK
<1>2. Owned
  BY DEF Init, Owned, OneSender, NoLostWorker, NoRepeat, On, HeldBy, Full, ReadyAlone,
     CleanerAlone, CallerAlone
<1>3. LiveSet = {} /\ SpawnSet = {}
  BY DEF Init, LiveSet, SpawnSet, Live
<1>4. WorkersCounted
  BY <1>3, FS_EmptySet DEF Init, WorkersCounted
<1>5. ScratchDone /\ HasChan
  BY DEF Init, ScratchDone, HasChan
<1> QED
  BY <1>1, <1>2, <1>4, <1>5 DEF Inv, Rest

-----------------------------------------------------------------------------
(* Start, Stop and the cleaning goroutine *)

\* The steps that only change the control state of Start, Stop, the cleaning
\* goroutines, or the time.
LEMMA ControlStep ==
    ASSUME Inv, \/ Start \/ Stop \/ StopLock \/ StopUnlock
                \/ \E k \in Cleaners : CleanNext(k)
                \/ \E s \in Callers : ServeRefused(s)
                \/ \E c \in Chans : Age(c)
    PROVE  Inv'
<1>1. UNCHANGED <<ready, scratch, worker, ch, serve, held, workersCount>>
  BY DEF Start, Stop, StopLock, StopUnlock, CleanNext, Age, ServeRefused, workers,
     callers, cleaners
<1>2. Owned' /\ WorkersCounted'
  BY <1>1, SameOwners, SameCount DEF Inv
<1>3. Rest'
  <2> USE DEF Inv, Rest, TypeOK, ScratchDone, HasChan, control, workers, callers, cleaners
  <2>1. CASE Start
    <3>1. starts + 1 \in 0..MaxStarts /\ starts + 1 \in Cleaners
      BY <2>1, PoolAssumption DEF Start, Cleaners
    <3>2. TypeOK'
      BY <2>1, <3>1 DEF Start
    <3>3. ScratchDone'
      BY <2>1, <3>1, PoolAssumption DEF Start, Cleaners
    <3> QED
      BY <2>1, <3>2, <3>3 DEF Start
  <2>2. CASE Stop
    <3>1. stopCh \in Cleaners /\ 0 \in 0..MaxStarts
      BY <2>2, PoolAssumption DEF Stop, Cleaners
    <3> QED
      BY <2>2, <3>1 DEF Stop
  <2>3. CASE StopLock
    BY <2>3 DEF StopLock
  <2>4. CASE StopUnlock
    BY <2>4 DEF StopUnlock
  <2>5. ASSUME NEW k \in Cleaners, CleanNext(k) PROVE Rest'
    BY <2>5 DEF CleanNext
  <2>6. ASSUME NEW c \in Chans, Age(c) PROVE Rest'
    BY <2>6 DEF Age
  <2>7. ASSUME NEW s \in Callers, ServeRefused(s) PROVE Rest'
    BY <2>7, PoolAssumption DEF ServeRefused
  <2> QED
    BY <2>1, <2>2, <2>3, <2>4, <2>5, <2>6, <2>7
<1> QED
  BY <1>2, <1>3 DEF Inv

\* Stop sends to the first ready worker.
LEMMA StopSendStep == ASSUME Inv, StopSend PROVE Inv'
<1> DEFINE h == Head(ready)
<1>1. /\ ready \in Seq(Chans) /\ NoRepeat(ready) /\ ready # <<>>
  BY DEF Inv, Rest, TypeOK, Owned, OneSender, StopSend
<1>2. /\ h \in Chans /\ ready' \in Seq(Chans) /\ NoRepeat(ready') /\ On(h, ready)
      /\ \A c \in Chans : On(c, ready') <=> On(c, ready) /\ c # h
  BY <1>1, TakeHead DEF StopSend
<1> HIDE DEF h
<1>3. ch' = [ch EXCEPT ![h] = "nil"]
  BY DEF StopSend, Send, h
<1>4. UNCHANGED <<worker, serve, held, scratch, workersCount>>
  BY DEF StopSend, workers, callers, cleaners
<1>5. Rest'
  BY <1>2, <1>3 DEF Inv, Rest, TypeOK, ScratchDone, HasChan, StopSend, control, workers,
     callers, cleaners
<1>6. ASSUME NEW c \in Chans
      PROVE  /\ ReadyAlone(c)'
             /\ \A k \in Cleaners : CleanerAlone(k, c)'
             /\ \A s \in Callers : CallerAlone(s, c)'
             /\ (Full(c) => worker[c] = "recv")'
  BY <1>2, <1>3, <1>4 DEF Inv, Rest, TypeOK, Owned, OneSender, ReadyAlone, CleanerAlone,
     CallerAlone, Waiting, HeldBy, Full
<1>7. NoLostWorker'
  BY <1>2, <1>3, <1>4 DEF Inv, Rest, TypeOK, Owned, NoLostWorker, HeldBy, Full
<1>8. OneSender'
  BY <1>2, <1>4, <1>6 DEF Inv, Owned, OneSender
<1>9. WorkersCounted'
  BY <1>4, SameCount DEF Inv
<1> QED
  BY <1>5, <1>7, <1>8, <1>9 DEF Inv, Owned

\* clean moves a prefix of the ready channels to its scratch list.
LEMMA CleanTakeStep == ASSUME Inv, NEW k \in Cleaners, CleanTake(k) PROVE Inv'
<1>1. PICK i \in 0..Len(ready) :
        /\ scratch' = [scratch EXCEPT ![k] = SubSeq(ready, 1, i)]
        /\ ready' = SubSeq(ready, i + 1, Len(ready))
  BY DEF CleanTake
<1>2. ready \in Seq(Chans) /\ NoRepeat(ready) /\ scratch \in [Cleaners -> Seq(Chans)]
  BY DEF Inv, Rest, TypeOK, Owned, OneSender
<1>3. /\ scratch'[k] \in Seq(Chans) /\ ready' \in Seq(Chans)
      /\ NoRepeat(scratch'[k]) /\ NoRepeat(ready')
      /\ \A c \in Chans : On(c, ready) <=> On(c, scratch'[k]) \/ On(c, ready')
      /\ \A c \in Chans : ~(On(c, scratch'[k]) /\ On(c, ready'))
  BY <1>1, <1>2, Cut
<1>4. UNCHANGED <<worker, serve, held, ch, workersCount>> /\ scratch[k] = <<>>
  BY DEF Inv, Rest, ScratchDone, CleanTake, workers, callers
<1>5. /\ \A c \in Chans : ~On(c, scratch[k])
      /\ \A l \in Cleaners : l # k => scratch'[l] = scratch[l]
      /\ scratch' \in [Cleaners -> Seq(Chans)]
  BY <1>1, <1>2, <1>3, <1>4 DEF On
<1>6. Rest'
  BY <1>3, <1>5 DEF Inv, Rest, TypeOK, ScratchDone, HasChan, CleanTake, control, workers,
     callers
<1>7. OneSender'
  <2>1. \A l \in Cleaners : NoRepeat(scratch'[l])
    BY <1>3, <1>5 DEF Inv, Owned, OneSender
  <2>2. ASSUME NEW c \in Chans PROVE ReadyAlone(c)' /\ (Full(c) => worker[c] = "recv")'
    BY <1>3, <1>4, <1>5 DEF Inv, Owned, OneSender, ReadyAlone, CleanerAlone, Waiting, HeldBy,
       Full
  <2>3. ASSUME NEW c \in Chans, NEW l \in Cleaners PROVE CleanerAlone(l, c)'
    <3> SUFFICES ASSUME On(c, scratch'[l])
                 PROVE  /\ Waiting(c)
                        /\ \A m \in Cleaners : On(c, scratch'[m]) => m = l
                        /\ \A s \in Callers : ~HeldBy(s, c)
      BY <1>4 DEF CleanerAlone, Waiting, HeldBy, Full
    <3>1. /\ ReadyAlone(c) /\ CleanerAlone(l, c)
          /\ \A m \in Cleaners : m # k => (On(c, scratch'[m]) <=> On(c, scratch[m]))
      BY <1>5 DEF Inv, Owned, OneSender
    <3>2. CASE l = k
      BY <1>3, <3>1, <3>2 DEF ReadyAlone
    <3>3. CASE l # k
      BY <1>3, <3>1, <3>3 DEF ReadyAlone, CleanerAlone
    <3> QED
      BY <3>2, <3>3
  <2>4. ASSUME NEW c \in Chans, NEW s \in Callers PROVE CallerAlone(s, c)'
    BY <1>3, <1>4, <1>5 DEF Inv, Owned, OneSender, ReadyAlone, CleanerAlone, CallerAlone,
       Waiting, HeldBy, Full
  <2> QED
    BY <1>3, <2>1, <2>2, <2>3, <2>4 DEF OneSender
<1>8. NoLostWorker'
  BY <1>3, <1>4, <1>5 DEF Inv, Owned, NoLostWorker, HeldBy, Full
<1>9. WorkersCounted'
  BY <1>4, SameCount DEF Inv
<1> QED
  BY <1>6, <1>7, <1>8, <1>9 DEF Inv, Owned

\* clean sends to the first worker of its scratch list.
LEMMA CleanSendStep == ASSUME Inv, NEW k \in Cleaners, CleanSend(k) PROVE Inv'
<1> DEFINE h == Head(scratch[k])
<1>1. /\ scratch \in [Cleaners -> Seq(Chans)] /\ NoRepeat(scratch[k]) /\ scratch[k] # <<>>
  BY DEF Inv, Rest, TypeOK, Owned, OneSender, CleanSend
<1>2. scratch'[k] = Tail(scratch[k]) /\ \A l \in Cleaners : l # k => scratch'[l] = scratch[l]
  BY <1>1 DEF CleanSend
<1>3. /\ h \in Chans /\ scratch'[k] \in Seq(Chans) /\ NoRepeat(scratch'[k])
      /\ On(h, scratch[k])
      /\ \A c \in Chans : On(c, scratch'[k]) <=> On(c, scratch[k]) /\ c # h
  BY <1>1, <1>2, TakeHead
<1> HIDE DEF h
<1>4. ch' = [ch EXCEPT ![h] = "nil"]
  BY DEF CleanSend, Send, h
<1>5. UNCHANGED <<worker, serve, held, ready, workersCount>>
  BY DEF CleanSend, workers, callers
<1>6. Rest'
  <2>1. scratch' \in [Cleaners -> Seq(Chans)]
    BY <1>1, <1>2, <1>3 DEF CleanSend
  <2> QED
    BY <1>2, <1>3, <1>4, <2>1
       DEF Inv, Rest, TypeOK, ScratchDone, HasChan, CleanSend, control, workers, callers
<1>7. OneSender'
  <2>1. \A l \in Cleaners : NoRepeat(scratch'[l])
    BY <1>2, <1>3 DEF Inv, Owned, OneSender
  <2>2. ASSUME NEW c \in Chans
        PROVE  /\ ReadyAlone(c) /\ \A l \in Cleaners : CleanerAlone(l, c)
               /\ \A l \in Cleaners : On(c, scratch'[l]) => On(c, scratch[l]) /\ c # h
               /\ c # h => ch'[c] = ch[c]
               /\ c = h => ~On(c, ready) /\ Waiting(c)
    <3>1. /\ ReadyAlone(c) /\ \A l \in Cleaners : CleanerAlone(l, c)
          /\ c # h => ch'[c] = ch[c]
      BY <1>4 DEF Inv, Rest, TypeOK, Owned, OneSender
    <3>2. ASSUME NEW l \in Cleaners, On(c, scratch'[l]) PROVE On(c, scratch[l]) /\ c # h
      <4>1. CASE l = k
        BY <1>3, <3>2, <4>1
      <4>2. CASE l # k
        BY <1>2, <1>3, <3>1, <3>2, <4>2 DEF CleanerAlone
      <4> QED
        BY <4>1, <4>2
    <3>3. c = h => ~On(c, ready) /\ Waiting(c)
      BY <1>3, <3>1 DEF ReadyAlone, CleanerAlone
    <3> QED
      BY <3>1, <3>2, <3>3
  <2>3. ASSUME NEW c \in Chans PROVE ReadyAlone(c)' /\ (Full(c) => worker[c] = "recv")'
    <3>1. ReadyAlone(c)'
      BY <1>5, <2>2 DEF ReadyAlone, Waiting, HeldBy, Full
    <3>2. (Full(c) => worker[c] = "recv")'
      BY <1>5, <2>2 DEF Inv, Owned, OneSender, Waiting, Full
    <3> QED
      BY <3>1, <3>2
  <2>4. ASSUME NEW c \in Chans, NEW l \in Cleaners PROVE CleanerAlone(l, c)'
    BY <1>5, <2>2 DEF CleanerAlone, Waiting, HeldBy, Full
  <2>5. ASSUME NEW c \in Chans, NEW s \in Callers PROVE CallerAlone(s, c)'
    <3>1. CallerAlone(s, c)
      BY DEF Inv, Owned, OneSender
    <3> QED
      BY <1>3, <1>5, <2>2, <3>1 DEF CallerAlone, CleanerAlone, Waiting, HeldBy, Full
  <2> QED
    BY <1>5, <2>1, <2>3, <2>4, <2>5 DEF Inv, Owned, OneSender
<1>8. NoLostWorker'
  <2> SUFFICES ASSUME NEW c \in Chans, worker[c] = "recv"
               PROVE  \/ On(c, ready) \/ Full(c)'
                      \/ \E l \in Cleaners : On(c, scratch'[l])
                      \/ \E s \in Callers : HeldBy(s, c)
    BY <1>5 DEF NoLostWorker, HeldBy
  <2>1. CASE c = h
    BY <1>3, <1>4, <2>1 DEF Inv, Rest, TypeOK, Full
  <2>2. CASE c # h
    <3>1. Full(c)' <=> Full(c)
      BY <1>3, <1>4, <2>2 DEF Inv, Rest, TypeOK, Full
    <3>2. \A l \in Cleaners : On(c, scratch[l]) => On(c, scratch'[l])
      BY <1>2, <1>3, <2>2
    <3> QED
      BY <3>1, <3>2 DEF Inv, Owned, NoLostWorker
  <2> QED
    BY <2>1, <2>2
<1>9. WorkersCounted'
  BY <1>5, SameCount DEF Inv
<1> QED
  BY <1>6, <1>7, <1>8, <1>9 DEF Inv, Owned

-----------------------------------------------------------------------------
(* Serve *)

\* getCh takes the last ready channel.
LEMMA ServeReadyStep == ASSUME Inv, NEW s \in Callers, ServeReady(s) PROVE Inv'
<1> DEFINE e == ready[Len(ready)]
<1>1. ready \in Seq(Chans) /\ NoRepeat(ready) /\ ready # <<>>
  BY DEF Inv, Rest, TypeOK, Owned, OneSender, ServeReady
<1>2. /\ e \in Chans /\ ready' \in Seq(Chans) /\ NoRepeat(ready') /\ On(e, ready)
      /\ \A c \in Chans : On(c, ready') <=> On(c, ready) /\ c # e
  BY <1>1, TakeLast DEF ServeReady
<1>3. held' = [held EXCEPT ![s] = e] /\ serve' = [serve EXCEPT ![s] = "send"]
  BY DEF ServeReady
<1> HIDE DEF e
<1>4. UNCHANGED <<worker, ch, scratch, workersCount>> /\ serve[s] = "idle"
  BY DEF ServeReady, workers, cleaners
<1>5. Rest'
  BY <1>2, <1>3, PoolAssumption
     DEF Inv, Rest, TypeOK, ScratchDone, HasChan, ServeReady, control, workers, cleaners
<1>6. ASSUME NEW c \in Chans, NEW r \in Callers
      PROVE  HeldBy(r, c)' <=> IF r = s THEN c = e ELSE HeldBy(r, c)
  BY <1>3 DEF Inv, Rest, TypeOK, HeldBy
<1>7. ASSUME NEW c \in Chans PROVE ~HeldBy(s, c)
  BY <1>4 DEF HeldBy
<1>8. ReadyAlone(e)
  BY <1>2 DEF Inv, Owned, OneSender
<1>9. OneSender'
  <2>1. ASSUME NEW c \in Chans PROVE ReadyAlone(c)' /\ (Full(c) => worker[c] = "recv")'
    <3>1. ReadyAlone(c) /\ (Full(c) => worker[c] = "recv")
      BY DEF Inv, Owned, OneSender
    <3> QED
      BY <1>2, <1>4, <1>6, <3>1 DEF ReadyAlone, Waiting, Full
  <2>2. ASSUME NEW c \in Chans, NEW k \in Cleaners PROVE CleanerAlone(k, c)'
    <3>1. CleanerAlone(k, c)
      BY DEF Inv, Owned, OneSender
    <3> QED
      BY <1>2, <1>4, <1>6, <1>8, <3>1 DEF CleanerAlone, ReadyAlone, Waiting, Full
  <2>3. ASSUME NEW c \in Chans, NEW r \in Callers PROVE CallerAlone(r, c)'
    <3>1. CallerAlone(r, c)
      BY DEF Inv, Owned, OneSender
    <3> QED
      BY <1>2, <1>4, <1>6, <1>8, <3>1 DEF CallerAlone, ReadyAlone, Waiting, Full
  <2> QED
    BY <1>2, <1>4, <2>1, <2>2, <2>3 DEF Inv, Owned, OneSender
<1>10. NoLostWorker'
  BY <1>2, <1>4, <1>6, <1>7 DEF Inv, Owned, NoLostWorker, Full
<1>11. WorkersCounted'
  BY <1>3, <1>4, SameCount DEF Inv, Rest, TypeOK
<1> QED
  BY <1>5, <1>9, <1>10, <1>11 DEF Inv, Owned

\* getCh counts a worker that is to be created.
LEMMA ServeNewStep == ASSUME Inv, NEW s \in Callers, ServeNew(s) PROVE Inv'
<1>1. /\ UNCHANGED <<ready, scratch, worker, ch, held>>
      /\ workersCount' = workersCount + 1 /\ workersCount < MaxWorkerCount
      /\ serve[s] = "idle" /\ serve' = [serve EXCEPT ![s] = "spawn"]
  BY DEF ServeNew, cleaners
<1>2. \A r \in Callers : \A c : HeldBy(r, c)' <=> HeldBy(r, c)
  BY <1>1 DEF Inv, Rest, TypeOK, HeldBy
<1>3. Owned'
  BY <1>1, <1>2 DEF Inv, Owned, OneSender, NoLostWorker, ReadyAlone, CleanerAlone,
     CallerAlone, Waiting, Full
<1>4. Rest'
  BY <1>1, PoolAssumption
     DEF Inv, Rest, TypeOK, ScratchDone, HasChan, ServeNew, control, cleaners
<1>5. LiveSet' = LiveSet /\ SpawnSet' = SpawnSet \cup {s} /\ s \notin SpawnSet
  BY <1>1 DEF Inv, Rest, TypeOK, LiveSet, SpawnSet
<1>6. Cardinality(SpawnSet') = Cardinality(SpawnSet) + 1
  BY <1>5, Counts, FS_AddElement
<1>7. WorkersCounted'
  BY <1>1, <1>5, <1>6, Counts DEF Inv, Rest, TypeOK, WorkersCounted
<1> QED
  BY <1>3, <1>4, <1>7 DEF Inv


\* The rest of getCh: a channel without a worker gets one.
LEMMA SpawnStep == ASSUME Inv, NEW s \in Callers, Spawn(s) PROVE Inv'
<1>1. PICK e \in Chans : /\ worker[e] = "none"
                         /\ worker' = [worker EXCEPT ![e] = "recv"]
                         /\ held' = [held EXCEPT ![s] = e]
  BY DEF Spawn
<1>2. /\ UNCHANGED <<ready, scratch, ch, workersCount>>
      /\ serve[s] = "spawn" /\ serve' = [serve EXCEPT ![s] = "send"]
  BY DEF Spawn, cleaners
<1>3. Rest'
  BY <1>1, <1>2 DEF Inv, Rest, TypeOK, ScratchDone, HasChan, Spawn, control, cleaners, Live
<1>4. ASSUME NEW c \in Chans, NEW r \in Callers
      PROVE  HeldBy(r, c)' <=> IF r = s THEN c = e ELSE HeldBy(r, c)
  BY <1>1, <1>2 DEF Inv, Rest, TypeOK, HeldBy
<1>5. /\ ~HeldBy(s, e) /\ ~On(e, ready) /\ ~Full(e)
      /\ \A k \in Cleaners : ~On(e, scratch[k])
      /\ \A r \in Callers : ~HeldBy(r, e)
  BY <1>1 DEF Inv, Owned, OneSender, ReadyAlone, CleanerAlone, CallerAlone, Waiting
<1>6. \A c \in Chans : worker'[c] = IF c = e THEN "recv" ELSE worker[c]
  BY <1>1 DEF Inv, Rest, TypeOK
<1>7. OneSender'
  <2>1. ASSUME NEW c \in Chans PROVE ReadyAlone(c)' /\ (Full(c) => worker[c] = "recv")'
    <3>1. ReadyAlone(c) /\ (Full(c) => worker[c] = "recv")
      BY DEF Inv, Owned, OneSender
    <3> QED
      BY <1>2, <1>4, <1>5, <1>6, <3>1 DEF ReadyAlone, Waiting, Full
  <2>2. ASSUME NEW c \in Chans, NEW k \in Cleaners PROVE CleanerAlone(k, c)'
    <3>1. CleanerAlone(k, c)
      BY DEF Inv, Owned, OneSender
    <3> QED
      BY <1>2, <1>4, <1>5, <1>6, <3>1 DEF CleanerAlone, Waiting, Full
  <2>3. ASSUME NEW c \in Chans, NEW r \in Callers PROVE CallerAlone(r, c)'
    <3>1. CallerAlone(r, c)
      BY DEF Inv, Owned, OneSender
    <3> QED
      BY <1>2, <1>4, <1>5, <1>6, <3>1 DEF CallerAlone, Waiting, Full
  <2> QED
    BY <1>2, <2>1, <2>2, <2>3 DEF Inv, Owned, OneSender
<1>8. \A c : ~HeldBy(s, c)
  BY <1>2 DEF HeldBy
<1>9. NoLostWorker'
  BY <1>2, <1>4, <1>6, <1>8 DEF Inv, Owned, NoLostWorker, Full
<1>10. WorkersCounted'
  <2>1. LiveSet' = LiveSet \cup {e} /\ e \notin LiveSet
    BY <1>1, <1>6 DEF LiveSet, Live
  <2>2. SpawnSet' = SpawnSet \ {s} /\ s \in SpawnSet
    BY <1>2 DEF Inv, Rest, TypeOK, SpawnSet
  <2>3. Cardinality(LiveSet') = Cardinality(LiveSet) + 1
    BY <2>1, Counts, FS_AddElement
  <2>4. Cardinality(SpawnSet') = Cardinality(SpawnSet) - 1
    BY <2>2, Counts, FS_RemoveElement
  <2> QED
    BY <1>2, <2>3, <2>4, Counts DEF Inv, Rest, TypeOK, WorkersCounted
<1> QED
  BY <1>3, <1>7, <1>9, <1>10 DEF Inv, Owned

\* Serve sends the task.
LEMMA ServeSendStep == ASSUME Inv, NEW s \in Callers, ServeSend(s) PROVE Inv'
<1> DEFINE h == held[s]
<1>1. /\ UNCHANGED <<ready, scratch, worker, workersCount>>
      /\ serve[s] = "send" /\ serve' = [serve EXCEPT ![s] = "idle"]
      /\ held' = [held EXCEPT ![s] = NoChan]
      /\ h \in Chans /\ ch' = [ch EXCEPT ![h] = "task"]
  BY DEF Inv, Rest, HasChan, ServeSend, Send, workers, cleaners
<1>2. HeldBy(s, h) /\ CallerAlone(s, h) /\ ReadyAlone(h)
      /\ \A k \in Cleaners : CleanerAlone(k, h)
  BY <1>1 DEF Inv, Owned, OneSender, HeldBy
<1> HIDE DEF h
<1>3. Rest'
  BY <1>1 DEF Inv, Rest, TypeOK, ScratchDone, HasChan, ServeSend, control, workers, cleaners
<1>4. ASSUME NEW c \in Chans, NEW r \in Callers
      PROVE  HeldBy(r, c)' <=> r # s /\ HeldBy(r, c)
  BY <1>1 DEF Inv, Rest, TypeOK, HeldBy
<1>5. \A c \in Chans : ch'[c] = IF c = h THEN "task" ELSE ch[c]
  BY <1>1 DEF Inv, Rest, TypeOK
<1>6. \A c \in Chans : HeldBy(s, c) => c = h
  BY DEF HeldBy, h
<1>7. /\ Waiting(h) /\ ~On(h, ready) /\ \A k \in Cleaners : ~On(h, scratch[k])
      /\ \A r \in Callers : r # s => ~HeldBy(r, h)
  BY <1>2 DEF CallerAlone, ReadyAlone, CleanerAlone
<1>8. OneSender'
  <2>1. ASSUME NEW c \in Chans PROVE ReadyAlone(c)' /\ (Full(c) => worker[c] = "recv")'
    <3>1. ReadyAlone(c) /\ (Full(c) => worker[c] = "recv")
      BY DEF Inv, Owned, OneSender
    <3> QED
      BY <1>1, <1>4, <1>5, <1>7, <3>1 DEF ReadyAlone, Waiting, Full
  <2>2. ASSUME NEW c \in Chans, NEW k \in Cleaners PROVE CleanerAlone(k, c)'
    <3>1. CleanerAlone(k, c)
      BY DEF Inv, Owned, OneSender
    <3> QED
      BY <1>1, <1>4, <1>5, <1>7, <3>1 DEF CleanerAlone, Waiting, Full
  <2>3. ASSUME NEW c \in Chans, NEW r \in Callers PROVE CallerAlone(r, c)'
    <3>1. CallerAlone(r, c)
      BY DEF Inv, Owned, OneSender
    <3> QED
      BY <1>1, <1>4, <1>5, <1>7, <3>1 DEF CallerAlone, Waiting, Full
  <2> QED
    BY <1>1, <2>1, <2>2, <2>3 DEF Inv, Owned, OneSender
<1>9. NoLostWorker'
  BY <1>1, <1>4, <1>5, <1>6 DEF Inv, Owned, NoLostWorker, Full
<1>10. WorkersCounted'
  BY <1>1, SameCount DEF Inv, Rest, TypeOK
<1> QED
  BY <1>3, <1>8, <1>9, <1>10 DEF Inv, Owned

-----------------------------------------------------------------------------
(* The workers *)

\* Nobody may send to a worker that is not receiving.
LEMMA BusyAlone ==
    ASSUME Inv, NEW e \in Chans, worker[e] # "recv"
    PROVE  /\ ~Full(e) /\ ~On(e, ready)
           /\ \A k \in Cleaners : ~On(e, scratch[k])
           /\ \A s \in Callers : ~HeldBy(s, e)
  BY DEF Inv, Owned, OneSender, ReadyAlone, CleanerAlone, CallerAlone, Waiting

\* Moving a worker nobody may send to, and that does not come to wait, keeps
\* the owners.
LEMMA BusyMoves ==
    ASSUME Inv, NEW e \in Chans, NEW pc,
           ~On(e, ready), \A k \in Cleaners : ~On(e, scratch[k]),
           \A s \in Callers : ~HeldBy(s, e), ~Full(e)', pc # "recv",
           worker' = [worker EXCEPT ![e] = pc],
           \A c \in Chans : c # e => ch'[c] = ch[c],
           UNCHANGED <<ready, scratch, serve, held>>
    PROVE  Owned'
<1>1. \A c \in Chans : worker'[c] = IF c = e THEN pc ELSE worker[c]
  BY DEF Inv, Rest, TypeOK
<1>2. \A r \in Callers : \A c : HeldBy(r, c)' <=> HeldBy(r, c)
  BY DEF HeldBy
<1>3. ASSUME NEW c \in Chans, c # e PROVE (Full(c)' <=> Full(c)) /\ (Waiting(c)' <=> Waiting(c))
  BY <1>1, <1>3 DEF Full, Waiting
<1>4. ASSUME NEW c \in Chans PROVE ReadyAlone(c)' /\ (Full(c) => worker[c] = "recv")'
  <2>1. ReadyAlone(c) /\ (Full(c) => worker[c] = "recv")
    BY DEF Inv, Owned, OneSender
  <2> QED
    BY <1>1, <1>2, <1>3, <2>1 DEF ReadyAlone
<1>5. ASSUME NEW c \in Chans, NEW k \in Cleaners PROVE CleanerAlone(k, c)'
  <2>1. CleanerAlone(k, c)
    BY DEF Inv, Owned, OneSender
  <2> QED
    BY <1>2, <1>3, <2>1 DEF CleanerAlone
<1>6. ASSUME NEW c \in Chans, NEW r \in Callers PROVE CallerAlone(r, c)'
  <2>1. CallerAlone(r, c)
    BY DEF Inv, Owned, OneSender
  <2> QED
    BY <1>2, <1>3, <2>1 DEF CallerAlone
<1>7. OneSender'
  BY <1>4, <1>5, <1>6 DEF Inv, Owned, OneSender
<1>8. NoLostWorker'
  BY <1>1, <1>2, <1>3 DEF Inv, Owned, NoLostWorker
<1> QED
  BY <1>7, <1>8 DEF Owned

\* A worker receives; nobody else may send to it.
LEMMA RecvStep == ASSUME Inv, NEW e \in Chans, Recv(e) PROVE Inv'
<1>1. /\ worker[e] = "recv" /\ Full(e)
      /\ UNCHANGED <<ready, scratch, serve, held, workersCount>>
  BY DEF Recv, Full, callers, cleaners
<1>2. PICK pc \in {"leave", "work"} : worker' = [worker EXCEPT ![e] = pc]
  BY DEF Recv
<1>3. /\ ~On(e, ready) /\ \A k \in Cleaners : ~On(e, scratch[k])
      /\ \A s \in Callers : ~HeldBy(s, e)
  BY <1>1 DEF Inv, Owned, OneSender, ReadyAlone, CleanerAlone, CallerAlone, Waiting
<1>4. ~Full(e)' /\ \A c \in Chans : c # e => ch'[c] = ch[c]
  BY DEF Inv, Rest, TypeOK, Recv, Full
<1>5. Owned'
  BY <1>1, <1>2, <1>3, <1>4, BusyMoves
<1>6. Rest'
  BY <1>1, <1>2
     DEF Inv, Rest, TypeOK, ScratchDone, HasChan, Recv, Live, control, callers, cleaners
<1>7. WorkersCounted'
  BY <1>1, <1>2, SameCount DEF Inv, Rest, TypeOK, Live
<1> QED
  BY <1>5, <1>6, <1>7 DEF Inv

\* A worker that has served its task, or has put its channel into the pool.
LEMMA WorkPutStep == ASSUME Inv, NEW e \in Chans, Work(e) \/ Put(e) PROVE Inv'
<1>1. /\ worker[e] # "recv"
      /\ UNCHANGED <<ready, scratch, serve, held, workersCount, ch>>
  BY DEF Work, Put, callers, cleaners
<1>2. PICK pc \in {"release", "none"} :
        /\ worker' = [worker EXCEPT ![e] = pc]
        /\ pc \in Live <=> worker[e] \in Live
  BY DEF Work, Put, Live
<1>3. ~Full(e)'
  BY <1>1, BusyAlone DEF Full
<1>4. Owned'
  BY <1>1, <1>2, <1>3, BusyAlone, BusyMoves
<1>5. Rest'
  <2> USE DEF Inv, Rest, TypeOK, ScratchDone, HasChan, Live, control, callers, cleaners
  <2>1. CASE Work(e)
    BY <2>1 DEF Work
  <2>2. CASE Put(e)
    BY <2>2 DEF Put
  <2> QED
    BY <2>1, <2>2
<1>6. WorkersCounted'
  BY <1>1, <1>2, SameCount DEF Inv, Rest, TypeOK
<1> QED
  BY <1>4, <1>5, <1>6 DEF Inv

\* A worker leaves and gives its place back.
LEMMA LeaveStep == ASSUME Inv, NEW e \in Chans, Leave(e) PROVE Inv'
<1>1. /\ worker[e] = "leave" /\ worker' = [worker EXCEPT ![e] = "put"]
      /\ workersCount' = workersCount - 1
      /\ UNCHANGED <<ready, scratch, serve, held, ch>>
  BY DEF Leave, callers, cleaners
<1>2. ~Full(e)'
  BY <1>1, BusyAlone DEF Full
<1>3. Owned'
  BY <1>1, <1>2, BusyAlone, BusyMoves
<1>4. LiveSet' = LiveSet \ {e} /\ e \in LiveSet /\ SpawnSet' = SpawnSet
  BY <1>1 DEF Inv, Rest, TypeOK, LiveSet, SpawnSet, Live
<1>5. Cardinality(LiveSet') = Cardinality(LiveSet) - 1 /\ Cardinality(LiveSet) >= 1
  BY <1>4, Counts, FS_RemoveElement, FS_EmptySet
<1>6. WorkersCounted' /\ workersCount >= 1
  BY <1>1, <1>4, <1>5, Counts DEF Inv, Rest, TypeOK, WorkersCounted
<1>7. Rest'
  BY <1>1, <1>6, PoolAssumption
     DEF Inv, Rest, TypeOK, ScratchDone, HasChan, Leave, Live, control, callers, cleaners
<1> QED
  BY <1>3, <1>6, <1>7 DEF Inv

\* A worker that is done lists its channel, or leaves a stopped pool.
LEMMA ReleaseStep == ASSUME Inv, NEW e \in Chans, Release(e) PROVE Inv'
<1>1. /\ worker[e] = "release"
      /\ UNCHANGED <<scratch, serve, held, ch, workersCount>>
  BY DEF Release, callers, cleaners
<1>2. /\ ~Full(e) /\ ~On(e, ready)
      /\ \A k \in Cleaners : ~On(e, scratch[k])
      /\ \A s \in Callers : ~HeldBy(s, e)
  BY <1>1, BusyAlone
<1>3. CASE mustStop
  <2>1. worker' = [worker EXCEPT ![e] = "leave"] /\ UNCHANGED ready
    BY <1>3 DEF Release
  <2>2. ~Full(e)'
    BY <1>1, <1>2 DEF Full
  <2>3. Owned'
    BY <1>1, <1>2, <2>1, <2>2, BusyMoves
  <2>4. Rest'
    BY <2>1
       DEF Inv, Rest, TypeOK, ScratchDone, HasChan, Release, Live, control, callers, cleaners
  <2>5. WorkersCounted'
    BY <1>1, <2>1, SameCount DEF Inv, Rest, TypeOK, Live
  <2> QED
    BY <2>3, <2>4, <2>5 DEF Inv
<1>4. CASE ~mustStop
  <2>1. worker' = [worker EXCEPT ![e] = "recv"] /\ ready' = Append(ready, e)
    BY <1>4 DEF Release
  <2>2. /\ ready' \in Seq(Chans) /\ NoRepeat(ready')
        /\ \A c \in Chans : On(c, ready') <=> On(c, ready) \/ c = e
    BY <1>2, <2>1, PutLast DEF Inv, Rest, TypeOK, Owned, OneSender
  <2>3. \A c \in Chans : worker'[c] = IF c = e THEN "recv" ELSE worker[c]
    BY <2>1 DEF Inv, Rest, TypeOK
  <2>4. ASSUME NEW c \in Chans
        PROVE  /\ Full(c)' <=> Full(c)
               /\ Waiting(c)' <=> Waiting(c) \/ c = e
               /\ \A r \in Callers : HeldBy(r, c)' <=> HeldBy(r, c)
    BY <1>1, <1>2, <2>3 DEF Full, Waiting, HeldBy
  <2>5. ASSUME NEW c \in Chans PROVE ReadyAlone(c)' /\ (Full(c) => worker[c] = "recv")'
    <3>1. ReadyAlone(c) /\ (Full(c) => worker[c] = "recv")
      BY DEF Inv, Owned, OneSender
    <3> QED
      BY <1>1, <1>2, <2>2, <2>3, <2>4, <3>1 DEF ReadyAlone
  <2>6. ASSUME NEW c \in Chans, NEW k \in Cleaners PROVE CleanerAlone(k, c)'
    <3>1. CleanerAlone(k, c)
      BY DEF Inv, Owned, OneSender
    <3> QED
      BY <1>1, <2>4, <3>1 DEF CleanerAlone
  <2>7. ASSUME NEW c \in Chans, NEW r \in Callers PROVE CallerAlone(r, c)'
    <3>1. CallerAlone(r, c)
      BY DEF Inv, Owned, OneSender
    <3> QED
      BY <2>4, <3>1 DEF CallerAlone
  <2>8. OneSender'
    BY <1>1, <2>2, <2>5, <2>6, <2>7 DEF Inv, Owned, OneSender
  <2>9. NoLostWorker'
    BY <1>1, <2>2, <2>3, <2>4 DEF Inv, Owned, NoLostWorker
  <2>10. Rest'
    BY <2>1, <2>2
       DEF Inv, Rest, TypeOK, ScratchDone, HasChan, Release, Live, control, callers, cleaners
  <2>11. WorkersCounted'
    BY <1>1, <2>3, SameCount DEF Inv, Live
  <2> QED
    BY <2>8, <2>9, <2>10, <2>11 DEF Inv, Owned
<1> QED
  BY <1>3, <1>4

-----------------------------------------------------------------------------
(* The theorems *)

LEMMA InvStep == Inv /\ [Next]_vars => Inv'
<1> SUFFICES ASSUME Inv, [Next]_vars PROVE Inv'
  OBVIOUS
<1>1. CASE Start \/ Stop \/ StopStep
  BY <1>1, ControlStep, StopSendStep DEF StopStep
<1>2. ASSUME NEW k \in Cleaners, CleanStep(k) PROVE Inv'
  BY <1>2, ControlStep, CleanTakeStep, CleanSendStep DEF CleanStep
<1>3. ASSUME NEW s \in Callers, Serve(s) \/ ServeStep(s) PROVE Inv'
  BY <1>3, ControlStep, ServeReadyStep, ServeNewStep, SpawnStep, ServeSendStep
     DEF Serve, ServeStep
<1>4. ASSUME NEW c \in Chans, WorkerStep(c) \/ Age(c) PROVE Inv'
  BY <1>4, ControlStep, RecvStep, WorkPutStep, ReleaseStep, LeaveStep DEF WorkerStep
<1>5. CASE UNCHANGED vars
  <2>1. Owned' /\ WorkersCounted'
    BY <1>5, SameOwners, SameCount DEF Inv, vars
  <2>2. Rest'
    BY <1>5 DEF Inv, Rest, TypeOK, ScratchDone, HasChan, vars
  <2> QED
    BY <2>1, <2>2 DEF Inv
<1> QED
  BY <1>1, <1>2, <1>3, <1>4, <1>5 DEF Next

LEMMA InvAlways == Spec => []Inv
  BY InvInit, InvStep, PTL DEF Spec

\* Whatever the limits and the calls: the limit on workers is kept and the
\* counter never goes below zero (worker_pool.go:157-160, 216).
THEOREM TypeCorrect == Spec => []TypeOK
<1>1. Inv => TypeOK
  BY DEF Inv, Rest
<1> QED
  BY <1>1, InvAlways, PTL

\* No send of Serve, clean or Stop ever meets a worker that is not waiting for
\* it, so none can block for ever (worker_pool.go:76, 121, 131).
THEOREM OneSenderAlways == Spec => []OneSender
<1>1. Inv => OneSender
  BY DEF Inv, Owned
<1> QED
  BY <1>1, InvAlways, PTL

\* No waiting worker is forgotten (worker_pool.go:187-218).
THEOREM NoWorkerLost == Spec => []NoLostWorker
<1>1. Inv => NoLostWorker
  BY DEF Inv, Owned
<1> QED
  BY <1>1, InvAlways, PTL

\* The counter is exact (worker_pool.go:159, 216).
THEOREM CountExact == Spec => []WorkersCounted
<1>1. Inv => WorkersCounted
  BY DEF Inv
<1> QED
  BY <1>1, InvAlways, PTL

=============================================================================
