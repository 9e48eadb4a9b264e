----------------------------- MODULE WorkerPool -----------------------------
(***************************************************************************)
(* The worker pool of worker_pool.go: callers of Serve, the goroutine that *)
(* cleans idle workers, the caller of Start and Stop, and the workers,     *)
(* each bound to its workerChan.                                           *)
(*                                                                         *)
(* What is done under wp.lock is one step, except for Stop, which sends on *)
(* the channels of the ready workers while it holds the lock.              *)
(***************************************************************************)
EXTENDS Integers, Sequences, FiniteSets

CONSTANTS
    Callers,          \* the goroutines that call Serve
    Chans,            \* the workerChans there may be
    NoChan,           \* nil
    MaxWorkerCount,
    MaxServes,        \* bound: calls of Serve
    MaxStarts         \* bound: calls of Start

ASSUME PoolAssumption ==
    /\ IsFiniteSet(Callers) /\ IsFiniteSet(Chans) /\ NoChan \notin Chans
    /\ MaxWorkerCount \in Nat /\ MaxServes \in Nat /\ MaxStarts \in Nat

VARIABLES
    ready,         \* the channels of idle workers, the last used at the end
    workersCount,
    mustStop,
    stopCh,        \* 0 when nil, otherwise the number of the Start that made it
    starts,        \* the number of calls of Start
    closed,        \* the stop channels that are closed
    chanCap,       \* workerChanCap2
    ch,            \* what is in the channel of each workerChan
    worker,        \* where the worker of a channel is; "none": none, or pooled
    old,           \* channels unused for longer than MaxIdleWorkerDuration
    serve, held,   \* where a caller of Serve is, and the channel it got
    clean, scratch,\* where the goroutine of a Start is, and what it is to stop
    stop,          \* where Stop is
    serves

vars == <<ready, workersCount, mustStop, stopCh, starts, closed, chanCap, ch, worker,
          old, serve, held, clean, scratch, stop, serves>>

Cleaners == 1..MaxStarts
Live     == {"recv", "work", "release", "leave"}   \* counted in workersCount

TypeOK ==
    /\ ready \in Seq(Chans)
    /\ workersCount \in 0..MaxWorkerCount
    /\ mustStop \in BOOLEAN
    /\ stopCh \in 0..MaxStarts /\ starts \in 0..MaxStarts
    /\ closed \subseteq Cleaners
    /\ chanCap \in {0, 1}
    /\ ch \in [Chans -> {"empty", "task", "nil"}]
    /\ worker \in [Chans -> Live \cup {"none", "put"}]
    /\ old \subseteq Chans
    /\ serve \in [Callers -> {"idle", "spawn", "send"}]
    /\ held \in [Callers -> Chans \cup {NoChan}]
    /\ clean \in [Cleaners -> {"off", "clean", "send"}]
    /\ scratch \in [Cleaners -> Seq(Chans)]
    /\ stop \in {"idle", "lock", "send"}
    /\ serves \in 0..MaxServes

Init ==
    /\ ready = <<>> /\ workersCount = 0 /\ mustStop = FALSE
    /\ stopCh = 0 /\ starts = 0 /\ closed = {}
    /\ chanCap \in {0, 1}
    /\ ch = [c \in Chans |-> "empty"]
    /\ worker = [c \in Chans |-> "none"]
    /\ old = {}
    /\ serve = [s \in Callers |-> "idle"] /\ held = [s \in Callers |-> NoChan]
    /\ clean = [k \in Cleaners |-> "off"] /\ scratch = [k \in Cleaners |-> <<>>]
    /\ stop = "idle" /\ serves = 0

control  == <<stopCh, starts, closed, stop>>
callers  == <<serve, held, serves>>
cleaners == <<clean, scratch>>
workers  == <<worker, old, workersCount>>

LockFree == stop # "send"

\* A send on c does not block: there is room, or, without a buffer, the worker
\* is receiving.
CanSend(c) == ch[c] = "empty" /\ (chanCap = 0 => worker[c] = "recv")

Send(c, m) == CanSend(c) /\ ch' = [ch EXCEPT ![c] = m]

On(c, list)    == \E i \in DOMAIN list : list[i] = c
NoRepeat(list) == \A i, j \in DOMAIN list : list[i] = list[j] => i = j

-----------------------------------------------------------------------------
(* Start, Stop and the cleaning goroutine *)

Start ==
    /\ stop = "idle" /\ stopCh = 0
    /\ starts < MaxStarts
    /\ starts' = starts + 1
    /\ stopCh' = starts + 1
    /\ clean' = [clean EXCEPT ![starts + 1] = "clean"]
    /\ UNCHANGED <<ready, workers, mustStop, closed, chanCap, ch, callers, scratch, stop>>

\* Stop closes the channel and goes on to take the lock.
Stop ==
    /\ stop = "idle" /\ stopCh # 0
    /\ closed' = closed \cup {stopCh}
    /\ stopCh' = 0
    /\ stop' = "lock"
    /\ UNCHANGED <<ready, workers, mustStop, starts, chanCap, ch, callers, cleaners>>

StopLock ==
    /\ stop = "lock"
    /\ stop' = "send"
    /\ UNCHANGED <<ready, workers, mustStop, stopCh, starts, closed, chanCap, ch, callers,
                   cleaners>>

StopSend ==
    /\ stop = "send"
    /\ ready # <<>>
    /\ Send(Head(ready), "nil")
    /\ ready' = Tail(ready)
    /\ UNCHANGED <<workers, mustStop, control, chanCap, callers, cleaners>>

StopUnlock ==
    /\ stop = "send"
    /\ ready = <<>>
    /\ mustStop' = TRUE
    /\ stop' = "idle"
    /\ UNCHANGED <<ready, workers, stopCh, starts, closed, chanCap, ch, callers, cleaners>>

\* i is the length of the prefix of ready that was not used for too long.
Obsolete(i) ==
    /\ \A j \in 1..i : ready[j] \in old
    /\ i < Len(ready) => ready[i + 1] \notin old

\* Fault: the obsolete channels also stay in ready.
CleanTakeCopy(k) ==
    /\ clean[k] = "clean" /\ LockFree
    /\ \E i \in 0..Len(ready) :
          /\ Obsolete(i)
          /\ scratch' = [scratch EXCEPT ![k] = SubSeq(ready, 1, i)]
    /\ clean' = [clean EXCEPT ![k] = "send"]
    /\ UNCHANGED <<ready, workers, mustStop, control, chanCap, ch, callers>>

\* Fault: the last obsolete channel is dropped.
CleanTakeDrop(k) ==
    /\ clean[k] = "clean" /\ LockFree
    /\ \E i \in 0..Len(ready) :
          /\ Obsolete(i)
          /\ scratch' = [scratch EXCEPT ![k] = SubSeq(ready, 1, i - 1)]
          /\ ready' = SubSeq(ready, i + 1, Len(ready))
    /\ clean' = [clean EXCEPT ![k] = "send"]
    /\ UNCHANGED <<workers, mustStop, control, chanCap, ch, callers>>

\* clean, under the lock: move the obsolete channels to scratch.
CleanTake(k) ==
    /\ clean[k] = "clean" /\ LockFree
    /\ \E i \in 0..Len(ready) :
          /\ Obsolete(i)
          /\ scratch' = [scratch EXCEPT ![k] = SubSeq(ready, 1, i)]
          /\ ready' = SubSeq(ready, i + 1, Len(ready))
    /\ clean' = [clean EXCEPT ![k] = "send"]
    /\ UNCHANGED <<workers, mustStop, control, chanCap, ch, callers>>

\* clean, after the lock: tell each obsolete worker to stop.
CleanSend(k) ==
    /\ clean[k] = "send" /\ scratch[k] # <<>>
    /\ Send(Head(scratch[k]), "nil")
    /\ scratch' = [scratch EXCEPT ![k] = Tail(scratch[k])]
    /\ UNCHANGED <<ready, workers, mustStop, control, chanCap, callers, clean>>

\* The select of the goroutine: return, or sleep and clean again.
CleanNext(k) ==
    /\ clean[k] = "send" /\ scratch[k] = <<>>
    /\ clean' = [clean EXCEPT ![k] = IF k \in closed THEN "off" ELSE "clean"]
    /\ UNCHANGED <<ready, workers, mustStop, control, chanCap, ch, callers, scratch>>

-----------------------------------------------------------------------------
(* Serve *)

\* Fault: the channel is not taken off the list.
ServeReadyKept(s) ==
    /\ serve[s] = "idle" /\ serves < MaxServes /\ LockFree
    /\ ready # <<>>
    /\ held' = [held EXCEPT ![s] = ready[Len(ready)]]
    /\ serve' = [serve EXCEPT ![s] = "send"]
    /\ serves' = serves + 1
    /\ UNCHANGED <<ready, workers, mustStop, control, chanCap, ch, cleaners>>

\* getCh takes the last ready channel.
ServeReady(s) ==
    /\ serve[s] = "idle" /\ serves < MaxServes /\ LockFree
    /\ ready # <<>>
    /\ held' = [held EXCEPT ![s] = ready[Len(ready)]]
    /\ ready' = SubSeq(ready, 1, Len(ready) - 1)
    /\ serve' = [serve EXCEPT ![s] = "send"]
    /\ serves' = serves + 1
    /\ UNCHANGED <<workers, mustStop, control, chanCap, ch, cleaners>>

\* Fault: the limit is compared with <=.
ServeNewOne(s) ==
    /\ serve[s] = "idle" /\ serves < MaxServes /\ LockFree
    /\ ready = <<>>
    /\ workersCount <= MaxWorkerCount
    /\ workersCount' = workersCount + 1
    /\ serve' = [serve EXCEPT ![s] = "spawn"]
    /\ serves' = serves + 1
    /\ UNCHANGED <<ready, worker, old, mustStop, control, chanCap, ch, held, cleaners>>

\* getCh counts a new worker.
ServeNew(s) ==
    /\ serve[s] = "idle" /\ serves < MaxServes /\ LockFree
    /\ ready = <<>>
    /\ workersCount < MaxWorkerCount
    /\ workersCount' = workersCount + 1
    /\ serve' = [serve EXCEPT ![s] = "spawn"]
    /\ serves' = serves + 1
    /\ UNCHANGED <<ready, worker, old, mustStop, control, chanCap, ch, held, cleaners>>

\* getCh finds no worker and may not create one: Serve returns false.
ServeRefused(s) ==
    /\ serve[s] = "idle" /\ serves < MaxServes /\ LockFree
    /\ ready = <<>>
    /\ workersCount >= MaxWorkerCount
    /\ serves' = serves + 1
    /\ UNCHANGED <<ready, workers, mustStop, control, chanCap, ch, serve, held, cleaners>>

\* The rest of getCh: a channel, pooled or new, and its goroutine.
Spawn(s) ==
    /\ serve[s] = "spawn"
    /\ \E c \in Chans :
          /\ worker[c] = "none"
          /\ worker' = [worker EXCEPT ![c] = "recv"]
          /\ held' = [held EXCEPT ![s] = c]
    /\ serve' = [serve EXCEPT ![s] = "send"]
    /\ UNCHANGED <<ready, workersCount, old, mustStop, control, chanCap, ch, serves,
                   cleaners>>

ServeSend(s) ==
    /\ serve[s] = "send"
    /\ Send(held[s], "task")
    /\ serve' = [serve EXCEPT ![s] = "idle"]
    /\ held' = [held EXCEPT ![s] = NoChan]
    /\ UNCHANGED <<ready, workers, mustStop, control, chanCap, serves, cleaners>>

-----------------------------------------------------------------------------
(* The workers *)

Recv(c) ==
    /\ worker[c] = "recv" /\ ch[c] # "empty"
    /\ worker' = [worker EXCEPT ![c] = IF ch[c] = "nil" THEN "leave" ELSE "work"]
    /\ ch' = [ch EXCEPT ![c] = "empty"]
    /\ UNCHANGED <<ready, old, workersCount, mustStop, control, chanCap, callers, cleaners>>

\* WorkerFunc returns and release notes the time.
Work(c) ==
    /\ worker[c] = "work"
    /\ worker' = [worker EXCEPT ![c] = "release"]
    /\ old' = old \ {c}
    /\ UNCHANGED <<ready, workersCount, mustStop, control, chanCap, ch, callers, cleaners>>

\* Fault: a worker of a stopped pool goes on waiting, not listed.
ReleaseWaiting(c) ==
    /\ worker[c] = "release" /\ LockFree
    /\ worker' = [worker EXCEPT ![c] = "recv"]
    /\ ready' = IF mustStop THEN ready ELSE Append(ready, c)
    /\ UNCHANGED <<old, workersCount, mustStop, control, chanCap, ch, callers, cleaners>>

\* release, under the lock.
Release(c) ==
    /\ worker[c] = "release" /\ LockFree
    /\ IF mustStop
          THEN worker' = [worker EXCEPT ![c] = "leave"] /\ UNCHANGED ready
          ELSE worker' = [worker EXCEPT ![c] = "recv"] /\ ready' = Append(ready, c)
    /\ UNCHANGED <<old, workersCount, mustStop, control, chanCap, ch, callers, cleaners>>

\* Fault: the worker leaves without giving its place back.
LeaveUncounted(c) ==
    /\ worker[c] = "leave" /\ LockFree
    /\ worker' = [worker EXCEPT ![c] = "put"]
    /\ UNCHANGED <<ready, workersCount, old, mustStop, control, chanCap, ch, callers,
                   cleaners>>

\* The end of workerFunc.
Leave(c) ==
    /\ worker[c] = "leave" /\ LockFree
    /\ worker' = [worker EXCEPT ![c] = "put"]
    /\ workersCount' = workersCount - 1
    /\ UNCHANGED <<ready, old, mustStop, control, chanCap, ch, callers, cleaners>>

\* The goroutine puts its channel into workerChanPool and ends.
Put(c) ==
    /\ worker[c] = "put"
    /\ worker' = [worker EXCEPT ![c] = "none"]
    /\ UNCHANGED <<ready, old, workersCount, mustStop, control, chanCap, ch, callers,
                   cleaners>>

\* MaxIdleWorkerDuration has passed since the last use of c, which matters
\* from when release has noted the time until the channel leaves ready.
Age(c) ==
    /\ worker[c] = "release" \/ On(c, ready)
    /\ c \notin old
    /\ old' = old \cup {c}
    /\ UNCHANGED <<ready, worker, workersCount, mustStop, control, chanCap, ch, callers,
                   cleaners>>

-----------------------------------------------------------------------------
CleanStep(k) == CleanTake(k) \/ CleanSend(k) \/ CleanNext(k)
StopStep     == StopLock \/ StopSend \/ StopUnlock
Serve(s)     == ServeReady(s) \/ ServeNew(s) \/ ServeRefused(s)
ServeStep(s) == Spawn(s) \/ ServeSend(s)
WorkerStep(c) == Recv(c) \/ Work(c) \/ Release(c) \/ Leave(c) \/ Put(c)

Next ==
    \/ Start \/ Stop \/ StopStep
    \/ \E k \in Cleaners : CleanStep(k)
    \/ \E s \in Callers : Serve(s) \/ ServeStep(s)
    \/ \E c \in Chans : WorkerStep(c) \/ Age(c)

Spec == Init /\ [][Next]_vars

\* Every goroutine goes on when it can, tasks return, and time passes.  Nobody
\* has to call Start, Stop or Serve.
Fairness ==
    /\ WF_vars(StopStep)
    /\ \A k \in Cleaners : WF_vars(CleanStep(k))
    /\ \A s \in Callers : WF_vars(ServeStep(s))
    /\ \A c \in Chans : WF_vars(WorkerStep(c)) /\ WF_vars(Age(c))

FairSpec == Spec /\ Fairness

-----------------------------------------------------------------------------
(* Properties *)

HeldBy(s, c) == serve[s] = "send" /\ held[s] = c
Full(c)      == ch[c] # "empty"
Waiting(c)   == worker[c] = "recv" /\ ~Full(c)

ReadyAlone(c) ==
    On(c, ready) =>
        /\ Waiting(c)
        /\ \A k \in Cleaners : ~On(c, scratch[k])
        /\ \A s \in Callers : ~HeldBy(s, c)

CleanerAlone(k, c) ==
    On(c, scratch[k]) =>
        /\ Waiting(c)
        /\ \A l \in Cleaners : On(c, scratch[l]) => l = k
        /\ \A s \in Callers : ~HeldBy(s, c)

CallerAlone(s, c) ==
    HeldBy(s, c) =>
        /\ Waiting(c)
        /\ \A r \in Callers : HeldBy(r, c) => r = s

\* Whoever may send on a channel is the only one that may, has not sent yet,
\* and the channel's worker is waiting for it: so neither Serve nor clean nor
\* Stop, which sends under the lock, can wait for a worker that is busy, gone,
\* or already told to stop (worker_pool.go:76, 121, 131).
OneSender ==
    /\ NoRepeat(ready)
    /\ \A k \in Cleaners : NoRepeat(scratch[k])
    /\ \A c \in Chans :
          /\ ReadyAlone(c)
          /\ \A k \in Cleaners : CleanerAlone(k, c)
          /\ \A s \in Callers : CallerAlone(s, c)
          /\ Full(c) => worker[c] = "recv"

\* No worker is forgotten: one that waits is listed as ready, is about to get a
\* task or the order to stop, or has it (worker_pool.go:187-218).
NoLostWorker ==
    \A c \in Chans : worker[c] = "recv" =>
        \/ On(c, ready) \/ Full(c)
        \/ \E k \in Cleaners : On(c, scratch[k])
        \/ \E s \in Callers : HeldBy(s, c)

LiveSet  == {c \in Chans : worker[c] \in Live}
SpawnSet == {s \in Callers : serve[s] = "spawn"}

\* workersCount is the number of workers and of those about to be created, so
\* that the limit is neither exceeded nor used up by workers that are gone
\* (worker_pool.go:157-160, 215-217).
WorkersCounted == workersCount = Cardinality(LiveSet) + Cardinality(SpawnSet)

\* Serve and Stop return (worker_pool.go:63-82, 126-133).
CallsReturn ==
    /\ \A s \in Callers : (serve[s] # "idle") ~> (serve[s] = "idle")
    /\ (stop # "idle") ~> (stop = "idle")

\* A pool that gets no more tasks loses all its workers: after Stop because
\* they notice mustStop ("they will stop after serving the task and noticing
\* wp.mustStop = true"), before because the idle ones are cleaned
\* (worker_pool.go:71-72, 94-95).
WorkersEnd ==
    <>[]((stopCh # 0 \/ mustStop) /\ \A s \in Callers : serve[s] = "idle")
        => <>[](workersCount = 0)

=============================================================================
