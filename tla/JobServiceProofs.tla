-------------------------- MODULE JobServiceProofs --------------------------
(***************************************************************************)
(* Proofs about the job service, for any pods, tasks and deployments, any  *)
(* number of process starts and any number of outages of Redis.            *)
(*                                                                         *)
(* NoInheritedStop says what the stop channels of a running pod may hold.  *)
(* It is not inductive by itself: tokens come from a dispatchStopSign under*)
(* way, which comes from the stop flags in Redis.  The invariant adds that *)
(* both were asked for since the pod started, when its Start did delete    *)
(* the flags, and that the memory of a process that is down is empty.      *)
(***************************************************************************)
EXTENDS JobService, TLAPS

\* The stop flags in Redis were raised after the start of each live pod whose
\* Start could delete the flags.
FlagsAreRecent == \A p \in cleared : stopMap \subseteq asked[p]

\* So were the signals under way in such a pod, unless they come from Close.
SignalsAreRecent == \A p \in cleared : proc[p] = "up" => dispatching[p] \subseteq asked[p]

\* Only a live pod has cleared the flags, and one that is down has no memory.
DownIsEmpty ==
    /\ \A p \in cleared : Alive(p)
    /\ \A p \in Pods : Alive(p) \/ (dispatching[p] = {} /\ StopChan[p] = {})

Inv == TypeOK /\ FlagsAreRecent /\ SignalsAreRecent /\ DownIsEmpty /\ NoInheritedStop

-----------------------------------------------------------------------------
(* Type correctness *)

LEMMA TypeInit == Init => TypeOK
<1> SUFFICES ASSUME Init PROVE TypeOK
  OBVIOUS
<1>1. NoHash \in Hashes /\ NoSnap \in Snaps
  BY DEF Hashes, NoSnap, Snaps
<1>2. /\ proc \in [Pods -> ProcStates]
      /\ RunStatus \in [Pods -> [AllTasks -> Statuses]]
  BY DEF Init, ProcStates, Statuses
<1>3. snap \in [Pods -> Snaps] /\ statusMap \in [Pods -> Hashes]
  BY <1>1 DEF Init
<1>4. starts \in Nat /\ outages \in Nat
  BY DEF Init
<1>5. /\ starting \in [Pods -> SUBSET Comsumers] /\ dispatching \in [Pods -> SUBSET Tasks]
      /\ StopChan \in [Pods -> SUBSET Tasks] /\ stopSignRecved \in [Pods -> SUBSET Tasks]
      /\ asked \in [Pods -> SUBSET Tasks]
  BY DEF Init
<1>6. /\ dep \in Deployments /\ stopMap \subseteq Tasks /\ statusKeys \subseteq Pods
      /\ statusTTL \subseteq Pods /\ cleared \subseteq Pods /\ torn \subseteq Pods
  BY DEF Init
<1>7. redisUp \in BOOLEAN
  BY Zenon DEF Init
<1> QED
  BY <1>2, <1>3, <1>4, <1>5, <1>6, <1>7 DEF TypeOK

\* The status list of a tick is a hash, a task belongs to the deployment, and each
\* place of UpdateJobTaskStatus is a snapshot.
LEMMA Lists ==
    ASSUME TypeOK, NEW p \in Pods
    PROVE  /\ [at |-> "hmset", list |-> [t \in Enabled |-> RunStatus[p][t]]] \in Snaps
           /\ [at |-> "expire", list |-> NoHash] \in Snaps
           /\ [at |-> "hset", list |-> NoHash] \in Snaps
           /\ NoSnap \in Snaps
           /\ Enabled \subseteq Tasks /\ Tasks \subseteq AllTasks
           /\ NoHash \in Hashes
<1>1. dep \in Deployment
  BY ServiceAssumption DEF TypeOK
<1>2. Enabled \subseteq Tasks /\ Tasks \subseteq AllTasks
  BY <1>1 DEF Deployment, Enabled, Tasks, Comsumers, Crontabs
<1>3. [t \in Enabled |-> RunStatus[p][t]] \in [Enabled -> Statuses]
  BY <1>2 DEF TypeOK
<1> QED
  BY <1>2, <1>3 DEF Hashes, NoSnap, Snaps

\* The deployment is chosen once, so what is derived from it stays.
LEMMA Deployed ==
    ASSUME dep' = dep
    PROVE  /\ Tasks' = Tasks /\ Enabled' = Enabled /\ Comsumers' = Comsumers
           /\ Hashes' = Hashes /\ Snaps' = Snaps
  BY DEF Tasks, Enabled, Comsumers, Crontabs, Hashes, Snaps

LEMMA TypeNext == TypeOK /\ [Next]_vars => TypeOK'
<1> SUFFICES ASSUME TypeOK, [Next]_vars PROVE TypeOK'
  OBVIOUS
<1> USE DEF TypeOK, memory, redis, outage, history
<1>1. ASSUME NEW p \in Pods, PodStep(p) PROVE TypeOK'
  <2>1. CASE Start(p)
    <3>1. PICK flags \in SUBSET Tasks, deleted \in BOOLEAN : Launch(p, flags, deleted)
      <4>1. Launch(p, {}, redisUp) \/ Launch(p, stopMap, redisUp)
        BY <2>1 DEF Start
      <4> QED
        BY <4>1
    <3>2. proc' \in [Pods -> ProcStates]
      BY <3>1 DEF Launch, ProcStates
    <3>3. starts' \in Nat
      BY <3>1 DEF Launch
    <3>4. /\ starting' \in [Pods -> SUBSET Comsumers]
          /\ asked' \in [Pods -> SUBSET Tasks]
          /\ stopMap' \subseteq Tasks
          /\ cleared' \subseteq Pods
      BY <3>1 DEF Launch
    <3>5. /\ dep' = dep
          /\ UNCHANGED <<RunStatus, dispatching, StopChan, stopSignRecved, snap, statusMap,
                         statusKeys, statusTTL, redisUp, outages, torn>>
      BY <3>1 DEF Launch
    <3> QED
      BY <3>2, <3>3, <3>4, <3>5, Deployed
  <2>2. ASSUME NEW t \in AllTasks, TaskStep(p, t) PROVE TypeOK'
    <3>1. CASE Dispatch(p, t)
      BY <3>1, Deployed DEF Dispatch
    <3>2. CASE ComsumerRun(p, t) \/ CronFire(p, t) \/ TaskStop(p, t) \/ TaskReturn(p, t)
      <4>1. PICK s \in Statuses :
               RunStatus' = [RunStatus EXCEPT ![p] = [RunStatus[p] EXCEPT ![t] = s]]
        BY <3>2 DEF ComsumerRun, CronFire, TaskStop, TaskReturn, Statuses
      <4>2. RunStatus' \in [Pods -> [AllTasks -> Statuses]]
        BY <4>1
      <4>3. /\ StopChan' \in [Pods -> SUBSET Tasks]
            /\ starting' \in [Pods -> SUBSET Comsumers]
        BY <3>2 DEF ComsumerRun, CronFire, TaskStop, TaskReturn
      <4>4. /\ dep' = dep
            /\ UNCHANGED <<proc, dispatching, stopSignRecved, snap, stopMap, statusMap,
                           statusKeys, statusTTL, redisUp, outages, asked, cleared, torn,
                           starts>>
        BY <3>2 DEF ComsumerRun, CronFire, TaskStop, TaskReturn
      <4> QED
        BY <4>2, <4>3, <4>4, Deployed
    <3> QED
      BY <2>2, <3>1, <3>2 DEF TaskStep
  <2>3. CASE SyncStopFlags(p)
    BY <2>3, Deployed DEF SyncStopFlags
  <2>4. CASE StatusTick(p)
    <3>1. snap' \in [Pods -> Snaps]
      BY <2>4, Lists DEF StatusTick
    <3> QED
      BY <2>4, <3>1, Deployed DEF StatusTick
  <2>5. CASE StatusHMSet(p)
    <3>1. snap[p].list \in Hashes
      BY DEF Snaps
    <3>2. snap' \in [Pods -> Snaps] /\ statusMap' \in [Pods -> Hashes] /\ torn' \subseteq Pods
      BY <2>5, <3>1, Lists DEF StatusHMSet
    <3> QED
      BY <2>5, <3>2, Deployed DEF StatusHMSet
  <2>6. CASE HashExpire(p) \/ StatusHSet(p)
    <3>1. /\ snap' \in [Pods -> Snaps] /\ torn' \subseteq Pods
          /\ statusTTL' \subseteq Pods /\ statusKeys' \subseteq Pods
      BY <2>6, Lists DEF HashExpire, StatusHSet
    <3> QED
      BY <2>6, <3>1, Deployed DEF HashExpire, StatusHSet
  <2>7. CASE StatusExpire(p) \/ CloseClear(p) \/ CloseUnlist(p) \/ CloseCron(p)
    <3>1. statusMap' \in [Pods -> Hashes] /\ proc' \in [Pods -> ProcStates]
      BY <2>7, Lists DEF StatusExpire, CloseClear, CloseUnlist, CloseCron, ProcStates
    <3>2. statusTTL' \subseteq Pods /\ torn' \subseteq Pods /\ statusKeys' \subseteq Pods
      BY <2>7 DEF StatusExpire, CloseClear, CloseUnlist, CloseCron
    <3> QED
      BY <2>7, <3>1, <3>2, Deployed DEF StatusExpire, CloseClear, CloseUnlist, CloseCron
  <2>8. CASE CloseSignal(p)
    BY <2>8, Deployed DEF CloseSignal, ProcStates
  <2>9. CASE Exit(p) \/ Crash(p)
    <3>1. Gone(p)
      BY <2>9 DEF Exit, Crash
    <3>2. RunStatus' \in [Pods -> [AllTasks -> Statuses]] /\ snap' \in [Pods -> Snaps]
      <4>1. [t \in AllTasks |-> ""] \in [AllTasks -> Statuses]
        BY DEF Statuses
      <4> QED
        BY <3>1, <4>1, Lists DEF Gone
    <3>3. proc' \in [Pods -> ProcStates]
      BY <3>1 DEF Gone, ProcStates
    <3> QED
      BY <3>1, <3>2, <3>3, Deployed DEF Gone
  <2> QED
    BY <1>1, <2>1, <2>2, <2>3, <2>4, <2>5, <2>6, <2>7, <2>8, <2>9
       DEF PodStep, StatusWrite, CloseStep
<1>2. ASSUME NEW names \in SUBSET AllTasks, StopJob(names) PROVE TypeOK'
  <2>1. stopMap' \subseteq Tasks /\ asked' \in [Pods -> SUBSET Tasks]
    BY <1>2 DEF StopJob
  <2> QED
    BY <1>2, <2>1, Deployed DEF StopJob
<1>3. CASE StopFlagsExpire \/ KeysExpire
  BY <1>3, Deployed DEF StopFlagsExpire, KeysExpire
<1>4. CASE RedisLost \/ RedisBack
  <2>1. redisUp' \in BOOLEAN
    BY <1>4, Zenon DEF RedisLost, RedisBack
  <2>2. outages' \in Nat
    BY <1>4 DEF RedisLost, RedisBack
  <2> QED
    BY <1>4, <2>1, <2>2, Deployed DEF RedisLost, RedisBack
<1>5. CASE UNCHANGED vars
  BY <1>5, Deployed DEF vars
<1> QED
  BY <1>1, <1>2, <1>3, <1>4, <1>5 DEF Next

-----------------------------------------------------------------------------
(* Stops are not inherited *)

LEMMA InvInit == Init => Inv
<1> SUFFICES ASSUME Init PROVE Inv
  OBVIOUS
<1>1. TypeOK
  BY TypeInit
<1>2. FlagsAreRecent /\ SignalsAreRecent /\ DownIsEmpty /\ NoInheritedStop
  BY DEF Init, FlagsAreRecent, SignalsAreRecent, DownIsEmpty, NoInheritedStop, Alive
<1> QED
  BY <1>1, <1>2 DEF Inv

\* A step that leaves the flags, the processes, the signals and what was asked for
\* alone, and adds no token, keeps the invariant.
LEMMA InvKept ==
    ASSUME Inv, UNCHANGED <<proc, stopMap, asked, cleared, dispatching>>,
           \A q \in Pods : StopChan'[q] \subseteq StopChan[q]
    PROVE  FlagsAreRecent' /\ SignalsAreRecent' /\ DownIsEmpty' /\ NoInheritedStop'
  BY DEF Inv, TypeOK, FlagsAreRecent, SignalsAreRecent, DownIsEmpty, NoInheritedStop, Alive

\* A step of one pod.
LEMMA InvPod ==
    ASSUME Inv, NEW p \in Pods, PodStep(p)
    PROVE  FlagsAreRecent' /\ SignalsAreRecent' /\ DownIsEmpty' /\ NoInheritedStop'
<1> USE DEF TypeOK, FlagsAreRecent, SignalsAreRecent, DownIsEmpty, NoInheritedStop, Alive,
            memory, redis, outage, history
<1>0. TypeOK /\ FlagsAreRecent /\ SignalsAreRecent /\ DownIsEmpty /\ NoInheritedStop
  BY DEF Inv
<1>1. CASE Start(p)
  <2>1. CASE redisUp
    BY <1>0, <1>1, <2>1 DEF Start, Launch
  <2>2. CASE ~redisUp
    <3>1. Launch(p, stopMap, FALSE)
      <4>1. redisUp = FALSE
        BY <1>0, <2>2
      <4> QED
        BY <1>1, <4>1 DEF Start
    <3> QED
      BY <1>0, <3>1 DEF Launch
  <2> QED
    BY <2>1, <2>2
<1>2. ASSUME NEW t \in AllTasks, TaskStep(p, t)
      PROVE  FlagsAreRecent' /\ SignalsAreRecent' /\ DownIsEmpty' /\ NoInheritedStop'
  <2>1. CASE Dispatch(p, t)
    <3>1. /\ dispatching'[p] \subseteq dispatching[p]
          /\ StopChan'[p] \subseteq StopChan[p] \cup dispatching[p]
          /\ dispatching[p] # {}
          /\ \A q \in Pods \ {p} :
                StopChan'[q] = StopChan[q] /\ dispatching'[q] = dispatching[q]
      BY <1>0, <2>1 DEF Dispatch
    <3>2. UNCHANGED <<proc, stopMap, asked, cleared>>
      BY <2>1 DEF Dispatch
    <3> QED
      BY <1>0, <3>1, <3>2
  <2>2. CASE ComsumerRun(p, t) \/ CronFire(p, t) \/ TaskStop(p, t) \/ TaskReturn(p, t)
    <3>1. \A q \in Pods : StopChan'[q] \subseteq StopChan[q]
      BY <1>0, <2>2 DEF ComsumerRun, CronFire, TaskStop, TaskReturn
    <3>2. UNCHANGED <<proc, stopMap, asked, cleared, dispatching>>
      BY <2>2 DEF ComsumerRun, CronFire, TaskStop, TaskReturn
    <3> QED
      BY <3>1, <3>2, InvKept
  <2> QED
    BY <1>2, <2>1, <2>2 DEF TaskStep
<1>3. CASE SyncStopFlags(p)
  BY <1>0, <1>3 DEF SyncStopFlags
<1>4. CASE StatusTick(p) \/ StatusWrite(p) \/ StatusExpire(p)
  <2>1. UNCHANGED <<proc, stopMap, asked, cleared, dispatching, StopChan>>
    BY <1>4 DEF StatusTick, StatusWrite, StatusHMSet, HashExpire, StatusHSet, StatusExpire
  <2> QED
    BY <2>1, InvKept
<1>5. CASE CloseSignal(p)
  BY <1>0, <1>5 DEF CloseSignal
<1>6. CASE CloseClear(p) \/ CloseUnlist(p) \/ CloseCron(p)
  BY <1>0, <1>6 DEF CloseClear, CloseUnlist, CloseCron
<1>7. CASE Exit(p) \/ Crash(p)
  BY <1>0, <1>7 DEF Exit, Crash, Gone
<1> QED
  BY <1>1, <1>2, <1>3, <1>4, <1>5, <1>6, <1>7, PodStep(p) DEF PodStep, CloseStep

LEMMA InvNext == Inv /\ [Next]_vars => Inv'
<1> SUFFICES ASSUME Inv, [Next]_vars PROVE Inv'
  OBVIOUS
<1> DEFINE Rest == FlagsAreRecent /\ SignalsAreRecent /\ DownIsEmpty /\ NoInheritedStop
<1>0. TypeOK'
  BY TypeNext DEF Inv
<1>1. ASSUME NEW p \in Pods, PodStep(p) PROVE Rest'
  BY <1>1, InvPod
<1>2. ASSUME NEW names \in SUBSET AllTasks, StopJob(names) PROVE Rest'
  BY <1>2 DEF StopJob, memory, Inv, TypeOK, FlagsAreRecent, SignalsAreRecent, DownIsEmpty,
              NoInheritedStop, Alive
<1>3. ASSUME StopFlagsExpire PROVE Rest'
  BY <1>3 DEF StopFlagsExpire, memory, history, Inv, TypeOK, FlagsAreRecent,
              SignalsAreRecent, DownIsEmpty, NoInheritedStop, Alive
<1>4. ASSUME KeysExpire \/ RedisLost \/ RedisBack \/ UNCHANGED vars PROVE Rest'
  <2>1. UNCHANGED <<proc, stopMap, asked, cleared, dispatching, StopChan>>
    BY <1>4 DEF KeysExpire, RedisLost, RedisBack, vars, memory, redis, history
  <2> QED
    BY <2>1, InvKept
<1> QED
  BY <1>0, <1>1, <1>2, <1>3, <1>4 DEF Next, Inv

\* The variables keep their types (the structs of service/svr.go, model/task.go
\* and the Redis hashes of dao/status.go).
THEOREM TypeCorrect == Spec => []TypeOK
<1>1. Init => TypeOK
  BY TypeInit
<1>2. TypeOK /\ [Next]_vars => TypeOK'
  BY TypeNext
<1> QED
  BY <1>1, <1>2, PTL DEF Spec

\* A stop meant for an earlier process never stops a task of a new one whose Start
\* could delete the flags (svr.go:45-47), over any outages of Redis: the tokens in
\* the stop channels of such a pod were sent for a StopJob that came after its
\* Start, as long as it is not being closed.
THEOREM StopsAreNotInherited == Spec => []NoInheritedStop
<1>1. Inv => NoInheritedStop
  BY DEF Inv
<1> QED
  BY <1>1, InvInit, InvNext, PTL DEF Spec

\* A pod whose Start could delete the flags sees only flags raised since then: the
\* DEL covers the flags of every pod (dao/status.go:16), and no later Start of
\* another pod, failed or not, brings old ones back.
THEOREM FlagsSeenAreRecent == Spec => []FlagsAreRecent
<1>1. Inv => FlagsAreRecent
  BY DEF Inv
<1> QED
  BY <1>1, InvInit, InvNext, PTL DEF Spec
=============================================================================
