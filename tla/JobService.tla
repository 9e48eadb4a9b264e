----------------------------- MODULE JobService -----------------------------
(***************************************************************************)
(* The job service: main.go, service/svr.go, service/grpc.go,              *)
(* service/service.go, dao/status.go and the signal handler of             *)
(* core/middleware/interceptor/reload.go, running as several pods that     *)
(* share one Redis.                                                        *)
(*                                                                         *)
(* A pod is one process.  Its goroutines are the stop-flag ticker          *)
(* (syncStopFlags), the status ticker (syncJobTaskStatus), the tasks and,  *)
(* once a signal arrives, Close.  Redis holds the stop flags               *)
(* (redp:job:stop:map), one status hash per pod                            *)
(* (redp:job:run:status:<pod>) and the hash of the pods that report        *)
(* (redp:job:run:status:keys).                                             *)
(*                                                                         *)
(* Inside a task the module keeps only what the service sees: whether it   *)
(* runs, whether the stop tokens are in its channel and whether it has     *)
(* received a stop signal.  The goroutines inside one task, two            *)
(* dispatchers of the same task among them, are the subject of JobTask.    *)
(*                                                                         *)
(* Redis may be out of reach for a while.  The code looks at no error of a *)
(* command: the command has no effect then, and the code goes on with its  *)
(* next step.                                                              *)
(***************************************************************************)
EXTENDS Naturals, FiniteSets

CONSTANTS
    Pods,            \* host names of the processes that may run
    AllTasks,        \* the tasks of all deployments
    Deployments      \* what may be deployed: see Deployment

\* A deployment runs on some hosts; it has consumers, started once at Start, and
\* crontabs, started by cron; either kind may be disabled (main.JobComsumer and
\* main.JobCrontab other than "open").  Its bounds: how many processes are started
\* over all pods, which of StopJob and Close anybody calls, how often Redis is lost.
Deployment ==
    [pods : SUBSET Pods, comsumers : SUBSET AllTasks, crontabs : SUBSET AllTasks,
     comsumerEnable : BOOLEAN, crontabEnable : BOOLEAN,
     starts : Nat, calls : SUBSET {"StopJob", "Close"}, outages : Nat]

ASSUME ServiceAssumption ==
    /\ Deployments \subseteq Deployment
    /\ \A d \in Deployments : d.comsumers \cap d.crontabs = {}

VARIABLES
    dep,             \* the deployment, chosen once
    proc,            \* where each process is: down, up, or inside Close
    RunStatus,       \* per pod and task: "", "running" or "finish"
    starting,        \* per pod: consumers whose goroutine has yet to enter Run
    dispatching,     \* per pod: tasks with a dispatchStopSign under way
    StopChan,        \* per pod: tasks whose stop channel holds the tokens
    stopSignRecved,  \* per pod: tasks that have received a stop signal
    snap,            \* per pod: the status list being written to Redis
    stopMap,         \* Redis: jobs whose flag is "stop"
    statusMap,       \* Redis: per pod, job |-> status, or no hash at all
    statusKeys,      \* Redis: pods that report
    statusTTL,       \* Redis: pods whose status hash has an expiry
    redisUp,         \* whether the pods reach Redis
    outages,         \* how often they have lost it
    asked,           \* history: per pod, jobs named by StopJob since its Start
    cleared,         \* history: pods whose Start did delete the stop flags
    torn,            \* history: pods for which an HMSET made a new hash and no
                     \* EXPIRE was executed after it
    starts           \* process starts so far

memory  == <<RunStatus, starting, dispatching, StopChan, stopSignRecved, snap>>
redis   == <<stopMap, statusMap, statusKeys, statusTTL>>
outage  == <<redisUp, outages>>
history == <<asked, cleared, torn>>
vars    == <<dep, proc, memory, redis, outage, history, starts>>

Comsumers == dep.comsumers
Crontabs  == dep.crontabs
Tasks     == Comsumers \cup Crontabs

\* The tasks this deployment runs and publishes.
Enabled ==
    (IF dep.comsumerEnable THEN Comsumers ELSE {}) \cup
    (IF dep.crontabEnable THEN Crontabs ELSE {})

Statuses == {"", "running", "finish"}
NoHash   == [t \in {} |-> ""]
Hashes   == {NoHash} \cup [Enabled -> Statuses]
NoSnap   == [at |-> "none", list |-> NoHash]
Snaps    == [at : {"none", "hmset", "expire", "hset"}, list : Hashes]

\* down -> up -> (signal) clear -> unlist -> cronstop -> sleep -> down
ProcStates == {"down", "up", "clear", "unlist", "cronstop", "sleep"}

TypeOK ==
    /\ dep \in Deployments
    /\ proc \in [Pods -> ProcStates]
    /\ RunStatus \in [Pods -> [AllTasks -> Statuses]]
    /\ starting \in [Pods -> SUBSET Comsumers]
    /\ dispatching \in [Pods -> SUBSET Tasks]
    /\ StopChan \in [Pods -> SUBSET Tasks]
    /\ stopSignRecved \in [Pods -> SUBSET Tasks]
    /\ snap \in [Pods -> Snaps]
    /\ stopMap \subseteq Tasks
    /\ statusMap \in [Pods -> Hashes]
    /\ statusKeys \subseteq Pods
    /\ statusTTL \subseteq Pods
    /\ redisUp \in BOOLEAN
    /\ outages \in Nat
    /\ asked \in [Pods -> SUBSET Tasks]
    /\ cleared \subseteq Pods
    /\ torn \subseteq Pods
    /\ starts \in Nat

Init ==
    /\ dep \in Deployments
    /\ proc = [p \in Pods |-> "down"]
    /\ RunStatus = [p \in Pods |-> [t \in AllTasks |-> ""]]
    /\ starting = [p \in Pods |-> {}]
    /\ dispatching = [p \in Pods |-> {}]
    /\ StopChan = [p \in Pods |-> {}]
    /\ stopSignRecved = [p \in Pods |-> {}]
    /\ snap = [p \in Pods |-> NoSnap]
    /\ stopMap = {}
    /\ statusMap = [p \in Pods |-> NoHash]
    /\ statusKeys = {} /\ statusTTL = {}
    /\ redisUp = TRUE /\ outages = 0
    /\ asked = [p \in Pods |-> {}]
    /\ cleared = {} /\ torn = {}
    /\ starts = 0

Alive(p) == proc[p] # "down"

-----------------------------------------------------------------------------
(* Redis *)

RedisLost ==
    /\ redisUp
    /\ outages < dep.outages
    /\ redisUp' = FALSE
    /\ outages' = outages + 1
    /\ UNCHANGED <<dep, proc, memory, redis, history, starts>>

RedisBack ==
    /\ ~redisUp
    /\ redisUp' = TRUE
    /\ UNCHANGED <<dep, proc, memory, redis, outages, history, starts>>

\* The hash of the stop flags may reach its four-hour expiry.  Nothing obliges it
\* to, so whether the EXPIRE after the HMSET was executed needs no state.
StopFlagsExpire ==
    /\ stopMap # {}
    /\ stopMap' = {}
    /\ UNCHANGED <<dep, proc, memory, statusMap, statusKeys, statusTTL, outage,
                   history, starts>>

\* A status hash that has an expiry and is not refreshed goes after an hour.
StatusExpire(p) ==
    /\ Alive(p) => ~redisUp
    /\ p \in statusTTL
    /\ statusMap' = [statusMap EXCEPT ![p] = NoHash]
    /\ statusTTL' = statusTTL \ {p}
    /\ UNCHANGED <<dep, proc, memory, stopMap, statusKeys, outage,
                   history, starts>>

\* The hash of reporting pods, which every live pod refreshes, may go as well.
KeysExpire ==
    /\ (\E p \in Pods : Alive(p)) => ~redisUp
    /\ statusKeys # {}
    /\ statusKeys' = {}
    /\ UNCHANGED <<dep, proc, memory, stopMap, statusMap, statusTTL, outage,
                   history, starts>>

-----------------------------------------------------------------------------
(* Process start *)

\* NewJobSvr and Start: delete the stop flags of every pod, start the tickers, a
\* goroutine per consumer, and cron.  deleted says whether the DEL was executed;
\* Start does not look, and goes on with the old flags if it was not.
Launch(p, flags, deleted) ==
    /\ proc[p] = "down"
    /\ p \in dep.pods
    /\ starts < dep.starts
    /\ starts' = starts + 1
    /\ proc' = [proc EXCEPT ![p] = "up"]
    /\ starting' = [starting EXCEPT ![p] = Comsumers \cap Enabled]
    /\ stopMap' = flags
    /\ asked' = [asked EXCEPT ![p] = {}]
    /\ cleared' = IF deleted THEN cleared \cup {p} ELSE cleared \ {p}
    /\ UNCHANGED <<dep, RunStatus, dispatching, StopChan, stopSignRecved, snap, statusMap,
                   statusKeys, statusTTL, outage, torn>>

\* Fault: the DEL names another key.
StartOtherKey(p) == Launch(p, stopMap, redisUp)

Start(p) == Launch(p, IF redisUp THEN {} ELSE stopMap, redisUp)

-----------------------------------------------------------------------------
(* Tasks *)

\* The goroutine of a consumer gets to recordStart.
ComsumerRun(p, t) ==
    /\ t \in starting[p]
    /\ starting' = [starting EXCEPT ![p] = @ \ {t}]
    /\ RunStatus' = [RunStatus EXCEPT ![p][t] = "running"]
    /\ UNCHANGED <<dep, proc, dispatching, StopChan, stopSignRecved, snap, redis, outage,
                   history, starts>>

\* cron starts the task; Run returns at once if it is still running.  cron is
\* stopped by Close after the status has been cleared.
CronFire(p, t) ==
    /\ proc[p] \in {"up", "clear", "unlist", "cronstop"}
    /\ t \in Crontabs \cap Enabled
    /\ RunStatus[p][t] # "running"
    /\ RunStatus' = [RunStatus EXCEPT ![p][t] = "running"]
    /\ UNCHANGED <<dep, proc, starting, dispatching, StopChan, stopSignRecved, snap, redis,
                   outage, history, starts>>

\* Fault: the value of the stop flag is recorded as the status.
TaskStopFlag(p, t) ==
    /\ RunStatus[p][t] = "running"
    /\ t \in StopChan[p]
    /\ RunStatus' = [RunStatus EXCEPT ![p][t] = "stop"]
    /\ StopChan' = [StopChan EXCEPT ![p] = @ \ {t}]
    /\ UNCHANGED <<dep, proc, starting, dispatching, stopSignRecved, snap, redis, outage,
                   history, starts>>

\* The workers take the stop tokens and return.
TaskStop(p, t) ==
    /\ RunStatus[p][t] = "running"
    /\ t \in StopChan[p]
    /\ RunStatus' = [RunStatus EXCEPT ![p][t] = "finish"]
    /\ StopChan' = [StopChan EXCEPT ![p] = @ \ {t}]
    /\ UNCHANGED <<dep, proc, starting, dispatching, stopSignRecved, snap, redis, outage,
                   history, starts>>

\* The workers return because their work is done; tokens stay.
TaskReturn(p, t) ==
    /\ RunStatus[p][t] = "running"
    /\ RunStatus' = [RunStatus EXCEPT ![p][t] = "finish"]
    /\ UNCHANGED <<dep, proc, starting, dispatching, StopChan, stopSignRecved, snap, redis,
                   outage, history, starts>>

\* Fault: tokens are sent to tasks that are not running.
DispatchIdle(p, t) ==
    /\ t \in dispatching[p]
    /\ dispatching' = [dispatching EXCEPT ![p] = @ \ {t}]
    /\ stopSignRecved' = [stopSignRecved EXCEPT ![p] = @ \cup {t}]
    /\ StopChan' = [StopChan EXCEPT ![p] =
          IF t \notin stopSignRecved[p] /\ RunStatus[p][t] # "running"
          THEN @ \cup {t} ELSE @]
    /\ UNCHANGED <<dep, proc, RunStatus, starting, snap, redis, outage, history, starts>>

\* dispatchStopSign: a task signalled before is left alone; otherwise it
\* remembers the signal and, if it is running, gets its tokens.
Dispatch(p, t) ==
    /\ t \in dispatching[p]
    /\ dispatching' = [dispatching EXCEPT ![p] = @ \ {t}]
    /\ stopSignRecved' = [stopSignRecved EXCEPT ![p] = @ \cup {t}]
    /\ StopChan' = [StopChan EXCEPT ![p] =
          IF t \notin stopSignRecved[p] /\ RunStatus[p][t] = "running"
          THEN @ \cup {t} ELSE @]
    /\ UNCHANGED <<dep, proc, RunStatus, starting, snap, redis, outage, history, starts>>

-----------------------------------------------------------------------------
(* Stop flags *)

\* gRPC StopJob, served by any live pod: no names means every job; with no job
\* at all nothing is written.
StopJob(names) ==
    LET jobs == IF names = {} THEN Tasks ELSE names
    IN  /\ names \subseteq Tasks
        /\ \E p \in Pods : Alive(p)
        /\ "StopJob" \in dep.calls
        /\ redisUp
        /\ jobs # {}
        /\ stopMap' = stopMap \cup jobs
        /\ asked' = [p \in Pods |-> IF Alive(p) THEN asked[p] \cup jobs ELSE {}]
        /\ UNCHANGED <<dep, proc, memory, statusMap, statusKeys, statusTTL, outage,
                       cleared, torn, starts>>

\* One tick of syncStopFlags: a goroutine for each task that has a flag.  One that
\* finds the task signalled before returns at once and is not recorded.
SyncStopFlags(p) ==
    /\ Alive(p)
    /\ redisUp
    /\ dispatching' = [dispatching EXCEPT ![p] = @ \cup (stopMap \ stopSignRecved[p])]
    /\ UNCHANGED <<dep, proc, RunStatus, starting, StopChan, stopSignRecved, snap, redis,
                   outage, history, starts>>

-----------------------------------------------------------------------------
(* Published status *)

\* Fault: the list is built once and then reused.
StatusTickStale(p) ==
    /\ Alive(p)
    /\ snap[p].at = "none"
    /\ Enabled # {}
    /\ snap' = [snap EXCEPT ![p] = [at |-> "hmset", list |->
          IF statusMap[p] = NoHash THEN [t \in Enabled |-> RunStatus[p][t]]
          ELSE statusMap[p]]]
    /\ UNCHANGED <<dep, proc, RunStatus, starting, dispatching, StopChan, stopSignRecved,
                   redis, outage, history, starts>>

\* One tick of syncJobTaskStatus: the statuses are read here and reach Redis in
\* the commands of UpdateJobTaskStatus, which does nothing without tasks.
StatusTick(p) ==
    /\ Alive(p)
    /\ snap[p].at = "none"
    /\ Enabled # {}
    /\ snap' = [snap EXCEPT ![p] =
          [at |-> "hmset", list |-> [t \in Enabled |-> RunStatus[p][t]]]]
    /\ UNCHANGED <<dep, proc, RunStatus, starting, dispatching, StopChan, stopSignRecved,
                   redis, outage, history, starts>>

\* HMSET of the pod's status hash.  A new hash has no expiry; one that exists
\* keeps its own.
StatusHMSet(p) ==
    /\ snap[p].at = "hmset"
    /\ snap' = [snap EXCEPT ![p] = [at |-> "expire", list |-> NoHash]]
    /\ statusMap' = IF redisUp THEN [statusMap EXCEPT ![p] = snap[p].list] ELSE statusMap
    /\ torn' = IF redisUp /\ statusMap[p] = NoHash THEN torn \cup {p} ELSE torn
    /\ UNCHANGED <<dep, proc, RunStatus, starting, dispatching, StopChan, stopSignRecved,
                   stopMap, statusKeys, statusTTL, outage, asked, cleared,
                   starts>>

\* Fault: the expiry is set on another key.
HashExpireOther(p) ==
    /\ snap[p].at = "expire"
    /\ snap' = [snap EXCEPT ![p] = [at |-> "hset", list |-> NoHash]]
    /\ torn' = IF redisUp THEN torn \ {p} ELSE torn
    /\ UNCHANGED <<dep, proc, RunStatus, starting, dispatching, StopChan, stopSignRecved,
                   redis, outage, asked, cleared, starts>>

\* EXPIRE of the pod's status hash.
HashExpire(p) ==
    /\ snap[p].at = "expire"
    /\ snap' = [snap EXCEPT ![p] = [at |-> "hset", list |-> NoHash]]
    /\ statusTTL' = IF redisUp /\ statusMap[p] # NoHash THEN statusTTL \cup {p} ELSE statusTTL
    /\ torn' = IF redisUp THEN torn \ {p} ELSE torn
    /\ UNCHANGED <<dep, proc, RunStatus, starting, dispatching, StopChan, stopSignRecved,
                   stopMap, statusMap, statusKeys, outage, asked, cleared,
                   starts>>

\* HSET of the pod into the hash of reporting pods, and the EXPIRE of that hash.
StatusHSet(p) ==
    /\ snap[p].at = "hset"
    /\ snap' = [snap EXCEPT ![p] = NoSnap]
    /\ statusKeys' = IF redisUp THEN statusKeys \cup {p} ELSE statusKeys
    /\ UNCHANGED <<dep, proc, RunStatus, starting, dispatching, StopChan, stopSignRecved,
                   stopMap, statusMap, statusTTL, outage, history, starts>>

\* The status hashes of the pods that report.
GetJobTasksStatus == [p \in statusKeys |-> statusMap[p]]

\* The answer of gRPC JobStatus: one entry per pod and job.
JobStatus ==
    UNION {{[pod |-> p, job |-> t, status |-> GetJobTasksStatus[p][t]] :
               t \in DOMAIN GetJobTasksStatus[p]} : p \in statusKeys}

-----------------------------------------------------------------------------
(* Process end *)

\* A signal makes Reload call Close, whose first act is dispatchAllStopSign.
CloseSignal(p) ==
    /\ "Close" \in dep.calls
    /\ proc[p] = "up"
    /\ proc' = [proc EXCEPT ![p] = "clear"]
    /\ dispatching' = [dispatching EXCEPT ![p] = @ \cup (Tasks \ stopSignRecved[p])]
    /\ UNCHANGED <<dep, RunStatus, starting, StopChan, stopSignRecved, snap, redis, outage,
                   history, starts>>

\* ClearAllJobTaskStatus: DEL of the pod's status hash, then HDEL of its key,
\* which removes the hash of reporting pods with its last field.
CloseClear(p) ==
    /\ proc[p] = "clear"
    /\ proc' = [proc EXCEPT ![p] = "unlist"]
    /\ statusMap' = IF redisUp THEN [statusMap EXCEPT ![p] = NoHash] ELSE statusMap
    /\ statusTTL' = IF redisUp THEN statusTTL \ {p} ELSE statusTTL
    /\ torn' = IF redisUp THEN torn \ {p} ELSE torn
    /\ UNCHANGED <<dep, memory, stopMap, statusKeys, outage, asked,
                   cleared, starts>>

CloseUnlist(p) ==
    /\ proc[p] = "unlist"
    /\ proc' = [proc EXCEPT ![p] = "cronstop"]
    /\ statusKeys' = IF redisUp THEN statusKeys \ {p} ELSE statusKeys
    /\ UNCHANGED <<dep, memory, stopMap, statusMap, statusTTL, outage, history,
                   starts>>

\* cronObj.Stop().
CloseCron(p) ==
    /\ proc[p] = "cronstop"
    /\ proc' = [proc EXCEPT ![p] = "sleep"]
    /\ UNCHANGED <<dep, memory, redis, outage, history, starts>>

\* The process is gone, and its memory with it.
Gone(p) ==
    /\ proc' = [proc EXCEPT ![p] = "down"]
    /\ RunStatus' = [RunStatus EXCEPT ![p] = [t \in AllTasks |-> ""]]
    /\ starting' = [starting EXCEPT ![p] = {}]
    /\ dispatching' = [dispatching EXCEPT ![p] = {}]
    /\ StopChan' = [StopChan EXCEPT ![p] = {}]
    /\ stopSignRecved' = [stopSignRecved EXCEPT ![p] = {}]
    /\ snap' = [snap EXCEPT ![p] = NoSnap]
    /\ asked' = [asked EXCEPT ![p] = {}]
    /\ cleared' = cleared \ {p}
    /\ UNCHANGED <<dep, redis, outage, torn, starts>>

\* The sleeps of Close and Reload are over and main returns; the tickers have
\* run all that time.
Exit(p) == proc[p] = "sleep" /\ Gone(p)

\* The process is killed, or a worker panics.
Crash(p) == Alive(p) /\ Gone(p)

-----------------------------------------------------------------------------
TaskStep(p, t) ==
    ComsumerRun(p, t) \/ CronFire(p, t) \/ TaskStop(p, t) \/ TaskReturn(p, t) \/ Dispatch(p, t)

\* The commands of UpdateJobTaskStatus, one after the other.
StatusWrite(p) == StatusHMSet(p) \/ HashExpire(p) \/ StatusHSet(p)

CloseStep(p) == CloseClear(p) \/ CloseUnlist(p) \/ CloseCron(p) \/ Exit(p)

PodStep(p) ==
    \/ Start(p)
    \/ \E t \in AllTasks : TaskStep(p, t)
    \/ SyncStopFlags(p)
    \/ StatusTick(p) \/ StatusWrite(p) \/ StatusExpire(p)
    \/ CloseSignal(p) \/ CloseStep(p)
    \/ Crash(p)

Next ==
    \/ \E p \in Pods : PodStep(p)
    \/ \E names \in SUBSET AllTasks : StopJob(names)
    \/ StopFlagsExpire \/ KeysExpire
    \/ RedisLost \/ RedisBack

Spec == Init /\ [][Next]_vars

(***************************************************************************)
(* The tickers keep ticking, goroutines that were started run, workers     *)
(* take tokens that are there, Close runs through, Redis expires what has  *)
(* an expiry and is not refreshed, and an outage ends.  Nobody is obliged  *)
(* to stop a job, to send a signal or to start a process, and no task is   *)
(* obliged to end by itself.                                               *)
(***************************************************************************)
Fairness ==
    /\ WF_vars(RedisBack)
    /\ \A p \in Pods :
        /\ WF_vars(SyncStopFlags(p))
        /\ WF_vars(StatusTick(p))
        /\ WF_vars(StatusWrite(p))
        /\ WF_vars(StatusExpire(p))
        /\ WF_vars(CloseStep(p))
        /\ \A t \in AllTasks :
              /\ WF_vars(ComsumerRun(p, t))
              /\ WF_vars(Dispatch(p, t))
              /\ WF_vars(TaskStop(p, t))

FairSpec == Spec /\ Fairness

-----------------------------------------------------------------------------
(* Properties *)

\* A stop meant for an earlier process never stops a task of a new one whose
\* Start could delete the flags: it does so before the stop-flag ticker exists
\* ("first priority", svr.go:45), so tokens are only ever sent for a StopJob
\* that came after the pod's start, or by Close.  A Start that does not reach
\* Redis goes on with the old flags (dao/status.go:16) and is left out.
NoInheritedStop ==
    \A p \in cleared : proc[p] = "up" => StopChan[p] \subseteq asked[p]

\* A consumer that is running and was not signalled before when its flag is set
\* stops, in every pod, also over an outage of Redis; unless the flag goes first,
\* which a start of any pod, or its expiry, may bring about (syncStopFlags,
\* dispatchStopSign).  A consumer signalled before it got to recordStart is left
\* out: like an idle crontab it has used up its signal.
FlaggedConsumersStop ==
    \A p \in Pods, t \in AllTasks :
        (/\ t \in (Comsumers \cap stopMap) \ stopSignRecved[p]
         /\ RunStatus[p][t] = "running")
            ~> (RunStatus[p][t] # "running" \/ t \notin stopMap)

\* What JobStatus reports converges to the truth: a status a live pod keeps is
\* the one it is listed with from some point on (syncJobTaskStatus), whatever
\* commands an outage of Redis has swallowed before.
StatusConverges ==
    \A p \in Pods, t \in AllTasks, s \in Statuses :
        <>[](t \in Enabled /\ proc[p] = "up" /\ RunStatus[p][t] = s)
            => <>[]([pod |-> p, job |-> t, status |-> s] \in JobStatus)

\* A pod that is gone for good disappears from JobStatus, even if it was killed
\* before it could clear its status, in the middle of an update, or while Redis
\* was out of reach: its hash expires within an hour.  Only a pod that died, or
\* lost Redis, between the HMSET that made a new hash and its EXPIRE
\* (dao/status.go:70-71) may stay.
DeadPodForgotten ==
    \A p \in Pods :
        <>[](~Alive(p) /\ p \notin torn) => <>[](\A e \in JobStatus : e.pod # p)

\* A job that StopJob has flagged stops running (grpc.go:10 "stop the task").
StopJobStops ==
    \A p \in Pods, t \in AllTasks :
        <>[](t \in stopMap /\ proc[p] = "up") => []<>(RunStatus[p][t] # "running")

\* When a pod ends through Close its published status is gone
\* (dao/status.go:78 "when the pod is destroyed, clear its status").
ClosedPodCleared ==
    [][\A p \in Pods : Exit(p) => p \notin statusKeys /\ statusMap[p] = NoHash]_vars

=============================================================================
