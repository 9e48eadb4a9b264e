------------------------------ MODULE WorkPool ------------------------------
(***************************************************************************)
(* The work pool of workpool/workpool.go: a goroutine that calls Do,       *)
(* DoWait and Wait, loop, startQueue, which moves tasks from the queue to  *)
(* a channel, the workers that run them, and for each running task a       *)
(* goroutine that waits for its timeout.                                   *)
(*                                                                         *)
(* A task is the number of its Push.  setup.pool says whether the queue    *)
(* belongs to a pool or is used directly.                                  *)
(***************************************************************************)
EXTENDS MyQueue

CONSTANTS
    Setups,      \* the instances checked together
    Workers,     \* the workers a pool can have
    Feeder       \* the goroutine of startQueue, the user of the pool's queue

ASSUME FeederAssumption == Feeder \in Users

Setup == [pool    : BOOLEAN,
          workers : SUBSET Workers,   \* the workers of New(max)
          timeout : BOOLEAN,          \* SetTimeout was called
          tasks   : 1..MaxPuts]       \* bound: tasks of the pool

ASSUME SetupsAssumption == IsFiniteSet(Workers) /\ Setups \subseteq Setup

VARIABLES
    setup,
    closed, isQueTask, errChan, task,  \* the fields of WorkPool
    taskClosed,  \* close(task) was called
    wg,          \* the counter of the WaitGroup
    main,        \* where the caller is
    awaited,     \* the task DoWait waits for; Nil if it was not accepted
    loopAt,      \* where loop is
    worker,      \* where each worker is
    job,         \* the task each worker has
    timer,       \* the timeout goroutine of each task
    ended,       \* tasks that have returned
    failed,      \* tasks that have returned an error
    early,       \* Wait passed wg.Wait before loop called wg.Add
    result       \* what Wait returned

fields == <<closed, isQueTask, errChan, task, taskClosed, wg>>
caller == <<main, awaited, early, result>>
crew   == <<loopAt, worker, job, timer, ended, failed>>
vars   == <<qvars, setup, fields, caller, crew>>

Cap == 2 * Cardinality(setup.workers)

Init ==
    /\ setup \in Setups
    /\ QInit
    /\ closed = FALSE /\ isQueTask = FALSE /\ errChan = <<>>
    /\ task = <<>> /\ taskClosed = FALSE /\ wg = 0
    /\ main = "idle" /\ awaited = Nil /\ early = FALSE /\ result = "none"
    /\ loopAt = "start"
    /\ worker = [w \in Workers |-> "none"] /\ job = [w \in Workers |-> Nil]
    /\ timer = [i \in 1..MaxPuts |-> "none"]
    /\ ended = {} /\ failed = {}

-----------------------------------------------------------------------------
(* The caller: Do, DoWait, Wait *)

\* A step of the caller from one place to another.
Goes(from, to) == main = from /\ main' = to

\* IsClosed was false.
Do     == /\ Goes("idle", "push") /\ ~closed /\ puts < setup.tasks
          /\ UNCHANGED <<qvars, fields, awaited, early, result, crew>>
DoWait == /\ Goes("idle", "pushWait") /\ ~closed /\ puts < setup.tasks
          /\ UNCHANGED <<qvars, fields, awaited, early, result, crew>>

PushTask ==
    /\ main \in {"push", "pushWait"}
    /\ Push
    /\ IF main = "push"
          THEN main' = "idle" /\ UNCHANGED awaited
          ELSE main' = "doWait" /\ awaited' = IF qclosed THEN Nil ELSE puts'
    /\ UNCHANGED <<fields, early, result, crew>>

\* doneChan is closed when the task returns.
DoWaitReturns ==
    /\ Goes("doWait", "idle") /\ awaited \in ended
    /\ UNCHANGED <<qvars, fields, awaited, early, result, crew>>

Wait ==
    /\ Goes("idle", "wait")
    /\ UNCHANGED <<qvars, fields, awaited, early, result, crew>>

QueueWait ==
    /\ Goes("wait", "close") /\ (qclosed \/ count = 0)
    /\ UNCHANGED <<qvars, fields, awaited, early, result, crew>>

QueueClose ==
    /\ Goes("close", "isDone")
    /\ Close
    /\ UNCHANGED <<fields, awaited, early, result, crew>>

\* waitTask: IsDone is read, then isQueTask.
WaitIsDone ==
    /\ Goes("isDone", "isQueTask") /\ count = 0 /\ task = <<>>
    /\ UNCHANGED <<qvars, fields, awaited, early, result, crew>>

\* Fault: waitTask goes by IsDone alone.
WaitQueTaskNot ==
    /\ Goes("isQueTask", "closeTask")
    /\ UNCHANGED <<qvars, fields, awaited, early, result, crew>>

WaitQueTask ==
    /\ Goes("isQueTask", IF isQueTask THEN "isDone" ELSE "closeTask")
    /\ UNCHANGED <<qvars, fields, awaited, early, result, crew>>

CloseTask ==
    /\ Goes("closeTask", "wgWait")
    /\ taskClosed' = TRUE
    /\ UNCHANGED <<qvars, closed, isQueTask, errChan, task, wg, awaited, early, result, crew>>

WgWait ==
    /\ Goes("wgWait", "select") /\ wg = 0
    /\ early' = (loopAt # "done")
    /\ UNCHANGED <<qvars, fields, awaited, result, crew>>

WaitReturns ==
    /\ Goes("select", "returned")
    /\ result' = IF errChan = <<>> THEN "nil" ELSE Head(errChan)
    /\ errChan' = <<>>
    /\ UNCHANGED <<qvars, closed, isQueTask, task, taskClosed, wg, awaited, early, crew>>

-----------------------------------------------------------------------------
(* loop and startQueue *)

\* go startQueue, before the workers are added to the WaitGroup.
LoopStart ==
    /\ loopAt = "start" /\ loopAt' = "add"
    /\ at' = [at EXCEPT ![Feeder] = "start"]
    /\ UNCHANGED <<queue, mu, waiting, cc, hand, puts, got>>
    /\ UNCHANGED <<fields, caller, worker, job, timer, ended, failed>>

LoopWorkers ==
    /\ loopAt = "add" /\ loopAt' = "done"
    /\ wg' = wg + Cardinality(setup.workers)
    /\ worker' = [w \in Workers |-> IF w \in setup.workers THEN "range" ELSE "none"]
    /\ UNCHANGED <<qvars, closed, isQueTask, errChan, task, taskClosed>>
    /\ UNCHANGED <<caller, job, timer, ended, failed>>

StartQueue ==
    /\ at[Feeder] = "start"
    /\ isQueTask' = TRUE
    /\ at' = [at EXCEPT ![Feeder] = "pop"]
    /\ UNCHANGED <<queue, mu, waiting, cc, hand, puts, got>>
    /\ UNCHANGED <<closed, errChan, task, taskClosed, wg, caller, crew>>

FeederPop ==
    /\ Sleep(Feeder) \/ Pop(Feeder)
    /\ UNCHANGED <<fields, caller, crew>>

\* Fault: startQueue returns when the pool is closed, and leaves its mark.
FeederCheckReturns ==
    /\ at[Feeder] = "popped" /\ mu = Nobody
    /\ IF closed
          THEN /\ Return(hand[Feeder])
               /\ hand' = [hand EXCEPT ![Feeder] = Nil]
               /\ qclosed' = TRUE /\ count' = 0 /\ waiting' = <<>>
               /\ at' = [at EXCEPT ![Feeder] = "done"]
          ELSE /\ at' = [at EXCEPT ![Feeder] = IF hand[Feeder] = Nil THEN "break" ELSE "send"]
               /\ UNCHANGED <<qclosed, count, waiting, hand, got>>
    /\ UNCHANGED <<buffer, mu, cc, puts, fields, caller, crew>>

\* After the pop: a closed pool drops the task and closes the queue; nil ends
\* the loop.
FeederCheck ==
    /\ at[Feeder] = "popped" /\ mu = Nobody
    /\ IF closed
          THEN /\ Return(hand[Feeder])
               /\ hand' = [hand EXCEPT ![Feeder] = Nil]
               /\ qclosed' = TRUE /\ count' = 0 /\ waiting' = <<>>
               /\ at' = [at EXCEPT ![Feeder] = "break"]
          ELSE /\ at' = [at EXCEPT ![Feeder] = IF hand[Feeder] = Nil THEN "break" ELSE "send"]
               /\ UNCHANGED <<qclosed, count, waiting, hand, got>>
    /\ UNCHANGED <<buffer, mu, cc, puts, fields, caller, crew>>

\* A send on a closed channel panics.
FeederSend ==
    /\ at[Feeder] = "send" /\ (taskClosed \/ Len(task) < Cap)
    /\ task' = IF taskClosed THEN task ELSE Append(task, hand[Feeder])
    /\ at' = [at EXCEPT ![Feeder] = IF taskClosed THEN "panic" ELSE "pop"]
    /\ Return(hand[Feeder])
    /\ hand' = [hand EXCEPT ![Feeder] = Nil]
    /\ UNCHANGED <<queue, mu, waiting, cc, puts>>
    /\ UNCHANGED <<closed, isQueTask, errChan, taskClosed, wg, caller, crew>>

FeederEnds ==
    /\ at[Feeder] = "break"
    /\ isQueTask' = FALSE
    /\ at' = [at EXCEPT ![Feeder] = "done"]
    /\ UNCHANGED <<queue, mu, waiting, cc, hand, puts, got>>
    /\ UNCHANGED <<closed, errChan, task, taskClosed, wg, caller, crew>>

-----------------------------------------------------------------------------
(* Workers and timeouts *)

\* The next task of the channel; once the pool is closed they are skipped.
WorkerTakes(w) ==
    /\ worker[w] = "range" /\ task # <<>>
    /\ task' = Tail(task)
    /\ IF closed
          THEN UNCHANGED <<worker, job, timer>>
          ELSE /\ worker' = [worker EXCEPT ![w] = "run"]
               /\ job' = [job EXCEPT ![w] = Head(task)]
               /\ timer' = IF setup.timeout
                              THEN [timer EXCEPT ![Head(task)] = "armed"] ELSE timer
    /\ UNCHANGED <<qvars, closed, isQueTask, errChan, taskClosed, wg, caller>>
    /\ UNCHANGED <<loopAt, ended, failed>>

\* The task returns, with an error or without.
TaskReturns(w) ==
    /\ worker[w] = "run"
    /\ worker' = [worker EXCEPT ![w] = "report"]
    /\ ended' = ended \cup {job[w]}
    /\ \/ failed' = failed \cup {job[w]}
       \/ UNCHANGED failed
    /\ UNCHANGED <<qvars, fields, caller, loopAt, job, timer>>

\* close(closed), and the error, unless errChan is full.
WorkerReports(w) ==
    /\ worker[w] = "report"
    /\ timer' = [timer EXCEPT ![job[w]] = IF @ = "armed" THEN "stopped" ELSE @]
    /\ IF job[w] \in failed /\ errChan = <<>>
          THEN errChan' = <<"error">> /\ worker' = [worker EXCEPT ![w] = "mark"]
          ELSE worker' = [worker EXCEPT ![w] = "range"] /\ UNCHANGED errChan
    /\ UNCHANGED <<qvars, closed, isQueTask, task, taskClosed, wg, caller>>
    /\ UNCHANGED <<loopAt, job, ended, failed>>

WorkerMarks(w) ==
    /\ worker[w] = "mark"
    /\ closed' = TRUE
    /\ worker' = [worker EXCEPT ![w] = "range"]
    /\ UNCHANGED <<qvars, isQueTask, errChan, task, taskClosed, wg, caller>>
    /\ UNCHANGED <<loopAt, job, timer, ended, failed>>

WorkerEnds(w) ==
    /\ worker[w] = "range" /\ taskClosed /\ task = <<>>
    /\ worker' = [worker EXCEPT ![w] = "done"]
    /\ wg' = wg - 1
    /\ UNCHANGED <<qvars, closed, isQueTask, errChan, task, taskClosed, caller>>
    /\ UNCHANGED <<loopAt, job, timer, ended, failed>>

\* The timeout goroutine: its context may end first, or the select may choose
\* it although the task has returned ("stopped"); it then sends the error,
\* waiting for room, and closes the pool.
TimerExpires(i) ==
    /\ timer[i] \in {"armed", "stopped"}
    /\ timer' = [timer EXCEPT ![i] = "send"]
    /\ UNCHANGED <<qvars, fields, caller, loopAt, worker, job, ended, failed>>

TimerStops(i) ==
    /\ timer[i] = "stopped"
    /\ timer' = [timer EXCEPT ![i] = "done"]
    /\ UNCHANGED <<qvars, fields, caller, loopAt, worker, job, ended, failed>>

TimerSends(i) ==
    /\ timer[i] = "send" /\ errChan = <<>>
    /\ errChan' = <<"timeout">>
    /\ timer' = [timer EXCEPT ![i] = "mark"]
    /\ UNCHANGED <<qvars, closed, isQueTask, task, taskClosed, wg, caller>>
    /\ UNCHANGED <<loopAt, worker, job, ended, failed>>

TimerMarks(i) ==
    /\ timer[i] = "mark"
    /\ closed' = TRUE
    /\ timer' = [timer EXCEPT ![i] = "done"]
    /\ UNCHANGED <<qvars, isQueTask, errChan, task, taskClosed, wg, caller>>
    /\ UNCHANGED <<loopAt, worker, job, ended, failed>>

-----------------------------------------------------------------------------
Caller ==
    \/ Do \/ DoWait \/ PushTask \/ DoWaitReturns
    \/ Wait \/ QueueWait \/ QueueClose \/ WaitIsDone \/ WaitQueTask
    \/ CloseTask \/ WgWait \/ WaitReturns
Loop   == LoopStart \/ LoopWorkers
Feed   == StartQueue \/ FeederPop \/ FeederCheck \/ FeederSend \/ FeederEnds
Work(w) == WorkerTakes(w) \/ TaskReturns(w) \/ WorkerReports(w) \/ WorkerMarks(w) \/ WorkerEnds(w)
Timer(i) == TimerExpires(i) \/ TimerStops(i) \/ TimerSends(i) \/ TimerMarks(i)

PoolNext ==
    \/ Caller \/ Loop \/ Feed
    \/ \E w \in setup.workers : Work(w)
    \/ \E i \in 1..MaxPuts : Timer(i)

Next ==
    /\ UNCHANGED setup
    /\ \/ setup.pool /\ PoolNext
       \/ ~setup.pool /\ QNext /\ UNCHANGED <<fields, caller, crew>>

\* Goroutines are scheduled, tasks return, and a caller inside a call goes on.
\* Nothing makes a caller call, and nothing makes a timeout expire.
InCall == main # "idle" /\ Caller
Fairness ==
    /\ WF_vars(setup.pool /\ InCall /\ UNCHANGED setup)
    /\ WF_vars(setup.pool /\ Loop /\ UNCHANGED setup)
    /\ WF_vars(setup.pool /\ Feed /\ UNCHANGED setup)
    /\ \A w \in Workers : WF_vars(setup.pool /\ w \in setup.workers /\ Work(w) /\ UNCHANGED setup)

Spec == Init /\ [][Next]_vars /\ Fairness

-----------------------------------------------------------------------------
(* Properties *)

\* When Wait has returned, no worker runs, nothing was sent on the closed
\* channel, and either an error is returned or every task that was accepted
\* has returned without one (workpool.go:63-75).  It is not so when Wait got
\* past wg.Wait before loop had called wg.Add (workpool.go:123-124).
WaitMeansDone ==
    /\ at[Feeder] # "panic"
    /\ main = "returned" /\ ~early =>
          /\ \A w \in setup.workers : worker[w] = "done"
          /\ result = "nil" => ended = 1..puts /\ failed = {}

\* Wait returns.  DoWait returns unless an error has closed the pool, which
\* may have dropped its task (workpool.go:88, 131).
CallsReturn ==
    /\ main = "wait" ~> main = "returned"
    /\ main = "doWait" ~> (main # "doWait" \/ closed)
=============================================================================
