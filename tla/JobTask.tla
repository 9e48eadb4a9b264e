------------------------------ MODULE JobTask ------------------------------
(***************************************************************************)
(* One JobTask of the job service (service/task.go, built by genJF of      *)
(* service/conf.go), with every goroutine that touches it:                 *)
(*                                                                         *)
(*   - the goroutines that call Run: one for a consumer, one per cron tick *)
(*     for a crontab;                                                      *)
(*   - the ThreadNum worker goroutines each Run starts, which call the     *)
(*     user's RunTask(StopChan);                                           *)
(*   - the goroutines that call dispatchStopSign: one per second for as    *)
(*     long as the job's stop flag is set, and one at shutdown.            *)
(*                                                                         *)
(* RunStatus and stopSignRecved are plain fields: no lock protects them,   *)
(* so each read and each write of them is a step of its own, and nothing   *)
(* is assumed about who runs first: cron, the stop-flag ticker and Close   *)
(* start their goroutines independently.  Run is only called on tasks that *)
(* have a TaskFunc (Start skips the others).                               *)
(***************************************************************************)
EXTENDS Integers, FiniteSets

CONSTANTS
    threadNum,   \* the number of workers asked for, as given to genJF
    RunIds,      \* goroutines inside Run at the same time
    SignIds      \* goroutines inside dispatchStopSign at the same time

\* genJF: a non-positive thread number means one thread.
ThreadNum == IF threadNum <= 0 THEN 1 ELSE threadNum

ASSUME TaskAssumption == threadNum \in Int

VARIABLES
    RunStatus,       \* "running", "finish", or "none" (the empty
                     \* string) until the first Run
    StopChan,        \* number of stop tokens buffered in the channel
    stopSignRecved,  \* set by the first dispatchStopSign, never reset
    run,             \* control point of each goroutine calling Run
    alive,           \* workers of that Run that have not returned
    sign,            \* control point of each goroutine in dispatchStopSign
    left,            \* tokens that goroutine has still to send
    raced,           \* history: two goroutines were between the test of
                     \* RunStatus in Run and recordStart at the same time
    contended,       \* history: two were between the test of stopSignRecved
                     \* and its assignment at the same time
    taken            \* history: tokens that workers have received

vars == <<RunStatus, StopChan, stopSignRecved, run, alive, sign, left, raced,
          contended, taken>>

task    == <<RunStatus, StopChan, stopSignRecved>>
history == <<raced, contended, taken>>

RunPcs  == {"idle", "spawned", "checked", "running"}
SignPcs == {"idle", "spawned", "checked", "marked", "sending"}

TypeOK ==
    /\ RunStatus \in {"none", "running", "finish"}
    /\ StopChan \in 0..ThreadNum
    /\ stopSignRecved \in BOOLEAN
    /\ run \in [RunIds -> RunPcs]
    /\ alive \in [RunIds -> 0..ThreadNum]
    /\ sign \in [SignIds -> SignPcs]
    /\ left \in [SignIds -> 0..ThreadNum]
    /\ raced \in BOOLEAN
    /\ contended \in BOOLEAN
    /\ taken \in Nat

Init ==
    /\ RunStatus = "none"
    /\ StopChan = 0
    /\ stopSignRecved = FALSE
    /\ run = [r \in RunIds |-> "idle"]
    /\ alive = [r \in RunIds |-> 0]
    /\ sign = [s \in SignIds |-> "idle"]
    /\ left = [s \in SignIds |-> 0]
    /\ raced = FALSE
    /\ contended = FALSE
    /\ taken = 0

-----------------------------------------------------------------------------
(* Run *)

\* "go task.Run()" of a consumer, or cron starting the job on a tick.
SpawnRun(r) ==
    /\ run[r] = "idle"
    /\ run' = [run EXCEPT ![r] = "spawned"]
    /\ UNCHANGED <<task, alive, sign, left, history>>

\* What a Run goroutine that gets past the test does to the history.
RunPasses(r) ==
    raced' = (raced \/ \E q \in RunIds \ {r} : run[q] = "checked")

\* Fault: the status test is missing.
RunCheckAlways(r) ==
    /\ run[r] = "spawned"
    /\ run' = [run EXCEPT ![r] = "checked"]
    /\ RunPasses(r)
    /\ UNCHANGED <<task, alive, sign, left, contended, taken>>

\* The status test at the head of Run, and its early return.
RunCheck(r) ==
    /\ run[r] = "spawned"
    /\ IF RunStatus = "running"
          THEN /\ run' = [run EXCEPT ![r] = "idle"]
               /\ UNCHANGED raced
          ELSE /\ run' = [run EXCEPT ![r] = "checked"]
               /\ RunPasses(r)
    /\ UNCHANGED <<task, alive, sign, left, contended, taken>>

\* Fault: one worker too many ("i <= jf.ThreadNum").
RunStartExtra(r) ==
    /\ run[r] = "checked"
    /\ RunStatus' = "running"
    /\ run' = [run EXCEPT ![r] = "running"]
    /\ alive' = [alive EXCEPT ![r] = ThreadNum + 1]
    /\ UNCHANGED <<StopChan, stopSignRecved, sign, left, history>>

\* recordStart and the loop that starts the workers.
RunStart(r) ==
    /\ run[r] = "checked"
    /\ RunStatus' = "running"
    /\ run' = [run EXCEPT ![r] = "running"]
    /\ alive' = [alive EXCEPT ![r] = ThreadNum]
    /\ UNCHANGED <<StopChan, stopSignRecved, sign, left, history>>

\* A worker receives a token from StopChan and its RunTask returns.
WorkerStop(r) ==
    /\ alive[r] > 0
    /\ StopChan > 0
    /\ StopChan' = StopChan - 1
    /\ alive' = [alive EXCEPT ![r] = @ - 1]
    /\ taken' = taken + 1
    /\ UNCHANGED <<RunStatus, stopSignRecved, run, sign, left, raced, contended>>

\* A worker's RunTask returns because its work is done.
WorkerReturn(r) ==
    /\ alive[r] > 0
    /\ alive' = [alive EXCEPT ![r] = @ - 1]
    /\ UNCHANGED <<task, run, sign, left, history>>

\* Fault: the deferred recordFinish without wg.Wait().
RunFinishNoWait(r) ==
    /\ run[r] = "running"
    /\ RunStatus' = "finish"
    /\ run' = [run EXCEPT ![r] = "idle"]
    /\ UNCHANGED <<StopChan, stopSignRecved, alive, sign, left, history>>

\* wg.Wait() returns and the deferred recordFinish runs.
RunFinish(r) ==
    /\ run[r] = "running"
    /\ alive[r] = 0
    /\ RunStatus' = "finish"
    /\ run' = [run EXCEPT ![r] = "idle"]
    /\ UNCHANGED <<StopChan, stopSignRecved, alive, sign, left, history>>

-----------------------------------------------------------------------------
(* dispatchStopSign *)

\* "go jf.dispatchStopSign()" by syncStopFlags or by dispatchAllStopSign.
SpawnSign(s) ==
    /\ sign[s] = "idle"
    /\ sign' = [sign EXCEPT ![s] = "spawned"]
    /\ UNCHANGED <<task, run, alive, left, history>>

\* The test of stopSignRecved: a task that was signalled before is left alone.
SignCheck(s) ==
    /\ sign[s] = "spawned"
    /\ IF stopSignRecved
          THEN /\ sign' = [sign EXCEPT ![s] = "idle"]
               /\ UNCHANGED contended
          ELSE /\ sign' = [sign EXCEPT ![s] = "checked"]
               /\ contended' = (contended \/ \E q \in SignIds \ {s} : sign[q] = "checked")
    /\ UNCHANGED <<task, run, alive, left, raced, taken>>

\* Fault: the signal is not remembered.
SignMarkNothing(s) ==
    /\ sign[s] = "checked"
    /\ sign' = [sign EXCEPT ![s] = "marked"]
    /\ UNCHANGED <<task, run, alive, left, history>>

SignMark(s) ==
    /\ sign[s] = "checked"
    /\ stopSignRecved' = TRUE
    /\ sign' = [sign EXCEPT ![s] = "marked"]
    /\ UNCHANGED <<RunStatus, StopChan, run, alive, left, history>>

\* Fault: a single token for all the workers.
SignStatusOne(s) ==
    /\ sign[s] = "marked"
    /\ sign' = [sign EXCEPT ![s] = IF RunStatus = "running" THEN "sending" ELSE "idle"]
    /\ left' = [left EXCEPT ![s] = IF RunStatus = "running" THEN 1 ELSE 0]
    /\ UNCHANGED <<task, run, alive, history>>

\* The test of RunStatus: a task that is not running gets no token.
SignStatus(s) ==
    /\ sign[s] = "marked"
    /\ IF RunStatus = "running"
          THEN /\ sign' = [sign EXCEPT ![s] = "sending"]
               /\ left' = [left EXCEPT ![s] = ThreadNum]
          ELSE /\ sign' = [sign EXCEPT ![s] = "idle"]
               /\ UNCHANGED left
    /\ UNCHANGED <<task, run, alive, history>>

\* One token into StopChan, whose capacity is ThreadNum: blocks when full.
SignSend(s) ==
    /\ sign[s] = "sending"
    /\ StopChan < ThreadNum
    /\ StopChan' = StopChan + 1
    /\ left' = [left EXCEPT ![s] = @ - 1]
    /\ sign' = [sign EXCEPT ![s] = IF left[s] = 1 THEN "idle" ELSE "sending"]
    /\ UNCHANGED <<RunStatus, stopSignRecved, run, alive, history>>

-----------------------------------------------------------------------------
RunStep(r) ==
    RunCheck(r) \/ RunStart(r) \/ WorkerStop(r) \/ WorkerReturn(r) \/ RunFinish(r)

SignStep(s) ==
    SignCheck(s) \/ SignMark(s) \/ SignStatus(s) \/ SignSend(s)

Next ==
    \/ \E r \in RunIds : SpawnRun(r) \/ RunStep(r)
    \/ \E s \in SignIds : SpawnSign(s) \/ SignStep(s)

Spec == Init /\ [][Next]_vars

(***************************************************************************)
(* The Go scheduler runs every goroutine that can move.  A worker blocked  *)
(* on StopChan takes a token that is there (what RunTask(chan struct{}) is *)
(* given the channel for); nothing obliges it to return by itself, and     *)
(* nothing obliges cron or an operator to spawn anything.                  *)
(***************************************************************************)
Fairness ==
    /\ \A r \in RunIds :
          /\ WF_vars(RunCheck(r))
          /\ WF_vars(RunStart(r))
          /\ WF_vars(WorkerStop(r))
          /\ WF_vars(RunFinish(r))
    /\ \A s \in SignIds : WF_vars(SignStep(s))

FairSpec == Spec /\ Fairness

-----------------------------------------------------------------------------
(* Properties *)

\* A task never executes in two overlapping Runs: the status test at the head
\* of Run is there so that a crontab that cannot keep up is not started again
\* (task.go:43-46).
AtMostOneRun ==
    \A r1, r2 \in RunIds :
        run[r1] = "running" /\ run[r2] = "running" => r1 = r2

\* Two Runs overlap only after two goroutines were between the test of
\* RunStatus and recordStart at once (task.go:43-47): a crontab that is still
\* running, however long, in whatever order its workers, its stop signals and
\* further ticks come, is not started again.
OverlapNeedsRace == raced \/ AtMostOneRun

\* RunStatus, which JobStatus publishes and dispatchStopSign tests, is
\* "running" only while a Run is executing, in every schedule; and, unless two
\* Runs have raced, it is "running" as long as any worker is alive
\* (task.go:47-62).
StatusIsTrue ==
    /\ RunStatus = "running" => \E r \in RunIds : run[r] = "running"
    /\ raced \/ \A r \in RunIds :
                   alive[r] > 0 => run[r] = "running" /\ RunStatus = "running"

\* Over the whole life of a process, across all its Runs, a task is sent no
\* more than ThreadNum tokens, those already taken included, so that a sender
\* never blocks at task.go:77 and tokens left over by workers that returned by
\* themselves end at most that many workers of later Runs; unless two
\* dispatchers (the ticker's and Close's) were between the test of
\* stopSignRecved and its assignment at once (task.go:67-70).
OneSignalsWorth ==
    contended \/ \A s \in SignIds : StopChan + taken + left[s] <= ThreadNum

\* A first stop signal that finds the task running ends that Run, also when
\* several dispatchers compete: every worker gets a token (or has returned),
\* and recordFinish is reached.  Only Runs that have raced may share the tokens
\* between them.
SignalEndsRun ==
    (RunStatus = "running" /\ \E s \in SignIds : sign[s] = "marked")
        ~> (RunStatus = "finish" \/ raced)

=============================================================================
