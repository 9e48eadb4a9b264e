# twist: a TLA+ verification project

`twist` is a Go program: a job service that runs consumers and cron jobs in
several pods that coordinate through Redis, and around it a collection of
infrastructure packages: a cron scheduler, disk-backed queues, goroutine pools,
a TCP server, a file watcher, a service registry and smaller tools. The
specifications here model the parts that carry state over several steps or
goroutines, check them with TLC on small instances, and prove the most
important safety properties with TLAPS for every instance. Paths in this file
are relative to `src/`.

## 1. The system

### Parts, their state and their operations

| Part | Code | State | Operations |
|---|---|---|---|
| Job task | `service/task.go`, `service/conf.go` | `RunStatus`, `StopChan` (capacity `ThreadNum`), `stopSignRecved` | `Run`, its workers, `dispatchStopSign` |
| Job service | `service/svr.go`, `grpc.go`, `service.go`, `main.go`, `core/middleware/interceptor/reload.go` | task lists, cron, tickers | `Start`, `Close`, `syncStopFlags`, `syncJobTaskStatus`, `StopJob`, `JobStatus` |
| Redis access | `dao/status.go` | stop flags, a status hash per pod, a hash of reporting pods | `StopJobs`, `UpdateJobTaskStatus`, `ClearAllJobTaskStatus`, ... |
| Cron scheduler | `core/cron/cron.go` | entries, `running`, the goroutine of `run`, its timer | `Schedule`, `Start`, `Stop`, `Entries` |
| Cron schedules | `core/cron/spec.go`, `parser.go`, `constantdelay.go` | none: algorithms on bit sets and dates | `Parse`, `Next` |
| Disk queue | `diskqueue/diskqueue.go` | read, write and next-read positions, depth, sync counter, data files, metadata file | `Put`, `ReadChan`, `Empty`, `Close`, `Delete`, `Depth` |
| Disk queue, second copy | `dqueue/diskqueue.go` | the same | the same |
| Ring buffer | `workpool/queue/queue.go` | slice, head, tail, count | `Add`, `Peek`, `Get`, `Remove` |
| Work pool | `workpool/workpool.go`, `workpool/myqueue/myqueue.go` | waiting queue, task channel, error channel, flags | `Do`, `DoWait`, `Wait`, `Push`, `Pop`, `TryPopTimeout`, `Close` |
| Worker pool | `worker_pool.go` | ready list, worker count, `mustStop`, channels | `Start`, `Stop`, `Serve`, `clean` |
| TCP server | `zero/` | a second worker pool, connections per address | `Serve`, `Register`, `Unregister` |
| Goroutine pools | `ants.go`, `sem.go`, `http.go` | idle workers, semaphore | submit, release |
| File watcher | `watch/` | commands, signals, file states | run, notify, poll |
| NSQ publisher | `consume/nsq.go` | producers, request channel | publish, reconnect |
| Service registry | `registry/registry.go` | applications and their instances | register, renew, cancel, evict |
| Delay queue, rate limits | `service/delay.go`, `service/koala.go` | slots, counters | add, tick, allow |
| Byte buffer pool | `bytebufferpool/` | size statistics | `Get`, `Put`, `calibrate` |
| Log writer | `vlog/vlog.go` | open file, size | write, rotate |

### How they interact

`main` builds the job service and starts it. `Start` deletes the stop flags in
Redis, starts the two tickers, starts each consumer with `go task.Run()` and
gives each crontab to the cron scheduler, which calls `Run` in a goroutine of
its own at each activation. `StopJob` (gRPC) writes a flag to Redis. Every
pod's `syncStopFlags` reads the flags once a second and calls
`dispatchStopSign` on the tasks they name. `syncJobTaskStatus` writes the
pod's statuses to Redis once a second and `JobStatus` reads those of all pods.
A signal leads to `Close`: it signals all tasks, clears the pod's status,
stops cron and waits three seconds.

The ring buffer is the storage of `MyQueue`, which is the waiting queue of the
work pool. Disk queue, worker pool, server, watcher, registry and the rest are
used on their own.

### What is hard

* **Unsynchronised fields.** `RunStatus`, `stopSignRecved` and cron's `running`
  are read and written by several goroutines without a lock.
* **One-shot signals and bounded channels.** A stop sends `ThreadNum` tokens
  into a channel of that capacity; who takes them, and when, decides whether a
  later run loses workers or a later stop blocks.
* **State shared by processes that die.** Flags and statuses outlive the pod
  that wrote them, and the several commands of one update can be separated by
  a crash, by another pod or by an outage whose errors nobody looks at.
* **Crash recovery.** The disk queue writes data, syncs, rolls files and
  rewrites its metadata in separate steps; reading ahead through a buffer mixes
  with positions that were recovered.
* **Sends under a lock.** `Stop` of the worker pool sends to workers that need
  the same lock to leave.
* **Searches and waits that must end.** `Next` looks for a date that may not
  exist; `Wait` polls flags that other goroutines set; a sleeper on a condition
  variable depends on a signal for every value.
* **Boundaries.** The end of a file is decided twice, by reader and writer; a
  bit mask stands for a modulus; a timer counts from a time that is not now.

The hazards are listed one by one, each at its line and with the properties
that cover it, in `PROJECT.json`.

## 2. Modules

| Module | Models | Extends / uses |
|---|---|---|
| `JobTask` | one task and all its goroutines | |
| `JobTaskProofs` | theorems about `JobTask` | `JobTask` |
| `JobService` | pods, tickers, `Close`, Redis | tasks as `JobTask` shows them from outside |
| `JobServiceProofs` | theorems about `JobService` | `JobService` |
| `Cron` | the loop of `run`, its timer, one caller, the clock | |
| `CronProofs` | theorems about `Cron` | `Cron` |
| `CronSpec` | the parser and `Next` of both kinds of schedule | |
| `CronSpecProofs` | theorems about `CronSpec` | `CronSpec` |
| `WorkerPool` | callers, workers, cleaners, `Start` and `Stop` | |
| `WorkerPoolProofs` | theorems about `WorkerPool` | `WorkerPool` |
| `FifoQueue` | abstract specification: a first-in first-out queue | |
| `RingQueue` | the ring buffer; implements `FifoQueue` | `FifoQueue` |
| `RingQueueProofs` | theorems about `RingQueue` | `RingQueue` |
| `DiskQueue` | `ioLoop` and the disk; implements `FifoQueue` | `FifoQueue` |
| `DQueue` | the second copy of the disk queue | `DiskQueue` |
| `DiskQueueProofs` | theorems about both copies | `DQueue` |
| `MyQueue` | the blocking queue of the work pool | a sequence, as `RingQueue` implements it |
| `WorkPool` | `Do`, `DoWait`, `Wait`, `loop`, `startQueue`, workers, timeouts | `MyQueue` |
| `WorkPoolProofs` | theorems about the pool and its queue | `WorkPool` |
| `MC...` | instances for TLC | the module of that name |

Definitions named "Fault" in their comment are plausible mistakes. They are
used nowhere in the specifications; each one, put in the place of the
definition that follows it, makes a property fail, which shows that the
property depends on that piece of code.

### JobTask

Each goroutine in `Run` goes through *spawned* (before the status test),
*checked* (between test and `recordStart`) and *running*; each goroutine in
`dispatchStopSign` through *spawned*, *checked*, *marked* and *sending*, one
step for each access to an unsynchronised field. `StopChan` is the number of
tokens in the channel, `alive[r]` the workers of a Run. Nothing is assumed about
the schedule: cron, the stop-flag ticker and `Close` start their goroutines
independently, and any two may be in the same straight-line code at once. Three
variables are history: `raced` (two Runs were between the status test and
`recordStart` at once), `contended` (two dispatchers were between the test of
`stopSignRecved` and its assignment at once) and `taken` (tokens received). The
properties say what holds in every schedule, and name the race after which a part
of it may fail. The nil test at the head of `Run` is left out: `Start` never calls
`Run` on such a task.

### JobService

One action per Redis command whose effect another step can tell apart, and one per
step of `Close`. What is deployed (hosts, tasks, which kinds are enabled) is chosen
once from `Deployments`, together with the bounds of the environment: how many
processes are started, whether anybody calls `StopJob` or `Close`, how often Redis
is lost.

Within a task only what the service sees is kept. `go task.Run()` and
`go dispatchStopSign()` only start a goroutine (`starting`, `dispatching`), so a
signal may find a consumer that has not got to `recordStart` yet. Two dispatchers
of the same task are one here; what they do to each other is in `JobTask`.

While Redis is out of reach (`redisUp`) a command has no effect and the code, which
looks at no error, goes on with its next step. In particular a `Start` whose `DEL`
fails goes on with the old stop flags; `cleared` (history) is the pods whose `Start`
did delete them. `HMSET` of a status hash and its `EXPIRE` are two steps: a pod that
dies or loses Redis in between leaves a new hash without an expiry (`torn`, history),
and `StatusExpire` removes only a hash that has one. The expiries of the stop flags
and of the hash of reporting pods may happen but need not, so whether their `EXPIRE`
was executed needs no state. `Crash` kills a process at any point. The gRPC handlers
are modelled as actions although `main` of this commit does not start the gRPC
server.

### Cron

Times are seconds; a schedule is the set of its activation times. The goroutine
of `run` goes through *init*, *sort*, *select* and *reply*, the caller through
the channel operation it is blocked in. The timer starts at the clock and lasts
for the difference to the loop's own `now`, as in the code, and puts the time
at which it fired into its channel. `prompt` (chosen at the start) says whether
the loop always finishes its work before the clock moves on; without it the
loop may be arbitrarily late. `owed` and `spurious` are history: activations
that are due and not started, and starts that nobody owed. There is one caller,
because `doc.go` requires callers to order their calls.

### CronSpec

One behaviour is one use of a spec: `ParseSpec` runs the parser, then `Next` is
called once. The search is the code's, one step per turn of a `for` loop:
*wrap*, *month*, *day*, *hour*, *minute*, *second*, with the variables `t`,
`added` and `yearLimit`. The parser is a set of operators with the names of
its functions; a `uint64` mask is the set of its bits, the star bit being one
of them. Specs come as tokens (a field is a list of ranges, a range has parts
between hyphens and steps after slashes), because cutting a string is the work
of `package strings`; what each token is taken for is modelled, invalid ones
included. The calendar is scaled by constants: the real one has too many
seconds to enumerate, and the code only uses that fields start at their
minimum, that months differ in length and that some years have a day more.
There are no time zones and no clock changes. `FirstDays` is the table of the
days on which the months begin; `MonthOf` looks a time up in it. The calendar
ends after year `Years`, and `Next` is called with times from which its search
stays within it.

`NextIsFirst` compares the result with a definition that knows nothing of bits
or of the search: a second is due when the written fields contain its values,
`doc.go`'s table standing for the descriptors, and `Next` returns the first
such second. When both day fields are restricted one of them is enough, when one
has a star both must match (`spec_test.go:45, 49`); a star with a step counts as a
star, as in the code and in `spec_test.go:51`, and against `doc.go:53-54` (section
5, item 5).

### WorkerPool

Every section under `wp.lock` is one step; `Stop`, which sends while it holds
the lock, is several, and whoever needs the lock waits for it. `worker[c]` is
the control point of the goroutine bound to channel `c`, `ch[c]` what is in the
channel; without a buffer (`GOMAXPROCS=1`) a send needs a receiving worker.
A channel returned to the `sync.Pool` keeps what is in it. `old` abstracts
`lastUseTime`. Each `Start` has a cleaning goroutine with its own stop channel,
so after a restart the previous one may still be at work. There are at most
`Chans` channels; a new worker waits for a free one (in the run there are as
many as workers, in the proofs any number). Tasks are not nil,
`WorkerFunc` returns and does not panic.

### FifoQueue, RingQueue

`FifoQueue` says what a queue promises: append, take the first, or be emptied.
In `RingQueue` the slice is a function on `0..cap-1`; `Add` and `Remove` are
split into the case that resizes and the one that does not; `Resized` is the
copy in two parts that `resize` makes. A bit mask is a modulus as long as the
length is a power of two. `MaskIsModulo` says so about the bits of the numbers,
each bit being given by its weight: `x % cap` has exactly those bits that `x`
and `cap - 1` have in common. `MCRingQueue` checks that this is what the `&` of
the `Bitwise` module computes.

### DiskQueue

A file is a sequence of cells: one header cell and `len` body cells for a
message. Positions count cells. The buffered reader is part of the state,
because it may hold cells that were overwritten since. `pc` follows `ioLoop`:
sync, read ahead, then `select` between delivery, `Put`, `Empty`, the sync tick
and exit; handlers that change the disk more than once are split so that a
crash can come in between. `Crash` keeps the disk; with `PowerLoss` it also
drops any part of what was not fsynced. Files one call removes go together. The
metadata file is durable once it was renamed: the code fsyncs it before, but not the
directory, and the model takes the rename itself to survive a power loss.
I/O errors other than a missing file, and the callers' locking (`RWMutex`,
`exitFlag`), are not modelled. `Setups` chooses once which copy runs and
whether it may crash; a queue that may crash is not closed.

`DQueue` names each handler of the second copy and says how it differs, if it
does: `QWriterRolls` ends a file at the limit where `QReaderRolls`, like the
first copy, only goes on behind it, and `QReadTick` is a ticker without effect.

### MyQueue, WorkPool

In `MyQueue` a method that holds the mutex from beginning to end is one step.
`waiting` is the list of the condition variable, the longest sleeper first;
`Signal` takes the first off it, `Broadcast` all. `popChan` may block on the
channel `cc` inside the mutex: then `mu` is its goroutine and nobody else gets
in. A timed pop that gives up leaves its goroutine in `Poppers` behind.
Values are numbered by their `Push`; `got` is history.

`WorkPool` adds a caller, whose place in `Do`, `DoWait` or `Wait` is `main`,
the goroutines of `loop` and `startQueue` (the `Feeder`, one of the queue's
users), the workers and, when a timeout was set, one timeout goroutine per
running task. Reads and writes of `closed`, `isQueTask`, the channels and the
wait group are separate steps: `IsDone` and `isQueTask` are read one after the
other, an error is sent before `closed` is set. Tasks return, with an error or
without. A `Setup` without a pool lets two goroutines use the queue directly.

## 3. Runs

| Run | Instance | Shows |
|---|---|---|
| `job_task` | 3 workers, 3 Runs, 2 signals | Runs overlap only by a race through the status test; the status is true; a task gets one signal's worth of tokens unless two dispatchers race; a signal ends the Run |
| `job_task_overlap` | 2 Runs | **violation**: the task runs twice at once |
| `job_service` | 2 pods and 1 consumer; 1 pod with a consumer and a crontab; 1 pod that is closed or killed, starts again, and loses Redis once | no stop is inherited by a process that could delete the flags; a flag stops the running consumers everywhere; `JobStatus` converges to the truth; a dead pod is forgotten, unless it was cut off between `HMSET` and `EXPIRE` |
| `job_service_stop` | 1 pod, 1 crontab | **violation**: a crontab idle at its first signal is never stopped |
| `job_service_close` | 1 pod | **violation**: the status is published again after `Close` cleared it |
| `cron` | 3 jobs, 4 seconds, 3 calls besides the adds | no activation is missed or started twice; calls return |
| `cron_schedule` | about 300 specs, 2 parsers, 7 times, 11 years of 9 or 10 days | `Next` is the first due second or the zero time; it ends |
| `worker_pool` | 2 callers, 2 workers, 3 calls, 2 starts, buffer 0 or 1 | one sender per waiting worker; none lost; exact count; calls return; workers end |
| `work_pool` | pools of 1 and 2 workers, up to 4 tasks, with and without timeouts; a bare queue with 2 users, 3 values, 3 timed pops | no value and no wake-up is lost; `Wait` returns, and then every task has run or an error is reported |
| `ring_queue` | lengths 4 to 16, 9 elements of 2 values | implements the FIFO queue; indices, slots and mask are right |
| `disk_queue` | both copies: 4 puts of 3 lengths (one fills a file by itself, one is refused), 1 `Empty`, and 1 `Close` or 1 power loss | implements the FIFO queue; depth and files exact; it drains; synced messages are recoverable; a crash undoes at most `SyncEvery` operations |
| `disk_queue_pass` | process crash once | **violation**: the read position passes the write position and is not repaired |

### Why the bounds are enough

* `job_task`: three workers tell "all", "some" and "one" of the tokens apart;
  two signals are the least that can compete; three Runs are one that runs, one
  that is refused and one that comes after. The proofs cover all other numbers.
* `job_service_*`: two pods are enough for one to clear what the other set; two
  starts are a process and its successor, and one outage may begin and end anywhere,
  so that any part of a start, an update or a `Close` is lost. Tasks do not influence
  each other except through the lists, so one of each kind suffices. The deployments
  of `PassDeployments` combine these two at a time, because together they have too
  many states for the liveness properties; the safety properties are proved for all.
* `cron`: one job for every second, one for every other second and one with a
  single activation give ties, different orders and an unsatisfiable schedule
  at the end of the list; four seconds allow two periods of the slower job; three
  calls allow `Start`, `Stop`, `Start`.
* `cron_schedule`: months of 4, 2 and 3 days and a week of 4 give dates that
  exist in every year, in leap years only and never, and week days that shift
  from year to year. Leap years are 8 apart, so the five years `Next` looks
  ahead sometimes contain one and sometimes do not. The times lie around the
  leap day and the ends of months and years, on a second and inside one. Every
  syntactic form occurs in every field where it is treated differently.
* `worker_pool`: two workers make the list long enough to be split by `clean`;
  three calls reach the limit and then reuse a worker; two starts let two
  cleaning goroutines overlap. The proofs cover all other numbers.
* `work_pool`: four tasks are one that runs, two that fill the channel of a
  pool of one and one in the hand of `startQueue`; two workers and two tasks
  let two timeouts compete for the error channel; three timed pops leave two
  goroutines behind and have one more that is served.
* `ring_queue`: nine elements make the slice grow twice and shrink twice, with
  every position of the head.
* `disk_queue*`: four messages of two accepted lengths fill two to four files of
  one to three messages, with the file ending exactly at, before and behind the
  limit, and a long message filling a file by itself; `SyncEvery` = 2 has every phase
  of the counter; the reader's buffer holds several messages, so it reads ahead of
  the one it returns.

What is proved (section 4) does not depend on these numbers: the proofs cover
any number of pods, jobs, seconds, users, workers, tasks and messages, any
message lengths, file sizes and buffer sizes, any calendar, parser and spec.
Every invariant and both refinements of the passing runs are proved. The bounds
matter for the liveness properties only.

### Fairness

* `JobTask`: goroutines that can run do; a worker that finds a token takes it.
  Nothing forces a task to return by itself, a Run to start or a signal to be
  sent.
* `JobService`: the tickers tick, goroutines that were started get to run, `Close`
  goes on once begun, an expiry that was set on a status hash happens, a task takes
  its stop tokens, and an outage of Redis ends. Nobody is forced to call `StopJob`,
  to send a signal or to start a process, and no task has to end by itself.
* `Cron`: the goroutine of `run` goes on, and its `select` does not prefer the
  timer to the caller for ever (strong fairness: Go chooses at random among
  ready cases).
* `CronSpec`: the call runs on.
* `WorkPool`: a caller inside a call goes on, as do `loop`, `startQueue` and
  the workers, and tasks return. No timeout has to expire, nobody has to call,
  and the bare queue is checked for safety only.
* `WorkerPool`: every goroutine goes on, tasks return, time passes.
* `DiskQueue`: `ioLoop` goes on, and its `select` delivers to a consumer that
  is always waiting (strong fairness, for the same reason). A queue that was
  closed is opened again.

Deadlock is checked for `JobTask` and `RingQueue`. The other instances may
rest for good: their bounds run out, every pod may be gone, nobody may call.

## 4. Proofs

All theorems hold for every value of the constants that satisfies the
`ASSUME` of the module.

**`JobTaskProofs`.** `TypeCorrect`: `StopChan` stays within its capacity and
no wait group goes below zero. `OverlapOnlyByRace`, `StatusIsSound` and
`OneSignalOnly` prove the other safety invariants of the run, in every schedule.
None is inductive by itself. `RunInv` adds that, unless two Runs have raced, a
goroutine between test and assignment excludes any running one and any other in the
same place, and that workers belong to a Run that runs. `SignInv` adds that, unless
two dispatchers have raced, at most one ever gets past `stopSignRecved`, because it
is never reset, and that nothing was sent before. The history variables are what
the proof splits on: the step that makes a race is the one that sets them.

**`RingQueueProofs`.** `TypeCorrect`, `TailIsConsistent`, `NoReferenceKept` and
`RingIsFifo`, which is the refinement of `FifoQueue`, and `MasksAreModuli`. The
inductive invariant `QueueInv` says that `tail` is `count` slots after `head`
and that exactly those slots are not nil; the modulus is first replaced by the
one subtraction it amounts to. Each step is then shown to be a step of `FifoQueue` on the
sequence of the live slots. For `MasksAreModuli` a power of two is a number
without odd divisors but 1: doubling and halving keep that, so `resize` does,
and of two such numbers the smaller divides half of the larger (`PowersDivide`,
by a least counterexample). So a bit below the length has the same parity in
`x` and in `x % cap` and is set in `cap - 1`, and one above is in neither.

**`WorkerPoolProofs`.** `TypeCorrect`, `OneSenderAlways`, `NoWorkerLost` and
`CountExact`. The central fact is that a waiting worker always has exactly one
prospective sender: the ready list, a cleaning goroutine's scratch list, a
caller of `Serve`, or a message already there. `OneSender` and `NoLostWorker`
state the two halves. They are inductive together with `ScratchDone` (a
cleaning goroutine overwrites its scratch list only when it is empty),
`HasChan` (a caller that sends has a channel) and the types; `WorkersCounted`
is needed for the counter not to go below zero. Lemmas about taking the first
or last channel off a list, cutting it and appending to it carry the list
operations. From `OneSender` it follows that the sends of `Stop` under the lock
cannot be stuck: each goes to a worker that receives without the lock.

**`JobServiceProofs`.** `TypeCorrect` and `StopsAreNotInherited`. What a pod's
stop channels hold came from a `dispatchStopSign` that the ticker started for a flag
in Redis, which any pod may have raised and which outlives it. So the invariant has
to follow the chain: the flags were raised since the start of every live pod that
could delete them (`FlagsAreRecent`, a theorem of its own, `FlagsSeenAreRecent`), and
so were the signals under way (`SignalsAreRecent`); a process that is down has no
memory (`DownIsEmpty`). `Start` establishes it when its `DEL` is executed, before the
tickers run; a `Start` whose `DEL` fails leaves the flags as they are, which keeps
what was true for the others; crashes and expiries only remove flags.

**`CronProofs`.** `TypeCorrect`, `StartsAreOwed`, `NoActivationMissed` and
`EntriesDistinctAndOrdered`. The invariant connects an entry's `Next` with the
schedule: every due activation from `Next` on is owed (`Owing`), and `Next` is
no later than the first activation to come (`Covers`). So what the loop starts
was owed, however late it is. For `NoneMissed` the other direction is needed:
that all that is owed is the `Next` of an entry when the loop is prompt
(`Timely`), and that the entries before the first one that is not due are all
the due ones (`Ordered`). A job has one entry (`Distinct`), although entries
come directly and over the `add` channel.

**`WorkPoolProofs`.** `QueueLosesNothing`, `NoSleeperForgotten`,
`WaitReturnsDone` and `MarksAreTrue`. The queue's invariant `QInv` is kept by
every method, whoever calls it: the places a value may be in are disjoint and
hold none twice (`Placed`), a goroutine that starts a pop has nothing in hand
(`Held`), and those on the list of the condition variable are asleep in a pop
(`Asleep`), so that a signal reaches somebody who will look. `PInv` adds the
pool. That `Wait` means done is the end of a chain: the queue was found empty
before it was closed, `startQueue` had ended its work when `isQueTask` was
read, so nothing more is sent and a worker that ends leaves the channel empty;
the wait group counts exactly the workers that have not ended; a task that has
gone ahead is in the hands of one of them; and an error or a timeout is in
`errChan` before it can close the pool.

**`CronSpecProofs`.** `ScheduleTypes`, `NextFindsTheFirst` and
`SearchGoesForward`, in three parts.

1. *The calendar.* What `package time` computes is a recursive table and a
   `CHOOSE` from it. That the table exists and grows, and that every day lies in
   exactly one month, is shown by least counterexamples (`TableExists`,
   `FirstDayGrows`, `MonthOfDay`), the rest by division: the start of the next
   unit is in the same larger unit, or starts the next one too (`SuccCarry`).
2. *The search.* A turn of a loop moves `t` to the start of the next month, day,
   hour, minute or second, so that all it passes over has the same wrong value
   (`LandsMonth` to `LandsSecond`). The point a reader would doubt is the flag
   `added`: only the first turn resets the smaller fields, and later turns of
   other loops, before and after a jump back to `WRAP`, rely on it. The invariant
   is `Aligned`: once `added` is set, either the larger fields are right or `t` is
   already the start of the unit that would be reset. With it `Inv` says that no
   second between the argument and `t` matches the masks (`NoneBefore`), what
   each loop has established (`Passed`), and that `t` is not beyond the first
   month after the last year, where the search gives up.
3. *The parser.* A mask `Means` a field when it has exactly the values the text
   names, and the star bit exactly for a star. Accepted ranges (`GetRangeIs`),
   lists of ranges (`GetFieldIs`), fields filled in by default (`ExpandIs`) and
   the predefined schedules against the table of `doc.go` (`SchedMeans`) all do,
   so the masks match a time exactly when the text is due then (`MatchesIsDue`).

`NextFindsTheFirst` puts the last two together. `SearchGoesForward` is the
variant behind `SearchEnds`: each step of the search returns, moves `t` on
inside the calendar, or goes on to a smaller field.

**`DiskQueueProofs`.** Both copies at once: `Step` is `Next` with the writer's
test for the end of a file left open, and a step of either copy is one. The
invariant `Whole` has four parts.

1. `Typed` holds always, after crashes too: positions stay within
   `MaxBytesPerFile`, because both ends leave a file once they are behind it, and
   `count` is below `SyncEvery` where the loop selects. It gives `TypeCorrect`.
2. `Sound`: before the first crash, files are laid out as the writer meant.
   Every file is a sequence of whole messages, each started before the limit
   (`Layout`); the files between the two ends are full and the last one ends at
   the write position (`Span`); the read position is the start of a message, and
   the next position either equals it or lies behind that message, which is
   then in `dataRead` (`ReadPlace`, `Offered`); what the reader has buffered is
   what the file holds (`ReaderPlace`); what `Close` stored is what `New` finds
   (`Stored`). From this a read returns the message that was put there or runs
   into the end of a file that is exactly full. It gives `FilesAreThoseNeeded`;
   on the way, `TailAgrees` shows that `checkTailCorruption` never finds the
   positions in disagreement.
3. `Exact`: before the first crash, messages lie in the files in the order in
   which they were put (`InOrder`), so each has one header, and `depth` counts
   the headers behind the read position. It gives `DepthIsExact` and
   `OldestFirst`: a consumer receives the oldest message, whole and once, and
   nothing but a delivery or `Empty` takes a message out.
4. `Durable`, for a queue that may crash, before the first crash: every file
   but the one being written is fsynced (`Fsynced`), there are no files while
   the queue is emptied (`Bare`), the messages owed to the last sync are in the
   queue and recoverable, and each operation since has added at most one message
   to what a crash would undo (`Backed`). It gives `SyncedSurvivesFirstCrash`
   and `CrashUndoesFew`. After a crash the files may hold bytes behind the write
   position (section 5, item 4), and none of the last three parts holds any
   more: the theorems end with the first crash, as the run does.

`DiskQueueIsFifo` is the refinement of `FifoQueue` by both copies when the
process does not crash. Messages are numbered by their `Put`s, so `Contents`, the
queue as the disk has it, is the queued messages in the order of their numbers
(`ContentsAre`), and the lemmas about putting a number behind all others and
taking the least away turn the steps of `OldestFirst` into steps of `FifoQueue`
(`FifoStep`).

**Assumptions.** Besides the types of the constants: `Jobs`, `Users`, `Poppers`
and `Workers` are finite sets, as goroutines are; `Nil` is neither a number nor
the contents of a metadata file; message lengths are positive; `MinQueueLen` is
a power of two (`MasksAreModuli` only). For `CronSpec`: months have between 1
and `MaxDom` days, the leap day included; the values of a field lie below the
star bit of its mask, and names stand for numbers; a spec consists of tokens, or
is a descriptor with a duration; and the search does not leave the calendar.
The real lengths, masks and names satisfy them; of the leap years the rule of
the centuries is left out.

**Only model-checked.**

* All liveness properties (`SignalEndsRun`, `FlaggedConsumersStop`,
  `StatusConverges`, `DeadPodForgotten`, `Drains`, `SearchEnds`, `WorkersEnd` and
  `CallsReturn` of three modules), because the prover does not reason about
  fairness. `SearchGoesForward` proves the safety part of `SearchEnds`.
* That `Bits` is what `&` computes (`MaskBits` of `MCRingQueue`): the operator of
  the `Bitwise` module is recursive.

## 5. Where the code and its documentation disagree

1. **A task may run twice at once** (`service/task.go:43-47`). The status test
   that is to keep a slow crontab from being started again and the assignment
   are not atomic. Run `job_task_overlap`.
2. **A stop signal is used up by an idle crontab** (`service/task.go:70`).
   `stopSignRecved` is set before `RunStatus` is tested and never reset, so
   later runs of that crontab are not stopped while the flag stays set. Run
   `job_service_stop`.
3. **A closed pod publishes its status again** (`service/svr.go:79`). `Close`
   clears it while the ticker goes on for three more seconds. It then stays
   until it expires. Run `job_service_close`.
4. **The read position may pass the write position**
   (`diskqueue/diskqueue.go:536`). After a process crash the data file holds
   bytes behind the recovered write position. The buffered reader may take
   them in before they are overwritten and return a stale message; if it was
   the last of its file the read position moves on to the next file, and
   `checkTailCorruption` returns early because the offset 0 is smaller than
   `writePos`. `ioLoop` then handles read errors without reaching its `select`.
   Run `disk_queue_pass`.
5. **`*/n` is not `first-last/n` in a day field** (`core/cron/spec.go:154`).
   `doc.go:53-54` calls the two forms equivalent, but only the first sets the star
   bit: when the other day field is restricted, `*/2` needs both to match and
   `1-31/2` either of them. `spec_test.go:51` expects what the code does. The run
   `cron_schedule` has both forms with a restricted week day; it takes the rule of
   the code and the tests as its reference, so it does not report the difference.

Not counted as disagreements, but worth knowing:

* **Two dispatchers may both pass the test of `stopSignRecved`**
  (`service/task.go:67`), the ticker's and that of `Close`, or two of the ticker's.
  Then `2 * ThreadNum` tokens are sent; if the workers have gone, line 77 blocks for
  good, and the tokens left in the channel end workers of later Runs of a crontab.
  `OneSignalsWorth` names this race. Without it tokens are left over too, when
  workers return by themselves after the signal, but never more than `ThreadNum`.
* **A consumer may use up its signal before it runs.** A stop flag seen before the
  consumer's goroutine has got to `recordStart` sets `stopSignRecved` without sending
  a token, as for the idle crontab of item 2; that consumer is not stopped by the
  flag. `FlaggedConsumersStop` is about consumers that run and were not signalled.
* **A `Start` that does not reach Redis keeps the old stop flags**
  (`dao/status.go:16`), and its tasks are stopped by them once Redis is back.
  `NoInheritedStop` leaves such a start out.
* **A `Start` deletes the stop flags of all pods** (`service/svr.go:89`), also those
  that another pod has not seen yet: that stop is lost.
* **A status hash may never expire.** A pod that dies, or loses Redis, between the
  `HMSET` that makes a new hash and its `EXPIRE` (`dao/status.go:70-71`) while it is
  still listed, as after a quick restart, stays in `JobStatus` until its host name
  is used again. `DeadPodForgotten` leaves it out.
* **A crash inside `Empty`** of the disk queue, after the data files and before the
  metadata file was removed, brings no message back, but the next process starts
  with the old depth and positions and goes through read errors to the next file.
* `Close` of the disk queue syncs after the write file was closed, so the data
  is not fsynced although the metadata is. `SyncedRecoverable` is checked
  without `Close` for that reason.
* **Wait may return early.** `loop` starts `startQueue` before it calls `wg.Add`
  (`workpool/workpool.go:123-124`). If `Wait` reads `IsDone` while
  `startQueue` has the last task in its hand, and gets through before `wg.Add`,
  it returns nil although the task has not run. `WaitMeansDone` leaves this case
  out by the history variable `early`.
* **DoWait may never return.** A task that is dropped because another one failed
  or timed out in the meantime never closes the channel `DoWait` waits for
  (`workpool/workpool.go:60`); `CallsReturn` leaves a closed pool out.
* **A timed pop may lock the queue.** Two goroutines that timed-out pops left
  behind fill the channel; the second waits on it with the mutex held
  (`workpool/myqueue/myqueue.go:93`), and `Push`, `Pop` and `Close` wait until
  another timed pop comes, also after `Close`.
* **The second copy of the disk queue** renames a file that is exactly full to
  `.bad` after its last message was delivered (`dqueue/diskqueue.go:402`).
  Nothing is lost; `FilesExact` allows exactly these files.
* A field of commas alone has no values; it is accepted and never due.
* **The TCP server** builds its worker pool without a mutex
  (`zero/server.go:107`, `zero/pool.go:22`): the first connection dereferences
  a nil pointer.

## 6. Not modelled, and what could come next

* **TCP server** (`zero/`): ends with its first connection, see above. Its pool
  with a mutex would be `WorkerPool` with another search for idle workers.
* **Disk queues**: I/O errors, and the callers' side: `RWMutex`, `exitFlag` and
  the request channels.
* **Service registry**: `Register` looks an application up and stores it again
  under two separate locks, so that a `Cancel` in between may delete the
  application to which an instance was just added. Eviction is empty.
* **NSQ publisher, goroutine pools (`ants.go`, `sem.go`, `http.go`)**: programs
  of their own, with the interesting parts commented out or the same pattern as
  `worker_pool.go`.
* **File watcher**: child processes and the file system.
* **Delay queue, rate limits**: not used; Redis commands and scripts.
* **Byte buffer pool, log writer**: statistics in floating point, formatting.
* Configuration and JSON (a file is read), browser automation (an external
  program), connection id counters, and the snippets under `work_test/`.

Theorems worth proving next: for the disk queue, what is still true after a
crash (that positions stay within the files there are, once the defect of
section 5, item 4, is repaired); for `CronSpec`, the rule of the centuries in the
calendar, and clock changes, for which `Hour` would no longer be a division.
