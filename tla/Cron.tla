-------------------------------- MODULE Cron --------------------------------
(***************************************************************************)
(* The cron scheduler of core/cron/cron.go: the goroutine of run, its      *)
(* timer, and a caller that adds entries, starts and stops the scheduler   *)
(* and asks for its entries over unbuffered channels.                      *)
(*                                                                         *)
(* Calls are made one after the other, as doc.go asks ("a clear            *)
(* happens-before ordering between them"); the job service makes them from *)
(* Start and Close.  Each interleaving of such a caller with the goroutine *)
(* and with the clock is a behaviour.                                      *)
(*                                                                         *)
(* Times are seconds from 0; a schedule is the set of its activation       *)
(* times.                                                                  *)
(***************************************************************************)
EXTENDS Integers, Sequences, FiniteSets, SequencesExt

CONSTANTS
    Jobs,        \* the jobs that may be scheduled, each once
    Times,       \* Times[j]: the activation times of job j
    MaxTime,     \* bound: the clock stops here
    MaxCalls     \* bound: number of calls of Start, Stop and Entries

ASSUME CronAssumption ==
    /\ IsFiniteSet(Jobs)
    /\ Times \in [Jobs -> SUBSET (1..MaxTime)]
    /\ MaxTime \in Nat /\ MaxCalls \in Nat

VARIABLES
    entries,   \* the slice of entries: job and Next (Prev is only reported)
    running,   \* the flag Start sets and Stop clears
    rpc,       \* where the goroutine of run is; "off" when there is none
    now,       \* its local variable
    timer,     \* when its timer fires
    cpc,       \* where the caller is: "idle" or blocked in a call
    arg,       \* the job it is adding
    clock,     \* the time of day
    prompt,    \* whether the goroutine always runs before the clock moves on
    owed,      \* history: activations that are due and have not been started
    spurious,  \* history: starts that were not owed
    calls

vars == <<entries, running, rpc, now, timer, cpc, arg, clock, prompt, owed, spurious,
          calls>>

Zero  == 0               \* the zero time.Time: never
Never == MaxTime + 1     \* a timer of 100000 hours

Entry == [job : Jobs, next : 0..MaxTime]

TypeOK ==
    /\ entries \in Seq(Entry) /\ Len(entries) <= Cardinality(Jobs)
    /\ running \in BOOLEAN
    /\ rpc \in {"off", "init", "sort", "select", "reply"}
    /\ now \in 0..MaxTime
    /\ timer \in 0..(2 * MaxTime + 1)
    /\ cpc \in {"idle", "adding", "asking", "receiving", "stopping", "stopped"}
    /\ arg \in Jobs
    /\ clock \in 0..MaxTime
    /\ prompt \in BOOLEAN
    /\ owed \subseteq Jobs \X (1..MaxTime)
    /\ spurious \subseteq Jobs \X (0..MaxTime)
    /\ calls \in 0..MaxCalls

Init ==
    /\ entries = <<>> /\ running = FALSE
    /\ rpc = "off" /\ now = 0 /\ timer = Never
    /\ cpc = "idle" /\ arg \in Jobs
    /\ clock = 0 /\ prompt \in BOOLEAN
    /\ owed = {} /\ spurious = {} /\ calls = 0

\* Fault: the next activation is not strictly later.
NextFrom(j, t) ==
    LET later == {u \in Times[j] : u >= t}
    IN  IF later = {} THEN Zero ELSE Min(later)

\* Schedule.Next: the first activation later than t.
NextAfter(j, t) ==
    LET later == {u \in Times[j] : u > t}
    IN  IF later = {} THEN Zero ELSE Min(later)

Scheduled == {entries[i].job : i \in DOMAIN entries}

-----------------------------------------------------------------------------
(* The caller *)

caller  == <<cpc, arg>>
loop    == <<rpc, now, timer>>
history == <<owed, spurious>>

\* Fault: the entry goes into the slice whether or not it is sent.
ScheduleBoth(j) ==
    /\ cpc = "idle"
    /\ j \notin Scheduled
    /\ entries' = Append(entries, [job |-> j, next |-> Zero])
    /\ IF running THEN cpc' = "adding" /\ arg' = j ELSE UNCHANGED caller
    /\ UNCHANGED <<running, loop, clock, prompt, history, calls>>

\* AddJob and Schedule: directly into the slice, or through the add channel.
Schedule(j) ==
    /\ cpc = "idle"
    /\ j \notin Scheduled
    /\ IF running
          THEN cpc' = "adding" /\ arg' = j /\ UNCHANGED entries
          ELSE entries' = Append(entries, [job |-> j, next |-> Zero]) /\ UNCHANGED caller
    /\ UNCHANGED <<running, loop, clock, prompt, history, calls>>

Start ==
    /\ cpc = "idle"
    /\ calls < MaxCalls
    /\ calls' = calls + 1
    /\ IF running THEN UNCHANGED <<running, rpc>> ELSE running' = TRUE /\ rpc' = "init"
    /\ UNCHANGED <<entries, now, timer, caller, clock, prompt, history>>

Stop ==
    /\ cpc = "idle"
    /\ calls < MaxCalls
    /\ calls' = calls + 1
    /\ cpc' = IF running THEN "stopping" ELSE "idle"
    /\ UNCHANGED <<entries, running, loop, arg, clock, prompt, history>>

\* Fault: the flag is not cleared.
StopReturnRunning ==
    /\ cpc = "stopped"
    /\ cpc' = "idle"
    /\ UNCHANGED <<entries, running, loop, arg, clock, prompt, history, calls>>

\* The rest of Stop, once the goroutine has received the stop.
StopReturn ==
    /\ cpc = "stopped"
    /\ running' = FALSE
    /\ cpc' = "idle"
    /\ UNCHANGED <<entries, loop, arg, clock, prompt, history, calls>>

\* Entries: a request and its answer over the snapshot channel.
Entries ==
    /\ cpc = "idle"
    /\ calls < MaxCalls
    /\ calls' = calls + 1
    /\ cpc' = IF running THEN "asking" ELSE "idle"
    /\ UNCHANGED <<entries, running, loop, arg, clock, prompt, history>>

-----------------------------------------------------------------------------
(* run *)

RunInit ==
    /\ rpc = "init"
    /\ now' = clock
    /\ entries' = [i \in DOMAIN entries |->
          [entries[i] EXCEPT !.next = NextAfter(entries[i].job, clock)]]
    /\ rpc' = "sort"
    /\ UNCHANGED <<running, timer, caller, clock, prompt, history, calls>>

\* byTime.Less: the zero time comes last.
Less(e, f) == e.next # Zero /\ (f.next = Zero \/ e.next < f.next)

\* Fault: the entries are not sorted.
UnsortedAs(es, fs) == fs = es

\* fs is es in an order sort.Sort may produce.
SortedAs(es, fs) ==
    /\ \E p \in Bijection(DOMAIN es, DOMAIN es) : fs = [i \in DOMAIN es |-> es[p[i]]]
    /\ \A i, j \in DOMAIN fs : i < j => ~Less(fs[j], fs[i])

\* sort.Sort and the new timer, whose duration counts from now, not from the
\* clock; a duration that is not positive fires at once.
RunSort ==
    /\ rpc = "sort"
    /\ \E fs \in [DOMAIN entries -> ToSet(entries)] :
          /\ SortedAs(entries, fs)
          /\ entries' = fs
          /\ timer' = IF fs = <<>> \/ Head(fs).next = Zero THEN Never
                      ELSE Max({clock, clock + (Head(fs).next - now)})
    /\ rpc' = "select"
    /\ UNCHANGED <<running, now, caller, clock, prompt, history, calls>>

\* The entries the loop over c.entries reaches before it breaks, at time t.
Due(t) ==
    {i \in DOMAIN entries :
        \A k \in 1..i : entries[k].next # Zero /\ entries[k].next <= t}

\* The timer fired at time t, which it put into its channel: start the due
\* jobs, each in its goroutine.
TimerFire ==
    /\ rpc = "select"
    /\ \E t \in timer..clock :
          LET started == {<<entries[i].job, entries[i].next>> : i \in Due(t)}
          IN  /\ now' = t
              /\ entries' = [i \in DOMAIN entries |->
                    IF i \in Due(t)
                    THEN [entries[i] EXCEPT !.next = NextAfter(entries[i].job, t)]
                    ELSE entries[i]]
              /\ owed' = owed \ started
              /\ spurious' = spurious \cup (started \ owed)
    /\ rpc' = "sort"
    /\ UNCHANGED <<running, timer, caller, clock, prompt, calls>>

AddRecv ==
    /\ rpc = "select"
    /\ cpc = "adding"
    /\ now' = clock
    /\ entries' = Append(entries, [job |-> arg, next |-> NextAfter(arg, clock)])
    /\ cpc' = "idle"
    /\ rpc' = "sort"
    /\ UNCHANGED <<running, timer, arg, clock, prompt, history, calls>>

SnapshotRecv ==
    /\ rpc = "select"
    /\ cpc = "asking"
    /\ cpc' = "receiving"
    /\ rpc' = "reply"
    /\ UNCHANGED <<entries, running, now, timer, arg, clock, prompt, history, calls>>

\* The answer; the loop goes on with the timer it had.
SnapshotReply ==
    /\ rpc = "reply"
    /\ cpc = "receiving"
    /\ cpc' = "idle"
    /\ rpc' = "select"
    /\ UNCHANGED <<entries, running, now, timer, arg, clock, prompt, history, calls>>

\* Activations that have not started are given up.
StopRecv ==
    /\ rpc = "select"
    /\ cpc = "stopping"
    /\ cpc' = "stopped"
    /\ rpc' = "off"
    /\ owed' = {}
    /\ UNCHANGED <<entries, running, now, timer, arg, clock, prompt, spurious, calls>>

\* The goroutine has nothing to do before the clock moves.
Settled ==
    /\ rpc \in {"off", "select"}
    /\ rpc = "select" => timer > clock
    /\ cpc \notin {"adding", "asking", "stopping"}

\* A second passes; what the schedules of the entries of a started cron name
\* for the new time becomes due.
Tick ==
    /\ clock < MaxTime
    /\ prompt => Settled
    /\ clock' = clock + 1
    /\ owed' = IF rpc = "off" THEN owed
               ELSE owed \cup {<<j, clock + 1>> :
                                  j \in {k \in Scheduled : clock + 1 \in Times[k]}}
    /\ UNCHANGED <<entries, running, loop, caller, prompt, spurious, calls>>

-----------------------------------------------------------------------------
Receive == AddRecv \/ SnapshotRecv \/ StopRecv

Next ==
    \/ \E j \in Jobs : Schedule(j)
    \/ Start \/ Stop \/ StopReturn \/ Entries
    \/ RunInit \/ RunSort \/ TimerFire \/ Receive \/ SnapshotReply
    \/ Tick

Spec == Init /\ [][Next]_vars

(***************************************************************************)
(* The goroutines run, and the goroutine of run, whose select may find the *)
(* timer ready again and again, also picks the caller's channel.           *)
(***************************************************************************)
Fairness ==
    /\ WF_vars(StopReturn)
    /\ WF_vars(RunInit \/ RunSort \/ SnapshotReply)
    /\ SF_vars(Receive)

FairSpec == Spec /\ Fairness

-----------------------------------------------------------------------------
(* Properties *)

\* No activation is missed: when the goroutine keeps up with the clock, every
\* entry of a running cron has been started at each time of its schedule as
\* soon as run waits again, also after entries were added, reported, or the
\* scheduler was stopped and started (cron.go:170-222).
NoneMissed == prompt /\ Settled => owed = {}

\* A job is started only for an activation that is due, and once for it, even
\* when the goroutine is late (cron.go:194-202).
NothingSpurious == spurious = {}

\* Every call of a caller that orders its calls returns (doc.go:
\* "correctly synchronized").
CallsReturn == (cpc # "idle") ~> (cpc = "idle")

=============================================================================
