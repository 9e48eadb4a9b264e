--------------------------- MODULE JobTaskProofs ---------------------------
(***************************************************************************)
(* Proofs about one JobTask, for every number of workers and any set of    *)
(* goroutines, in every schedule.                                          *)
(*                                                                         *)
(* The two unsynchronised tests of task.go, of RunStatus and of            *)
(* stopSignRecved, are what could go wrong; RunInv and SignInv say what    *)
(* holds as long as no two goroutines were inside one of them together.    *)
(***************************************************************************)
EXTENDS JobTask, TLAPS

\* genJF never makes a task without a worker, so StopChan has room for a token.
LEMMA ThreadNumPositive == ThreadNum \in Nat /\ ThreadNum >= 1
  BY TaskAssumption DEF ThreadNum

-----------------------------------------------------------------------------
(* Type correctness *)

\* The types, and that a sender has a token left to send.
TypeInv ==
    /\ TypeOK
    /\ \A s \in SignIds : sign[s] = "sending" => left[s] >= 1

LEMMA TypeStep == TypeInv /\ [Next]_vars => TypeInv'
<1> USE ThreadNumPositive DEF TypeInv, TypeOK, RunPcs, SignPcs, task, history
<1> SUFFICES ASSUME TypeInv, [Next]_vars PROVE TypeInv'
  OBVIOUS
<1>1. ASSUME NEW r \in RunIds, SpawnRun(r) PROVE TypeInv'
  BY <1>1 DEF SpawnRun
<1>2. ASSUME NEW r \in RunIds, RunCheck(r) PROVE TypeInv'
  BY <1>2 DEF RunCheck, RunPasses
<1>3. ASSUME NEW r \in RunIds, RunStart(r) PROVE TypeInv'
  BY <1>3 DEF RunStart
<1>4. ASSUME NEW r \in RunIds, WorkerStop(r) PROVE TypeInv'
  BY <1>4 DEF WorkerStop
<1>5. ASSUME NEW r \in RunIds, WorkerReturn(r) PROVE TypeInv'
  BY <1>5 DEF WorkerReturn
<1>6. ASSUME NEW r \in RunIds, RunFinish(r) PROVE TypeInv'
  BY <1>6 DEF RunFinish
<1>7. ASSUME NEW s \in SignIds, SpawnSign(s) PROVE TypeInv'
  BY <1>7 DEF SpawnSign
<1>8. ASSUME NEW s \in SignIds, SignCheck(s) PROVE TypeInv'
  BY <1>8 DEF SignCheck
<1>9. ASSUME NEW s \in SignIds, SignMark(s) PROVE TypeInv'
  BY <1>9 DEF SignMark
<1>10. ASSUME NEW s \in SignIds, SignStatus(s) PROVE TypeInv'
  BY <1>10 DEF SignStatus
<1>11. ASSUME NEW s \in SignIds, SignSend(s) PROVE TypeInv'
  BY <1>11 DEF SignSend
<1>12. CASE UNCHANGED vars
  BY <1>12 DEF vars
<1> QED
  BY <1>1, <1>2, <1>3, <1>4, <1>5, <1>6, <1>7, <1>8, <1>9, <1>10, <1>11, <1>12
     DEF Next, RunStep, SignStep

LEMMA TypeInit == Init => TypeInv
<1>1. 0 \in 0..ThreadNum /\ 0 \in Nat
  BY ThreadNumPositive
<1> SUFFICES ASSUME Init PROVE TypeInv
  OBVIOUS
<1>2. taken \in Nat /\ StopChan \in 0..ThreadNum
  BY <1>1 DEF Init
<1>3. raced \in BOOLEAN /\ contended \in BOOLEAN /\ stopSignRecved \in BOOLEAN
  BY DEF Init
<1>4. alive \in [RunIds -> 0..ThreadNum] /\ left \in [SignIds -> 0..ThreadNum]
  BY <1>1 DEF Init
<1>5. run \in [RunIds -> RunPcs] /\ sign \in [SignIds -> SignPcs]
  BY DEF Init, RunPcs, SignPcs
<1> QED
  BY <1>2, <1>3, <1>4, <1>5 DEF Init, TypeInv, TypeOK

\* The fields of a JobTask keep their types in every behaviour of its
\* goroutines, whatever the schedule: StopChan never holds more tokens than its
\* capacity ThreadNum, and no wait group goes below zero.
THEOREM TypeCorrect == Spec => []TypeOK
<1>1. TypeInv => TypeOK
  BY DEF TypeInv
<1> QED
  BY TypeInit, TypeStep, <1>1, PTL DEF Spec

-----------------------------------------------------------------------------
(* Runs *)

\* RunStatus is "running" only while a Run executes.  As long as no two Runs
\* have raced: at most one goroutine is past the status test and not yet at
\* recordStart, and then no Run is executing; at most one Run executes, and
\* while it does, or has a worker, RunStatus is "running".
RunInv ==
    /\ RunStatus = "running" => \E r \in RunIds : run[r] = "running"
    /\ ~raced =>
          /\ \A r1, r2 \in RunIds :
                run[r1] = "checked" /\ run[r2] = "checked" => r1 = r2
          /\ \A r1, r2 \in RunIds : run[r1] = "checked" => run[r2] # "running"
          /\ AtMostOneRun
          /\ \A r \in RunIds : run[r] = "running" => RunStatus = "running"
          /\ \A r \in RunIds : alive[r] > 0 => run[r] = "running"

LEMMA RunInvInit == Init => RunInv
  BY DEF Init, RunInv, AtMostOneRun

LEMMA RunInvStep == TypeInv /\ RunInv /\ [Next]_vars => RunInv'
<1> USE ThreadNumPositive DEF RunInv, AtMostOneRun, TypeInv, TypeOK, RunPcs, SignPcs,
        task, history
<1> SUFFICES ASSUME TypeInv, RunInv, [Next]_vars PROVE RunInv'
  OBVIOUS
<1>1. ASSUME NEW r \in RunIds, SpawnRun(r) PROVE RunInv'
  BY <1>1 DEF SpawnRun
<1>2. ASSUME NEW r \in RunIds, RunCheck(r) PROVE RunInv'
  <2>1. CASE RunStatus = "running"
    BY <1>2, <2>1 DEF RunCheck
  <2>2. CASE RunStatus # "running"
    <3>1. ~raced' => ~raced /\ \A q \in RunIds \ {r} : run[q] # "checked"
      BY <1>2, <2>2, Zenon DEF RunCheck, RunPasses
    <3>2. /\ run' = [run EXCEPT ![r] = "checked"]
          /\ UNCHANGED <<RunStatus, alive>>
      BY <1>2, <2>2 DEF RunCheck
    <3> QED
      BY <2>2, <3>1, <3>2
  <2> QED
    BY <2>1, <2>2
<1>3. ASSUME NEW r \in RunIds, RunStart(r) PROVE RunInv'
  BY <1>3 DEF RunStart
<1>4. ASSUME NEW r \in RunIds, WorkerStop(r) PROVE RunInv'
  BY <1>4 DEF WorkerStop
<1>5. ASSUME NEW r \in RunIds, WorkerReturn(r) PROVE RunInv'
  BY <1>5 DEF WorkerReturn
<1>6. ASSUME NEW r \in RunIds, RunFinish(r) PROVE RunInv'
  BY <1>6 DEF RunFinish
<1>7. ASSUME NEW s \in SignIds, SpawnSign(s) PROVE RunInv'
  BY <1>7 DEF SpawnSign
<1>8. ASSUME NEW s \in SignIds, SignCheck(s) PROVE RunInv'
  BY <1>8 DEF SignCheck
<1>9. ASSUME NEW s \in SignIds, SignMark(s) PROVE RunInv'
  BY <1>9 DEF SignMark
<1>10. ASSUME NEW s \in SignIds, SignStatus(s) PROVE RunInv'
  BY <1>10 DEF SignStatus
<1>11. ASSUME NEW s \in SignIds, SignSend(s) PROVE RunInv'
  BY <1>11 DEF SignSend
<1>12. CASE UNCHANGED vars
  BY <1>12 DEF vars
<1> QED
  BY <1>1, <1>2, <1>3, <1>4, <1>5, <1>6, <1>7, <1>8, <1>9, <1>10, <1>11, <1>12
     DEF Next, RunStep, SignStep

\* In every schedule, two Runs of a task overlap only after two goroutines were
\* between the status test and recordStart at the same time: no other order of
\* ticks, workers, stop signals and ends makes a task run twice at once.
THEOREM OverlapOnlyByRace == Spec => []OverlapNeedsRace
<1>1. RunInv => OverlapNeedsRace
  BY DEF RunInv, OverlapNeedsRace
<1> QED
  BY TypeInit, TypeStep, RunInvInit, RunInvStep, <1>1, PTL DEF Spec

\* In every schedule, a task that says "running" has a Run that executes; and a
\* task whose Runs have not raced says so while any worker is alive, so that
\* the published status and the test in dispatchStopSign do not miss it.
THEOREM StatusIsSound == Spec => []StatusIsTrue
<1>1. TypeInv /\ RunInv => StatusIsTrue
  BY DEF RunInv, StatusIsTrue
<1> QED
  BY TypeInit, TypeStep, RunInvInit, RunInvStep, <1>1, PTL DEF Spec

-----------------------------------------------------------------------------
(* Stop tokens *)

\* As long as no two dispatchers were between test and assignment together:
\* only one ever gets past the test of stopSignRecved, which is never reset; it
\* finds StopChan empty and is the only sender; and the tokens it has sent, has
\* still to send and that workers have taken are no more than ThreadNum.
SignInv ==
    ~contended =>
        /\ \A s1, s2 \in SignIds :
              sign[s1] = "checked" /\ sign[s2] = "checked" => s1 = s2
        /\ \A s \in SignIds : sign[s] = "checked" => ~stopSignRecved
        /\ \A s \in SignIds : sign[s] \in {"marked", "sending"} => stopSignRecved
        /\ \A s1, s2 \in SignIds :
              sign[s1] \in {"marked", "sending"} /\ sign[s2] \in {"marked", "sending"}
                 => s1 = s2
        /\ \A s \in SignIds : sign[s] # "sending" => left[s] = 0
        /\ ~stopSignRecved => StopChan = 0 /\ taken = 0
        /\ \A s \in SignIds : sign[s] = "marked" => StopChan = 0 /\ taken = 0
        /\ StopChan + taken <= ThreadNum
        /\ \A s \in SignIds : StopChan + taken + left[s] <= ThreadNum

LEMMA SignInvInit == Init => SignInv
  BY ThreadNumPositive DEF Init, SignInv

LEMMA SignInvStep == TypeInv /\ SignInv /\ [Next]_vars => SignInv'
<1> USE ThreadNumPositive DEF SignInv, TypeInv, TypeOK, RunPcs, SignPcs, task, history
<1> SUFFICES ASSUME TypeInv, SignInv, [Next]_vars PROVE SignInv'
  OBVIOUS
<1>1. ASSUME NEW r \in RunIds, SpawnRun(r) PROVE SignInv'
  BY <1>1 DEF SpawnRun
<1>2. ASSUME NEW r \in RunIds, RunCheck(r) PROVE SignInv'
  BY <1>2 DEF RunCheck, RunPasses
<1>3. ASSUME NEW r \in RunIds, RunStart(r) PROVE SignInv'
  BY <1>3 DEF RunStart
<1>4. ASSUME NEW r \in RunIds, WorkerStop(r) PROVE SignInv'
  BY <1>4 DEF WorkerStop
<1>5. ASSUME NEW r \in RunIds, WorkerReturn(r) PROVE SignInv'
  BY <1>5 DEF WorkerReturn
<1>6. ASSUME NEW r \in RunIds, RunFinish(r) PROVE SignInv'
  BY <1>6 DEF RunFinish
<1>7. ASSUME NEW s \in SignIds, SpawnSign(s) PROVE SignInv'
  BY <1>7 DEF SpawnSign
<1>8. ASSUME NEW s \in SignIds, SignCheck(s) PROVE SignInv'
  <2>1. CASE stopSignRecved
    BY <1>8, <2>1 DEF SignCheck
  <2>2. CASE ~stopSignRecved
    <3>1. ~contended' => ~contended /\ \A q \in SignIds \ {s} : sign[q] # "checked"
      BY <1>8, <2>2, Zenon DEF SignCheck
    <3>2. /\ sign' = [sign EXCEPT ![s] = "checked"]
          /\ UNCHANGED <<StopChan, stopSignRecved, left, taken>>
      BY <1>8, <2>2 DEF SignCheck
    <3> QED
      BY <2>2, <3>1, <3>2
  <2> QED
    BY <2>1, <2>2
<1>9. ASSUME NEW s \in SignIds, SignMark(s) PROVE SignInv'
  BY <1>9 DEF SignMark
<1>10. ASSUME NEW s \in SignIds, SignStatus(s) PROVE SignInv'
  BY <1>10 DEF SignStatus
<1>11. ASSUME NEW s \in SignIds, SignSend(s) PROVE SignInv'
  BY <1>11 DEF SignSend
<1>12. CASE UNCHANGED vars
  BY <1>12 DEF vars
<1> QED
  BY <1>1, <1>2, <1>3, <1>4, <1>5, <1>6, <1>7, <1>8, <1>9, <1>10, <1>11, <1>12
     DEF Next, RunStep, SignStep

\* In every schedule, over all Runs of a process, a task is sent and its workers
\* take at most ThreadNum tokens, so that dispatchStopSign finds room for all it
\* has still to send (task.go:76-78), unless two dispatchers were between the
\* test of stopSignRecved and its assignment at the same time.
THEOREM OneSignalOnly == Spec => []OneSignalsWorth
<1>1. SignInv => OneSignalsWorth
  BY DEF SignInv, OneSignalsWorth
<1> QED
  BY TypeInit, TypeStep, SignInvInit, SignInvStep, <1>1, PTL DEF Spec

=============================================================================
