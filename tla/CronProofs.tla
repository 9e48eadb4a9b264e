----------------------------- MODULE CronProofs -----------------------------
(***************************************************************************)
(* Proofs about the cron scheduler, for any jobs and schedules and any     *)
(* number of calls.                                                        *)
(*                                                                         *)
(* While the goroutine is in its loop, the entry of a job stands for all   *)
(* the activations that are still to come or are due: from its Next on,    *)
(* every due activation is owed (Owing), and its Next is no later than the *)
(* first activation to come (Covers).  So what the loop starts was owed,   *)
(* and starting it pays for it: NothingSpurious.  NoneMissed needs the     *)
(* other direction, that everything owed is the Next of some entry, which  *)
(* holds when the goroutine keeps up with the clock (Timely) and needs the *)
(* order of the entries, since the loop over them breaks at the first that *)
(* is not due (Ordered).                                                   *)
(***************************************************************************)
EXTENDS Cron, FiniteSetTheorems, TLAPS

\* run is past its initialisation.
Looping == rpc \in {"sort", "select", "reply"}

\* Whether the caller may use the slice itself agrees with where run is.
Modes ==
    /\ running <=> rpc # "off" \/ cpc = "stopped"
    /\ cpc = "stopped" => rpc = "off"
    /\ cpc = "adding" => arg \notin Scheduled

\* No job has two entries.
Distinct ==
    \A i, k \in DOMAIN entries : entries[i].job = entries[k].job => i = k

\* Next is an activation time of the schedule.
FromSchedule ==
    \A i \in DOMAIN entries :
        entries[i].next # Zero => entries[i].next \in Times[entries[i].job]

\* No activation to come lies before Next.
Covers ==
    Looping =>
        \A i \in DOMAIN entries : \A u \in Times[entries[i].job] :
            u > clock => entries[i].next # Zero /\ entries[i].next <= u

\* From Next on, every activation that is due is owed.
Owing ==
    Looping =>
        \A i \in DOMAIN entries : \A u \in Times[entries[i].job] :
            entries[i].next # Zero /\ entries[i].next <= u /\ u <= clock
                => <<entries[i].job, u>> \in owed

\* Without a goroutine nothing is owed.
OffOwesNothing == rpc = "off" => owed = {}

\* The order byTime.
Ordered ==
    rpc \in {"select", "reply"} =>
        \A i, k \in DOMAIN entries : i < k => ~Less(entries[k], entries[i])

\* The goroutine keeps up with the clock.
Timely ==
    prompt =>
        /\ rpc = "init" => owed = {}
        /\ rpc = "sort" => now = clock
        /\ Looping =>
              /\ \A i \in DOMAIN entries :
                    entries[i].next # Zero => entries[i].next >= clock
              /\ \A o \in owed : \E i \in DOMAIN entries :
                    o = <<entries[i].job, entries[i].next>> /\ entries[i].next <= clock
        /\ rpc \in {"select", "reply"} =>
              /\ timer >= clock
              /\ \A i \in DOMAIN entries :
                    entries[i].next # Zero => entries[i].next >= timer

Inv ==
    /\ TypeOK /\ Modes /\ Distinct /\ FromSchedule /\ Covers /\ Owing
    /\ OffOwesNothing /\ Ordered /\ Timely /\ NothingSpurious

-----------------------------------------------------------------------------
(* Schedules and slices *)

\* The order of the natural numbers, as a relation.
Before == {ss \in Nat \X Nat : ss[1] < ss[2]}

LEMMA BeforeWellFounded == IsWellFoundedOn(Before, Nat)
  BY NatLessThanWellFounded DEF OpToRel, Before

\* Min finds the least element.
LEMMA LeastOf ==
    ASSUME NEW S \in SUBSET Nat, S # {}
    PROVE  Min(S) \in S /\ \A x \in S : Min(S) <= x
<1>1. PICK m \in S : \A y \in S : ~(<<y, m>> \in Before)
  BY BeforeWellFounded, WFMin
<1>2. ASSUME NEW x \in Nat, NEW y \in Nat, ~(<<y, x>> \in Before) PROVE x <= y
  BY <1>2 DEF Before
<1>3. \A y \in S : m <= y
  BY <1>1, <1>2
<1> QED
  BY <1>3 DEF Min

\* The later of two times.
LEMMA LaterOf ==
    ASSUME NEW a \in Int, NEW b \in Int
    PROVE  Max({a, b}) = IF a >= b THEN a ELSE b
  BY DEF Max

\* Schedule.Next is the first activation after a time, or zero if there is none.
LEMMA NextAfterIs ==
    ASSUME NEW j \in Jobs, NEW t \in Nat
    PROVE  /\ NextAfter(j, t) \in 0..MaxTime
           /\ NextAfter(j, t) = Zero => \A u \in Times[j] : u <= t
           /\ NextAfter(j, t) # Zero =>
                 /\ NextAfter(j, t) \in Times[j] /\ NextAfter(j, t) > t
                 /\ \A u \in Times[j] : u > t => NextAfter(j, t) <= u
<1> DEFINE later == {u \in Times[j] : u > t}
<1>1. Times[j] \subseteq 1..MaxTime /\ MaxTime \in Nat
  BY CronAssumption
<1>2. CASE later = {}
  BY <1>1, <1>2 DEF NextAfter, Zero
<1>3. CASE later # {}
  <2>1. Min(later) \in later /\ \A x \in later : Min(later) <= x
    BY <1>1, <1>3, LeastOf
  <2>2. NextAfter(j, t) = Min(later)
    BY <1>3 DEF NextAfter
  <2> QED
    BY <1>1, <2>1, <2>2 DEF Zero
<1> QED
  BY <1>2, <1>3

\* A slice whose elements are replaced one by one.
LEMMA Replaced ==
    ASSUME NEW es \in Seq(Entry), NEW fs \in [DOMAIN es -> Entry]
    PROVE  fs \in Seq(Entry) /\ Len(fs) = Len(es) /\ DOMAIN fs = DOMAIN es
  OBVIOUS

\* Entries of different jobs are no more than the jobs.
LEMMA NoMoreThanJobs ==
    ASSUME TypeOK, entries' \in Seq(Entry), Distinct'
    PROVE  Len(entries') <= Cardinality(Jobs)
<1> DEFINE jobOf == [i \in 1..Len(entries') |-> entries'[i].job]
<1>1. /\ Len(entries') \in Nat /\ DOMAIN entries' = 1..Len(entries')
      /\ \A i \in 1..Len(entries') : entries'[i] \in Entry
  OBVIOUS
<1>2. jobOf \in [1..Len(entries') -> Jobs]
  BY <1>1 DEF Entry
<1>3. \A i, k \in 1..Len(entries') : jobOf[i] = jobOf[k] => i = k
  BY <1>1 DEF Distinct
<1> HIDE DEF jobOf
<1>4. jobOf \in Injection(1..Len(entries'), Jobs)
  BY <1>2, <1>3 DEF Injection, IsInjective
<1>5. IsFiniteSet(Jobs)
  BY CronAssumption
<1>6. Cardinality(1..Len(entries')) <= Cardinality(Jobs)
  BY <1>4, <1>5, FS_Injection
<1>7. Cardinality(1..Len(entries')) = Len(entries')
  <2>1. \A n \in Nat : Cardinality(1..n) = IF 1 > n THEN 0 ELSE n - 1 + 1
    BY FS_Interval
  <2> QED
    BY <1>1, <2>1
<1> QED
  BY <1>6, <1>7

-----------------------------------------------------------------------------
(* The caller *)

LEMMA InvInit == Init => Inv
<1> SUFFICES ASSUME Init PROVE Inv
  OBVIOUS
<1>1. Cardinality(Jobs) \in Nat /\ MaxTime \in Nat /\ MaxCalls \in Nat
  BY CronAssumption, FS_CardinalityType
<1>2. TypeOK
  <2>1. running \in BOOLEAN /\ prompt \in BOOLEAN /\ arg \in Jobs
    BY DEF Init
  <2>2. entries \in Seq(Entry) /\ Len(entries) <= Cardinality(Jobs)
    BY <1>1 DEF Init
  <2>3. now \in 0..MaxTime /\ timer \in 0..(2 * MaxTime + 1) /\ clock \in 0..MaxTime
        /\ calls \in 0..MaxCalls
    BY <1>1 DEF Init, Never
  <2> QED
    BY <2>1, <2>2, <2>3 DEF Init, TypeOK
<1> QED
  BY <1>2 DEF Init, Inv, Modes, Distinct, FromSchedule, Covers, Owing, OffOwesNothing,
     Ordered, Timely, NothingSpurious, Looping, Scheduled

\* The calls that change no entry.
LEMMA InvCall ==
    ASSUME Inv, Start \/ Stop \/ StopReturn \/ Entries
    PROVE  Inv'
<1> USE DEF Inv, caller, loop, history
<1>1. TypeOK'
  <2>1. running' \in BOOLEAN
    BY DEF TypeOK, Start, Stop, StopReturn, Entries
  <2>2. calls' \in 0..MaxCalls
    <3>1. calls' = calls \/ (calls < MaxCalls /\ calls' = calls + 1)
      BY DEF Start, Stop, StopReturn, Entries
    <3> QED
      BY <3>1, CronAssumption DEF TypeOK
  <2> QED
    BY <2>1, <2>2 DEF TypeOK, Start, Stop, StopReturn, Entries
<1>2. Modes'
  BY DEF TypeOK, Modes, Start, Stop, StopReturn, Entries, Scheduled
<1>3. entries' = entries /\ owed' = owed /\ clock' = clock /\ prompt' = prompt
      /\ now' = now /\ timer' = timer /\ spurious' = spurious
  BY DEF Start, Stop, StopReturn, Entries
<1>4. rpc' = rpc \/ (rpc = "off" /\ rpc' = "init")
  BY DEF Start, Stop, StopReturn, Entries, Modes
<1>5. Distinct' /\ FromSchedule' /\ NothingSpurious'
  BY <1>3 DEF Distinct, FromSchedule, NothingSpurious
<1>6. Covers' /\ Owing' /\ OffOwesNothing' /\ Ordered'
  BY <1>3, <1>4 DEF Covers, Owing, OffOwesNothing, Ordered, Looping
<1>7. Timely'
  BY <1>3, <1>4 DEF Timely, Looping, OffOwesNothing
<1> QED
  BY <1>1, <1>2, <1>5, <1>6, <1>7

\* An entry is put into the slice of a cron that does not run, or sent.
LEMMA InvSchedule ==
    ASSUME Inv, NEW j \in Jobs, Schedule(j)
    PROVE  Inv'
<1> USE DEF Inv
<1>1. CASE running
  <2>1. /\ UNCHANGED <<entries, running, rpc, now, timer, clock, prompt, owed, spurious, calls>>
        /\ cpc' = "adding" /\ arg' = j /\ j \notin Scheduled
    BY <1>1 DEF Schedule, loop, history
  <2>2. TypeOK'
    BY <2>1 DEF TypeOK
  <2>3. Modes'
    BY <1>1, <2>1 DEF Schedule, Modes, Scheduled
  <2>4. Distinct' /\ FromSchedule' /\ NothingSpurious'
    BY <2>1 DEF Distinct, FromSchedule, NothingSpurious
  <2>5. Covers' /\ Owing' /\ OffOwesNothing' /\ Ordered'
    BY <2>1 DEF Covers, Owing, OffOwesNothing, Ordered, Looping
  <2>6. Timely'
    BY <2>1 DEF Timely, Looping
  <2> QED
    BY <2>2, <2>3, <2>4, <2>5, <2>6
<1>2. CASE ~running
  <2> DEFINE e == [job |-> j, next |-> Zero]
  <2>1. /\ UNCHANGED <<running, rpc, now, timer, clock, prompt, owed, spurious, calls, cpc, arg>>
        /\ entries' = Append(entries, e) /\ j \notin Scheduled
        /\ cpc = "idle" /\ rpc = "off"
    BY <1>2 DEF Schedule, loop, history, caller, Modes
  <2>2. e \in Entry /\ e.job = j /\ e.next = Zero
    BY CronAssumption DEF Entry, Zero
  <2> HIDE DEF e
  <2>3. /\ entries' \in Seq(Entry)
        /\ Len(entries') = Len(entries) + 1
        /\ DOMAIN entries = 1..Len(entries) /\ DOMAIN entries' = 1..(Len(entries) + 1)
        /\ \A i \in 1..Len(entries) : entries'[i] = entries[i]
        /\ entries'[Len(entries) + 1] = e
        /\ Len(entries) \in Nat
    BY <2>1, <2>2 DEF TypeOK
  <2>4. \A i \in DOMAIN entries : entries[i].job # j
    BY <2>1 DEF Scheduled
  <2>5. Distinct'
    BY <2>2, <2>3, <2>4 DEF Distinct
  <2>6. TypeOK'
    BY <2>1, <2>3, <2>5, NoMoreThanJobs DEF TypeOK
  <2>7. FromSchedule'
    BY <2>2, <2>3 DEF FromSchedule
  <2>8. Modes' /\ Covers' /\ Owing' /\ OffOwesNothing' /\ Ordered' /\ Timely' /\ NothingSpurious'
    BY <2>1 DEF Modes, Covers, Owing, OffOwesNothing, Ordered, Timely, NothingSpurious, Looping
  <2> QED
    BY <2>5, <2>6, <2>7, <2>8
<1> QED
  BY <1>1, <1>2

-----------------------------------------------------------------------------
(* The goroutine of run *)

\* What the types say of the entries, index by index.
LEMMA Slice ==
    ASSUME TypeOK
    PROVE  /\ DOMAIN entries = 1..Len(entries) /\ Len(entries) \in Nat
           /\ \A i \in DOMAIN entries :
                 entries[i] \in Entry /\ entries[i].job \in Jobs
                 /\ entries[i].next \in 0..MaxTime
           /\ clock \in Nat /\ MaxTime \in Nat
           /\ \A i \in DOMAIN entries : Times[entries[i].job] \subseteq 1..MaxTime
<1>1. /\ DOMAIN entries = 1..Len(entries) /\ Len(entries) \in Nat
      /\ \A i \in DOMAIN entries : entries[i] \in Entry
  BY DEF TypeOK
<1>2. \A i \in DOMAIN entries :
         entries[i].job \in Jobs /\ entries[i].next \in 0..MaxTime
  BY <1>1 DEF Entry
<1> QED
  BY <1>1, <1>2, CronAssumption DEF TypeOK

\* The loop of run begins: every Next lies in the future.
LEMMA InvRunInit ==
    ASSUME Inv, RunInit
    PROVE  Inv'
<1> USE DEF Inv
<1>1. /\ UNCHANGED <<running, timer, cpc, arg, clock, prompt, owed, spurious, calls>>
      /\ rpc = "init" /\ rpc' = "sort" /\ now' = clock
  BY DEF RunInit, caller, history
<1>2. \A i \in DOMAIN entries : NextAfter(entries[i].job, clock) \in 0..MaxTime
  BY Slice, NextAfterIs
<1>3. /\ DOMAIN entries' = DOMAIN entries
      /\ \A i \in DOMAIN entries :
            /\ entries'[i] \in Entry
            /\ entries'[i].job = entries[i].job
            /\ entries'[i].next = NextAfter(entries[i].job, clock)
  BY <1>2, Slice DEF RunInit, Entry
<1>4. entries' \in [DOMAIN entries -> Entry]
  BY <1>3 DEF RunInit
<1>5. entries' \in Seq(Entry)
  BY <1>4, Replaced DEF TypeOK
<1>6. Distinct'
  BY <1>3 DEF Distinct
<1>7. TypeOK'
  BY <1>1, <1>5, <1>6, NoMoreThanJobs DEF TypeOK
<1>8. Modes'
  BY <1>1, <1>3 DEF Modes, Scheduled
<1>9. \A i \in DOMAIN entries :
         /\ entries'[i].next = Zero => \A u \in Times[entries[i].job] : u <= clock
         /\ entries'[i].next # Zero =>
               /\ entries'[i].next \in Times[entries[i].job] /\ entries'[i].next > clock
               /\ \A u \in Times[entries[i].job] : u > clock => entries'[i].next <= u
  BY <1>3, Slice, NextAfterIs
<1>10. FromSchedule'
  BY <1>3, <1>9 DEF FromSchedule
<1>a. \A i \in DOMAIN entries :
         /\ \A u \in Times[entries[i].job] : u \in Nat
         /\ entries'[i].next \in Nat /\ clock \in Nat
  BY <1>2, <1>3, Slice
<1>b. \A i \in DOMAIN entries : \A u \in Times[entries[i].job] :
         u > clock => entries'[i].next # Zero /\ entries'[i].next <= u
  BY <1>9, <1>a
<1>c. \A i \in DOMAIN entries : \A u \in Times[entries[i].job] :
         entries'[i].next # Zero /\ entries'[i].next <= u => ~(u <= clock)
  BY <1>9, <1>a
<1>11. Covers'
  BY <1>1, <1>3, <1>b DEF Covers
<1>12. Owing'
  BY <1>1, <1>3, <1>c DEF Owing
<1>13. OffOwesNothing' /\ Ordered' /\ NothingSpurious'
  BY <1>1 DEF OffOwesNothing, Ordered, NothingSpurious
<1>d. \A i \in DOMAIN entries : entries'[i].next # Zero => entries'[i].next >= clock
  BY <1>9, <1>a
<1>14. Timely'
  BY <1>1, <1>3, <1>d DEF Timely
<1> QED
  BY <1>6, <1>7, <1>8, <1>10, <1>11, <1>12, <1>13, <1>14

\* What sort.Sort does to the entries.
LEMMA Sorting ==
    ASSUME Inv, RunSort
    PROVE  /\ UNCHANGED <<running, now, cpc, arg, clock, prompt, owed, spurious, calls>>
           /\ rpc = "sort" /\ rpc' = "select"
           /\ entries' \in Seq(Entry) /\ DOMAIN entries' = DOMAIN entries
           /\ \E p \in [DOMAIN entries -> DOMAIN entries] :
                 /\ \A i \in DOMAIN entries : entries'[i] = entries[p[i]]
                 /\ \A i, k \in DOMAIN entries : p[i] = p[k] => i = k
                 /\ \A k \in DOMAIN entries : \E i \in DOMAIN entries : p[i] = k
           /\ \A i, k \in DOMAIN entries : i < k => ~Less(entries'[k], entries'[i])
           /\ timer' = IF entries' = <<>> \/ Head(entries').next = Zero THEN Never
                       ELSE Max({clock, clock + (Head(entries').next - now)})
<1>1. /\ UNCHANGED <<running, now, cpc, arg, clock, prompt, owed, spurious, calls>>
      /\ rpc = "sort" /\ rpc' = "select"
  BY DEF RunSort, caller, history
<1>2. PICK fs \in [DOMAIN entries -> ToSet(entries)] :
         /\ SortedAs(entries, fs)
         /\ entries' = fs
         /\ timer' = IF fs = <<>> \/ Head(fs).next = Zero THEN Never
                     ELSE Max({clock, clock + (Head(fs).next - now)})
  BY DEF RunSort
<1>3. PICK p \in Bijection(DOMAIN entries, DOMAIN entries) :
         fs = [i \in DOMAIN entries |-> entries[p[i]]]
  BY <1>2 DEF SortedAs
<1>4. /\ p \in [DOMAIN entries -> DOMAIN entries]
      /\ \A i, k \in DOMAIN entries : p[i] = p[k] => i = k
      /\ \A k \in DOMAIN entries : \E i \in DOMAIN entries : p[i] = k
  BY <1>3 DEF Bijection, Injection, Surjection, IsInjective
<1>5. /\ DOMAIN fs = DOMAIN entries
      /\ \A i \in DOMAIN entries : fs[i] = entries[p[i]]
  BY <1>3
<1>6. fs \in [DOMAIN entries -> Entry]
  BY <1>2, <1>4, <1>5, Slice DEF Inv
<1>7. fs \in Seq(Entry)
  BY <1>6, Replaced DEF Inv, TypeOK
<1>8. \A i, k \in DOMAIN entries : i < k => ~Less(fs[k], fs[i])
  BY <1>2, <1>5 DEF SortedAs
<1> QED
  BY <1>1, <1>2, <1>4, <1>5, <1>7, <1>8

\* The entries are sorted and the timer is set.
LEMMA InvRunSort ==
    ASSUME Inv, RunSort
    PROVE  Inv'
<1> USE DEF Inv
<1>1. /\ UNCHANGED <<running, now, cpc, arg, clock, prompt, owed, spurious, calls>>
      /\ rpc = "sort" /\ rpc' = "select"
      /\ entries' \in Seq(Entry) /\ DOMAIN entries' = DOMAIN entries
      /\ \A i, k \in DOMAIN entries : i < k => ~Less(entries'[k], entries'[i])
      /\ timer' = IF entries' = <<>> \/ Head(entries').next = Zero THEN Never
                  ELSE Max({clock, clock + (Head(entries').next - now)})
  BY Sorting
<1>2. PICK p \in [DOMAIN entries -> DOMAIN entries] :
         /\ \A i \in DOMAIN entries : entries'[i] = entries[p[i]]
         /\ \A i, k \in DOMAIN entries : p[i] = p[k] => i = k
         /\ \A k \in DOMAIN entries : \E i \in DOMAIN entries : p[i] = k
  BY Sorting
<1>3. Distinct'
  <2> SUFFICES ASSUME NEW i \in DOMAIN entries, NEW k \in DOMAIN entries,
                      entries'[i].job = entries'[k].job
               PROVE  i = k
    BY <1>1 DEF Distinct
  <2>1. entries[p[i]].job = entries[p[k]].job /\ p[i] \in DOMAIN entries /\ p[k] \in DOMAIN entries
    BY <1>2
  <2> QED
    BY <1>2, <2>1 DEF Distinct
<1>4. ASSUME NEW i \in DOMAIN entries
      PROVE  /\ p[i] \in DOMAIN entries /\ entries'[i] = entries[p[i]]
             /\ entries'[i].job = entries[p[i]].job /\ entries'[i].next = entries[p[i]].next
             /\ entries'[i].next \in 0..MaxTime
  BY <1>2, Slice
<1>5. Scheduled' = Scheduled
  <2>1. ASSUME NEW j \in Scheduled' PROVE j \in Scheduled
    <3>1. PICK i \in DOMAIN entries : j = entries'[i].job
      BY <1>1, <2>1 DEF Scheduled
    <3> QED
      BY <1>4, <3>1 DEF Scheduled
  <2>2. ASSUME NEW j \in Scheduled PROVE j \in Scheduled'
    <3>1. PICK k \in DOMAIN entries : j = entries[k].job
      BY <2>2 DEF Scheduled
    <3>2. PICK i \in DOMAIN entries : p[i] = k
      BY <1>2
    <3> QED
      BY <1>1, <1>4, <3>1, <3>2 DEF Scheduled
  <2> QED
    BY <2>1, <2>2
<1>6. Modes'
  BY <1>1, <1>5 DEF Modes
<1>7. FromSchedule'
  BY <1>1, <1>4 DEF FromSchedule
<1>8. Covers'
  BY <1>1, <1>4 DEF Covers, Looping
<1>9. Owing'
  BY <1>1, <1>4 DEF Owing, Looping
<1>10. Ordered' /\ OffOwesNothing' /\ NothingSpurious'
  BY <1>1 DEF Ordered, OffOwesNothing, NothingSpurious
\* The timer is set to the first entry, if it has an activation.
<1>11. /\ DOMAIN entries = 1..Len(entries) /\ Len(entries) \in Nat
       /\ clock \in 0..MaxTime /\ now \in 0..MaxTime /\ MaxTime \in Nat
  BY Slice DEF TypeOK
<1> DEFINE first == entries'[1].next
           Set   == /\ timer' \in 0..(2 * MaxTime + 1)
                    /\ prompt => timer' >= clock
                    /\ \A i \in DOMAIN entries :
                          prompt /\ entries'[i].next # Zero => entries'[i].next >= timer'
<1>12. ASSUME DOMAIN entries = {} \/ (1 \in DOMAIN entries /\ first = Zero) PROVE Set
  <2>1. timer' = MaxTime + 1
    <3>1. entries' = <<>> \/ Head(entries').next = Zero
      BY <1>1, <1>12
    <3> QED
      BY <1>1, <3>1 DEF Never
  <2>2. ASSUME NEW i \in DOMAIN entries PROVE entries'[i].next = Zero
    <3>1. 1 \in DOMAIN entries /\ first = Zero
      BY <1>12, <2>2
    <3>2. CASE i = 1
      BY <3>1, <3>2
    <3>3. CASE 1 < i
      BY <1>1, <3>1, <3>3 DEF Less
    <3> QED
      BY <1>11, <3>2, <3>3
  <2> QED
    BY <1>11, <2>1, <2>2
<1>13. ASSUME 1 \in DOMAIN entries, first # Zero PROVE Set
  <2>1. timer' = Max({clock, clock + (first - now)})
    <3>1. entries' # <<>> /\ Head(entries') = entries'[1]
      BY <1>1, <1>13
    <3> QED
      BY <1>1, <1>13, <3>1
  <2>2. first \in 0..MaxTime
    BY <1>4, <1>13
  <2>3. timer' = IF clock >= clock + (first - now) THEN clock ELSE clock + (first - now)
    BY <2>1, <2>2, <1>11, LaterOf
  <2>4. ASSUME NEW i \in DOMAIN entries, entries'[i].next # Zero
        PROVE  entries'[i].next >= first
    <3>1. CASE i = 1
      BY <2>2, <3>1
    <3>2. CASE 1 < i
      BY <1>1, <1>4, <1>13, <2>2, <2>4, <3>2 DEF Less
    <3> QED
      BY <1>11, <3>1, <3>2
  <2>5. prompt => now = clock /\ first >= clock
    BY <1>1, <1>4, <1>13 DEF Timely, Looping
  <2> QED
    BY <1>11, <2>2, <2>3, <2>4, <2>5
<1>14. Set
  BY <1>11, <1>12, <1>13
<1>15. TypeOK'
  BY <1>1, <1>3, <1>14, NoMoreThanJobs DEF TypeOK
<1>16. Timely'
  <2> SUFFICES ASSUME prompt PROVE Timely'
    BY <1>1 DEF Timely
  <2>1. \A i \in DOMAIN entries : entries'[i].next # Zero => entries'[i].next >= clock
    BY <1>1, <1>4 DEF Timely, Looping
  <2>2. ASSUME NEW o \in owed
        PROVE  \E i \in DOMAIN entries :
                  o = <<entries'[i].job, entries'[i].next>> /\ entries'[i].next <= clock
    <3>1. PICK k \in DOMAIN entries :
             o = <<entries[k].job, entries[k].next>> /\ entries[k].next <= clock
      BY <1>1 DEF Timely, Looping
    <3>2. PICK i \in DOMAIN entries : p[i] = k
      BY <1>2
    <3> QED
      BY <1>4, <3>1, <3>2
  <2> QED
    BY <1>1, <1>14, <2>1, <2>2 DEF Timely
<1> QED
  BY <1>3, <1>6, <1>7, <1>8, <1>9, <1>10, <1>15, <1>16

\* The timer fires: what is due is started and gets its next activation.
LEMMA InvTimerFire ==
    ASSUME Inv, TimerFire
    PROVE  Inv'
<1> USE DEF Inv
<1>1. /\ UNCHANGED <<running, timer, cpc, arg, clock, prompt, calls>>
      /\ rpc = "select" /\ rpc' = "sort"
  BY DEF TimerFire, caller
<1>2. PICK t \in timer..clock :
         LET started == {<<entries[i].job, entries[i].next>> : i \in Due(t)}
         IN  /\ now' = t
             /\ entries' = [i \in DOMAIN entries |->
                   IF i \in Due(t)
                   THEN [entries[i] EXCEPT !.next = NextAfter(entries[i].job, t)]
                   ELSE entries[i]]
             /\ owed' = owed \ started
             /\ spurious' = spurious \cup (started \ owed)
  BY DEF TimerFire
<1> DEFINE started == {<<entries[i].job, entries[i].next>> : i \in Due(t)}
<1>3. t \in 0..MaxTime /\ t \in Nat /\ timer \in Nat /\ timer <= t /\ t <= clock
  BY Slice DEF TypeOK
<1>4. \A i \in DOMAIN entries : NextAfter(entries[i].job, t) \in 0..MaxTime
  BY <1>3, Slice, NextAfterIs
<1>5. /\ DOMAIN entries' = DOMAIN entries
      /\ \A i \in DOMAIN entries :
            /\ entries'[i] \in Entry
            /\ entries'[i].job = entries[i].job
            /\ i \in Due(t) => entries'[i].next = NextAfter(entries[i].job, t)
            /\ i \notin Due(t) => entries'[i].next = entries[i].next
            /\ entries'[i].next \in Nat
  BY <1>2, <1>4, Slice DEF Entry
<1>6. entries' \in [DOMAIN entries -> Entry]
  BY <1>2, <1>5
<1>7. entries' \in Seq(Entry)
  BY <1>6, Replaced DEF TypeOK
<1>8. owed' = owed \ started /\ spurious' = spurious \cup (started \ owed) /\ now' = t
  BY <1>2
<1>9. \A i \in Due(t) : i \in DOMAIN entries /\ entries[i].next # Zero /\ entries[i].next <= t
  BY Slice DEF Due
<1>10. /\ clock \in Nat
       /\ \A i \in DOMAIN entries : /\ entries[i].next \in Nat
                                    /\ \A u \in Times[entries[i].job] : u \in Nat
  BY Slice
<1>11. ASSUME NEW i \in DOMAIN entries
       PROVE  /\ NextAfter(entries[i].job, t) = Zero => \A u \in Times[entries[i].job] : u <= t
              /\ NextAfter(entries[i].job, t) # Zero =>
                    /\ NextAfter(entries[i].job, t) \in Times[entries[i].job]
                    /\ NextAfter(entries[i].job, t) > t
                    /\ \A u \in Times[entries[i].job] :
                          u > t => NextAfter(entries[i].job, t) <= u
  BY <1>3, Slice, NextAfterIs
<1>12. started \subseteq owed
  <2> SUFFICES ASSUME NEW i \in Due(t) PROVE <<entries[i].job, entries[i].next>> \in owed
    OBVIOUS
  <2>1. /\ i \in DOMAIN entries /\ entries[i].next # Zero
        /\ entries[i].next \in Times[entries[i].job] /\ entries[i].next <= clock
    BY <1>3, <1>9, <1>10 DEF FromSchedule
  <2> QED
    BY <1>1, <1>10, <2>1 DEF Owing, Looping
<1>13. NothingSpurious'
  BY <1>8, <1>12 DEF NothingSpurious
<1>14. Distinct'
  BY <1>5 DEF Distinct
<1>15. TypeOK'
  <2>1. owed' \subseteq Jobs \X (1..MaxTime) /\ spurious' \subseteq Jobs \X (0..MaxTime)
    BY <1>8, <1>12 DEF TypeOK
  <2> QED
    BY <1>1, <1>3, <1>7, <1>8, <1>14, <2>1, NoMoreThanJobs DEF TypeOK
<1>16. Modes'
  BY <1>1, <1>5 DEF Modes, Scheduled
<1>17. FromSchedule'
  <2> SUFFICES ASSUME NEW i \in DOMAIN entries, entries'[i].next # Zero
               PROVE  entries'[i].next \in Times[entries[i].job]
    BY <1>5 DEF FromSchedule
  <2>1. CASE i \in Due(t)
    BY <1>5, <1>11, <2>1
  <2>2. CASE i \notin Due(t)
    BY <1>5, <2>2 DEF FromSchedule
  <2> QED
    BY <2>1, <2>2
<1>18. Covers'
  <2> SUFFICES ASSUME NEW i \in DOMAIN entries, NEW u \in Times[entries[i].job], u > clock
               PROVE  entries'[i].next # Zero /\ entries'[i].next <= u
    BY <1>1, <1>5 DEF Covers
  <2>0. u \in Nat /\ u > t
    BY <1>3, <1>10
  <2>1. CASE i \in Due(t)
    BY <1>3, <1>5, <1>11, <2>0, <2>1
  <2>2. CASE i \notin Due(t)
    BY <1>1, <1>5, <2>2 DEF Covers, Looping
  <2> QED
    BY <2>1, <2>2
<1>19. Owing'
  <2> SUFFICES ASSUME NEW i \in DOMAIN entries, NEW u \in Times[entries[i].job],
                      entries'[i].next # Zero, entries'[i].next <= u, u <= clock
               PROVE  <<entries[i].job, u>> \in owed /\ <<entries[i].job, u>> \notin started
    BY <1>1, <1>5, <1>8 DEF Owing
  <2>0. u \in Nat /\ entries[i].next \in Nat /\ entries'[i].next \in Nat
    BY <1>5, <1>10
  <2>1. i \in Due(t) => entries'[i].next > t /\ entries[i].next <= t /\ entries[i].next # Zero
    BY <1>5, <1>9, <1>11
  <2>2. entries[i].next # Zero /\ entries[i].next <= u
    BY <1>3, <1>5, <2>0, <2>1
  <2>3. <<entries[i].job, u>> \in owed
    BY <1>1, <2>2 DEF Owing, Looping
  <2>4. ASSUME NEW k \in Due(t), <<entries[i].job, u>> = <<entries[k].job, entries[k].next>>
        PROVE  FALSE
    <3>1. k = i /\ u = entries[i].next
      BY <1>9, <2>4 DEF Distinct
    <3> QED
      BY <1>3, <2>0, <2>1, <3>1
  <2> QED
    BY <2>3, <2>4
<1>20. OffOwesNothing' /\ Ordered'
  BY <1>1 DEF OffOwesNothing, Ordered
<1>21. Timely'
  <2> SUFFICES ASSUME prompt PROVE Timely'
    BY <1>1 DEF Timely
  <2>0. timer >= clock
    BY <1>1 DEF Timely
  <2>1. t = clock
    BY <1>3, <1>10, <2>0
  <2>2. ASSUME NEW i \in DOMAIN entries, entries'[i].next # Zero
        PROVE  entries'[i].next >= clock
    <3>1. CASE i \in Due(t)
      BY <1>5, <1>10, <1>11, <2>1, <2>2, <3>1
    <3>2. CASE i \notin Due(t)
      BY <1>1, <1>5, <2>2, <3>2 DEF Timely, Looping
    <3> QED
      BY <3>1, <3>2
  <2>3. ASSUME NEW o \in owed PROVE o \in started
    <3>1. PICK i \in DOMAIN entries :
             o = <<entries[i].job, entries[i].next>> /\ entries[i].next <= clock
      BY <1>1 DEF Timely, Looping
    <3>2. entries[i].next # Zero
      BY <3>1 DEF TypeOK, Zero
    <3>3. ASSUME NEW k \in 1..i PROVE entries[k].next # Zero /\ entries[k].next <= t
      <4>0. k \in DOMAIN entries /\ i \in Nat
        BY Slice
      <4>1. CASE k = i
        BY <2>1, <3>1, <3>2, <4>1
      <4>2. CASE k < i
        <5>1. ~Less(entries[i], entries[k])
          BY <1>1, <4>0, <4>2 DEF Ordered
        <5> QED
          BY <1>10, <2>1, <3>1, <3>2, <4>0, <5>1 DEF Less
      <4> QED
        BY <4>0, <4>1, <4>2
    <3>4. i \in Due(t)
      BY <3>3 DEF Due
    <3> QED
      BY <3>1, <3>4
  <2> QED
    BY <1>1, <1>5, <1>8, <2>1, <2>2, <2>3 DEF Timely
<1> QED
  BY <1>13, <1>14, <1>15, <1>16, <1>17, <1>18, <1>19, <1>20, <1>21

\* An entry arrives over the add channel.
LEMMA InvAddRecv ==
    ASSUME Inv, AddRecv
    PROVE  Inv'
<1> USE DEF Inv
<1> DEFINE e == [job |-> arg, next |-> NextAfter(arg, clock)]
           n == Len(entries)
<1>1. /\ UNCHANGED <<running, timer, arg, clock, prompt, owed, spurious, calls>>
      /\ rpc = "select" /\ rpc' = "sort" /\ cpc = "adding" /\ cpc' = "idle"
      /\ now' = clock /\ entries' = Append(entries, e)
  BY DEF AddRecv, history
<1>2. /\ NextAfter(arg, clock) \in 0..MaxTime
      /\ NextAfter(arg, clock) = Zero => \A u \in Times[arg] : u <= clock
      /\ NextAfter(arg, clock) # Zero =>
            /\ NextAfter(arg, clock) \in Times[arg] /\ NextAfter(arg, clock) > clock
            /\ \A u \in Times[arg] : u > clock => NextAfter(arg, clock) <= u
  BY Slice, NextAfterIs DEF TypeOK
<1>3. e \in Entry /\ e.job = arg /\ e.next = NextAfter(arg, clock)
  BY <1>2 DEF Entry, TypeOK
<1> HIDE DEF e
<1>4. /\ entries' \in Seq(Entry)
      /\ DOMAIN entries = 1..n /\ DOMAIN entries' = 1..(n + 1) /\ n \in Nat
      /\ \A i \in 1..n : entries'[i] = entries[i]
      /\ entries'[n + 1] = e
  BY <1>1, <1>3 DEF TypeOK
<1> HIDE DEF n
<1>5. /\ \A u \in Times[arg] : u \in Nat
      /\ clock \in Nat /\ e.next \in Nat
  BY <1>2, <1>3, Slice, CronAssumption DEF TypeOK
<1>6. \A i \in DOMAIN entries : entries[i].job # arg
  BY <1>1 DEF Modes, Scheduled
<1>7. Distinct'
  BY <1>3, <1>4, <1>6 DEF Distinct
<1>8. TypeOK'
  BY <1>1, <1>4, <1>7, NoMoreThanJobs DEF TypeOK
<1>9. Modes'
  BY <1>1 DEF Modes
<1>10. FromSchedule'
  <2> SUFFICES ASSUME NEW i \in 1..(n + 1), entries'[i].next # Zero
               PROVE  entries'[i].next \in Times[entries'[i].job]
    BY <1>4 DEF FromSchedule
  <2>1. CASE i \in 1..n
    BY <1>4, <2>1 DEF FromSchedule
  <2>2. CASE i = n + 1
    BY <1>2, <1>3, <1>4, <2>2
  <2> QED
    BY <1>4, <2>1, <2>2
<1>11. Covers'
  <2> SUFFICES ASSUME NEW i \in 1..(n + 1), NEW u \in Times[entries'[i].job], u > clock
               PROVE  entries'[i].next # Zero /\ entries'[i].next <= u
    BY <1>1, <1>4 DEF Covers
  <2>1. CASE i \in 1..n
    BY <1>1, <1>4, <2>1 DEF Covers, Looping
  <2>2. CASE i = n + 1
    BY <1>2, <1>3, <1>4, <1>5, <2>2
  <2> QED
    BY <1>4, <2>1, <2>2
<1>12. Owing'
  <2> SUFFICES ASSUME NEW i \in 1..(n + 1), NEW u \in Times[entries'[i].job],
                      entries'[i].next # Zero, entries'[i].next <= u, u <= clock
               PROVE  <<entries'[i].job, u>> \in owed
    BY <1>1, <1>4 DEF Owing
  <2>1. CASE i \in 1..n
    BY <1>1, <1>4, <2>1 DEF Owing, Looping
  <2>2. CASE i = n + 1
    BY <1>2, <1>3, <1>4, <1>5, <2>2
  <2> QED
    BY <1>4, <2>1, <2>2
<1>13. OffOwesNothing' /\ Ordered' /\ NothingSpurious'
  BY <1>1 DEF OffOwesNothing, Ordered, NothingSpurious
<1>14. Timely'
  <2> SUFFICES ASSUME prompt PROVE Timely'
    BY <1>1 DEF Timely
  <2>1. ASSUME NEW i \in 1..(n + 1), entries'[i].next # Zero
        PROVE  entries'[i].next >= clock
    <3>1. CASE i \in 1..n
      BY <1>1, <1>4, <2>1, <3>1 DEF Timely, Looping
    <3>2. CASE i = n + 1
      BY <1>2, <1>3, <1>4, <1>5, <2>1, <3>2
    <3> QED
      BY <1>4, <3>1, <3>2
  <2>2. \A o \in owed : \E i \in 1..n :
           o = <<entries'[i].job, entries'[i].next>> /\ entries'[i].next <= clock
    BY <1>1, <1>4 DEF Timely, Looping
  <2>3. 1..n \subseteq 1..(n + 1)
    BY <1>4
  <2> QED
    BY <1>1, <1>4, <2>1, <2>2, <2>3 DEF Timely
<1> QED
  BY <1>7, <1>8, <1>9, <1>10, <1>11, <1>12, <1>13, <1>14

\* A snapshot is asked for and given, or the stop is received.
LEMMA InvReceive ==
    ASSUME Inv, SnapshotRecv \/ SnapshotReply \/ StopRecv
    PROVE  Inv'
<1> USE DEF Inv
<1>1. /\ UNCHANGED <<entries, running, now, timer, arg, clock, prompt, spurious, calls>>
      /\ \/ rpc = "select" /\ rpc' = "reply" /\ cpc' = "receiving" /\ owed' = owed
         \/ rpc = "reply" /\ rpc' = "select" /\ cpc' = "idle" /\ owed' = owed
         \/ rpc = "select" /\ rpc' = "off" /\ cpc' = "stopped" /\ owed' = {}
  BY DEF SnapshotRecv, SnapshotReply, StopRecv, history
<1>2. TypeOK'
  BY <1>1 DEF TypeOK
<1>3. Modes'
  BY <1>1 DEF Modes, Scheduled
<1>4. Distinct' /\ FromSchedule' /\ NothingSpurious'
  BY <1>1 DEF Distinct, FromSchedule, NothingSpurious
<1>5. Covers' /\ Owing' /\ OffOwesNothing' /\ Ordered'
  BY <1>1 DEF Covers, Owing, OffOwesNothing, Ordered, Looping
<1>6. Timely'
  BY <1>1 DEF Timely, Looping
<1> QED
  BY <1>2, <1>3, <1>4, <1>5, <1>6

\* The clock moves on.
LEMMA InvTick ==
    ASSUME Inv, Tick
    PROVE  Inv'
<1> USE DEF Inv
<1> DEFINE due == {<<j, clock + 1>> : j \in {k \in Scheduled : clock + 1 \in Times[k]}}
<1>1. /\ UNCHANGED <<entries, running, rpc, now, timer, cpc, arg, prompt, spurious, calls>>
      /\ clock < MaxTime /\ clock' = clock + 1 /\ (prompt => Settled)
      /\ owed' = IF rpc = "off" THEN owed ELSE owed \cup due
  BY DEF Tick, loop, caller
<1>2. /\ clock \in Nat /\ MaxTime \in Nat /\ timer \in Nat
      /\ \A i \in DOMAIN entries : /\ entries[i].next \in Nat
                                   /\ \A u \in Times[entries[i].job] : u \in Nat
  BY Slice DEF TypeOK
<1>3. \A i \in DOMAIN entries : clock + 1 \in Times[entries[i].job]
                                   => <<entries[i].job, clock + 1>> \in due
  BY DEF Scheduled
<1>4. \A o \in due : \E i \in DOMAIN entries :
         o = <<entries[i].job, clock + 1>> /\ clock + 1 \in Times[entries[i].job]
  BY DEF Scheduled
<1>5. due \subseteq Jobs \X (1..MaxTime)
  BY <1>1, <1>2, <1>4, Slice
<1> HIDE DEF due
<1>6. TypeOK'
  <2>1. clock' \in 0..MaxTime /\ owed' \subseteq Jobs \X (1..MaxTime)
    BY <1>1, <1>2, <1>5 DEF TypeOK
  <2> QED
    BY <1>1, <2>1 DEF TypeOK
<1>7. Modes'
  BY <1>1 DEF Modes, Scheduled
<1>8. Distinct' /\ FromSchedule' /\ NothingSpurious' /\ OffOwesNothing'
  BY <1>1 DEF Distinct, FromSchedule, NothingSpurious, OffOwesNothing
<1>9. Covers'
  <2> SUFFICES ASSUME Looping, NEW i \in DOMAIN entries, NEW u \in Times[entries[i].job],
                      u > clock + 1
               PROVE  entries[i].next # Zero /\ entries[i].next <= u
    BY <1>1 DEF Covers, Looping
  <2> QED
    BY <1>2 DEF Covers
<1>10. Owing'
  <2> SUFFICES ASSUME Looping, NEW i \in DOMAIN entries, NEW u \in Times[entries[i].job],
                      entries[i].next # Zero, entries[i].next <= u, u <= clock + 1
               PROVE  <<entries[i].job, u>> \in owed'
    BY <1>1 DEF Owing, Looping
  <2>1. CASE u <= clock
    BY <1>1, <2>1 DEF Owing, Looping
  <2>2. CASE u = clock + 1
    BY <1>1, <1>3, <2>2 DEF Looping
  <2> QED
    BY <1>2, <2>1, <2>2
<1>11. Ordered'
  BY <1>1 DEF Ordered
<1>12. Timely'
  <2> SUFFICES ASSUME prompt, rpc # "off" PROVE Timely'
    BY <1>1 DEF Timely, Looping
  <2>1. rpc = "select" /\ timer > clock
    BY <1>1 DEF Settled
  <2>2. \A i \in DOMAIN entries : entries[i].next # Zero => entries[i].next >= timer
    BY <2>1 DEF Timely
  <2>3. owed = {}
    <3> SUFFICES ASSUME NEW o \in owed PROVE FALSE
      OBVIOUS
    <3>1. PICK i \in DOMAIN entries :
             o = <<entries[i].job, entries[i].next>> /\ entries[i].next <= clock
      BY <2>1 DEF Timely, Looping
    <3>2. entries[i].next # Zero
      BY <3>1 DEF TypeOK, Zero
    <3> QED
      BY <1>2, <2>1, <2>2, <3>1, <3>2
  <2>4. ASSUME NEW o \in due
        PROVE  \E i \in DOMAIN entries :
                  o = <<entries[i].job, entries[i].next>> /\ entries[i].next <= clock + 1
    <3>1. PICK i \in DOMAIN entries :
             o = <<entries[i].job, clock + 1>> /\ clock + 1 \in Times[entries[i].job]
      BY <1>4
    <3>2. entries[i].next # Zero /\ entries[i].next <= clock + 1
      BY <1>2, <2>1, <3>1 DEF Covers, Looping
    <3>3. entries[i].next = clock + 1
      BY <1>2, <2>1, <2>2, <3>2
    <3> QED
      BY <1>2, <3>1, <3>3
  <2>5. \A i \in DOMAIN entries : entries[i].next # Zero => entries[i].next >= clock + 1
    BY <1>2, <2>1, <2>2
  <2>6. timer >= clock + 1
    BY <1>2, <2>1
  <2> QED
    BY <1>1, <2>1, <2>2, <2>3, <2>4, <2>5, <2>6 DEF Timely
<1> QED
  BY <1>6, <1>7, <1>8, <1>9, <1>10, <1>11, <1>12

-----------------------------------------------------------------------------
(* Theorems *)

LEMMA InvNext == Inv /\ [Next]_vars => Inv'
<1> SUFFICES ASSUME Inv, [Next]_vars PROVE Inv'
  OBVIOUS
<1>1. CASE UNCHANGED vars
  <2> USE <1>1 DEF vars, Inv
  <2>1. TypeOK' /\ Modes' /\ Distinct' /\ FromSchedule'
    BY DEF TypeOK, Modes, Distinct, FromSchedule, Scheduled
  <2>2. Covers' /\ Owing' /\ OffOwesNothing' /\ Ordered' /\ Timely' /\ NothingSpurious'
    BY DEF Covers, Owing, OffOwesNothing, Ordered, Timely, NothingSpurious, Looping
  <2> QED
    BY <2>1, <2>2
<1>2. ASSUME NEW j \in Jobs, Schedule(j) PROVE Inv'
  BY <1>2, InvSchedule
<1>3. CASE Start \/ Stop \/ StopReturn \/ Entries
  BY <1>3, InvCall
<1>4. CASE RunInit
  BY <1>4, InvRunInit
<1>5. CASE RunSort
  BY <1>5, InvRunSort
<1>6. CASE TimerFire
  BY <1>6, InvTimerFire
<1>7. CASE AddRecv
  BY <1>7, InvAddRecv
<1>8. CASE SnapshotRecv \/ SnapshotReply \/ StopRecv
  BY <1>8, InvReceive
<1>9. CASE Tick
  BY <1>9, InvTick
<1> QED
  BY <1>1, <1>2, <1>3, <1>4, <1>5, <1>6, <1>7, <1>8, <1>9 DEF Next, Receive

\* The variables keep their types; in particular the slice never has more
\* entries than there are jobs, although entries come both directly and over the
\* add channel (cron.go:107-125).
THEOREM TypeCorrect == Spec => []TypeOK
<1>1. Inv => TypeOK
  BY DEF Inv
<1> QED
  BY <1>1, InvInit, InvNext, PTL DEF Spec

\* A job is started only for an activation that is due, and once for it, however
\* late the goroutine is (cron.go:194-202).
THEOREM StartsAreOwed == Spec => []NothingSpurious
<1>1. Inv => NothingSpurious
  BY DEF Inv
<1> QED
  BY <1>1, InvInit, InvNext, PTL DEF Spec

\* When the goroutine keeps up with the clock, no activation of an entry of a
\* running cron is missed (cron.go:170-222).
THEOREM NoActivationMissed == Spec => []NoneMissed
<1>1. Inv => NoneMissed
  <2> SUFFICES ASSUME Inv, prompt, Settled, NEW o \in owed PROVE FALSE
    BY DEF NoneMissed
  <2>1. rpc = "select" /\ timer > clock
    BY DEF Settled, Inv, OffOwesNothing
  <2>2. PICK i \in DOMAIN entries :
           o = <<entries[i].job, entries[i].next>> /\ entries[i].next <= clock
    BY <2>1 DEF Inv, Timely, Looping
  <2>3. entries[i].next # Zero
    BY <2>2 DEF Inv, TypeOK, Zero
  <2>4. entries[i].next >= timer
    BY <2>1, <2>3 DEF Inv, Timely
  <2> QED
    BY <2>1, <2>2, <2>4, Slice DEF Inv, TypeOK
<1> QED
  BY <1>1, InvInit, InvNext, PTL DEF Spec

\* sort.Sort and the loop of run keep at most one entry per job, and in the select
\* the entries are in the order byTime (cron.go:37-56, 178).
THEOREM EntriesDistinctAndOrdered == Spec => [](Distinct /\ Ordered)
<1>1. Inv => Distinct /\ Ordered
  BY DEF Inv
<1> QED
  BY <1>1, InvInit, InvNext, PTL DEF Spec
=============================================================================
