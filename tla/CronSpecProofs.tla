--------------------------- MODULE CronSpecProofs ---------------------------
(***************************************************************************)
(* Proofs about the schedules of core/cron, for any calendar, parser and   *)
(* spec: the masks the parser builds mean what the text of the spec says,  *)
(* and the search of SpecSchedule.Next returns the first second that is    *)
(* due.                                                                    *)
(*                                                                         *)
(* The argument about the search: a turn of a loop moves t from a time in  *)
(* some month, day, hour, minute or second to the start of the next one    *)
(* (SuccUnit), so everything it skips has the same wrong value of that     *)
(* field.  That it moves to the start, although only the first turn resets *)
(* the smaller fields, is the invariant Aligned.                           *)
(***************************************************************************)
EXTENDS CronSpec, WellFoundedInduction, FiniteSetTheorems, TLAPS

\* A time the calendar has.
Covered(u) == u \in Nat /\ u \div TicksDay < NDays

\* The fields of time u are those of the masks b.
OkMonth(b, u)  == Month(u) \in b[5]
OkDay(b, u)    == IF StarBit \in b[4] \/ StarBit \in b[6]
                  THEN Day(u) \in b[4] /\ Weekday(u) \in b[6]
                  ELSE Day(u) \in b[4] \/ Weekday(u) \in b[6]
OkHour(b, u)   == Hour(u) \in b[3]
OkMinute(b, u) == Minute(u) \in b[2]
OkSecond(b, u) == Second(u) \in b[1]

ToDay(b, u)    == OkMonth(b, u) /\ OkDay(b, u)
ToHour(b, u)   == ToDay(b, u) /\ OkHour(b, u)
ToMinute(b, u) == ToHour(b, u) /\ OkMinute(b, u)
Matches(b, u)  == ToMinute(b, u) /\ OkSecond(b, u)

\* No whole second between f and u matches.
NoneBefore(b, f, u) ==
    \A s \in 0..u : s % Frac = 0 /\ f < s /\ s < u => ~Matches(b, s)

\* Either the larger fields are right or u is the start of a month, day, hour or
\* minute, so that the next turn finds nothing to reset.
Aligned(b, u) ==
    /\ OkMonth(b, u) \/ u = Midnight(MonthOf(u), 1)
    /\ ToDay(b, u) \/ u % TicksDay = 0
    /\ ToHour(b, u) \/ u % TicksHour = 0
    /\ ToMinute(b, u) \/ u % TicksMin = 0

\* What each place in the search has established about t.
Passed(b, u, at) ==
    /\ at = "day" => OkMonth(b, u)
    /\ at = "hour" => ToDay(b, u)
    /\ at = "minute" => ToHour(b, u)
    /\ at = "second" => ToMinute(b, u)

InSearch == {"wrap", "month", "day", "hour", "minute", "second"}

\* Where the search is, with masks b from time f, up to month limit.
At(b, f, at, u, add, limit) ==
    /\ Covered(u) /\ u % Frac = 0 /\ f < u
    /\ MonthOf(u) <= limit /\ (at # "wrap" => MonthOf(u) < limit)
    /\ NoneBefore(b, f, u)
    /\ Passed(b, u, at)
    /\ add => Aligned(b, u)

Limit == NMonth * (yearLimit + 1)

ControlOK ==
    /\ parser \in Parsers /\ spec \in Specs /\ from \in Froms
    /\ pc \in {"parse", "refused", "next", "done"} \cup InSearch
    /\ added \in BOOLEAN

\* The schedule is the one Parse returns.
Parsed ==
    IF pc \in {"parse", "refused"} THEN sched = NoSched
    ELSE LET parsed == Parse(NewParser(parser), spec)
         IN  parsed.ok /\ sched = parsed.sched

\* Before a search, or without one, its variables are as they were.
Idle ==
    /\ sched.is # "spec" \/ pc = "next" => t = 0 /\ yearLimit = 0
    /\ pc \in {"parse", "next"} => added = FALSE
    /\ pc \in InSearch => sched.is = "spec"
    /\ pc # "done" => result = ZeroTime

Searched ==
    /\ sched.is = "spec" /\ pc # "next" => yearLimit = Year(from + Frac) + YearsAhead
    /\ pc \in InSearch => At(sched.bits, from, pc, t, added, Limit)
    /\ pc = "done" /\ sched.is = "spec" =>
          /\ Covered(t) /\ t % Frac = 0 /\ from < t /\ NoneBefore(sched.bits, from, t)
          /\ \/ result = t /\ Matches(sched.bits, t)
             \/ result = ZeroTime /\ MonthOf(t) = Limit
    /\ pc = "done" /\ sched.is = "delay" => result = from + sched.delay - (from % Frac)

Inv == ControlOK /\ Parsed /\ Idle /\ Searched

\* A step of the search ends it, or moves t on, or goes on to a smaller field.
Order == [wrap |-> 0, month |-> 1, day |-> 2, hour |-> 3, minute |-> 4, second |-> 5]
Forward == pc' = "done" \/ t < t' \/ (t' = t /\ Order[pc] < Order[pc'])

-----------------------------------------------------------------------------
(* Division *)

Pos == Nat \ {0}

LEMMA DivMod ==
    ASSUME NEW a \in Nat, NEW d \in Pos
    PROVE  /\ a \div d \in Nat /\ a % d \in 0..(d - 1) /\ a % d \in Nat
           /\ a = d * (a \div d) + (a % d)
  BY DEF Pos

LEMMA DivUnique ==
    ASSUME NEW a \in Nat, NEW d \in Pos, NEW q \in Int, NEW r \in 0..(d - 1), a = d * q + r
    PROVE  a \div d = q /\ a % d = r
  BY DEF Pos

LEMMA Product == ASSUME NEW a \in Pos, NEW b \in Pos PROVE a * b \in Pos
  BY DEF Pos

\* Units within units.
LEMMA DivDiv ==
    ASSUME NEW a \in Nat, NEW d \in Pos, NEW n \in Pos
    PROVE  a \div (d * n) = (a \div d) \div n
<1>1. d * n \in Pos
  BY Product
<1> QED
  BY <1>1 DEF Pos

LEMMA DivMonotone ==
    ASSUME NEW a \in Nat, NEW b \in Nat, NEW d \in Pos, a <= b
    PROVE  a \div d <= b \div d
  BY DEF Pos

LEMMA AlignedDown ==
    ASSUME NEW a \in Nat, NEW d \in Pos, NEW n \in Pos, a % (d * n) = 0
    PROVE  a % d = 0
<1> DEFINE w == d * n
           q == a \div w
<1>1. w \in Pos
  BY Product
<1>2. a = w * q + (a % w) /\ q \in Nat /\ a % w = 0
  BY <1>1, DivMod
<1> HIDE DEF q
<1>3. a = d * (n * q) + 0 /\ n * q \in Int /\ 0 \in 0..(d - 1)
  BY <1>2 DEF Pos
<1> QED
  BY <1>3, DivUnique

\* v is the start of the unit of d ticks after that of u.
SuccUnit(d, u, v) == v \in Nat /\ v % d = 0 /\ v \div d = (u \div d) + 1

LEMMA SuccNext ==
    ASSUME NEW d \in Pos, NEW u \in Nat
    PROVE  /\ SuccUnit(d, u, Truncate(u, d) + d)
           /\ u % d = 0 => SuccUnit(d, u, u + d)
<1> DEFINE q == u \div d
           r == u % d
<1>1. q \in Nat /\ r \in 0..(d - 1) /\ r \in Nat /\ u = d * q + r
  BY DivMod
<1>2. Truncate(u, d) + d = u - r + d
  BY DEF Truncate
<1> HIDE DEF q, r
<1>3. u - r + d = d * (q + 1) + 0 /\ u - r + d \in Nat /\ q + 1 \in Int /\ 0 \in 0..(d - 1)
  BY <1>1 DEF Pos
<1>4. (u - r + d) \div d = q + 1 /\ (u - r + d) % d = 0
  BY <1>3, DivUnique
<1>5. r = 0 => u + d = u - r + d
  BY <1>1 DEF Pos
<1> QED
  BY <1>2, <1>3, <1>4, <1>5 DEF SuccUnit, q, r

\* What lies between is in the same unit as u.
LEMMA SuccBetween ==
    ASSUME NEW d \in Pos, NEW u \in Nat, NEW v, SuccUnit(d, u, v)
    PROVE  /\ v \in Nat /\ u < v
           /\ \A s \in Nat : u <= s /\ s < v => s \div d = u \div d
<1> DEFINE q == u \div d
<1>1. q \in Nat /\ u % d \in 0..(d - 1) /\ u = d * q + (u % d)
  BY DivMod
<1>2. v \in Nat /\ v = d * (q + 1)
  <2>1. v \in Nat /\ v % d = 0 /\ v \div d = q + 1
    BY DEF SuccUnit
  <2>2. v = d * (v \div d) + (v % d)
    BY <2>1, DivMod
  <2> QED
    BY <1>1, <2>1, <2>2 DEF Pos
<1> HIDE DEF q
<1>3. d * q \in Nat /\ d * (q + 1) = d * q + d /\ u % d \in Nat
  BY <1>1 DEF Pos
<1>4. u < v
  BY <1>1, <1>2, <1>3 DEF Pos
<1>5. ASSUME NEW s \in Nat, u <= s, s < v PROVE s \div d = q
  <2>1. s = d * q + (s - d * q) /\ s - d * q \in 0..(d - 1) /\ q \in Int
    BY <1>1, <1>2, <1>3, <1>5 DEF Pos
  <2> QED
    BY <2>1, DivUnique
<1> QED
  BY <1>2, <1>4, <1>5 DEF q

\* The next unit is in the same larger unit, or starts the next one.
LEMMA SuccCarry ==
    ASSUME NEW d \in Pos, NEW n \in Pos, NEW u \in Nat, NEW v, SuccUnit(d, u, v)
    PROVE  IF (v \div d) % n = 0 THEN SuccUnit(d * n, u, v)
           ELSE v \div (d * n) = u \div (d * n)
<1> DEFINE q == u \div d
           Q == q \div n
           R == q % n
           w == d * n
<1>1. v \in Nat /\ v % d = 0 /\ v \div d = q + 1 /\ q \in Nat
  BY DivMod DEF SuccUnit
<1>2. w \in Pos /\ u \div w = Q /\ v \div w = (q + 1) \div n
  BY <1>1, Product, DivDiv
<1>3. Q \in Nat /\ R \in 0..(n - 1) /\ q = n * Q + R
  BY <1>1, DivMod
<1>4. v = d * (q + 1)
  <2>1. v = d * (v \div d) + (v % d)
    BY <1>1, DivMod
  <2> HIDE DEF q
  <2> QED
    BY <1>1, <2>1 DEF Pos
<1> HIDE DEF q, Q, R
<1>5. CASE (q + 1) % n = 0
  <2>1. R = n - 1
    <3> SUFFICES ASSUME R # n - 1 PROVE FALSE
      OBVIOUS
    <3>1. q + 1 = n * Q + (R + 1) /\ R + 1 \in 0..(n - 1) /\ q + 1 \in Nat /\ Q \in Int
      BY <1>1, <1>3 DEF Pos
    <3>2. (q + 1) % n = R + 1
      BY <3>1, DivUnique
    <3> QED
      BY <1>3, <1>5, <3>2
  <2>2. q + 1 = n * (Q + 1) + 0 /\ 0 \in 0..(n - 1) /\ q + 1 \in Nat /\ Q + 1 \in Int
    BY <1>1, <1>3, <2>1 DEF Pos
  <2>3. (q + 1) \div n = Q + 1
    BY <2>2, DivUnique
  <2>4. v = (d * n) * (Q + 1)
    BY <1>3, <1>4, <2>2 DEF Pos
  <2>5. v % w = 0
    <3> HIDE DEF w
    <3>1. v = w * (Q + 1) + 0 /\ 0 \in 0..(w - 1)
      BY <1>2, <1>3, <2>4 DEF w, Pos
    <3> QED
      BY <1>1, <1>2, <2>2, <3>1, DivUnique
  <2> QED
    BY <1>1, <1>2, <1>5, <2>3, <2>5 DEF SuccUnit
<1>6. CASE (q + 1) % n # 0
  <2>1. R # n - 1
    <3> SUFFICES ASSUME R = n - 1 PROVE FALSE
      OBVIOUS
    <3>1. q + 1 = n * (Q + 1) + 0 /\ 0 \in 0..(n - 1) /\ q + 1 \in Nat /\ Q + 1 \in Int
      BY <1>1, <1>3 DEF Pos
    <3> QED
      BY <1>6, <3>1, DivUnique
  <2>2. q + 1 = n * Q + (R + 1) /\ R + 1 \in 0..(n - 1) /\ q + 1 \in Nat /\ Q \in Int
    BY <1>1, <1>3, <2>1 DEF Pos
  <2>3. (q + 1) \div n = Q
    BY <2>2, DivUnique
  <2> QED
    BY <1>1, <1>2, <1>6, <2>3
<1> QED
  BY <1>5, <1>6

-----------------------------------------------------------------------------
(* The calendar *)

LEMMA Calendar ==
    /\ Frac \in Pos /\ NSec \in Pos /\ NMin \in Pos /\ NHour \in Pos /\ NWeek \in Pos
    /\ LeapEvery \in Pos /\ Years \in Pos /\ YearsAhead \in Pos /\ NMonth \in Pos
    /\ TicksMin \in Pos /\ TicksHour \in Pos /\ TicksDay \in Pos /\ NMonths \in Pos
    /\ \A m \in 1..NMonth : MonthDays[m] \in Pos
<1>1. /\ Frac \in Pos /\ NSec \in Pos /\ NMin \in Pos /\ NHour \in Pos /\ NWeek \in Pos
      /\ LeapEvery \in Pos /\ Years \in Pos /\ YearsAhead \in Pos
  BY CalendarAssumption DEF Pos
<1>2. NMonth \in Pos /\ \A m \in 1..NMonth : MonthDays[m] \in Pos
  <2>1. MonthDays \in Seq(Pos) /\ LeapMonth \in 1..NMonth
    BY CalendarAssumption DEF Pos
  <2> QED
    BY <2>1 DEF NMonth, Pos
<1>3. TicksMin \in Pos
  BY <1>1, Product DEF TicksMin
<1>4. TicksHour \in Pos
  BY <1>1, <1>3, Product DEF TicksHour
<1>5. TicksDay \in Pos
  BY <1>1, <1>4, Product DEF TicksDay
<1>6. Years + 1 \in Pos
  BY <1>1 DEF Pos
<1>7. NMonths \in Pos
  BY <1>2, <1>6, Product DEF NMonths
<1> QED
  BY <1>1, <1>2, <1>3, <1>4, <1>5, <1>7

LEMMA DaysInType == ASSUME NEW k \in Nat PROVE DaysIn(k) \in Pos /\ DaysIn(k) <= MaxDom
<1> DEFINE m == (k % NMonth) + 1
<1>1. m \in 1..NMonth
  <2>1. NMonth \in Pos /\ k % NMonth \in 0..(NMonth - 1)
    BY Calendar, DivMod
  <2> QED
    BY <2>1 DEF Pos
<1>2. /\ MonthDays[m] \in Pos /\ MonthDays[m] <= MaxDom /\ MaxDom \in Nat
      /\ m = LeapMonth => MonthDays[m] < MaxDom
  BY <1>1, Calendar, CalendarAssumption
<1>3. DaysIn(k) = IF m = LeapMonth /\ (k \div NMonth) % LeapEvery = 0
                  THEN MonthDays[m] + 1 ELSE MonthDays[m]
  BY DEF DaysIn
<1> HIDE DEF m
<1> QED
  BY <1>2, <1>3 DEF Pos

\* The least element of a set of numbers.
Before == {ss \in Nat \X Nat : ss[1] < ss[2]}

LEMMA Least ==
    ASSUME NEW S \in SUBSET Nat, S # {}
    PROVE  \E m \in S : \A x \in S : m <= x
<1>0. IsWellFoundedOn(Before, Nat)
  BY NatLessThanWellFounded DEF OpToRel, Before
<1>1. PICK m \in S : \A y \in S : ~(<<y, m>> \in Before)
  BY <1>0, WFMin
<1>2. ASSUME NEW x \in Nat, NEW y \in Nat, ~(<<y, x>> \in Before) PROVE x <= y
  BY <1>2 DEF Before
<1> QED
  BY <1>1, <1>2

\* The table exists: up to month n, for the least n for which it might not.
Table(g, n) == g = [k \in 0..n |-> IF k = 0 THEN 0 ELSE g[k - 1] + DaysIn(k - 1)]

LEMMA TableExists == \A n \in Nat : \E g : Table(g, n)
<1> SUFFICES ASSUME NEW x \in Nat, ~\E g : Table(g, x) PROVE FALSE
  OBVIOUS
<1> DEFINE S == {n \in Nat : ~\E g : Table(g, n)}
<1>1. PICK n \in S : \A y \in S : n <= y
  BY Least
<1>2. CASE n = 0
  <2>1. Table([k \in 0..0 |-> 0], 0)
    BY DEF Table
  <2> QED
    BY <1>2, <2>1
<1>3. CASE n # 0
  <2>1. n - 1 \in Nat /\ ~(n <= n - 1)
    BY <1>3
  <2>2. PICK g : Table(g, n - 1)
    BY <1>1, <2>1
  <2> DEFINE h == [k \in 0..n |-> IF k = n THEN g[n - 1] + DaysIn(n - 1) ELSE g[k]]
  <2>3. ASSUME NEW k \in 0..n
        PROVE  h[k] = IF k = 0 THEN 0 ELSE h[k - 1] + DaysIn(k - 1)
    <3>1. k # 0 => k - 1 \in 0..(n - 1) /\ k - 1 \in 0..n /\ k - 1 # n
      BY <1>1
    <3>2. k # 0 => h[k - 1] = g[k - 1]
      BY <3>1
    <3>3. k # n => k \in 0..(n - 1)
      BY <1>1
    <3>4. k # n => g[k] = IF k = 0 THEN 0 ELSE g[k - 1] + DaysIn(k - 1)
      BY <2>2, <3>3 DEF Table
    <3> QED
      BY <1>3, <3>2, <3>4
  <2>4. h = [k \in 0..n |-> h[k]]
    OBVIOUS
  <2> HIDE DEF h
  <2>5. Table(h, n)
    BY <2>3, <2>4 DEF Table
  <2> QED
    BY <2>5
<1> QED
  BY <1>2, <1>3

LEMMA FirstDaysIs ==
    /\ FirstDay(0) = 0
    /\ \A k \in 0..(NMonths - 1) : FirstDay(k + 1) = FirstDay(k) + DaysIn(k)
<1>1. NMonths \in Nat
  BY Calendar DEF Pos
<1>2. PICK g : g = [k \in 0..NMonths |-> IF k = 0 THEN 0 ELSE g[k - 1] + DaysIn(k - 1)]
  BY <1>1, TableExists DEF Table
<1>3. FirstDays = [k \in 0..NMonths |-> IF k = 0 THEN 0 ELSE FirstDays[k - 1] + DaysIn(k - 1)]
  BY <1>2 DEF FirstDays
<1> HIDE DEF FirstDays
<1>4. FirstDays[0] = 0
  BY <1>1, <1>3
<1>5. ASSUME NEW k \in 0..(NMonths - 1) PROVE FirstDays[k + 1] = FirstDays[k] + DaysIn(k)
  <2>1. k + 1 \in 0..NMonths /\ k + 1 # 0 /\ (k + 1) - 1 = k
    BY <1>1
  <2> QED
    BY <1>3, <2>1
<1> QED
  BY <1>4, <1>5 DEF FirstDay

\* Months follow each other.
LEMMA FirstDayGrows ==
    \A k \in 0..NMonths : /\ FirstDay(k) \in Nat
                          /\ \A j \in 0..(k - 1) : FirstDay(j) + DaysIn(j) <= FirstDay(k)
<1>0. NMonths \in Nat
  BY Calendar DEF Pos
<1> DEFINE Good(k) == /\ FirstDay(k) \in Nat
                      /\ \A j \in 0..(k - 1) : FirstDay(j) + DaysIn(j) <= FirstDay(k)
           S == {k \in 0..NMonths : ~Good(k)}
<1> SUFFICES ASSUME S # {} PROVE FALSE
  OBVIOUS
<1>1. PICK k \in S : \A y \in S : k <= y
  <2>1. S \in SUBSET Nat
    BY <1>0
  <2> QED
    BY <2>1, Least
<1>2. k # 0
  <2>1. Good(0)
    BY FirstDaysIs
  <2> QED
    BY <1>1, <2>1
<1>3. k \in 1..NMonths /\ k - 1 \in 0..(NMonths - 1) /\ k - 1 \in 0..NMonths /\ ~(k <= k - 1)
      /\ (k - 1) + 1 = k /\ k - 1 \in Nat
  BY <1>0, <1>1, <1>2
<1>4. Good(k - 1)
  BY <1>1, <1>3
<1> HIDE DEF S
<1>5. FirstDay(k) = FirstDay(k - 1) + DaysIn(k - 1) /\ DaysIn(k - 1) \in Nat
  BY <1>3, FirstDaysIs, DaysInType DEF Pos
<1>6. ASSUME NEW j \in 0..(k - 1) PROVE FirstDay(j) + DaysIn(j) <= FirstDay(k)
  <2>0. FirstDay(k - 1) \in Nat
    BY <1>4
  <2>1. CASE j = k - 1
    BY <1>5, <2>0, <2>1
  <2>2. CASE j # k - 1
    <3>1. j \in 0..(k - 1 - 1) /\ j \in Nat /\ j \in 0..NMonths
      BY <1>0, <1>3, <2>2
    <3>2. FirstDay(j) + DaysIn(j) <= FirstDay(k - 1)
      BY <1>4, <3>1
    <3>3. FirstDay(j) \in Nat
      <4>1. j \notin S
        BY <1>1, <1>3, <3>1
      <4> QED
        BY <3>1, <4>1 DEF S
    <3>4. DaysIn(j) \in Nat
      BY <3>1, DaysInType DEF Pos
    <3> QED
      BY <1>5, <2>0, <3>2, <3>3, <3>4
  <2> QED
    BY <2>1, <2>2
<1>7. Good(k)
  BY <1>4, <1>5, <1>6
<1> QED
  BY <1>1, <1>7 DEF S

\* Every day is in one month.
LEMMA MonthOfDay ==
    ASSUME NEW d \in 0..(NDays - 1)
    PROVE  /\ MonthsOfDays[d] \in 0..(NMonths - 1)
           /\ FirstDay(MonthsOfDays[d]) <= d /\ d < FirstDay(MonthsOfDays[d] + 1)
           /\ \A k \in 0..(NMonths - 1) :
                 FirstDay(k) <= d /\ d < FirstDay(k + 1) => k = MonthsOfDays[d]
<1>0. NMonths \in Pos /\ NMonths \in Nat /\ NDays = FirstDay(NMonths) /\ NDays \in Nat
  <2>1. NMonths \in Pos /\ NMonths \in Nat
    BY Calendar DEF Pos
  <2>2. NMonths \in 0..NMonths
    BY <2>1
  <2> QED
    BY <2>1, <2>2, FirstDayGrows DEF NDays
<1> DEFINE In(k) == FirstDay(k) <= d /\ d < FirstDay(k + 1)
           S == {k \in 0..(NMonths - 1) : d < FirstDay(k + 1)}
<1>1. \E k \in 0..(NMonths - 1) : In(k)
  <2>1. NMonths - 1 \in S
    <3>1. NMonths - 1 \in 0..(NMonths - 1) /\ (NMonths - 1) + 1 = NMonths
      BY <1>0 DEF Pos
    <3>2. d < FirstDay(NMonths)
      BY <1>0
    <3> QED
      BY <3>1, <3>2
  <2>2. S \in SUBSET Nat
    BY <1>0
  <2>3. PICK k \in S : \A y \in S : k <= y
    BY <2>1, <2>2, Least
  <2>4. CASE k = 0
    <3>1. FirstDay(k) <= d
      BY <1>0, <2>4, FirstDaysIs
    <3> QED
      BY <2>3, <3>1
  <2>5. CASE k # 0
    <3>1. k - 1 \in 0..(NMonths - 1) /\ ~(k <= k - 1) /\ (k - 1) + 1 = k /\ k \in 0..NMonths
      BY <1>0, <2>3, <2>5
    <3>2. ~(d < FirstDay(k))
      BY <2>3, <3>1
    <3>3. FirstDay(k) \in Nat /\ d \in Int
      BY <1>0, <3>1, FirstDayGrows
    <3>4. FirstDay(k) <= d
      BY <3>2, <3>3
    <3> QED
      BY <2>3, <3>4
  <2> QED
    BY <2>4, <2>5
<1>2. ASSUME NEW j \in 0..(NMonths - 1), NEW k \in 0..(NMonths - 1), In(j), In(k) PROVE ~(j < k)
  <2> SUFFICES ASSUME j < k PROVE FALSE
    OBVIOUS
  <2>1. j \in 0..(k - 1) /\ k \in 0..NMonths /\ j \in Nat
    BY <1>0
  <2>2. FirstDay(j) + DaysIn(j) <= FirstDay(k)
    BY <2>1, FirstDayGrows
  <2>3. FirstDay(j + 1) = FirstDay(j) + DaysIn(j)
    BY FirstDaysIs
  <2>4. d < FirstDay(j + 1) /\ FirstDay(k) <= d
    BY <1>2
  <2>5. FirstDay(k) \in Nat /\ FirstDay(j) \in Nat /\ DaysIn(j) \in Nat /\ d \in Int
    <3>1. j \in 0..NMonths
      BY <1>0
    <3> QED
      BY <1>0, <2>1, <3>1, FirstDayGrows, DaysInType DEF Pos
  <2> QED
    BY <2>2, <2>3, <2>4, <2>5
<1>3. \A j, k \in 0..(NMonths - 1) : In(j) /\ In(k) => j = k
  <2> SUFFICES ASSUME NEW j \in 0..(NMonths - 1), NEW k \in 0..(NMonths - 1), In(j), In(k)
               PROVE  j = k
    OBVIOUS
  <2>1. ~(j < k) /\ ~(k < j)
    BY <1>2
  <2> QED
    BY <1>0, <2>1
<1>4. MonthsOfDays[d] = CHOOSE k \in 0..(NMonths - 1) : In(k)
  BY DEF MonthsOfDays
<1>5. MonthsOfDays[d] \in 0..(NMonths - 1) /\ In(MonthsOfDays[d])
  <2> HIDE DEF In
  <2> QED
    BY <1>1, <1>4
<1> QED
  BY <1>3, <1>5

LEMMA Days == NDays \in Pos /\ NMonths \in Nat /\ \A k \in 0..NMonths : FirstDay(k) \in Nat
<1>1. NMonths \in Pos
  BY Calendar
<1>2. NMonths \in 0..NMonths /\ 0 \in 0..(NMonths - 1) /\ 0 \in Nat /\ NMonths \in Nat
  BY <1>1 DEF Pos
<1>3. FirstDay(0) + DaysIn(0) <= FirstDay(NMonths) /\ FirstDay(NMonths) \in Nat
  BY <1>2, FirstDayGrows
<1>4. FirstDay(0) = 0 /\ DaysIn(0) \in Pos
  BY <1>2, FirstDaysIs, DaysInType
<1> QED
  BY <1>2, <1>3, <1>4, FirstDayGrows DEF NDays, Pos

\* The month, the day and the day of the week of a time.
LEMMA DateOf ==
    ASSUME NEW u, Covered(u)
    PROVE  /\ MonthOf(u) \in 0..(NMonths - 1) /\ MonthOf(u) \in Nat
           /\ FirstDay(MonthOf(u)) \in Nat /\ u \div TicksDay \in Nat
           /\ FirstDay(MonthOf(u)) <= u \div TicksDay
           /\ u \div TicksDay < FirstDay(MonthOf(u)) + DaysIn(MonthOf(u))
           /\ Day(u) \in 1..MaxDom /\ Month(u) \in 1..NMonth /\ Weekday(u) \in 0..(NWeek - 1)
<1> DEFINE d == u \div TicksDay
           k == MonthOf(u)
<1>1. d \in 0..(NDays - 1) /\ d \in Nat
  <2>1. u \in Nat /\ d < NDays /\ TicksDay \in Pos
    BY Calendar DEF Covered
  <2>2. d \in Nat
    BY <2>1, DivMod
  <2> QED
    BY <2>1, <2>2, Days DEF Pos
<1>2. k = MonthsOfDays[d]
  BY DEF MonthOf
<1>3. k \in 0..(NMonths - 1) /\ FirstDay(k) <= d /\ d < FirstDay(k + 1)
  BY <1>1, <1>2, MonthOfDay
<1>4. k \in Nat /\ k \in 0..NMonths
  BY <1>3, Days
<1>5. FirstDay(k + 1) = FirstDay(k) + DaysIn(k) /\ FirstDay(k) \in Nat
  BY <1>3, <1>4, FirstDaysIs, Days
<1>6. Day(u) = d - FirstDay(k) + 1
  BY DEF Day
<1>7. DaysIn(k) \in Nat /\ DaysIn(k) <= MaxDom /\ MaxDom \in Nat
  BY <1>4, DaysInType, CalendarAssumption DEF Pos
<1>8. Month(u) \in 1..NMonth
  <2>1. NMonth \in Pos /\ k % NMonth \in 0..(NMonth - 1)
    BY <1>4, Calendar, DivMod
  <2> QED
    BY <2>1 DEF Month, Pos
<1>9. Weekday(u) \in 0..(NWeek - 1)
  BY <1>1, Calendar, DivMod DEF Weekday
<1>10. Day(u) \in 1..MaxDom /\ d < FirstDay(k) + DaysIn(k)
  <2> HIDE DEF d, k
  <2> QED
    BY <1>1, <1>3, <1>5, <1>6, <1>7
<1> QED
  BY <1>1, <1>3, <1>4, <1>5, <1>8, <1>9, <1>10

\* A time is in the month that has its day.
LEMMA InMonth ==
    ASSUME NEW u \in Nat, NEW k \in 0..(NMonths - 1),
           FirstDay(k) <= u \div TicksDay, u \div TicksDay < FirstDay(k) + DaysIn(k)
    PROVE  Covered(u) /\ MonthOf(u) = k
<1> DEFINE d == u \div TicksDay
<1>1. d \in Nat
  BY Calendar, DivMod
<1>2. NMonths \in Nat /\ k \in 0..NMonths /\ k \in Nat /\ k + 1 \in 0..NMonths
      /\ NMonths \in 0..NMonths
  BY Days
<1>3. FirstDay(k + 1) = FirstDay(k) + DaysIn(k)
  BY FirstDaysIs
<1>4. d < FirstDay(k + 1) /\ FirstDay(k) <= d
  BY <1>3
<1>5. FirstDay(k) \in Nat /\ DaysIn(k) \in Nat /\ NDays \in Nat
      /\ FirstDay(k) + DaysIn(k) <= NDays
  <2>1. k \in 0..(NMonths - 1)
    OBVIOUS
  <2> QED
    BY <1>2, <2>1, FirstDayGrows, DaysInType DEF NDays, Pos
<1>6. d < NDays
  BY <1>1, <1>3, <1>4, <1>5
<1>7. d \in 0..(NDays - 1)
  BY <1>1, <1>5, <1>6
<1> QED
  BY <1>4, <1>6, <1>7, MonthOfDay DEF Covered, MonthOf

\* The start of month k.
LEMMA MonthStart ==
    ASSUME NEW k \in 0..(NMonths - 1)
    PROVE  LET u == Midnight(k, 1)
           IN  /\ u \in Nat /\ u \div TicksDay = FirstDay(k) /\ u % TicksDay = 0
               /\ u = FirstDay(k) * TicksDay
               /\ Covered(u) /\ MonthOf(u) = k /\ Day(u) = 1
<1> DEFINE u == Midnight(k, 1)
           F == FirstDay(k)
<1>1. k \in 0..NMonths /\ k \in Nat
  BY Days
<1>2. F \in Nat /\ DaysIn(k) \in Pos /\ TicksDay \in Pos
  BY <1>1, Days, Calendar, DaysInType
<1>3. u = (F + 1 - 1) * TicksDay
  BY DEF Midnight
<1> HIDE DEF u, F
<1>4. u = F * TicksDay /\ u \in Nat /\ u = TicksDay * F + 0 /\ 0 \in 0..(TicksDay - 1) /\ F \in Int
  BY <1>2, <1>3 DEF Pos
<1>5. u \div TicksDay = F /\ u % TicksDay = 0
  BY <1>2, <1>4, DivUnique
<1>6. F <= u \div TicksDay /\ u \div TicksDay < F + DaysIn(k)
  BY <1>2, <1>5 DEF Pos
<1>7. Covered(u) /\ MonthOf(u) = k
  BY <1>4, <1>6, InMonth DEF F
<1>8. Day(u) = 1
  <2>1. Day(u) = F - F + 1
    BY <1>5, <1>7 DEF Day, F
  <2> QED
    BY <1>2, <2>1
<1> QED
  BY <1>4, <1>5, <1>7, <1>8 DEF u, F

-----------------------------------------------------------------------------
(* One turn of a loop *)

\* Times in the same unit have the same fields from that unit up.
LEMMA SameUnits ==
    ASSUME NEW b, NEW u \in Nat, NEW v \in Nat
    PROVE  /\ MonthOf(u) = MonthOf(v) => (OkMonth(b, u) <=> OkMonth(b, v))
           /\ u \div TicksDay = v \div TicksDay =>
                 MonthOf(u) = MonthOf(v) /\ (ToDay(b, u) <=> ToDay(b, v))
           /\ u \div TicksHour = v \div TicksHour =>
                 u \div TicksDay = v \div TicksDay /\ (ToHour(b, u) <=> ToHour(b, v))
           /\ u \div TicksMin = v \div TicksMin =>
                 u \div TicksHour = v \div TicksHour /\ (ToMinute(b, u) <=> ToMinute(b, v))
           /\ u \div Frac = v \div Frac =>
                 u \div TicksMin = v \div TicksMin /\ (Matches(b, u) <=> Matches(b, v))
<1>1. MonthOf(u) = MonthOf(v) => (OkMonth(b, u) <=> OkMonth(b, v))
  BY DEF OkMonth, Month
<1>2. u \div TicksDay = v \div TicksDay =>
                 MonthOf(u) = MonthOf(v) /\ (ToDay(b, u) <=> ToDay(b, v))
  <2> SUFFICES ASSUME u \div TicksDay = v \div TicksDay
               PROVE  MonthOf(u) = MonthOf(v) /\ (ToDay(b, u) <=> ToDay(b, v))
    OBVIOUS
  <2>1. MonthOf(u) = MonthOf(v)
    BY DEF MonthOf
  <2>2. Day(u) = Day(v) /\ Weekday(u) = Weekday(v)
    BY <2>1 DEF Day, Weekday
  <2>3. OkDay(b, u) <=> OkDay(b, v)
    BY <2>2 DEF OkDay
  <2> QED
    BY <1>1, <2>1, <2>3 DEF ToDay
<1>3. u \div TicksHour = v \div TicksHour =>
                 u \div TicksDay = v \div TicksDay /\ (ToHour(b, u) <=> ToHour(b, v))
  <2> SUFFICES ASSUME u \div TicksHour = v \div TicksHour
               PROVE  u \div TicksDay = v \div TicksDay /\ (ToHour(b, u) <=> ToHour(b, v))
    OBVIOUS
  <2>1. u \div TicksDay = v \div TicksDay
    BY Calendar, DivDiv DEF TicksDay
  <2>2. OkHour(b, u) <=> OkHour(b, v)
    BY DEF OkHour, Hour
  <2> QED
    BY <1>2, <2>1, <2>2 DEF ToHour
<1>4. u \div TicksMin = v \div TicksMin =>
                 u \div TicksHour = v \div TicksHour /\ (ToMinute(b, u) <=> ToMinute(b, v))
  <2> SUFFICES ASSUME u \div TicksMin = v \div TicksMin
               PROVE  u \div TicksHour = v \div TicksHour /\ (ToMinute(b, u) <=> ToMinute(b, v))
    OBVIOUS
  <2>1. u \div TicksHour = v \div TicksHour
    BY Calendar, DivDiv DEF TicksHour
  <2>2. OkMinute(b, u) <=> OkMinute(b, v)
    BY DEF OkMinute, Minute
  <2> QED
    BY <1>3, <2>1, <2>2 DEF ToMinute
<1>5. u \div Frac = v \div Frac =>
                 u \div TicksMin = v \div TicksMin /\ (Matches(b, u) <=> Matches(b, v))
  <2> SUFFICES ASSUME u \div Frac = v \div Frac
               PROVE  u \div TicksMin = v \div TicksMin /\ (Matches(b, u) <=> Matches(b, v))
    OBVIOUS
  <2>1. u \div TicksMin = v \div TicksMin
    BY Calendar, DivDiv DEF TicksMin
  <2>2. OkSecond(b, u) <=> OkSecond(b, v)
    BY DEF OkSecond, Second
  <2> QED
    BY <1>4, <2>1, <2>2 DEF Matches
<1> QED
  BY <1>1, <1>2, <1>3, <1>4, <1>5

\* The start of a day is that of an hour, and so on.
LEMMA StartsDown ==
    ASSUME NEW v \in Nat
    PROVE  /\ v % TicksDay = 0 => v % TicksHour = 0
           /\ v % TicksHour = 0 => v % TicksMin = 0
           /\ v % TicksMin = 0 => v % Frac = 0
  BY Calendar, AlignedDown DEF TicksDay, TicksHour, TicksMin

\* Where a turn from u may lead.
Lands(b, u, v) ==
    /\ Covered(v) /\ u < v /\ v % Frac = 0
    /\ MonthOf(v) \in {MonthOf(u), MonthOf(u) + 1}
    /\ Aligned(b, v)

\* Nothing it skips is due.
Skips(b, u, v) == \A s \in Nat : u <= s /\ s < v => ~Matches(b, s)

LEMMA LandsMonth ==
    ASSUME NEW b, NEW u, Covered(u), MonthOf(u) + 1 < NMonths
    PROVE  LET v == Midnight(MonthOf(u) + 1, 1)
           IN  /\ Lands(b, u, v) /\ MonthOf(v) = MonthOf(u) + 1
               /\ ~OkMonth(b, u) => Skips(b, u, v)
<1> DEFINE k == MonthOf(u)
           v == Midnight(k + 1, 1)
           d == u \div TicksDay
<1>0. /\ k \in 0..(NMonths - 1) /\ k \in Nat /\ u \in Nat /\ TicksDay \in Pos /\ d \in Nat
      /\ FirstDay(k) \in Nat /\ FirstDay(k) <= d /\ d < FirstDay(k) + DaysIn(k) /\ NMonths \in Nat
  BY DateOf, Calendar, Days DEF Covered
<1>1. k + 1 \in 0..(NMonths - 1)
  BY <1>0
<1>2. /\ v \in Nat /\ v \div TicksDay = FirstDay(k + 1) /\ v % TicksDay = 0
      /\ Covered(v) /\ MonthOf(v) = k + 1
  BY <1>1, MonthStart
<1>3. FirstDay(k + 1) = FirstDay(k) + DaysIn(k) /\ DaysIn(k) \in Nat
  BY <1>0, FirstDaysIs, DaysInType DEF Pos
<1>4. ~(v <= u)
  <2> SUFFICES ASSUME v <= u PROVE FALSE
    OBVIOUS
  <2>1. v \div TicksDay <= d
    BY <1>0, <1>2, DivMonotone
  <2> HIDE DEF d, k, v
  <2> QED
    BY <1>0, <1>2, <1>3, <2>1
<1>5. u < v
  BY <1>0, <1>2, <1>4
<1>6. v % TicksHour = 0 /\ v % TicksMin = 0 /\ v % Frac = 0
  BY <1>2, StartsDown
<1>7. Lands(b, u, v)
  BY <1>2, <1>5, <1>6 DEF Lands, Aligned
<1>8. ASSUME ~OkMonth(b, u), NEW s \in Nat, u <= s, s < v PROVE ~Matches(b, s)
  <2>1. s \div TicksDay \in Nat /\ d <= s \div TicksDay
    BY <1>0, <1>8, DivMod, DivMonotone
  <2>2. s \div TicksDay < FirstDay(k + 1)
    <3> SUFFICES ASSUME s \div TicksDay >= FirstDay(k + 1) PROVE FALSE
      BY <1>0, <1>3, <2>1
    <3> DEFINE e == s \div TicksDay
    <3>1. s = TicksDay * e + (s % TicksDay) /\ s % TicksDay \in Nat /\ e \in Nat
      BY <1>0, DivMod
    <3>2. v = TicksDay * FirstDay(k + 1) + 0
      <4>1. v = TicksDay * (v \div TicksDay) + (v % TicksDay)
        BY <1>0, <1>2, DivMod
      <4> QED
        BY <1>2, <4>1
    <3>3. FirstDay(k + 1) \in Nat
      BY <1>0, <1>3
    <3> HIDE DEF e, v
    <3>4. PICK F \in Nat : F = FirstDay(k + 1)
      BY <3>3
    <3>5. TicksDay * F <= TicksDay * e /\ TicksDay * F \in Nat /\ TicksDay * e \in Nat
      <4>1. e >= F
        BY <3>4 DEF e
      <4> QED
        BY <1>0, <3>1, <4>1 DEF Pos
    <3> QED
      BY <1>2, <1>8, <3>1, <3>2, <3>4, <3>5
  <2>3. FirstDay(k) <= s \div TicksDay /\ s \div TicksDay < FirstDay(k) + DaysIn(k)
    <3> HIDE DEF d, k
    <3> QED
      BY <1>0, <1>3, <2>1, <2>2
  <2>4. MonthOf(s) = k
    BY <1>0, <2>3, InMonth
  <2>5. ~OkMonth(b, s)
    BY <1>0, <1>8, <2>4, SameUnits
  <2> QED
    BY <2>5 DEF Matches, ToMinute, ToHour, ToDay
<1> QED
  BY <1>2, <1>7, <1>8 DEF Skips

\* The next day is in the same month, or starts the next one.
LEMMA NextDay ==
    ASSUME NEW u, Covered(u), MonthOf(u) + 1 < NMonths, NEW v, SuccUnit(TicksDay, u, v)
    PROVE  /\ Covered(v) /\ v \in Nat
           /\ IF Day(v) = 1 THEN MonthOf(v) = MonthOf(u) + 1 /\ v = Midnight(MonthOf(v), 1)
              ELSE MonthOf(v) = MonthOf(u)
<1> DEFINE k == MonthOf(u)
           d == u \div TicksDay
<1>0. /\ k \in 0..(NMonths - 1) /\ k \in Nat /\ u \in Nat /\ TicksDay \in Pos /\ d \in Nat
      /\ FirstDay(k) \in Nat /\ FirstDay(k) <= d /\ d < FirstDay(k) + DaysIn(k) /\ NMonths \in Nat
  BY DateOf, Calendar, Days DEF Covered
<1>1. v \in Nat /\ v % TicksDay = 0 /\ v \div TicksDay = d + 1
  BY DEF SuccUnit
<1>2. FirstDay(k + 1) = FirstDay(k) + DaysIn(k) /\ DaysIn(k) \in Nat
  BY <1>0, FirstDaysIs, DaysInType DEF Pos
<1>3. k + 1 \in 0..(NMonths - 1) /\ k + 1 \in Nat
  BY <1>0
<1> HIDE DEF d, k
<1>4. CASE d + 1 = FirstDay(k + 1)
  <2>1. v = Midnight(k + 1, 1)
    <3>1. v = TicksDay * (v \div TicksDay) + (v % TicksDay)
      BY <1>0, <1>1, DivMod
    <3>2. Midnight(k + 1, 1) = FirstDay(k + 1) * TicksDay
      BY <1>3, MonthStart
    <3> QED
      BY <1>0, <1>1, <1>4, <3>1, <3>2 DEF Pos
  <2>2. Covered(v) /\ MonthOf(v) = k + 1 /\ Day(v) = 1
    BY <1>3, <2>1, MonthStart
  <2> QED
    BY <1>1, <2>1, <2>2 DEF k
<1>5. CASE d + 1 # FirstDay(k + 1)
  <2>1. FirstDay(k) <= v \div TicksDay /\ v \div TicksDay < FirstDay(k) + DaysIn(k)
    BY <1>0, <1>1, <1>2, <1>5
  <2>2. Covered(v) /\ MonthOf(v) = k
    BY <1>0, <1>1, <2>1, InMonth
  <2>3. Day(v) = (d + 1) - FirstDay(k) + 1
    BY <1>1, <2>2 DEF Day
  <2>4. Day(v) # 1
    BY <1>0, <2>3
  <2> QED
    BY <1>1, <2>2, <2>4 DEF k
<1> QED
  BY <1>4, <1>5

LEMMA LandsDay ==
    ASSUME NEW b, NEW u, Covered(u), MonthOf(u) + 1 < NMonths, OkMonth(b, u),
           NEW v, SuccUnit(TicksDay, u, v)
    PROVE  /\ Lands(b, u, v)
           /\ Day(v) # 1 => MonthOf(v) = MonthOf(u) /\ OkMonth(b, v)
           /\ ~OkDay(b, u) => Skips(b, u, v)
<1>0. u \in Nat /\ v \in Nat /\ v % TicksDay = 0 /\ TicksDay \in Pos
  BY Calendar DEF Covered, SuccUnit
<1>1. u < v /\ \A s \in Nat : u <= s /\ s < v => s \div TicksDay = u \div TicksDay
  BY <1>0, SuccBetween
<1>2. /\ Covered(v)
      /\ IF Day(v) = 1 THEN MonthOf(v) = MonthOf(u) + 1 /\ v = Midnight(MonthOf(v), 1)
         ELSE MonthOf(v) = MonthOf(u)
  BY NextDay
<1>3. Day(v) # 1 => OkMonth(b, v)
  BY <1>0, <1>2, SameUnits
<1>4. v % TicksHour = 0 /\ v % TicksMin = 0 /\ v % Frac = 0
  BY <1>0, StartsDown
<1>5. Lands(b, u, v)
  BY <1>0, <1>1, <1>2, <1>3, <1>4 DEF Lands, Aligned
<1>6. ASSUME ~OkDay(b, u), NEW s \in Nat, u <= s, s < v PROVE ~Matches(b, s)
  <2>1. ToDay(b, u) <=> ToDay(b, s)
    BY <1>0, <1>1, <1>6, SameUnits
  <2> QED
    BY <1>6, <2>1 DEF Matches, ToMinute, ToHour, ToDay
<1> QED
  BY <1>2, <1>3, <1>5, <1>6 DEF Skips

LEMMA LandsHour ==
    ASSUME NEW b, NEW u, Covered(u), MonthOf(u) + 1 < NMonths, ToDay(b, u),
           NEW v, SuccUnit(TicksHour, u, v)
    PROVE  /\ Lands(b, u, v)
           /\ Hour(v) # 0 => MonthOf(v) = MonthOf(u) /\ ToDay(b, v)
           /\ ~OkHour(b, u) => Skips(b, u, v)
<1>0. u \in Nat /\ v \in Nat /\ v % TicksHour = 0 /\ TicksHour \in Pos /\ NHour \in Pos
  BY Calendar DEF Covered, SuccUnit
<1>1. u < v /\ \A s \in Nat : u <= s /\ s < v => s \div TicksHour = u \div TicksHour
  BY <1>0, SuccBetween
<1>2. IF Hour(v) = 0 THEN SuccUnit(TicksDay, u, v) ELSE v \div TicksDay = u \div TicksDay
  BY <1>0, SuccCarry DEF Hour, TicksDay
<1>3. ASSUME Hour(v) # 0
      PROVE  MonthOf(v) = MonthOf(u) /\ ToDay(b, v) /\ Lands(b, u, v)
  <2>1. v \div TicksDay = u \div TicksDay
    BY <1>2, <1>3
  <2>2. MonthOf(v) = MonthOf(u) /\ ToDay(b, v)
    BY <1>0, <2>1, SameUnits
  <2>3. Covered(v)
    BY <1>0, <2>1 DEF Covered
  <2>4. v % TicksMin = 0 /\ v % Frac = 0
    BY <1>0, StartsDown
  <2> QED
    BY <1>0, <1>1, <2>2, <2>3, <2>4 DEF Lands, Aligned, ToDay
<1>4. ASSUME Hour(v) = 0 PROVE Lands(b, u, v)
  BY <1>2, <1>4, LandsDay DEF ToDay
<1>5. ASSUME ~OkHour(b, u), NEW s \in Nat, u <= s, s < v PROVE ~Matches(b, s)
  <2>1. ToHour(b, u) <=> ToHour(b, s)
    BY <1>0, <1>1, <1>5, SameUnits
  <2> QED
    BY <1>5, <2>1 DEF Matches, ToMinute, ToHour
<1> QED
  BY <1>3, <1>4, <1>5 DEF Skips

LEMMA LandsMinute ==
    ASSUME NEW b, NEW u, Covered(u), MonthOf(u) + 1 < NMonths, ToHour(b, u),
           NEW v, SuccUnit(TicksMin, u, v)
    PROVE  /\ Lands(b, u, v)
           /\ Minute(v) # 0 => MonthOf(v) = MonthOf(u) /\ ToHour(b, v)
           /\ ~OkMinute(b, u) => Skips(b, u, v)
<1>0. u \in Nat /\ v \in Nat /\ v % TicksMin = 0 /\ TicksMin \in Pos /\ NMin \in Pos
  BY Calendar DEF Covered, SuccUnit
<1>1. u < v /\ \A s \in Nat : u <= s /\ s < v => s \div TicksMin = u \div TicksMin
  BY <1>0, SuccBetween
<1>2. IF Minute(v) = 0 THEN SuccUnit(TicksHour, u, v) ELSE v \div TicksHour = u \div TicksHour
  BY <1>0, SuccCarry DEF Minute, TicksHour
<1>3. ASSUME Minute(v) # 0
      PROVE  MonthOf(v) = MonthOf(u) /\ ToHour(b, v) /\ Lands(b, u, v)
  <2>1. v \div TicksHour = u \div TicksHour
    BY <1>2, <1>3
  <2>2. MonthOf(v) = MonthOf(u) /\ ToHour(b, v) /\ v \div TicksDay = u \div TicksDay
    BY <1>0, <2>1, SameUnits
  <2>3. Covered(v)
    BY <1>0, <2>2 DEF Covered
  <2>4. v % Frac = 0
    BY <1>0, StartsDown
  <2> QED
    BY <1>0, <1>1, <2>2, <2>3, <2>4 DEF Lands, Aligned, ToHour, ToDay
<1>4. ASSUME Minute(v) = 0 PROVE Lands(b, u, v)
  BY <1>2, <1>4, LandsHour DEF ToHour
<1>5. ASSUME ~OkMinute(b, u), NEW s \in Nat, u <= s, s < v PROVE ~Matches(b, s)
  <2>1. ToMinute(b, u) <=> ToMinute(b, s)
    BY <1>0, <1>1, <1>5, SameUnits
  <2> QED
    BY <1>5, <2>1 DEF Matches, ToMinute
<1> QED
  BY <1>3, <1>4, <1>5 DEF Skips

LEMMA LandsSecond ==
    ASSUME NEW b, NEW u, Covered(u), MonthOf(u) + 1 < NMonths, ToMinute(b, u),
           NEW v, SuccUnit(Frac, u, v)
    PROVE  /\ Lands(b, u, v)
           /\ Second(v) # 0 => MonthOf(v) = MonthOf(u) /\ ToMinute(b, v)
           /\ ~OkSecond(b, u) => Skips(b, u, v)
<1>0. u \in Nat /\ v \in Nat /\ v % Frac = 0 /\ Frac \in Pos /\ NSec \in Pos
  BY Calendar DEF Covered, SuccUnit
<1>1. u < v /\ \A s \in Nat : u <= s /\ s < v => s \div Frac = u \div Frac
  BY <1>0, SuccBetween
<1>2. IF Second(v) = 0 THEN SuccUnit(TicksMin, u, v) ELSE v \div TicksMin = u \div TicksMin
  BY <1>0, SuccCarry DEF Second, TicksMin
<1>3. ASSUME Second(v) # 0
      PROVE  MonthOf(v) = MonthOf(u) /\ ToMinute(b, v) /\ Lands(b, u, v)
  <2>1. v \div TicksMin = u \div TicksMin
    BY <1>2, <1>3
  <2>2. MonthOf(v) = MonthOf(u) /\ ToMinute(b, v) /\ v \div TicksDay = u \div TicksDay
    BY <1>0, <2>1, SameUnits
  <2>3. Covered(v)
    BY <1>0, <2>2 DEF Covered
  <2> QED
    BY <1>0, <1>1, <2>2, <2>3 DEF Lands, Aligned, ToMinute, ToHour, ToDay
<1>4. ASSUME Second(v) = 0 PROVE Lands(b, u, v)
  BY <1>2, <1>4, LandsMinute DEF ToMinute
<1>5. ASSUME ~OkSecond(b, u), NEW s \in Nat, u <= s, s < v PROVE ~Matches(b, s)
  <2>1. Matches(b, u) <=> Matches(b, s)
    BY <1>0, <1>1, <1>5, SameUnits
  <2> QED
    BY <1>5, <2>1 DEF Matches
<1> QED
  BY <1>3, <1>4, <1>5 DEF Skips

\* A turn keeps what the search knows.
LEMMA TurnTo ==
    ASSUME NEW b, NEW f \in Nat, NEW at, at # "wrap", NEW u, NEW add, NEW limit \in Nat,
           At(b, f, at, u, add, limit), NEW v, Lands(b, u, v), Skips(b, u, v)
    PROVE  /\ At(b, f, "wrap", v, TRUE, limit)
           /\ MonthOf(v) < limit /\ Passed(b, v, at) => At(b, f, at, v, TRUE, limit)
<1>1. /\ Covered(u) /\ u \in Nat /\ f < u /\ MonthOf(u) < limit /\ NoneBefore(b, f, u)
  BY DEF At, Covered
<1>2. /\ Covered(v) /\ v \in Nat /\ u < v /\ v % Frac = 0 /\ Aligned(b, v)
      /\ MonthOf(v) \in {MonthOf(u), MonthOf(u) + 1}
  BY DEF Lands, Covered
<1>3. MonthOf(u) \in Nat
  BY <1>1, DateOf
<1>4. MonthOf(v) <= limit
  BY <1>1, <1>2, <1>3
<1>5. NoneBefore(b, f, v)
  <2> SUFFICES ASSUME NEW s \in 0..v, s % Frac = 0, f < s, s < v PROVE ~Matches(b, s)
    BY DEF NoneBefore
  <2>1. s \in Nat
    BY <1>2
  <2>2. CASE s < u
    <3>1. s \in 0..u
      BY <1>1, <2>1, <2>2
    <3> QED
      BY <1>1, <2>2, <3>1 DEF NoneBefore
  <2>3. CASE u <= s
    BY <2>1, <2>3 DEF Skips
  <2> QED
    BY <1>1, <2>1, <2>2, <2>3
<1>6. f < v
  BY <1>1, <1>2
<1>7. Passed(b, v, "wrap")
  BY DEF Passed
<1> QED
  BY <1>2, <1>4, <1>5, <1>6, <1>7 DEF At

LEMMA AddMonthIs ==
    ASSUME NEW k \in 0..(NMonths - 1), k + 1 < NMonths
    PROVE  AddMonth(Midnight(k, 1)) = Midnight(k + 1, 1)
<1> DEFINE u == Midnight(k, 1)
           v == Midnight(k + 1, 1)
<1>1. u % TicksDay = 0 /\ MonthOf(u) = k /\ Day(u) = 1
  BY MonthStart
<1>2. k + 1 \in 0..(NMonths - 1)
  BY Days
<1>3. v \in Nat
  BY <1>2, MonthStart
<1>4. AddMonth(u) = v + 0
  BY <1>1 DEF AddMonth
<1> QED
  BY <1>3, <1>4

\* A time before the end of the calendar.
LEMMA CoveredBelow ==
    ASSUME NEW u \in Nat, u < NDays * TicksDay
    PROVE  Covered(u)
<1> DEFINE q == u \div TicksDay
<1>0. TicksDay \in Pos /\ NDays \in Nat
  BY Calendar, Days DEF Pos
<1>1. u = TicksDay * q + (u % TicksDay) /\ q \in Nat /\ u % TicksDay \in Nat
  BY <1>0, DivMod
<1> HIDE DEF q
<1>2. q < NDays
  <2> SUFFICES ASSUME q >= NDays PROVE FALSE
    BY <1>0, <1>1
  <2>1. TicksDay * q >= NDays * TicksDay
    BY <1>0, <1>1 DEF Pos
  <2>2. PICK x \in Nat, y \in Nat, z \in Nat :
          x = TicksDay * q /\ y = NDays * TicksDay /\ z = u % TicksDay
    BY <1>0, <1>1 DEF Pos
  <2> QED
    BY <1>1, <2>1, <2>2
<1> QED
  BY <1>2 DEF Covered, q

\* The bound of the search is in the calendar.
LEMMA LimitIs ==
    ASSUME from \in Froms
    PROVE  /\ from \in Nat /\ from + Frac \in Nat /\ Covered(from + Frac)
           /\ Year(from + Frac) \in Nat
           /\ yearLimit = Year(from + Frac) + YearsAhead =>
                 yearLimit \in 0..Years /\ Limit \in Nat /\ Limit < NMonths
<1>0. Frac \in Pos /\ YearsAhead \in Pos /\ Years \in Pos /\ NMonth \in Pos /\ TicksDay \in Pos
  BY Calendar
<1>1. from \in Nat /\ from + Frac < NDays * TicksDay /\ Year(from + Frac) + YearsAhead < Years
  BY FromsAssumption
<1>2. from + Frac \in Nat
  BY <1>0, <1>1 DEF Pos
<1>3. Covered(from + Frac)
  BY <1>1, <1>2, CoveredBelow
<1>4. Year(from + Frac) \in Nat
  <2>1. MonthOf(from + Frac) \in Nat
    BY <1>3, DateOf
  <2> QED
    BY <1>0, <2>1, DivMod DEF Year
<1>5. ASSUME yearLimit = Year(from + Frac) + YearsAhead
      PROVE  yearLimit \in 0..Years /\ Limit \in Nat /\ Limit < NMonths
  <2>1. yearLimit \in Nat /\ yearLimit < Years
    BY <1>0, <1>1, <1>4, <1>5 DEF Pos
  <2>2. NMonth * (yearLimit + 1) \in Nat /\ NMonth * (yearLimit + 1) < (Years + 1) * NMonth
    <3>1. yearLimit + 1 \in Nat /\ yearLimit + 1 < Years + 1
      BY <1>0, <2>1 DEF Pos
    <3> QED
      BY <1>0, <3>1 DEF Pos
  <2> QED
    BY <1>0, <2>1, <2>2 DEF Limit, NMonths, Pos
<1> QED
  BY <1>1, <1>2, <1>3, <1>4, <1>5

\* The parts of the invariant in a search.
LEMMA InSearchKnows ==
    ASSUME Inv, pc \in InSearch
    PROVE  /\ At(sched.bits, from, pc, t, added, Limit) /\ Covered(t) /\ t \in Nat
           /\ from \in Nat /\ Limit \in Nat /\ Limit < NMonths
           /\ added \in BOOLEAN
           /\ pc # "wrap" => MonthOf(t) < Limit /\ MonthOf(t) + 1 < NMonths
           /\ MonthOf(t) \in 0..(NMonths - 1) /\ MonthOf(t) \in Nat
           /\ t % Frac = 0
           /\ added => Aligned(sched.bits, t)
           /\ Passed(sched.bits, t, pc)
           /\ yearLimit = Year(from + Frac) + YearsAhead
           /\ sched.is = "spec" /\ result = ZeroTime
<1>1. sched.is = "spec" /\ pc # "next" /\ pc # "done"
  BY DEF Inv, Idle, InSearch
<1>2. yearLimit = Year(from + Frac) + YearsAhead /\ At(sched.bits, from, pc, t, added, Limit)
  BY <1>1 DEF Inv, Searched
<1>3. from \in Nat /\ Limit \in Nat /\ Limit < NMonths
  BY <1>2, LimitIs DEF Inv, ControlOK
<1>4. /\ Covered(t) /\ t % Frac = 0 /\ Passed(sched.bits, t, pc)
      /\ added => Aligned(sched.bits, t)
      /\ pc # "wrap" => MonthOf(t) < Limit
  BY <1>2 DEF At
<1>5. MonthOf(t) \in 0..(NMonths - 1) /\ MonthOf(t) \in Nat
  BY <1>4, DateOf
<1>6. pc # "wrap" => MonthOf(t) + 1 < NMonths
  BY <1>3, <1>4, <1>5, Days
<1> QED
  BY <1>1, <1>2, <1>3, <1>4, <1>5, <1>6 DEF Inv, ControlOK, Covered, Idle

\* A turn of a loop: where it goes, and where it goes on.
LEMMA TurnKeeps ==
    ASSUME Inv, pc \in InSearch, pc # "wrap",
           Lands(sched.bits, t, t'), Skips(sched.bits, t, t'),
           added' = TRUE, UNCHANGED <<inputs, sched, yearLimit, result>>,
           \/ pc' = "wrap"
           \/ pc' = pc /\ MonthOf(t') < Limit /\ Passed(sched.bits, t', pc)
    PROVE  Inv' /\ Forward
<1>1. /\ At(sched.bits, from, pc, t, added, Limit) /\ from \in Nat /\ Limit \in Nat
      /\ sched.is = "spec" /\ result = ZeroTime
      /\ yearLimit = Year(from + Frac) + YearsAhead
  BY InSearchKnows
<1>2. from' = from /\ Limit' = Limit /\ parser' = parser /\ spec' = spec /\ sched' = sched
  BY DEF inputs, Limit
<1>3. PICK v : v = t'
  OBVIOUS
<1>4. /\ At(sched.bits, from, "wrap", v, TRUE, Limit)
      /\ MonthOf(v) < Limit /\ Passed(sched.bits, v, pc)
            => At(sched.bits, from, pc, v, TRUE, Limit)
  BY <1>1, <1>3, TurnTo
<1>5. At(sched.bits, from, pc', v, TRUE, Limit)
  BY <1>3, <1>4
<1>6. At(sched'.bits, from', pc', t', added', Limit')
  BY <1>2, <1>3, <1>5
<1>7. pc' \in InSearch /\ pc' \notin {"next", "done", "parse", "refused"}
      /\ pc \notin {"next", "done", "parse", "refused"}
  BY DEF InSearch
<1>8. ControlOK'
  BY <1>2, <1>7 DEF Inv, ControlOK
<1>9. Parsed'
  BY <1>2, <1>7 DEF Inv, Parsed
<1>10. Idle' /\ Searched'
  BY <1>1, <1>2, <1>6, <1>7 DEF Idle, Searched, InSearch
<1>11. Forward
  BY DEF Lands, Forward
<1> QED
  BY <1>8, <1>9, <1>10, <1>11 DEF Inv

\* The value of a field is right.
LEMMA PassKeeps ==
    ASSUME Inv, pc \in InSearch, pc' \in InSearch, pc' # "wrap",
           pc # "wrap" \/ MonthOf(t) < Limit,
           UNCHANGED <<inputs, sched, t, added, yearLimit, result>>,
           Passed(sched.bits, t, pc')
    PROVE  Inv'
<1>1. /\ At(sched.bits, from, pc, t, added, Limit)
      /\ sched.is = "spec" /\ result = ZeroTime
      /\ yearLimit = Year(from + Frac) + YearsAhead
      /\ pc # "wrap" => MonthOf(t) < Limit
  BY InSearchKnows
<1>2. from' = from /\ Limit' = Limit /\ parser' = parser /\ spec' = spec
  BY DEF inputs, Limit
<1>3. At(sched.bits, from, pc', t, added, Limit)
  BY <1>1 DEF At
<1>4. At(sched.bits, from, pc, t, added, Limit)'
  BY <1>2, <1>3
<1>7. pc' \notin {"next", "done", "parse", "refused"} /\ pc \notin {"next", "done", "parse", "refused"}
  BY DEF InSearch
<1>8. ControlOK'
  BY <1>2, <1>7 DEF Inv, ControlOK
<1>9. Parsed'
  BY <1>2, <1>7 DEF Inv, Parsed
<1>10. Idle' /\ Searched'
  BY <1>1, <1>2, <1>4, <1>7 DEF Idle, Searched, InSearch
<1> QED
  BY <1>8, <1>9, <1>10 DEF Inv

LEMMA FindMonthKeeps == ASSUME Inv, FindMonth PROVE Inv' /\ Forward
<1> DEFINE k == MonthOf(t)
           v == Midnight(k + 1, 1)
<1>1. pc = "month" /\ pc \in InSearch
  BY DEF FindMonth, InSearch
<1>2. /\ Covered(t) /\ Limit \in Nat /\ k < Limit /\ k + 1 < NMonths
      /\ k \in 0..(NMonths - 1) /\ k \in Nat
      /\ added \in BOOLEAN /\ (added => Aligned(sched.bits, t))
  BY <1>1, InSearchKnows
<1>3. CASE Month(t) \in sched.bits[5]
  <2>1. pc' = "day" /\ UNCHANGED <<inputs, sched, t, added, yearLimit, result>>
    BY <1>3 DEF FindMonth, Pass
  <2>2. Passed(sched.bits, t, "day")
    BY <1>3 DEF Passed, OkMonth
  <2>3. Forward
    BY <1>1, <2>1 DEF Forward, Order
  <2> QED
    BY <1>1, <2>1, <2>2, <2>3, PassKeeps DEF InSearch
<1>4. CASE Month(t) \notin sched.bits[5]
  <2>1. /\ t' = AddMonth(IF added THEN t ELSE Midnight(MonthOf(t), 1))
        /\ added' = TRUE
        /\ pc' = IF Month(t') = 1 THEN "wrap" ELSE pc
        /\ UNCHANGED <<inputs, sched, yearLimit, result>>
    BY <1>4 DEF FindMonth, Turn
  <2>2. ~OkMonth(sched.bits, t)
    BY <1>4 DEF OkMonth
  <2>3. (IF added THEN t ELSE Midnight(MonthOf(t), 1)) = Midnight(k, 1)
    BY <1>2, <2>2 DEF Aligned
  <2>4. t' = v
    BY <1>2, <2>1, <2>3, AddMonthIs
  <2>5. /\ Lands(sched.bits, t, v) /\ MonthOf(v) = k + 1 /\ Skips(sched.bits, t, v)
    BY <1>2, <2>2, LandsMonth
  <2>6. Month(v) # 1 => MonthOf(v) < Limit
    <3> SUFFICES ASSUME k + 1 = Limit PROVE Month(v) = 1
      BY <1>2, <2>5
    <3>1. yearLimit = Year(from + Frac) + YearsAhead /\ from \in Froms
      BY <1>1, InSearchKnows DEF Inv, ControlOK
    <3>2. yearLimit \in Nat
      <4>1. yearLimit \in 0..Years
        BY <3>1, LimitIs
      <4> QED
        BY <4>1, Calendar DEF Pos
    <3>3. NMonth \in Pos
      BY Calendar
    <3>4. k + 1 = NMonth * (yearLimit + 1) + 0 /\ k + 1 \in Nat /\ yearLimit + 1 \in Int
          /\ 0 \in 0..(NMonth - 1)
      <4>1. k + 1 = NMonth * (yearLimit + 1)
        BY DEF Limit
      <4> HIDE DEF k
      <4> QED
        BY <1>2, <3>2, <3>3, <4>1 DEF Pos
    <3>5. (k + 1) % NMonth = 0
      BY <3>3, <3>4, DivUnique
    <3> QED
      BY <2>5, <3>5 DEF Month
  <2>7. Passed(sched.bits, v, pc)
    BY <1>1 DEF Passed
  <2> HIDE DEF v
  <2> QED
    BY <1>1, <2>1, <2>4, <2>5, <2>6, <2>7, TurnKeeps
<1> QED
  BY <1>3, <1>4

LEMMA DayIs == ASSUME NEW u PROVE dayMatches(u) <=> OkDay(sched.bits, u)
  BY DEF dayMatches, OkDay

LEMMA FindDayKeeps == ASSUME Inv, FindDay PROVE Inv' /\ Forward
<1>1. pc = "day" /\ pc \in InSearch
  BY DEF FindDay, InSearch
<1>2. /\ Covered(t) /\ t \in Nat /\ MonthOf(t) < Limit /\ MonthOf(t) + 1 < NMonths
      /\ added \in BOOLEAN /\ (added => Aligned(sched.bits, t)) /\ OkMonth(sched.bits, t)
  BY <1>1, InSearchKnows DEF Passed
<1>3. CASE dayMatches(t)
  <2>1. pc' = "hour" /\ UNCHANGED <<inputs, sched, t, added, yearLimit, result>>
    BY <1>3 DEF FindDay, Pass
  <2>2. Passed(sched.bits, t, "hour")
    BY <1>2, <1>3, DayIs DEF Passed, ToDay
  <2>3. Forward
    BY <1>1, <2>1 DEF Forward, Order
  <2> QED
    BY <1>1, <2>1, <2>2, <2>3, PassKeeps DEF InSearch
<1>4. CASE ~dayMatches(t)
  <2>1. /\ t' = (IF added THEN t ELSE Midnight(MonthOf(t), Day(t))) + TicksDay
        /\ added' = TRUE
        /\ pc' = IF Day(t') = 1 THEN "wrap" ELSE pc
        /\ UNCHANGED <<inputs, sched, yearLimit, result>>
    BY <1>4 DEF FindDay, Turn
  <2>2. ~OkDay(sched.bits, t)
    BY <1>4, DayIs
  <2>3. TicksDay \in Pos
    BY Calendar
  <2>4. Midnight(MonthOf(t), Day(t)) = Truncate(t, TicksDay)
    <3> DEFINE d == t \div TicksDay
               F == FirstDay(MonthOf(t))
    <3>1. F \in Nat /\ d \in Nat
      BY <1>2, DateOf
    <3>2. t = TicksDay * d + (t % TicksDay) /\ t % TicksDay \in Nat
      BY <1>2, <2>3, DivMod
    <3>3. Midnight(MonthOf(t), Day(t)) = (F + (d - F + 1) - 1) * TicksDay
      BY DEF Midnight, Day
    <3> HIDE DEF d, F
    <3>4. F + (d - F + 1) - 1 = d
      BY <3>1
    <3>5. d * TicksDay = t - (t % TicksDay)
      BY <1>2, <2>3, <3>1, <3>2 DEF Pos
    <3> QED
      BY <3>3, <3>4, <3>5 DEF Truncate
  <2>5. PICK v : v = t'
    OBVIOUS
  <2>6. SuccUnit(TicksDay, t, v)
    <3>1. added => t % TicksDay = 0
      BY <1>2, <2>2 DEF Aligned, ToDay
    <3>2. SuccUnit(TicksDay, t, Truncate(t, TicksDay) + TicksDay)
          /\ (t % TicksDay = 0 => SuccUnit(TicksDay, t, t + TicksDay))
      BY <1>2, <2>3, SuccNext
    <3> QED
      BY <1>2, <2>1, <2>4, <2>5, <3>1, <3>2
  <2>7. /\ Lands(sched.bits, t, v) /\ Skips(sched.bits, t, v)
        /\ Day(v) # 1 => MonthOf(v) = MonthOf(t) /\ OkMonth(sched.bits, v)
    BY <1>2, <2>2, <2>6, LandsDay
  <2>8. Day(v) # 1 => MonthOf(v) < Limit /\ Passed(sched.bits, v, pc)
    BY <1>1, <1>2, <2>7 DEF Passed
  <2> QED
    BY <1>1, <2>1, <2>5, <2>7, <2>8, TurnKeeps
<1> QED
  BY <1>3, <1>4

LEMMA FindHourKeeps == ASSUME Inv, FindHour PROVE Inv' /\ Forward
<1>1. pc = "hour" /\ pc \in InSearch
  BY DEF FindHour, InSearch
<1>2. /\ Covered(t) /\ t \in Nat /\ MonthOf(t) < Limit /\ MonthOf(t) + 1 < NMonths
      /\ added \in BOOLEAN /\ (added => Aligned(sched.bits, t)) /\ ToDay(sched.bits, t)
  BY <1>1, InSearchKnows DEF Passed
<1>3. CASE Hour(t) \in sched.bits[3]
  <2>1. pc' = "minute" /\ UNCHANGED <<inputs, sched, t, added, yearLimit, result>>
    BY <1>3 DEF FindHour, Pass
  <2>2. Passed(sched.bits, t, "minute")
    BY <1>2, <1>3 DEF Passed, ToHour, OkHour
  <2>3. Forward
    BY <1>1, <2>1 DEF Forward, Order
  <2> QED
    BY <1>1, <2>1, <2>2, <2>3, PassKeeps DEF InSearch
<1>4. CASE Hour(t) \notin sched.bits[3]
  <2>1. /\ t' = (IF added THEN t ELSE Truncate(t, TicksHour)) + TicksHour
        /\ added' = TRUE
        /\ pc' = IF Hour(t') = 0 THEN "wrap" ELSE pc
        /\ UNCHANGED <<inputs, sched, yearLimit, result>>
    BY <1>4 DEF FindHour, Turn
  <2>2. ~OkHour(sched.bits, t)
    BY <1>4 DEF OkHour
  <2>5. PICK v : v = t'
    OBVIOUS
  <2>6. SuccUnit(TicksHour, t, v)
    <3>1. added => t % TicksHour = 0
      BY <1>2, <2>2 DEF Aligned, ToHour
    <3>2. SuccUnit(TicksHour, t, Truncate(t, TicksHour) + TicksHour)
          /\ (t % TicksHour = 0 => SuccUnit(TicksHour, t, t + TicksHour))
      BY <1>2, Calendar, SuccNext
    <3> QED
      BY <1>2, <2>1, <2>5, <3>1, <3>2
  <2>7. /\ Lands(sched.bits, t, v) /\ Skips(sched.bits, t, v)
        /\ Hour(v) # 0 => MonthOf(v) = MonthOf(t) /\ ToDay(sched.bits, v)
    BY <1>2, <2>2, <2>6, LandsHour
  <2>8. Hour(v) # 0 => MonthOf(v) < Limit /\ Passed(sched.bits, v, pc)
    BY <1>1, <1>2, <2>7 DEF Passed
  <2> QED
    BY <1>1, <2>1, <2>5, <2>7, <2>8, TurnKeeps
<1> QED
  BY <1>3, <1>4

LEMMA FindMinuteKeeps == ASSUME Inv, FindMinute PROVE Inv' /\ Forward
<1>1. pc = "minute" /\ pc \in InSearch
  BY DEF FindMinute, InSearch
<1>2. /\ Covered(t) /\ t \in Nat /\ MonthOf(t) < Limit /\ MonthOf(t) + 1 < NMonths
      /\ added \in BOOLEAN /\ (added => Aligned(sched.bits, t)) /\ ToHour(sched.bits, t)
  BY <1>1, InSearchKnows DEF Passed
<1>3. CASE Minute(t) \in sched.bits[2]
  <2>1. pc' = "second" /\ UNCHANGED <<inputs, sched, t, added, yearLimit, result>>
    BY <1>3 DEF FindMinute, Pass
  <2>2. Passed(sched.bits, t, "second")
    BY <1>2, <1>3 DEF Passed, ToMinute, OkMinute
  <2>3. Forward
    BY <1>1, <2>1 DEF Forward, Order
  <2> QED
    BY <1>1, <2>1, <2>2, <2>3, PassKeeps DEF InSearch
<1>4. CASE Minute(t) \notin sched.bits[2]
  <2>1. /\ t' = (IF added THEN t ELSE Truncate(t, TicksMin)) + TicksMin
        /\ added' = TRUE
        /\ pc' = IF Minute(t') = 0 THEN "wrap" ELSE pc
        /\ UNCHANGED <<inputs, sched, yearLimit, result>>
    BY <1>4 DEF FindMinute, Turn
  <2>2. ~OkMinute(sched.bits, t)
    BY <1>4 DEF OkMinute
  <2>5. PICK v : v = t'
    OBVIOUS
  <2>6. SuccUnit(TicksMin, t, v)
    <3>1. added => t % TicksMin = 0
      BY <1>2, <2>2 DEF Aligned, ToMinute
    <3>2. SuccUnit(TicksMin, t, Truncate(t, TicksMin) + TicksMin)
          /\ (t % TicksMin = 0 => SuccUnit(TicksMin, t, t + TicksMin))
      BY <1>2, Calendar, SuccNext
    <3> QED
      BY <1>2, <2>1, <2>5, <3>1, <3>2
  <2>7. /\ Lands(sched.bits, t, v) /\ Skips(sched.bits, t, v)
        /\ Minute(v) # 0 => MonthOf(v) = MonthOf(t) /\ ToHour(sched.bits, v)
    BY <1>2, <2>2, <2>6, LandsMinute
  <2>8. Minute(v) # 0 => MonthOf(v) < Limit /\ Passed(sched.bits, v, pc)
    BY <1>1, <1>2, <2>7 DEF Passed
  <2> QED
    BY <1>1, <2>1, <2>5, <2>7, <2>8, TurnKeeps
<1> QED
  BY <1>3, <1>4

LEMMA FindSecondKeeps == ASSUME Inv, FindSecond PROVE Inv' /\ Forward
<1>1. pc = "second" /\ pc \in InSearch
  BY DEF FindSecond, InSearch
<1>2. /\ Covered(t) /\ t \in Nat /\ MonthOf(t) < Limit /\ MonthOf(t) + 1 < NMonths
      /\ added \in BOOLEAN /\ t % Frac = 0 /\ ToMinute(sched.bits, t)
  BY <1>1, InSearchKnows DEF Passed
<1>3. CASE Second(t) \in sched.bits[1]
  <2>1. /\ pc' = "done" /\ result' = t
        /\ UNCHANGED <<inputs, sched, t, added, yearLimit>>
    BY <1>3 DEF FindSecond
  <2>2. Matches(sched.bits, t)
    BY <1>2, <1>3 DEF Matches, OkSecond
  <2>3. /\ At(sched.bits, from, pc, t, added, Limit) /\ sched.is = "spec"
        /\ yearLimit = Year(from + Frac) + YearsAhead
    BY <1>1, InSearchKnows
  <2>4. from < t /\ NoneBefore(sched.bits, from, t)
    BY <2>3 DEF At
  <2>5. from' = from /\ parser' = parser /\ spec' = spec
    BY <2>1 DEF inputs
  <2>6. ControlOK' /\ Parsed' /\ Idle'
    BY <1>1, <2>1, <2>3, <2>5 DEF Inv, ControlOK, Parsed, Idle, InSearch
  <2>7. Searched'
    BY <1>2, <2>1, <2>2, <2>3, <2>4, <2>5 DEF Searched, InSearch
  <2> QED
    BY <2>1, <2>6, <2>7 DEF Inv, Forward
<1>4. CASE Second(t) \notin sched.bits[1]
  <2>1. /\ t' = (IF added THEN t ELSE Truncate(t, Frac)) + Frac
        /\ added' = TRUE
        /\ pc' = IF Second(t') = 0 THEN "wrap" ELSE pc
        /\ UNCHANGED <<inputs, sched, yearLimit, result>>
    BY <1>4 DEF FindSecond, Turn
  <2>2. ~OkSecond(sched.bits, t)
    BY <1>4 DEF OkSecond
  <2>5. PICK v : v = t'
    OBVIOUS
  <2>6. SuccUnit(Frac, t, v)
    <3>2. SuccUnit(Frac, t, Truncate(t, Frac) + Frac) /\ SuccUnit(Frac, t, t + Frac)
      BY <1>2, Calendar, SuccNext
    <3> QED
      BY <1>2, <2>1, <2>5, <3>2
  <2>7. /\ Lands(sched.bits, t, v) /\ Skips(sched.bits, t, v)
        /\ Second(v) # 0 => MonthOf(v) = MonthOf(t) /\ ToMinute(sched.bits, v)
    BY <1>2, <2>2, <2>6, LandsSecond
  <2>8. Second(v) # 0 => MonthOf(v) < Limit /\ Passed(sched.bits, v, pc)
    BY <1>1, <1>2, <2>7 DEF Passed
  <2> QED
    BY <1>1, <2>1, <2>5, <2>7, <2>8, TurnKeeps
<1> QED
  BY <1>3, <1>4

LEMMA Scaled ==
    ASSUME NEW n \in Pos, NEW a \in Nat, NEW b \in Nat, a <= b
    PROVE  n * a <= n * b /\ n * a \in Nat /\ n * b \in Nat
  BY DEF Pos

\* The search gives up at the start of the year after the last.
LEMMA WrapKeeps == ASSUME Inv, Wrap PROVE Inv' /\ Forward
<1>1. pc = "wrap" /\ pc \in InSearch
  BY DEF Wrap, InSearch
<1>2. /\ At(sched.bits, from, pc, t, added, Limit) /\ Covered(t) /\ t % Frac = 0
      /\ MonthOf(t) \in Nat /\ Limit \in Nat /\ sched.is = "spec" /\ result = ZeroTime
      /\ yearLimit = Year(from + Frac) + YearsAhead
  BY <1>1, InSearchKnows
<1>3. MonthOf(t) <= Limit /\ from < t /\ NoneBefore(sched.bits, from, t)
  BY <1>2 DEF At
<1>4. yearLimit \in Nat /\ NMonth \in Pos
  <2>1. yearLimit \in 0..Years
    BY <1>2, LimitIs DEF Inv, ControlOK
  <2> QED
    BY <2>1, Calendar DEF Pos
<1>5. Year(t) > yearLimit <=> MonthOf(t) = Limit
  <2> DEFINE k == MonthOf(t)
             y == k \div NMonth
  <2>1. k = NMonth * y + (k % NMonth) /\ y \in Nat /\ k % NMonth \in 0..(NMonth - 1)
    BY <1>2, <1>4, DivMod
  <2>2. Limit = NMonth * (yearLimit + 1)
    BY DEF Limit
  <2>3. Year(t) = y
    BY DEF Year
  <2>4. k <= Limit
    BY <1>3
  <2> HIDE DEF k, y
  <2>5. y > yearLimit => k = Limit
    <3> SUFFICES ASSUME y >= yearLimit + 1 PROVE k = Limit
      BY <1>4, <2>1
    <3>1. yearLimit + 1 \in Nat /\ yearLimit + 1 <= y
      BY <1>4, <2>1
    <3>2. NMonth * (yearLimit + 1) <= NMonth * y /\ NMonth * y \in Nat
      BY <1>4, <2>1, <3>1, Scaled
    <3>3. k % NMonth \in Nat
      BY <1>4, <2>1 DEF Pos
    <3> QED
      BY <1>2, <2>1, <2>2, <2>4, <3>2, <3>3
  <2>6. k = Limit => y = yearLimit + 1
    <3> SUFFICES ASSUME k = Limit PROVE y = yearLimit + 1
      OBVIOUS
    <3>1. k = NMonth * (yearLimit + 1) + 0 /\ 0 \in 0..(NMonth - 1) /\ yearLimit + 1 \in Int /\ k \in Nat
      BY <1>2, <1>4, <2>2 DEF Pos
    <3> QED
      BY <1>4, <3>1, DivUnique DEF y
  <2> QED
    BY <1>4, <2>1, <2>3, <2>5, <2>6 DEF k
<1>6. CASE Year(t) > yearLimit
  <2>1. /\ pc' = "done" /\ result' = ZeroTime
        /\ UNCHANGED <<inputs, sched, t, added, yearLimit>>
    BY <1>6 DEF Wrap
  <2>2. MonthOf(t) = Limit
    BY <1>5, <1>6
  <2>3. from' = from /\ parser' = parser /\ spec' = spec /\ Limit' = Limit
    BY <2>1 DEF inputs, Limit
  <2>4. ControlOK' /\ Parsed' /\ Idle'
    BY <1>1, <1>2, <2>1, <2>3 DEF Inv, ControlOK, Parsed, Idle, InSearch
  <2>5. Searched'
    BY <1>2, <1>3, <2>1, <2>2, <2>3 DEF Searched, InSearch
  <2> QED
    BY <2>1, <2>4, <2>5 DEF Inv, Forward
<1>7. CASE ~(Year(t) > yearLimit)
  <2>1. pc' = "month" /\ UNCHANGED <<inputs, sched, t, added, yearLimit, result>>
    BY <1>7 DEF Wrap
  <2>2. MonthOf(t) < Limit
    BY <1>2, <1>3, <1>5, <1>7
  <2>3. Passed(sched.bits, t, "month")
    BY DEF Passed
  <2>4. Forward
    BY <1>1, <2>1 DEF Forward, Order
  <2> QED
    BY <1>1, <2>1, <2>2, <2>3, <2>4, PassKeeps DEF InSearch
<1> QED
  BY <1>6, <1>7
-----------------------------------------------------------------------------
(* The start of the search, and the invariant *)

\* The upcoming second: no whole second lies before it.
LEMMA FirstSecond ==
    ASSUME NEW b, NEW f \in Froms, NEW v, v = f + Frac - (f % Frac)
    PROVE  /\ v \in Nat /\ Covered(v) /\ v % Frac = 0 /\ f < v /\ f \in Nat
           /\ MonthOf(v) = MonthOf(f + Frac) /\ NoneBefore(b, f, v)
<1>0. Frac \in Pos
  BY Calendar
<1>1. f \in Nat /\ f + Frac \in Nat /\ Covered(f + Frac)
  <2>1. f \in Nat /\ f + Frac < NDays * TicksDay
    BY FromsAssumption
  <2>2. f + Frac \in Nat
    BY <1>0, <2>1 DEF Pos
  <2> QED
    BY <2>1, <2>2, CoveredBelow
<1>2. SuccUnit(Frac, f, v)
  <2>1. SuccUnit(Frac, f, Truncate(f, Frac) + Frac)
    BY <1>0, <1>1, SuccNext
  <2>2. f % Frac \in Nat
    BY <1>0, <1>1, DivMod
  <2>3. v = Truncate(f, Frac) + Frac
    BY <1>0, <1>1, <2>2 DEF Truncate, Pos
  <2> QED
    BY <2>1, <2>3
<1>3. /\ v \in Nat /\ f < v /\ v % Frac = 0 /\ v \div Frac = (f \div Frac) + 1
      /\ \A s \in Nat : f <= s /\ s < v => s \div Frac = f \div Frac
  BY <1>0, <1>1, <1>2, SuccBetween DEF SuccUnit
<1>4. (f + Frac) \div Frac = (f \div Frac) + 1
  <2> DEFINE q == f \div Frac
             r == f % Frac
  <2>1. q \in Nat /\ r \in 0..(Frac - 1) /\ f = Frac * q + r
    BY <1>0, <1>1, DivMod
  <2> HIDE DEF q, r
  <2>2. f + Frac = Frac * (q + 1) + r /\ q + 1 \in Int
    BY <1>0, <1>1, <2>1 DEF Pos
  <2> QED
    BY <1>0, <1>1, <2>1, <2>2, DivUnique DEF q
<1>5. v \div TicksDay = (f + Frac) \div TicksDay /\ MonthOf(v) = MonthOf(f + Frac)
  <2>1. v \div Frac = (f + Frac) \div Frac
    BY <1>3, <1>4
  <2> QED
    BY <1>1, <1>3, <2>1, SameUnits
<1>6. Covered(v)
  BY <1>1, <1>3, <1>5 DEF Covered
<1>7. NoneBefore(b, f, v)
  <2> SUFFICES ASSUME NEW s \in 0..v, s % Frac = 0, f < s, s < v PROVE FALSE
    BY DEF NoneBefore
  <2>1. s \in Nat /\ s \div Frac = f \div Frac
    BY <1>1, <1>3
  <2>2. s = Frac * (s \div Frac) + 0
    BY <1>0, <2>1, DivMod
  <2>3. f = Frac * (f \div Frac) + (f % Frac) /\ f % Frac \in Nat /\ f \div Frac \in Nat
    BY <1>0, <1>1, DivMod
  <2> QED
    BY <1>0, <1>1, <2>1, <2>2, <2>3 DEF Pos
<1> QED
  BY <1>1, <1>3, <1>5, <1>6, <1>7

LEMMA NextStartKeeps == ASSUME Inv, NextStart PROVE Inv'
<1>1. /\ pc = "next" /\ sched.is = "spec" /\ pc' = "wrap"
      /\ t' = from + Frac - (from % Frac) /\ yearLimit' = Year(t') + YearsAhead
      /\ UNCHANGED <<inputs, sched, added, result>>
  BY DEF NextStart
<1>2. from' = from /\ parser' = parser /\ spec' = spec
  BY <1>1 DEF inputs
<1>3. from \in Froms /\ added = FALSE /\ result = ZeroTime
  BY <1>1 DEF Inv, ControlOK, Idle
<1>4. PICK v : v = t'
  OBVIOUS
<1>5. /\ v \in Nat /\ Covered(v) /\ v % Frac = 0 /\ from < v
      /\ MonthOf(v) = MonthOf(from + Frac) /\ NoneBefore(sched.bits, from, v)
  BY <1>1, <1>3, <1>4, FirstSecond
<1>6. PICK y : y = yearLimit'
  OBVIOUS
<1>7. y = Year(from + Frac) + YearsAhead
  BY <1>1, <1>4, <1>5, <1>6 DEF Year
<1>8. MonthOf(v) <= NMonth * (y + 1)
  <2> DEFINE k == MonthOf(v)
             q == k \div NMonth
  <2>1. k \in Nat /\ NMonth \in Pos /\ YearsAhead \in Pos
    BY <1>5, DateOf, Calendar
  <2>2. k = NMonth * q + (k % NMonth) /\ q \in Nat /\ k % NMonth \in 0..(NMonth - 1)
    BY <2>1, DivMod
  <2>3. y = q + YearsAhead
    BY <1>5, <1>7 DEF Year
  <2> HIDE DEF k, q
  <2>4. q + 1 <= y + 1 /\ q + 1 \in Nat /\ y + 1 \in Nat
    BY <2>1, <2>2, <2>3 DEF Pos
  <2>5. NMonth * (q + 1) <= NMonth * (y + 1) /\ NMonth * (y + 1) \in Nat
    BY <2>1, <2>4, Scaled
  <2>6. NMonth * (q + 1) = NMonth * q + NMonth /\ NMonth * q \in Nat
    BY <2>1, <2>2 DEF Pos
  <2>7. k % NMonth \in Nat /\ k % NMonth < NMonth /\ NMonth \in Nat
    BY <2>1, <2>2 DEF Pos
  <2>8. k <= NMonth * (y + 1)
    BY <2>2, <2>5, <2>6, <2>7
  <2> QED
    BY <2>8 DEF k
<1>9. At(sched.bits, from, "wrap", v, FALSE, NMonth * (y + 1))
  BY <1>5, <1>8 DEF At, Passed
<1>10. Limit' = NMonth * (y + 1)
  BY <1>6 DEF Limit
<1>11. At(sched.bits, from, pc, t, added, Limit)'
  BY <1>1, <1>2, <1>3, <1>4, <1>9, <1>10
<1>12. ControlOK'
  BY <1>1, <1>2 DEF Inv, ControlOK, InSearch
<1>13. Parsed'
  BY <1>1, <1>2 DEF Inv, Parsed
<1>14. Idle'
  BY <1>1, <1>3 DEF Idle, InSearch
<1>15. Searched'
  BY <1>1, <1>2, <1>6, <1>7, <1>11 DEF Searched, InSearch
<1> QED
  BY <1>12, <1>13, <1>14, <1>15 DEF Inv

\* The schedules Parse returns are those of the two kinds.
LEMMA ParseSpecKeeps == ASSUME Inv, ParseSpec PROVE Inv'
<1> DEFINE parsed == Parse(NewParser(parser), spec)
<1>1. /\ pc = "parse"
      /\ IF parsed.ok THEN sched' = parsed.sched /\ pc' = "next"
                      ELSE pc' = "refused" /\ UNCHANGED sched
      /\ UNCHANGED <<inputs, t, added, yearLimit, result>>
  BY DEF ParseSpec
<1>2. from' = from /\ parser' = parser /\ spec' = spec
  BY <1>1 DEF inputs
<1>3. /\ sched = NoSched /\ sched.is # "spec" /\ added = FALSE
      /\ t = 0 /\ yearLimit = 0 /\ result = ZeroTime
  <2>1. sched = NoSched
    BY <1>1 DEF Inv, Parsed
  <2>2. sched.is = "none"
    BY <2>1 DEF NoSched
  <2> QED
    BY <1>1, <2>1, <2>2 DEF Inv, Idle
<1>4. pc' \in {"next", "refused"} /\ ControlOK'
  BY <1>1, <1>2 DEF Inv, ControlOK
<1>5. Parsed'
  BY <1>1, <1>2, <1>3, <1>4 DEF Parsed
<1>6. Idle' /\ Searched'
  BY <1>1, <1>3, <1>4 DEF Idle, Searched, InSearch
<1> QED
  BY <1>4, <1>5, <1>6 DEF Inv

LEMMA DelayNextKeeps == ASSUME Inv, DelayNext PROVE Inv'
<1>1. /\ pc = "next" /\ sched.is = "delay" /\ pc' = "done"
      /\ result' = from + sched.delay - (from % Frac)
      /\ UNCHANGED <<inputs, sched, t, added, yearLimit>>
  BY DEF DelayNext
<1>2. from' = from /\ parser' = parser /\ spec' = spec
  BY <1>1 DEF inputs
<1>3. t = 0 /\ yearLimit = 0
  BY <1>1 DEF Inv, Idle
<1>4. ControlOK' /\ Parsed'
  BY <1>1, <1>2 DEF Inv, ControlOK, Parsed
<1>5. Idle' /\ Searched'
  BY <1>1, <1>2, <1>3 DEF Idle, Searched, InSearch
<1> QED
  BY <1>4, <1>5 DEF Inv

\* The schedule is the one parsed, and the search has passed over nothing due.
LEMMA InvAlways == Spec => []Inv
<1>1. Init => Inv
  <2> SUFFICES ASSUME Init PROVE Inv
    OBVIOUS
  <2>1. /\ parser \in Parsers /\ spec \in Specs /\ from \in Froms /\ pc = "parse"
        /\ sched = NoSched /\ t = 0 /\ added = FALSE /\ yearLimit = 0 /\ result = ZeroTime
    BY DEF Init
  <2>2. sched.is # "spec" /\ sched.is # "delay"
    BY <2>1 DEF NoSched
  <2> QED
    BY <2>1, <2>2 DEF Inv, ControlOK, Parsed, Idle, Searched, InSearch
<1>2. Inv /\ [Next]_vars => Inv'
  <2> SUFFICES ASSUME Inv, [Next]_vars PROVE Inv'
    OBVIOUS
  <2>1. CASE ParseSpec
    BY <2>1, ParseSpecKeeps
  <2>2. CASE DelayNext
    BY <2>2, DelayNextKeeps
  <2>3. CASE NextStart
    BY <2>3, NextStartKeeps
  <2>4. CASE Wrap
    BY <2>4, WrapKeeps
  <2>5. CASE FindMonth
    BY <2>5, FindMonthKeeps
  <2>6. CASE FindDay
    BY <2>6, FindDayKeeps
  <2>7. CASE FindHour
    BY <2>7, FindHourKeeps
  <2>8. CASE FindMinute
    BY <2>8, FindMinuteKeeps
  <2>9. CASE FindSecond
    BY <2>9, FindSecondKeeps
  <2>10. CASE UNCHANGED vars
    BY <2>10 DEF vars, Inv, ControlOK, Parsed, Idle, Searched, Limit
  <2> QED
    BY <2>1, <2>2, <2>3, <2>4, <2>5, <2>6, <2>7, <2>8, <2>9, <2>10 DEF Next
<1> QED
  BY <1>1, <1>2, PTL DEF Spec

-----------------------------------------------------------------------------
(* What the parser accepts *)

LEMMA LimitsAre ==
    ASSUME NEW i \in 1..6
    PROVE  /\ limits[i].min \in {0, 1} /\ limits[i].min \in Nat
           /\ limits[i].max \in Nat /\ limits[i].max < StarBit
           /\ \A n \in DOMAIN limits[i].names : limits[i].names[n] \in Nat
<1>0. /\ NSec - 1 \in 0..62 /\ NMin - 1 \in 0..62 /\ NHour - 1 \in 0..62
      /\ MaxDom \in 0..62 /\ NMonth \in 0..62 /\ NWeek - 1 \in 0..62
      /\ MonthNames \in [DOMAIN MonthNames -> Nat] /\ DowNames \in [DOMAIN DowNames -> Nat]
  BY MaskAssumption DEF StarBit
<1>1. /\ limits[1] = seconds /\ limits[2] = minutes /\ limits[3] = hours
      /\ limits[4] = dom /\ limits[5] = months /\ limits[6] = dow
  BY DEF limits
<1>2. /\ \A n \in DOMAIN seconds.names : seconds.names[n] \in Nat
      /\ \A n \in DOMAIN minutes.names : minutes.names[n] \in Nat
      /\ \A n \in DOMAIN hours.names : hours.names[n] \in Nat
      /\ \A n \in DOMAIN dom.names : dom.names[n] \in Nat
  BY DEF seconds, minutes, hours, dom
<1>3. CASE i = 1
  <2>1. seconds.min \in {0, 1} /\ seconds.max \in Nat /\ seconds.max < StarBit
    BY <1>0 DEF seconds, StarBit
  <2> QED
    BY <1>1, <1>2, <1>3, <2>1
<1>4. CASE i = 2
  <2>1. minutes.min \in {0, 1} /\ minutes.max \in Nat /\ minutes.max < StarBit
    BY <1>0 DEF minutes, StarBit
  <2> QED
    BY <1>1, <1>2, <1>4, <2>1
<1>5. CASE i = 3
  <2>1. hours.min \in {0, 1} /\ hours.max \in Nat /\ hours.max < StarBit
    BY <1>0 DEF hours, StarBit
  <2> QED
    BY <1>1, <1>2, <1>5, <2>1
<1>6. CASE i = 4
  <2>1. dom.min \in {0, 1} /\ dom.max \in Nat /\ dom.max < StarBit
    BY <1>0 DEF dom, StarBit
  <2> QED
    BY <1>1, <1>2, <1>6, <2>1
<1>7. CASE i = 5
  BY <1>0, <1>1, <1>7 DEF months, StarBit
<1>8. CASE i = 6
  BY <1>0, <1>1, <1>8 DEF dow, StarBit
<1> QED
  BY <1>3, <1>4, <1>5, <1>6, <1>7, <1>8

\* The mask of a range: every step-th value from its start to its end.
LEMMA GetBitsAre ==
    ASSUME NEW a \in Nat, NEW z \in Nat, a <= z, NEW step \in Pos, NEW v
    PROVE  v \in getBits(a, z, step) <=> v \in a..z /\ (v - a) % step = 0
<1>1. CASE step = 1
  <2>1. ASSUME NEW x \in a..z PROVE (x - a) % 1 = 0
    <3>1. x - a = 1 * (x - a) + 0 /\ x - a \in Nat /\ x - a \in Int /\ 0 \in 0..(1 - 1) /\ 1 \in Pos
      BY DEF Pos
    <3> QED
      BY <3>1, DivUnique
  <2> QED
    BY <1>1, <2>1 DEF getBits
<1>2. CASE step # 1
  <2> DEFINE n == (z - a) \div step
  <2>1. z - a \in Nat /\ step * n <= z - a /\ n \in Nat
    <3>1. z - a \in Nat
      OBVIOUS
    <3>2. z - a = step * n + ((z - a) % step) /\ n \in Nat /\ (z - a) % step \in Nat
      BY <3>1, DivMod
    <3>3. step * n \in Nat
      BY <3>2 DEF Pos
    <3> HIDE DEF n
    <3> QED
      BY <3>1, <3>2, <3>3
  <2>2. getBits(a, z, step) = {a + i * step : i \in 0..n}
    BY <1>2 DEF getBits
  <2> HIDE DEF n
  <2>3. ASSUME v \in getBits(a, z, step) PROVE v \in a..z /\ (v - a) % step = 0
    <3>1. PICK i \in 0..n : v = a + i * step
      BY <2>2, <2>3
    <3>2. i \in Nat /\ i <= n
      BY <2>1
    <3>3. step * i <= step * n /\ step * i \in Nat /\ step * n \in Nat
      BY <2>1, <3>2, Scaled
    <3>4. v = a + step * i
      BY <3>1, <3>2 DEF Pos
    <3>5. v \in a..z /\ v - a = step * i + 0 /\ v - a \in Nat
      BY <2>1, <3>3, <3>4
    <3>6. 0 \in 0..(step - 1) /\ i \in Int
      BY <3>2 DEF Pos
    <3> QED
      BY <3>5, <3>6, DivUnique
  <2>4. ASSUME v \in a..z, (v - a) % step = 0 PROVE v \in getBits(a, z, step)
    <3> DEFINE q == (v - a) \div step
    <3>1. v - a \in Nat /\ v \in Int /\ v - a <= z - a
      BY <2>4
    <3>2. v - a = step * q + ((v - a) % step) /\ q \in Nat
      BY <3>1, DivMod
    <3>3. q <= n
      BY <2>1, <3>1, DivMonotone DEF n
    <3> HIDE DEF q
    <3>4. v = a + q * step
      BY <2>4, <3>1, <3>2 DEF Pos
    <3>5. q \in 0..n
      BY <2>1, <3>2, <3>3
    <3> QED
      BY <2>2, <3>4, <3>5
  <2> QED
    BY <2>3, <2>4
<1> QED
  BY <1>1, <1>2

\* The mask b stands for field f of place i.
Means(b, f, i) ==
    /\ b \subseteq (limits[i].min..limits[i].max) \cup {StarBit}
    /\ \A v \in limits[i].min..limits[i].max : v \in b <=> \E e \in ToSet(f) : InRange(e, i, v)
    /\ StarBit \in b <=> \E e \in ToSet(f) : e.parts[1] = Star

\* A number or a name is read as its value.
LEMMA ReadIs ==
    ASSUME NEW tok \in Token, NEW names, \A n \in DOMAIN names : names[n] \in Nat
    PROVE  /\ mustParseInt(tok) # Err => tok.is = "num" /\ tok.n \in Nat /\ mustParseInt(tok) = tok.n
           /\ parseIntOrName(tok, names) # Err =>
                 /\ parseIntOrName(tok, names) \in Nat
                 /\ parseIntOrName(tok, names) = IF tok.is = "num" THEN tok.n ELSE names[tok.s]
           /\ tok.is = "star" <=> tok = Star
<1>1. tok.is = "num" => tok.n \in Int
  BY DEF Token, Star, Junk
<1>2. tok.is = "star" <=> tok = Star
  BY DEF Token, Star, Junk
<1>3. mustParseInt(tok) # Err => tok.is = "num" /\ tok.n \in Nat /\ mustParseInt(tok) = tok.n
  BY <1>1 DEF mustParseInt, Err
<1>4. ASSUME parseIntOrName(tok, names) # Err
      PROVE  /\ parseIntOrName(tok, names) \in Nat
             /\ parseIntOrName(tok, names) = IF tok.is = "num" THEN tok.n ELSE names[tok.s]
  <2>1. CASE tok.is = "name" /\ tok.s \in DOMAIN names
    BY <2>1 DEF parseIntOrName
  <2>2. CASE ~(tok.is = "name" /\ tok.s \in DOMAIN names)
    BY <1>3, <1>4, <2>2 DEF parseIntOrName
  <2> QED
    BY <2>1, <2>2
<1> QED
  BY <1>2, <1>3, <1>4

\* A range that is accepted is the set of the values its text names.
LEMMA GetRangeIs ==
    ASSUME NEW i \in 1..6, NEW e \in Ranges, getRange(e, limits[i]) # Invalid
    PROVE  LET g == getRange(e, limits[i])
           IN  /\ g.ok /\ g.bits \subseteq (limits[i].min..limits[i].max) \cup {StarBit}
               /\ \A v \in limits[i].min..limits[i].max : v \in g.bits <=> InRange(e, i, v)
               /\ StarBit \in g.bits <=> e.parts[1] = Star
<1> DEFINE r      == limits[i]
           star   == e.parts[1].is = "star"
           single == Len(e.parts) = 1
           start  == IF star THEN r.min ELSE parseIntOrName(e.parts[1], r.names)
           high   == IF star THEN r.max
                     ELSE IF single THEN start ELSE parseIntOrName(e.parts[2], r.names)
           step   == IF e.steps = <<>> THEN 1 ELSE mustParseInt(e.steps[1])
           end    == IF e.steps # <<>> /\ single THEN r.max ELSE high
           bad    == \/ Err \in {start, high, step}
                     \/ ~star /\ Len(e.parts) > 2
                     \/ Len(e.steps) > 1
                     \/ start < r.min \/ end > r.max \/ start > end
                     \/ step = 0
           value(tok) == IF tok.is = "num" THEN tok.n ELSE r.names[tok.s]
<1>0. /\ r.min \in Nat /\ r.max \in Nat /\ r.max < StarBit
      /\ \A n \in DOMAIN r.names : r.names[n] \in Nat
  BY LimitsAre
<1>1. getRange(e, r) = IF bad THEN Invalid
                       ELSE [ok   |-> TRUE,
                             bits |-> getBits(start, end, step) \cup (IF star THEN {StarBit} ELSE {})]
  BY DEF getRange
<1>2. ~bad
  BY <1>1
<1>3. /\ e.parts \in Seq(Token) /\ e.parts # <<>> /\ e.steps \in Seq(Token)
      /\ Len(e.parts) \in Nat /\ Len(e.parts) >= 1 /\ e.parts[1] \in Token
      /\ Len(e.parts) >= 2 => e.parts[2] \in Token
      /\ e.steps # <<>> => e.steps[1] \in Token
  <2>1. e.parts \in Seq(Token) /\ e.parts # <<>> /\ e.steps \in Seq(Token)
    BY DEF Ranges
  <2> QED
    BY <2>1
<1>4. star <=> e.parts[1] = Star
  BY <1>0, <1>3, ReadIs
<1>5. ~star => Len(e.parts) <= 2 /\ (single \/ Len(e.parts) = 2)
  <2>1. ASSUME NEW n \in Nat, n >= 1, ~(n > 2) PROVE n <= 2 /\ (n = 1 \/ n = 2)
    BY <2>1
  <2>2. ~star => ~(Len(e.parts) > 2)
    BY <1>2
  <2> QED
    BY <1>3, <2>1, <2>2
<1>6. start \in Nat /\ start = IF star THEN r.min ELSE value(e.parts[1])
  <2>1. CASE star
    BY <1>0, <2>1
  <2>2. CASE ~star
    <3>1. parseIntOrName(e.parts[1], r.names) # Err
      BY <1>2, <2>2
    <3> QED
      BY <1>0, <1>3, <2>2, <3>1, ReadIs
  <2> QED
    BY <2>1, <2>2
<1>7. high \in Nat /\ high = IF star THEN r.max ELSE value(e.parts[Len(e.parts)])
  <2>1. CASE star
    BY <1>0, <2>1
  <2>2. CASE ~star /\ single
    BY <1>6, <2>2
  <2>3. CASE ~star /\ ~single
    <3>1. parseIntOrName(e.parts[2], r.names) # Err
      BY <1>2, <2>3
    <3>2. Len(e.parts) = 2 /\ e.parts[2] \in Token
      BY <1>3, <1>5, <2>3
    <3> QED
      BY <1>0, <2>3, <3>1, <3>2, ReadIs
  <2> QED
    BY <2>1, <2>2, <2>3
<1>8. step \in Pos /\ (e.steps # <<>> => step = e.steps[1].n)
  <2>1. CASE e.steps = <<>>
    BY <2>1 DEF Pos
  <2>2. CASE e.steps # <<>>
    <3>1. mustParseInt(e.steps[1]) # Err /\ mustParseInt(e.steps[1]) # 0
      BY <1>2, <2>2
    <3> QED
      BY <1>0, <1>3, <2>2, <3>1, ReadIs DEF Pos
  <2> QED
    BY <2>1, <2>2
<1>9. /\ end \in Nat /\ start >= r.min /\ end <= r.max /\ start <= end
      /\ end = IF star \/ (single /\ e.steps # <<>>) THEN r.max
               ELSE value(e.parts[Len(e.parts)])
  <2>1. end \in Nat
    BY <1>0, <1>7
  <2>2. start >= r.min /\ end <= r.max /\ start <= end
    <3> HIDE DEF start, end, high, step
    <3> QED
      BY <1>0, <1>2, <1>6, <2>1
  <2> QED
    BY <1>7, <2>1, <2>2
<1>10. getRange(e, r).ok /\ getRange(e, r).bits = getBits(start, end, step) \cup (IF star THEN {StarBit} ELSE {})
  BY <1>1, <1>2
<1>11. ASSUME NEW v
       PROVE  InRange(e, i, v) <=> /\ v \in start..end
                                   /\ e.steps # <<>> => (v - start) % e.steps[1].n = 0
  BY <1>6, <1>9 DEF InRange
<1> HIDE DEF start, high, end, step, star, bad, value
<1>12. ASSUME NEW v PROVE v \in getBits(start, end, step) <=> InRange(e, i, v)
  <2>1. v \in getBits(start, end, step) <=> v \in start..end /\ (v - start) % step = 0
    BY <1>6, <1>8, <1>9, GetBitsAre
  <2>2. CASE e.steps # <<>>
    BY <1>8, <1>11, <2>1, <2>2
  <2>3. CASE e.steps = <<>>
    <3>1. step = 1
      BY <2>3 DEF step
    <3>2. v \in start..end => v \in getBits(start, end, step)
      BY <3>1 DEF getBits
    <3> QED
      BY <1>11, <2>1, <2>3, <3>2
  <2> QED
    BY <2>2, <2>3
<1>13. getBits(start, end, step) \subseteq r.min..r.max
  <2> SUFFICES ASSUME NEW v \in getBits(start, end, step) PROVE v \in r.min..r.max
    OBVIOUS
  <2>1. v \in start..end
    BY <1>6, <1>8, <1>9, GetBitsAre
  <2> QED
    BY <1>0, <1>6, <1>9, <2>1
<1>14. StarBit \notin r.min..r.max
  BY <1>0 DEF StarBit
<1> HIDE DEF r
<1>15. ASSUME NEW v \in r.min..r.max PROVE v \in getRange(e, r).bits <=> InRange(e, i, v)
  BY <1>10, <1>12, <1>14
<1>16. getRange(e, r).bits \subseteq (r.min..r.max) \cup {StarBit}
  BY <1>10, <1>13
<1>17. StarBit \in getRange(e, r).bits <=> e.parts[1] = Star
  BY <1>4, <1>10, <1>13, <1>14
<1> QED
  BY <1>10, <1>15, <1>16, <1>17 DEF r

\* So is a field, which may have no range at all.
LEMMA GetFieldIs ==
    ASSUME NEW i \in 1..6, NEW field \in Seq(Ranges), getField(field, limits[i]) # Invalid
    PROVE  getField(field, limits[i]).ok /\ Means(getField(field, limits[i]).bits, field, i)
<1> DEFINE r == limits[i]
           ranges == {getRange(e, r) : e \in ToSet(field)}
           B == UNION {x.bits : x \in ranges}
<1>1. getField(field, r) = IF Invalid \in ranges THEN Invalid ELSE [ok |-> TRUE, bits |-> B]
  BY DEF getField
<1>2. Invalid \notin ranges
  BY <1>1
<1>3. getField(field, r).ok /\ getField(field, r).bits = B
  BY <1>1, <1>2
<1>4. ASSUME NEW e \in ToSet(field) PROVE e \in Ranges /\ getRange(e, r) # Invalid
  BY <1>2 DEF ToSet
<1>5. ASSUME NEW v PROVE v \in B <=> \E e \in ToSet(field) : v \in getRange(e, r).bits
  OBVIOUS
<1> HIDE DEF B
<1>6. B \subseteq (r.min..r.max) \cup {StarBit}
  <2> SUFFICES ASSUME NEW v \in B PROVE v \in (r.min..r.max) \cup {StarBit}
    OBVIOUS
  <2>1. PICK e \in ToSet(field) : v \in getRange(e, r).bits
    BY <1>5
  <2> QED
    BY <1>4, <2>1, GetRangeIs
<1>7. ASSUME NEW v \in r.min..r.max
      PROVE  v \in B <=> \E e \in ToSet(field) : InRange(e, i, v)
  <2>1. \A e \in ToSet(field) : v \in getRange(e, r).bits <=> InRange(e, i, v)
    BY <1>4, <1>7, GetRangeIs
  <2> QED
    BY <1>5, <2>1
<1>8. StarBit \in B <=> \E e \in ToSet(field) : e.parts[1] = Star
  <2>1. \A e \in ToSet(field) : StarBit \in getRange(e, r).bits <=> e.parts[1] = Star
    BY <1>4, GetRangeIs
  <2> QED
    BY <1>5, <2>1
<1>9. Means(B, field, i)
  BY <1>6, <1>7, <1>8 DEF Means
<1> QED
  BY <1>3, <1>9

\* The text of the six fields is fields of ranges.
LEMMA ExpandIs ==
    ASSUME NEW fields \in Seq(Seq(Ranges)), NEW options, NEW i \in 1..6
    PROVE  expandFields(fields, options)[i] \in Seq(Ranges)
<1>1. ASSUME NEW n \in Int PROVE One(n) \in Seq(Ranges)
  <2>1. Num(n) \in Token
    BY DEF Num, Token
  <2>2. <<Num(n)>> \in Seq(Token) /\ <<Num(n)>> # <<>> /\ <<>> \in Seq(Token)
    BY <2>1
  <2>3. Range1(<<Num(n)>>, <<>>) \in Ranges
    BY <2>2 DEF Range1, Ranges
  <2> QED
    BY <2>3 DEF One
<1>2. All \in Seq(Ranges)
  <2>1. <<Star>> \in Seq(Token) /\ <<Star>> # <<>> /\ <<>> \in Seq(Token)
    BY DEF Token
  <2>2. Range1(<<Star>>, <<>>) \in Ranges
    BY <2>1 DEF Range1, Ranges
  <2> QED
    BY <2>2 DEF All
<1>3. defaults[i] \in Seq(Ranges)
  <2>1. defaults[i] = One(0) \/ defaults[i] = All
    BY DEF defaults
  <2> QED
    BY <1>1, <1>2, <2>1
<1>4. ASSUME places[i] \in options, Rank(options, i) <= Len(fields)
      PROVE  fields[Rank(options, i)] \in Seq(Ranges)
  <2> DEFINE S == {j \in 1..i : places[j] \in options}
  <2>1. IsFiniteSet(1..i)
    BY FS_Interval
  <2>2. IsFiniteSet(S)
    BY <2>1, FS_Subset
  <2>3. i \in S
    BY <1>4
  <2>4. Cardinality(S) \in Nat /\ Cardinality(S) # 0
    BY <2>2, <2>3, FS_CardinalityType, FS_EmptySet
  <2>5. Rank(options, i) \in 1..Len(fields)
    BY <1>4, <2>4 DEF Rank
  <2> QED
    BY <2>5
<1>5. expandFields(fields, options)[i]
        = IF places[i] \in options /\ Rank(options, i) <= Len(fields)
          THEN fields[Rank(options, i)] ELSE defaults[i]
  BY DEF expandFields
<1> QED
  BY <1>3, <1>4, <1>5

\* The masks of six fields.
LEMMA FieldsMean ==
    ASSUME NEW p, NEW s \in Specs, s.is = "fields", Parse(p, s).ok
    PROVE  /\ Parse(p, s).sched.is = "spec"
           /\ \A i \in 1..6 :
                 Means(Parse(p, s).sched.bits[i], expandFields(s.fields, p.options)[i], i)
<1> DEFINE text   == expandFields(s.fields, p.options)
           fields == [i \in 1..6 |-> getField(text[i], limits[i])]
           bits   == [i \in 1..6 |-> fields[i].bits]
<1>1. s.fields \in Seq(Seq(Ranges))
  BY SpecsAssumption
<1>2. Parse(p, s) = IF Len(s.fields) \notin (Rank(p.options, 6) - p.optionals)..Rank(p.options, 6) THEN Invalid
                    ELSE IF Invalid \in ToSet(fields) THEN Invalid
                    ELSE [ok |-> TRUE, sched |-> SpecSchedule(bits)]
  BY DEF Parse
<1>3. Invalid.ok = FALSE
  BY DEF Invalid
<1>4. Invalid \notin ToSet(fields) /\ Parse(p, s) = [ok |-> TRUE, sched |-> SpecSchedule(bits)]
  <2> HIDE DEF fields, bits
  <2> QED
    BY <1>2, <1>3
<1>5. Parse(p, s).sched.is = "spec" /\ Parse(p, s).sched.bits = bits
  <2> HIDE DEF bits
  <2> QED
    BY <1>4 DEF SpecSchedule
<1>6. ASSUME NEW i \in 1..6 PROVE Means(bits[i], text[i], i)
  <2>1. getField(text[i], limits[i]) # Invalid
    <3>1. fields[i] \in ToSet(fields)
      BY DEF ToSet
    <3> QED
      BY <1>4, <3>1
  <2>2. text[i] \in Seq(Ranges)
    BY <1>1, ExpandIs
  <2>3. bits[i] = getField(text[i], limits[i]).bits
    OBVIOUS
  <2> HIDE DEF bits, text
  <2> QED
    BY <2>1, <2>2, <2>3, GetFieldIs
<1> QED
  BY <1>5, <1>6

-----------------------------------------------------------------------------
(* The predefined schedules *)

LEMMA LimitsOrdered == ASSUME NEW i \in 1..6 PROVE limits[i].min <= limits[i].max
<1>1. /\ NSec \in Pos /\ NMin \in Pos /\ NHour \in Pos /\ NWeek \in Pos /\ NMonth \in Pos
      /\ MaxDom \in Pos
  <2>1. LeapMonth \in 1..NMonth /\ MaxDom \in Nat /\ MonthDays[LeapMonth] < MaxDom
    BY CalendarAssumption
  <2>2. MonthDays[LeapMonth] \in Pos
    BY <2>1, Calendar
  <2> QED
    BY <2>1, <2>2, Calendar DEF Pos
<1>2. /\ limits[1] = seconds /\ limits[2] = minutes /\ limits[3] = hours
      /\ limits[4] = dom /\ limits[5] = months /\ limits[6] = dow
  BY DEF limits
<1>3. /\ seconds.min <= seconds.max /\ minutes.min <= minutes.max /\ hours.min <= hours.max
      /\ dom.min <= dom.max /\ months.min <= months.max /\ dow.min <= dow.max
  BY <1>1 DEF seconds, minutes, hours, dom, months, dow, Pos
<1> QED
  BY <1>2, <1>3

\* The mask of all values stands for "*", that of the first value for its number.
LEMMA AllMeans == ASSUME NEW i \in 1..6 PROVE Means(all(limits[i]), All, i)
<1> DEFINE r == limits[i]
           e == Range1(<<Star>>, <<>>)
<1>1. r.min \in Nat /\ r.max \in Nat /\ r.max < StarBit
  BY LimitsAre
<1>2. all(r) = (r.min..r.max) \cup {StarBit}
  BY DEF all, getBits
<1>3. ToSet(All) = {e}
  BY DEF All, ToSet
<1>4. e.parts[1] = Star /\ e.parts[1].is = "star" /\ e.steps = <<>>
  BY DEF Range1, Star
<1>5. ASSUME NEW v \in r.min..r.max PROVE InRange(e, i, v)
  <2> HIDE DEF e
  <2> QED
    BY <1>4 DEF InRange
<1> HIDE DEF r, e
<1> QED
  BY <1>2, <1>3, <1>4, <1>5 DEF Means, r

LEMMA FirstMeans ==
    ASSUME NEW i \in 1..6, NEW n, n = limits[i].min
    PROVE  Means({n}, One(n), i)
<1> DEFINE r == limits[i]
           e == Range1(<<Num(n)>>, <<>>)
<1>1. r.min \in Nat /\ r.max \in Nat /\ r.max < StarBit /\ r.min <= r.max
  BY LimitsAre, LimitsOrdered
<1>2. n \in r.min..r.max /\ n \in Nat /\ n # StarBit
  BY <1>1 DEF StarBit
<1>3. ToSet(One(n)) = {e}
  BY DEF One, ToSet
<1>4. /\ e.parts[1].is = "num" /\ e.parts[1].n = n /\ e.steps = <<>> /\ Len(e.parts) = 1
      /\ e.parts[1] # Star
  BY DEF Range1, Num, Star
<1>5. ASSUME NEW v \in r.min..r.max PROVE InRange(e, i, v) <=> v = n
  <2> HIDE DEF e
  <2>1. InRange(e, i, v) <=> v \in n..n
    BY <1>4 DEF InRange
  <2>2. v \in Int
    BY <1>1
  <2> QED
    BY <1>2, <2>1, <2>2
<1> HIDE DEF r, e
<1> QED
  BY <1>2, <1>3, <1>4, <1>5 DEF Means, r

\* The schedule of an accepted spec is a constant delay, or its masks stand for
\* the text of the spec.
LEMMA SchedMeans ==
    ASSUME spec \in Specs, Parse(NewParser(parser), spec).ok
    PROVE  LET sc == Parse(NewParser(parser), spec).sched
           IN  \/ sc = Every(spec.duration) /\ spec.duration \in Int
               \/ sc.is = "spec" /\ \A i \in 1..6 : Means(sc.bits[i], Text[i], i)
<1> DEFINE P == Parse(NewParser(parser), spec)
<1>0. Invalid.ok = FALSE
  BY DEF Invalid
<1>1. CASE spec.is = "fields"
  <2>1. Text = expandFields(spec.fields, NewParser(parser).options)
    BY <1>1 DEF Text
  <2> QED
    BY <1>1, <2>1, FieldsMean
<1>2. CASE spec.is = "descriptor"
  <2> DEFINE first(r) == {r.min}
             spec6(h, d, m, w) == SpecSchedule(<<first(seconds), first(minutes), h, d, m, w>>)
             known ==
                [yearly  |-> spec6(first(hours), first(dom), first(months), all(dow)),
                 monthly |-> spec6(first(hours), first(dom), all(months), all(dow)),
                 weekly  |-> spec6(first(hours), all(dom), all(months), first(dow)),
                 daily   |-> spec6(first(hours), all(dom), all(months), all(dow)),
                 hourly  |-> spec6(all(hours), all(dom), all(months), all(dow))]
             table ==
                [yearly  |-> <<One(0), One(0), One(0), One(1), One(1), All>>,
                 monthly |-> <<One(0), One(0), One(0), One(1), All, All>>,
                 weekly  |-> <<One(0), One(0), One(0), All, All, One(0)>>,
                 daily   |-> <<One(0), One(0), One(0), All, All, All>>,
                 hourly  |-> <<One(0), One(0), All, All, All, All>>]
  <2>1. P = IF "Descriptor" \in NewParser(parser).options THEN parseDescriptor(spec) ELSE Invalid
    BY <1>2 DEF Parse
  <2>2. P = parseDescriptor(spec)
    BY <1>0, <2>1
  <2>3. parseDescriptor(spec) =
            IF spec.name \in DOMAIN known THEN [ok |-> TRUE, sched |-> known[spec.name]]
            ELSE IF spec.name = "every" THEN [ok |-> TRUE, sched |-> Every(spec.duration)]
            ELSE Invalid
    BY DEF parseDescriptor
  <2>4. Text = table[spec.name]
    BY <1>2 DEF Text
  <2>5. spec.duration \in Int
    BY <1>2, SpecsAssumption
  <2>6. CASE spec.name \notin DOMAIN known
    <3> HIDE DEF known
    <3> QED
      BY <1>0, <2>2, <2>3, <2>5, <2>6
  <2>7. CASE spec.name \in DOMAIN known
    <3>1. P.sched = known[spec.name]
      <4> HIDE DEF known
      <4> QED
        BY <2>2, <2>3, <2>7
    <3>2. /\ limits[1] = seconds /\ limits[2] = minutes /\ limits[3] = hours
          /\ limits[4] = dom /\ limits[5] = months /\ limits[6] = dow
      BY DEF limits
    <3>3. /\ seconds.min = 0 /\ minutes.min = 0 /\ hours.min = 0 /\ dom.min = 1
          /\ months.min = 1 /\ dow.min = 0
      BY DEF seconds, minutes, hours, dom, months, dow
    <3>4. /\ Means(first(seconds), One(0), 1) /\ Means(first(minutes), One(0), 2)
          /\ Means(first(hours), One(0), 3) /\ Means(first(dom), One(1), 4)
          /\ Means(first(months), One(1), 5) /\ Means(first(dow), One(0), 6)
      BY <3>2, <3>3, FirstMeans
    <3>5. /\ Means(all(hours), All, 3) /\ Means(all(dom), All, 4)
          /\ Means(all(months), All, 5) /\ Means(all(dow), All, 6)
      BY <3>2, AllMeans
    <3> HIDE DEF first
    <3>6. CASE spec.name = "yearly"
      <4>1. /\ P.sched = spec6(first(hours), first(dom), first(months), all(dow))
            /\ Text = <<One(0), One(0), One(0), One(1), One(1), All>>
        BY <2>4, <3>1, <3>6
      <4>2. P.sched.is = "spec" /\ P.sched.bits = <<first(seconds), first(minutes), first(hours), first(dom), first(months), all(dow)>>
        BY <4>1 DEF SpecSchedule
      <4> QED
        BY <3>4, <3>5, <4>1, <4>2
    <3>7. CASE spec.name = "monthly"
      <4>1. /\ P.sched = spec6(first(hours), first(dom), all(months), all(dow))
            /\ Text = <<One(0), One(0), One(0), One(1), All, All>>
        BY <2>4, <3>1, <3>7
      <4>2. P.sched.is = "spec" /\ P.sched.bits = <<first(seconds), first(minutes), first(hours), first(dom), all(months), all(dow)>>
        BY <4>1 DEF SpecSchedule
      <4> QED
        BY <3>4, <3>5, <4>1, <4>2
    <3>8. CASE spec.name = "weekly"
      <4>1. /\ P.sched = spec6(first(hours), all(dom), all(months), first(dow))
            /\ Text = <<One(0), One(0), One(0), All, All, One(0)>>
        BY <2>4, <3>1, <3>8
      <4>2. P.sched.is = "spec" /\ P.sched.bits = <<first(seconds), first(minutes), first(hours), all(dom), all(months), first(dow)>>
        BY <4>1 DEF SpecSchedule
      <4> QED
        BY <3>4, <3>5, <4>1, <4>2
    <3>9. CASE spec.name = "daily"
      <4>1. /\ P.sched = spec6(first(hours), all(dom), all(months), all(dow))
            /\ Text = <<One(0), One(0), One(0), All, All, All>>
        BY <2>4, <3>1, <3>9
      <4>2. P.sched.is = "spec" /\ P.sched.bits = <<first(seconds), first(minutes), first(hours), all(dom), all(months), all(dow)>>
        BY <4>1 DEF SpecSchedule
      <4> QED
        BY <3>4, <3>5, <4>1, <4>2
    <3>10. CASE spec.name = "hourly"
      <4>1. /\ P.sched = spec6(all(hours), all(dom), all(months), all(dow))
            /\ Text = <<One(0), One(0), All, All, All, All>>
        BY <2>4, <3>1, <3>10
      <4>2. P.sched.is = "spec" /\ P.sched.bits = <<first(seconds), first(minutes), all(hours), all(dom), all(months), all(dow)>>
        BY <4>1 DEF SpecSchedule
      <4> QED
        BY <3>4, <3>5, <4>1, <4>2
    <3> QED
      BY <2>7, <3>6, <3>7, <3>8, <3>9, <3>10
  <2> QED
    BY <2>6, <2>7
<1>3. CASE spec.is = "empty"
  BY <1>0, <1>3 DEF Parse
<1>4. spec.is \in {"fields", "descriptor", "empty"}
  BY SpecsAssumption
<1> QED
  BY <1>1, <1>2, <1>3, <1>4

-----------------------------------------------------------------------------
(* The theorems *)

\* The search matches a time exactly when the text is due then.
LEMMA MatchesIsDue ==
    ASSUME NEW b, NEW text, \A i \in 1..6 : Means(b[i], text[i], i), NEW u, Covered(u)
    PROVE  Matches(b, u) <=> Due(text, u)
<1>1. ASSUME NEW i \in 1..6, NEW v \in limits[i].min..limits[i].max
      PROVE  v \in b[i] <=> InField(text, i, v)
  BY DEF Means, InField
<1>2. ASSUME NEW i \in 1..6 PROVE StarBit \in b[i] <=> HasStar(text, i)
  BY DEF Means, HasStar
<1>3. /\ limits[1] = seconds /\ limits[2] = minutes /\ limits[3] = hours
      /\ limits[4] = dom /\ limits[5] = months /\ limits[6] = dow
  BY DEF limits
<1>4. /\ Month(u) \in months.min..months.max /\ Day(u) \in dom.min..dom.max
      /\ Weekday(u) \in dow.min..dow.max
  BY DateOf DEF months, dom, dow
<1>5. /\ Hour(u) \in hours.min..hours.max /\ Minute(u) \in minutes.min..minutes.max
      /\ Second(u) \in seconds.min..seconds.max
  <2>1. u \in Nat /\ Frac \in Pos /\ TicksMin \in Pos /\ TicksHour \in Pos
        /\ NSec \in Pos /\ NMin \in Pos /\ NHour \in Pos
    BY Calendar DEF Covered
  <2>2. u \div Frac \in Nat /\ u \div TicksMin \in Nat /\ u \div TicksHour \in Nat
    BY <2>1, DivMod
  <2>3. /\ Second(u) \in 0..(NSec - 1) /\ Minute(u) \in 0..(NMin - 1)
        /\ Hour(u) \in 0..(NHour - 1)
    BY <2>1, <2>2, DivMod DEF Second, Minute, Hour
  <2> QED
    BY <2>3 DEF hours, minutes, seconds
<1>6. /\ OkSecond(b, u) <=> InField(text, 1, Second(u))
      /\ OkMinute(b, u) <=> InField(text, 2, Minute(u))
      /\ OkHour(b, u) <=> InField(text, 3, Hour(u))
      /\ OkMonth(b, u) <=> InField(text, 5, Month(u))
      /\ Day(u) \in b[4] <=> InField(text, 4, Day(u))
      /\ Weekday(u) \in b[6] <=> InField(text, 6, Weekday(u))
  BY <1>1, <1>3, <1>4, <1>5 DEF OkSecond, OkMinute, OkHour, OkMonth
<1>7. OkDay(b, u) <=> IF HasStar(text, 4) \/ HasStar(text, 6)
                      THEN InField(text, 4, Day(u)) /\ InField(text, 6, Weekday(u))
                      ELSE InField(text, 4, Day(u)) \/ InField(text, 6, Weekday(u))
  BY <1>2, <1>6 DEF OkDay
<1> QED
  BY <1>6, <1>7 DEF Matches, ToMinute, ToHour, ToDay, Due

LEMMA MaxOfTwo ==
    ASSUME NEW x \in Int, NEW y \in Int
    PROVE  Max({x, y}) = IF y < x THEN x ELSE y
<1> DEFINE d == IF y < x THEN x ELSE y
<1>1. Max({x, y}) = CHOOSE z \in {x, y} : \A w \in {x, y} : z >= w
  BY DEF Max
<1>2. d \in {x, y} /\ \A w \in {x, y} : d >= w
  OBVIOUS
<1>3. \A z \in {x, y} : (\A w \in {x, y} : z >= w) => z = d
  OBVIOUS
<1> HIDE DEF d
<1> QED
  BY <1>1, <1>2, <1>3 DEF d

\* A constant delay is a number of whole seconds, at least one.
LEMMA EveryIs ==
    ASSUME NEW duration \in Int
    PROVE  LET s == Every(duration)
           IN  /\ s.is = "delay" /\ s.delay \in Nat
               /\ s.delay % Frac = 0 /\ s.delay >= Frac
               /\ s.delay <= Max({Frac, duration})
<1> DEFINE d == IF duration < Frac THEN Frac ELSE duration
           q == d \div Frac
           m == d % Frac
<1>0. Frac \in Pos /\ Frac \in Nat /\ Frac >= 1
  BY Calendar DEF Pos
<1>1. d \in Nat /\ d >= Frac
  BY <1>0
<1>2. Every(duration).is = "delay" /\ Every(duration).delay = d - m
  BY DEF Every
<1>3. Max({Frac, duration}) = d
  BY <1>0, MaxOfTwo
<1> HIDE DEF d
<1>4. d = Frac * q + m /\ q \in Nat /\ m \in 0..(Frac - 1) /\ m \in Nat
  BY <1>0, <1>1, DivMod
<1> HIDE DEF q, m
<1>5. q >= 1
  <2> SUFFICES ASSUME q = 0 PROVE FALSE
    BY <1>4
  <2>1. d = m
    BY <1>0, <1>4
  <2> QED
    BY <1>0, <1>1, <1>4, <2>1
<1>6. Frac * 1 <= Frac * q /\ Frac * q \in Nat
  BY <1>0, <1>4, <1>5, Scaled
<1>7. d - m = Frac * q + 0 /\ 0 \in 0..(Frac - 1) /\ q \in Int /\ d - m \in Nat
  BY <1>0, <1>1, <1>4, <1>6
<1>8. (d - m) % Frac = 0
  BY <1>0, <1>7, DivUnique
<1>9. d - m >= Frac /\ d - m <= d
  BY <1>0, <1>1, <1>4, <1>6, <1>7
<1> QED
  BY <1>2, <1>3, <1>7, <1>8, <1>9

\* What a schedule that was returned is.
LEMMA SchedIs ==
    ASSUME Inv, pc \notin {"parse", "refused"}
    PROVE  \/ /\ sched = Every(spec.duration) /\ spec.duration \in Int /\ sched.is = "delay"
           \/ /\ sched.is = "spec" /\ \A i \in 1..6 : Means(sched.bits[i], Text[i], i)
<1>1. Parse(NewParser(parser), spec).ok /\ sched = Parse(NewParser(parser), spec).sched
      /\ spec \in Specs
  BY DEF Inv, Parsed, ControlOK
<1> QED
  BY <1>1, SchedMeans, EveryIs

\* ConstantDelaySchedule.Next: whole seconds after the second of its argument.
LEMMA DelayIs ==
    ASSUME NEW f \in Nat, NEW delay \in Nat, delay % Frac = 0, delay >= Frac,
           NEW v, v = f + delay - (f % Frac)
    PROVE  v \in Nat /\ v % Frac = 0 /\ v > f /\ v - f >= Frac - (f % Frac) /\ v - f <= delay
<1> DEFINE q == f \div Frac
           r == f % Frac
           w == delay \div Frac
<1>0. Frac \in Pos /\ Frac \in Nat
  BY Calendar DEF Pos
<1>1. f = Frac * q + r /\ q \in Nat /\ r \in 0..(Frac - 1) /\ r \in Nat
  BY <1>0, DivMod
<1>2. delay = Frac * w + 0 /\ w \in Nat
  BY <1>0, DivMod
<1>3. v = f + delay - r
  OBVIOUS
<1> HIDE DEF q, r, w
<1>4. v = Frac * (q + w) + 0 /\ q + w \in Int /\ 0 \in 0..(Frac - 1)
  BY <1>0, <1>1, <1>2, <1>3 DEF Pos
<1>5. v \in Nat /\ v > f /\ v - f >= Frac - r /\ v - f <= delay
  BY <1>0, <1>1, <1>3
<1>6. v % Frac = 0
  BY <1>0, <1>4, <1>5, DivUnique
<1> QED
  BY <1>5, <1>6 DEF r

\* The seconds after from and before a time.
LEMMA SecondsAre ==
    ASSUME from \in Nat, NEW last \in Nat, NEW u \in SecondsBefore(last)
    PROVE  u \in Nat /\ u % Frac = 0 /\ from < u /\ u < last
<1> DEFINE q == from \div Frac
           r == from % Frac
<1>0. Frac \in Pos /\ Frac \in Nat /\ Frac >= 1
  BY Calendar DEF Pos
<1>1. from = Frac * q + r /\ q \in Nat /\ r \in 0..(Frac - 1) /\ r \in Nat
  BY <1>0, DivMod
<1>2. PICK s \in (q + 1)..((last - 1) \div Frac) : u = s * Frac
  BY DEF SecondsBefore
<1> HIDE DEF q, r
<1>3. last >= 1
  <2> SUFFICES ASSUME last = 0 PROVE FALSE
    OBVIOUS
  <2>1. (last - 1) \div Frac < 0
    BY <1>0 DEF Pos
  <2>2. (last - 1) \div Frac \in Int
    BY <1>0 DEF Pos
  <2> QED
    BY <1>1, <1>2, <2>1, <2>2
<1>4. last - 1 \in Nat
  BY <1>3
<1>5. PICK w \in Nat, x \in Nat : w = (last - 1) \div Frac /\ last - 1 = Frac * w + x
  BY <1>0, <1>4, DivMod
<1>6. s \in Nat /\ q + 1 \in Nat /\ q + 1 <= s /\ s <= w
  BY <1>1, <1>2, <1>5
<1>7. u = Frac * s + 0 /\ 0 \in 0..(Frac - 1) /\ s \in Int
  BY <1>0, <1>2, <1>6
<1>8. /\ Frac * (q + 1) <= Frac * s /\ Frac * s <= Frac * w
      /\ Frac * s \in Nat /\ Frac * w \in Nat /\ Frac * (q + 1) \in Nat
  BY <1>0, <1>5, <1>6, Scaled
<1>9. u \in Nat /\ u = Frac * s
  BY <1>7, <1>8
<1>10. u % Frac = 0
  BY <1>0, <1>7, <1>9, DivUnique
<1>11. Frac * (q + 1) = Frac * q + Frac /\ Frac * q \in Nat
  BY <1>0, <1>1
<1>12. from < u
  BY <1>0, <1>1, <1>8, <1>9, <1>11
<1>13. u < last
  BY <1>5, <1>8, <1>9
<1> QED
  BY <1>9, <1>10, <1>12, <1>13

\* A time is not before the start of its month.
LEMMA MonthBegun ==
    ASSUME NEW u, Covered(u)
    PROVE  Midnight(MonthOf(u), 1) \in Nat /\ Midnight(MonthOf(u), 1) <= u
<1> DEFINE F == FirstDay(MonthOf(u))
           d == u \div TicksDay
<1>1. /\ MonthOf(u) \in 0..(NMonths - 1) /\ F \in Nat /\ F <= d /\ d \in Nat
      /\ u \in Nat /\ TicksDay \in Pos
  BY DateOf, Calendar DEF Covered
<1>2. Midnight(MonthOf(u), 1) \in Nat /\ Midnight(MonthOf(u), 1) = F * TicksDay
  BY <1>1, MonthStart
<1>3. u = TicksDay * d + (u % TicksDay) /\ u % TicksDay \in Nat
  BY <1>1, DivMod
<1> HIDE DEF F, d
<1>4. TicksDay * F <= TicksDay * d /\ TicksDay * d \in Nat /\ TicksDay * F \in Nat
  BY <1>1, Scaled
<1>5. F * TicksDay = TicksDay * F
  BY <1>1 DEF Pos
<1> QED
  BY <1>1, <1>2, <1>3, <1>4, <1>5

LEMMA CoveredDown ==
    ASSUME NEW u \in Nat, NEW v, Covered(v), u < v
    PROVE  Covered(u)
<1>1. TicksDay \in Pos /\ v \in Nat /\ v \div TicksDay < NDays /\ NDays \in Nat
  BY Calendar, Days DEF Covered, Pos
<1>2. u \div TicksDay <= v \div TicksDay /\ u \div TicksDay \in Nat /\ v \div TicksDay \in Nat
  BY <1>1, DivMonotone, DivMod
<1> QED
  BY <1>1, <1>2 DEF Covered

\* The bits of every mask are values of its field or the star bit, a constant
\* delay is whole seconds, and Next never returns a time that is not after its
\* argument: parser.go, constantdelay.go and SpecSchedule.Next.
THEOREM ScheduleTypes == Spec => []TypeOK
<1>1. Inv => TypeOK
  <2> SUFFICES ASSUME Inv PROVE TypeOK
    OBVIOUS
  <2>0. /\ from \in Froms /\ from \in Nat /\ Frac \in Pos /\ Years \in Nat
    BY LimitIs, Calendar DEF Inv, ControlOK, Pos
  <2>1. pc \in {"parse", "refused", "next", "wrap", "month", "day", "hour", "minute",
                "second", "done"} /\ added \in BOOLEAN
    BY DEF Inv, ControlOK, InSearch
  <2>2. pc \in {"parse", "refused"} => sched.is = "none"
    BY DEF Inv, Parsed, NoSched
  <2>3. ASSUME sched.is = "spec"
        PROVE  \A i \in 1..6 : sched.bits[i] \subseteq (limits[i].min..limits[i].max) \cup {StarBit}
    <3>1. pc \notin {"parse", "refused"}
      BY <2>2, <2>3
    <3>2. \A i \in 1..6 : Means(sched.bits[i], Text[i], i)
      BY <2>3, <3>1, SchedIs
    <3> QED
      BY <3>2 DEF Means
  <2>4. ASSUME sched.is = "delay"
        PROVE  sched.delay % Frac = 0 /\ sched.delay >= Frac /\ sched.delay \in Nat
    <3>1. pc \notin {"parse", "refused"}
      BY <2>2, <2>4
    <3>2. sched = Every(spec.duration) /\ spec.duration \in Int
      BY <2>4, <3>1, SchedIs
    <3> QED
      BY <3>2, EveryIs
  <2>5. t \in Nat /\ yearLimit \in 0..Years
    <3>1. CASE sched.is # "spec" \/ pc = "next"
      BY <2>0, <3>1 DEF Inv, Idle
    <3>2. CASE sched.is = "spec" /\ pc # "next"
      <4>1. yearLimit \in 0..Years
        BY <2>0, <3>2, LimitIs DEF Inv, Searched
      <4>2. pc \in InSearch \cup {"done"}
        BY <2>1, <2>2, <3>2 DEF InSearch
      <4>3. Covered(t)
        BY <3>2, <4>2 DEF Inv, Searched, At
      <4> QED
        BY <4>1, <4>3 DEF Covered
    <3> QED
      BY <3>1, <3>2
  <2>6. result = ZeroTime \/ result > from
    <3>1. CASE pc # "done"
      BY <3>1 DEF Inv, Idle
    <3>2. CASE pc = "done" /\ sched.is = "spec"
      <4>1. from < t /\ t \in Nat /\ (result = t \/ result = ZeroTime)
        BY <2>5, <3>2 DEF Inv, Searched
      <4> QED
        BY <2>0, <4>1
    <3>3. CASE pc = "done" /\ sched.is # "spec"
      <4>1. sched.is = "delay"
        BY <3>3, SchedIs
      <4>2. result = from + sched.delay - (from % Frac)
        BY <3>3, <4>1 DEF Inv, Searched
      <4> QED
        BY <2>0, <2>4, <4>1, <4>2, DelayIs
    <3> QED
      BY <3>1, <3>2, <3>3
  <2> QED
    BY <2>1, <2>3, <2>4, <2>5, <2>6 DEF TypeOK
<1> QED
  BY <1>1, InvAlways, PTL

\* Next returns the first whole second after its argument at which the spec as
\* written is due, or the zero time when none of the years it looks at has one;
\* a constant delay counts from the second of its argument (spec.go:53,
\* constantdelay.go:25), for every calendar, parser, spec and time.
THEOREM NextFindsTheFirst == Spec => []NextIsFirst
<1>1. Inv => NextIsFirst
  <2> SUFFICES ASSUME Inv, pc = "done" PROVE NextIsFirst
    BY DEF NextIsFirst
  <2>0. /\ from \in Froms /\ from \in Nat /\ Frac \in Pos /\ Frac \in Nat
    BY LimitIs, Calendar DEF Inv, ControlOK, Pos
  <2>1. CASE sched.is = "delay"
    <3>1. sched = Every(spec.duration) /\ spec.duration \in Int
      BY <2>1, SchedIs
    <3>2. /\ sched.delay \in Nat /\ sched.delay % Frac = 0 /\ sched.delay >= Frac
          /\ sched.delay <= Max({Frac, spec.duration})
      BY <3>1, EveryIs
    <3>3. result = from + sched.delay - (from % Frac)
      BY <2>1 DEF Inv, Searched
    <3>4. /\ result \in Nat /\ result % Frac = 0 /\ result - from >= Frac - (from % Frac)
          /\ result - from <= sched.delay
      BY <2>0, <3>2, <3>3, DelayIs
    <3>5. Max({Frac, spec.duration}) \in Int
      <4>1. Max({Frac, spec.duration}) = IF spec.duration < Frac THEN Frac ELSE spec.duration
        BY <2>0, <3>1, MaxOfTwo
      <4> QED
        BY <2>0, <3>1, <4>1
    <3>6. result - from <= Max({Frac, spec.duration})
      BY <2>0, <3>2, <3>4, <3>5
    <3> QED
      BY <2>1, <3>4, <3>6 DEF NextIsFirst
  <2>2. CASE sched.is # "delay"
    <3> DEFINE last == IF result # ZeroTime THEN result
                       ELSE Midnight(NMonth * (Year(from + Frac) + YearsAhead + 1), 1)
    <3>1. sched.is = "spec" /\ \A i \in 1..6 : Means(sched.bits[i], Text[i], i)
      BY <2>2, SchedIs
    <3>2. /\ Covered(t) /\ t \in Nat /\ t % Frac = 0 /\ from < t
          /\ NoneBefore(sched.bits, from, t)
          /\ \/ result = t /\ Matches(sched.bits, t)
             \/ result = ZeroTime /\ MonthOf(t) = Limit
          /\ yearLimit = Year(from + Frac) + YearsAhead
      BY <3>1 DEF Inv, Searched, Covered
    <3>3. result = t => result # ZeroTime
      BY <3>2 DEF ZeroTime
    <3>4. last \in Nat /\ last <= t
      <4>1. CASE result = t
        BY <3>2, <3>3, <4>1
      <4>2. CASE result # t
        <5>1. last = Midnight(MonthOf(t), 1)
          BY <3>2, <4>2 DEF Limit
        <5> QED
          BY <3>2, <5>1, MonthBegun
      <4> QED
        BY <4>1, <4>2
    <3> HIDE DEF last
    <3>5. ASSUME NEW u \in SecondsBefore(last) PROVE ~Due(Text, u)
      <4>1. u \in Nat /\ u % Frac = 0 /\ from < u /\ u < last
        BY <2>0, <3>4, SecondsAre
      <4>2. u \in 0..t /\ u < t
        BY <3>2, <3>4, <4>1
      <4>3. ~Matches(sched.bits, u)
        BY <3>2, <4>1, <4>2 DEF NoneBefore
      <4>4. Covered(u)
        BY <3>2, <4>1, <4>2, CoveredDown
      <4> QED
        BY <3>1, <4>3, <4>4, MatchesIsDue
    <3>6. ASSUME result # ZeroTime
          PROVE  result % Frac = 0 /\ result > from /\ Due(Text, result)
      <4>1. result = t /\ Matches(sched.bits, t)
        BY <3>2, <3>6
      <4>2. Due(Text, t)
        BY <3>1, <3>2, <4>1, MatchesIsDue
      <4> QED
        BY <2>0, <3>2, <4>1, <4>2
    <3> QED
      BY <2>2, <3>5, <3>6 DEF NextIsFirst, last
  <2> QED
    BY <2>1, <2>2
<1> QED
  BY <1>1, InvAlways, PTL

\* What makes the search end, also for a schedule that is never due: t stays in
\* the calendar, and every step of the loops of SpecSchedule.Next returns, moves
\* t on, or leaves t and goes on from one field to the next (spec.go:73).
THEOREM SearchGoesForward ==
    Spec => [][(pc \in InSearch => t \div TicksDay < NDays /\ Forward)]_vars
<1>1. Inv /\ [Next]_vars => [(pc \in InSearch => t \div TicksDay < NDays /\ Forward)]_vars
  <2> SUFFICES ASSUME Inv, Next, pc \in InSearch
               PROVE  t \div TicksDay < NDays /\ Forward
    OBVIOUS
  <2>1. t \div TicksDay < NDays
    BY InSearchKnows DEF Covered
  <2>2. \/ Wrap \/ FindMonth \/ FindDay \/ FindHour \/ FindMinute \/ FindSecond
    BY DEF Next, ParseSpec, DelayNext, NextStart, InSearch
  <2> QED
    BY <2>1, <2>2, WrapKeeps, FindMonthKeeps, FindDayKeeps, FindHourKeeps,
       FindMinuteKeeps, FindSecondKeeps
<1> QED
  BY <1>1, InvAlways, PTL DEF Spec

=============================================================================
