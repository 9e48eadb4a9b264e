------------------------------ MODULE CronSpec ------------------------------
(***************************************************************************)
(* Schedules of core/cron: the parser (parser.go), SpecSchedule.Next       *)
(* (spec.go) and ConstantDelaySchedule (constantdelay.go).                 *)
(*                                                                         *)
(* One behaviour is one use of a spec: it is parsed and, if it is          *)
(* accepted, Next is called once.  The search of Next is the loop of the   *)
(* code, one step per turn of a for loop.                                  *)
(*                                                                         *)
(* The calendar is scaled: the constants say how many seconds a minute     *)
(* has, how many days a month, and how often a leap year comes.  A time is *)
(* a number of ticks since the start of year 0, Frac ticks to the second.  *)
(* There are no time zones and no clock changes.                           *)
(*                                                                         *)
(* A spec is split into its tokens already: a field is a sequence of       *)
(* ranges, a range its parts between "-" and its steps after "/".  A       *)
(* uint64 mask is the set of its bits.                                     *)
(***************************************************************************)
EXTENDS Integers, Sequences, FiniteSets, FiniteSetsExt, SequencesExt

CONSTANTS
    Frac,            \* ticks in a second
    NSec, NMin,      \* seconds in a minute, minutes in an hour
    NHour,           \* hours in a day
    NWeek,           \* days in a week; day 0 of year 0 is day 0 of its week
    MonthDays,       \* days of each month of a common year
    LeapMonth,       \* the month that has a day more in a leap year
    LeapEvery,       \* every so many years, from year 0, is a leap year
    MaxDom,          \* the last day a month may have, 31 in the code
    MonthNames,      \* name |-> month
    DowNames,        \* name |-> day of the week
    Years,           \* bound: the years of the calendar are 0 .. Years
    YearsAhead,      \* Next gives up after this many years, 5 in the code
    Parsers,         \* the parsers used: sets of options
    Specs,           \* the specs parsed
    Froms            \* the times Next is called with

NMonth == Len(MonthDays)

ASSUME CalendarAssumption ==
    /\ {Frac, NSec, NMin, NHour, NWeek, LeapEvery, Years, YearsAhead} \subseteq Nat \ {0}
    /\ MonthDays \in Seq(Nat \ {0}) /\ LeapMonth \in 1..NMonth
    /\ MaxDom \in Nat /\ MonthDays[LeapMonth] < MaxDom
    /\ \A m \in 1..NMonth : MonthDays[m] <= MaxDom

VARIABLES
    parser,      \* the options of the parser
    spec,        \* the spec
    from,        \* the time Next is called with
    pc,          \* where the call is
    sched,       \* the schedule Parse returned
    t, added, yearLimit,   \* the variables of Next
    result       \* the time Next returned

vars == <<parser, spec, from, pc, sched, t, added, yearLimit, result>>
inputs == <<parser, spec, from>>

-----------------------------------------------------------------------------
(* The calendar: package time *)

TicksMin  == Frac * NSec
TicksHour == TicksMin * NMin
TicksDay  == TicksHour * NHour

\* Months are numbered from 0 on; month k is in year k \div NMonth.
DaysIn(k) ==
    LET m == (k % NMonth) + 1
    IN  IF m = LeapMonth /\ (k \div NMonth) % LeapEvery = 0
        THEN MonthDays[m] + 1 ELSE MonthDays[m]

\* FirstDay(k) is the day on which month k begins, from a table of the months
\* there are; MonthOf(u) is the month that time u is in.
NMonths == (Years + 1) * NMonth
FirstDays[k \in 0..NMonths] == IF k = 0 THEN 0 ELSE FirstDays[k - 1] + DaysIn(k - 1)
FirstDay(k) == FirstDays[k]
NDays == FirstDay(NMonths)

MonthsOfDays ==
    [d \in 0..(NDays - 1) |->
        CHOOSE k \in 0..(NMonths - 1) : FirstDay(k) <= d /\ d < FirstDay(k + 1)]
MonthOf(u) == MonthsOfDays[u \div TicksDay]
Year(u)    == MonthOf(u) \div NMonth
Month(u)   == (MonthOf(u) % NMonth) + 1
Day(u)     == u \div TicksDay - FirstDay(MonthOf(u)) + 1
Weekday(u) == (u \div TicksDay) % NWeek
Hour(u)    == (u \div TicksHour) % NHour
Minute(u)  == (u \div TicksMin) % NMin
Second(u)  == (u \div Frac) % NSec

\* time.Date with the time of day 0, and time.Truncate.
Midnight(k, d)      == (FirstDay(k) + d - 1) * TicksDay
Truncate(u, ticks)  == u - (u % ticks)

\* AddDate by a month: the same day, overflowing into the month after.
AddMonth(u) == Midnight(MonthOf(u) + 1, Day(u)) + (u % TicksDay)

\* The times Next is called with: the search must not leave the calendar.
ASSUME FromsAssumption ==
    \A f \in Froms : /\ f \in Nat /\ f + Frac < NDays * TicksDay
                      /\ Year(f + Frac) + YearsAhead < Years

-----------------------------------------------------------------------------
(* Parsing *)

StarBit == 63

seconds == [min |-> 0, max |-> NSec - 1,  names |-> [n \in {} |-> 0]]
minutes == [min |-> 0, max |-> NMin - 1,  names |-> [n \in {} |-> 0]]
hours   == [min |-> 0, max |-> NHour - 1, names |-> [n \in {} |-> 0]]
dom     == [min |-> 1, max |-> MaxDom,    names |-> [n \in {} |-> 0]]
months  == [min |-> 1, max |-> NMonth,    names |-> MonthNames]
dow     == [min |-> 0, max |-> NWeek - 1, names |-> DowNames]

\* The values of a field fit in a mask, below the star bit.
ASSUME MaskAssumption ==
    /\ {NSec - 1, NMin - 1, NHour - 1, MaxDom, NMonth, NWeek - 1} \subseteq 0..(StarBit - 1)
    /\ MonthNames \in [DOMAIN MonthNames -> Nat] /\ DowNames \in [DOMAIN DowNames -> Nat]

places == <<"Second", "Minute", "Hour", "Dom", "Month", "Dow">>
limits == <<seconds, minutes, hours, dom, months, dow>>

\* Tokens: "*" or "?", a number as Atoi reads it, a name, or anything else.
Star    == [is |-> "star"]
Num(n)  == [is |-> "num", n |-> n]
Name(s) == [is |-> "name", s |-> s]
Junk    == [is |-> "junk"]
Token   == {Star, Junk} \cup [is : {"num"}, n : Int] \cup [is : {"name"}, s : STRING]

\* A range: its parts between hyphens, and what follows each slash.
Range1(parts, steps) == [parts |-> parts, steps |-> steps]
Ranges == [parts : Seq(Token) \ {<<>>}, steps : Seq(Token)]

\* Nothing, fields of ranges, or "@" and a name, with the duration of "@every".
ASSUME SpecsAssumption ==
    Specs \subseteq [is : {"empty"}] \cup [is : {"fields"}, fields : Seq(Seq(Ranges))]
                   \cup [is : {"descriptor"}, name : STRING, duration : Int]

All    == <<Range1(<<Star>>, <<>>)>>       \* the field "*"
One(n) == <<Range1(<<Num(n)>>, <<>>)>>     \* the field "n"

defaults == <<One(0), One(0), One(0), All, All, All>>

Err     == -1                              \* an error instead of a number
Invalid == [ok |-> FALSE]

mustParseInt(tok) == IF tok.is = "num" /\ tok.n >= 0 THEN tok.n ELSE Err

parseIntOrName(tok, names) ==
    IF tok.is = "name" /\ tok.s \in DOMAIN names THEN names[tok.s] ELSE mustParseInt(tok)

\* Fault: the shift leaves the bit after the last one in the mask.
getBitsWide(min, max, step) ==
    IF step = 1 THEN min..(max + 1)
    ELSE {min + i * step : i \in 0..((max - min) \div step)}

\* Bits min to max, every step-th: two shifts when step is 1, else a loop.
getBits(min, max, step) ==
    IF step = 1
    THEN min..max
    ELSE {min + i * step : i \in 0..((max - min) \div step)}

all(r) == getBits(r.min, r.max, 1) \cup {StarBit}

getRange(e, r) ==
    LET star   == e.parts[1].is = "star"
        single == Len(e.parts) = 1
        start  == IF star THEN r.min ELSE parseIntOrName(e.parts[1], r.names)
        high   == IF star THEN r.max
                  ELSE IF single THEN start ELSE parseIntOrName(e.parts[2], r.names)
        step   == IF e.steps = <<>> THEN 1 ELSE mustParseInt(e.steps[1])
        end    == IF e.steps # <<>> /\ single THEN r.max ELSE high
    IN  IF \/ Err \in {start, high, step}
           \/ ~star /\ Len(e.parts) > 2
           \/ Len(e.steps) > 1
           \/ start < r.min \/ end > r.max \/ start > end
           \/ step = 0
        THEN Invalid
        ELSE [ok   |-> TRUE,
              bits |-> getBits(start, end, step) \cup (IF star THEN {StarBit} ELSE {})]

\* The ranges between commas; there may be none.
getField(field, r) ==
    LET ranges == {getRange(e, r) : e \in ToSet(field)}
    IN  IF Invalid \in ranges THEN Invalid
        ELSE [ok |-> TRUE, bits |-> UNION {x.bits : x \in ranges}]

\* NewParser: an optional day of the week is a day of the week.
NewParser(options) ==
    [options   |-> options \cup (IF "DowOptional" \in options THEN {"Dow"} ELSE {}),
     optionals |-> IF "DowOptional" \in options THEN 1 ELSE 0]

\* The number of fields the options ask for up to place i.
Rank(options, i) == Cardinality({j \in 1..i : places[j] \in options})

expandFields(fields, options) ==
    [i \in 1..6 |->
        IF places[i] \in options /\ Rank(options, i) <= Len(fields)
        THEN fields[Rank(options, i)] ELSE defaults[i]]

SpecSchedule(bits) == [is |-> "spec", bits |-> bits]

Every(duration) ==
    LET d == IF duration < Frac THEN Frac ELSE duration
    IN  [is |-> "delay", delay |-> d - (d % Frac)]

\* "@every" with a duration, or one of the predefined schedules.
parseDescriptor(s) ==
    LET first(r) == {r.min}
        spec6(h, d, m, w) ==
            SpecSchedule(<<first(seconds), first(minutes), h, d, m, w>>)
        known ==
            [yearly  |-> spec6(first(hours), first(dom), first(months), all(dow)),
             monthly |-> spec6(first(hours), first(dom), all(months), all(dow)),
             weekly  |-> spec6(first(hours), all(dom), all(months), first(dow)),
             daily   |-> spec6(first(hours), all(dom), all(months), all(dow)),
             hourly  |-> spec6(all(hours), all(dom), all(months), all(dow))]
    IN  IF s.name \in DOMAIN known THEN [ok |-> TRUE, sched |-> known[s.name]]
        ELSE IF s.name = "every" THEN [ok |-> TRUE, sched |-> Every(s.duration)]
        ELSE Invalid

Parse(p, s) ==
    LET max    == Rank(p.options, 6)
        text   == expandFields(s.fields, p.options)
        fields == [i \in 1..6 |-> getField(text[i], limits[i])]
    IN  IF s.is = "empty" THEN Invalid
        ELSE IF s.is = "descriptor"
        THEN IF "Descriptor" \in p.options THEN parseDescriptor(s) ELSE Invalid
        ELSE IF Len(s.fields) \notin (max - p.optionals)..max THEN Invalid
        ELSE IF Invalid \in ToSet(fields) THEN Invalid
        ELSE [ok |-> TRUE, sched |-> SpecSchedule([i \in 1..6 |-> fields[i].bits])]

-----------------------------------------------------------------------------
ZeroTime == -1
NoSched  == [is |-> "none"]

TypeOK ==
    /\ pc \in {"parse", "refused", "next", "wrap", "month", "day", "hour", "minute",
               "second", "done"}
    /\ sched.is = "spec" =>
           \A i \in 1..6 :
               sched.bits[i] \subseteq (limits[i].min..limits[i].max) \cup {StarBit}
    /\ sched.is = "delay" => sched.delay % Frac = 0 /\ sched.delay >= Frac
    /\ added \in BOOLEAN
    /\ t \in Nat /\ yearLimit \in 0..Years
    /\ result = ZeroTime \/ result > from

Init ==
    /\ parser \in Parsers /\ spec \in Specs /\ from \in Froms
    /\ pc = "parse"
    /\ sched = NoSched
    /\ t = 0 /\ added = FALSE /\ yearLimit = 0
    /\ result = ZeroTime

ParseSpec ==
    LET parsed == Parse(NewParser(parser), spec)
    IN  /\ pc = "parse"
        /\ IF parsed.ok THEN sched' = parsed.sched /\ pc' = "next"
                        ELSE pc' = "refused" /\ UNCHANGED sched
        /\ UNCHANGED <<inputs, t, added, yearLimit, result>>

\* ConstantDelaySchedule.Next
DelayNext ==
    /\ pc = "next" /\ sched.is = "delay"
    /\ result' = from + sched.delay - (from % Frac)
    /\ pc' = "done"
    /\ UNCHANGED <<inputs, sched, t, added, yearLimit>>

-----------------------------------------------------------------------------
(* SpecSchedule.Next *)

\* Start at the upcoming second.
NextStart ==
    /\ pc = "next" /\ sched.is = "spec"
    /\ t' = from + Frac - (from % Frac)
    /\ yearLimit' = Year(t') + YearsAhead
    /\ pc' = "wrap"
    /\ UNCHANGED <<inputs, sched, added, result>>

Wrap ==
    /\ pc = "wrap"
    /\ IF Year(t) > yearLimit
          THEN pc' = "done" /\ result' = ZeroTime
          ELSE pc' = "month" /\ UNCHANGED result
    /\ UNCHANGED <<inputs, sched, t, added, yearLimit>>

\* Fault: an open day field does not restrict the other one.
dayMatchesEither(u) == Day(u) \in sched.bits[4] \/ Weekday(u) \in sched.bits[6]

dayMatches(u) ==
    LET domMatch == Day(u) \in sched.bits[4]
        dowMatch == Weekday(u) \in sched.bits[6]
    IN  IF StarBit \in sched.bits[4] \/ StarBit \in sched.bits[6]
        THEN domMatch /\ dowMatch
        ELSE domMatch \/ dowMatch

\* One turn of the loop over a field, whose value is wrong: the smaller fields
\* are reset, the first time, and the field goes up; back to WRAP if it is then
\* at its start.
Turn(reset, Up(_), AtStart(_)) ==
    /\ t' = Up(IF added THEN t ELSE reset)
    /\ added' = TRUE
    /\ pc' = IF AtStart(t') THEN "wrap" ELSE pc
    /\ UNCHANGED <<inputs, sched, yearLimit, result>>

\* The value of the field is right: go on to the next field.
Pass(next) ==
    /\ pc' = next
    /\ UNCHANGED <<inputs, sched, t, added, yearLimit, result>>

\* Fault: the month after the last one is the first of the same year.
FindMonthSameYear ==
    /\ pc = "month"
    /\ IF Month(t) \in sched.bits[5] THEN Pass("day")
       ELSE Turn(Midnight(MonthOf(t), 1),
                 LAMBDA u : IF Month(u) = NMonth THEN Midnight(Year(u) * NMonth, 1)
                            ELSE AddMonth(u),
                 LAMBDA u : Month(u) = 1)

FindMonth ==
    /\ pc = "month"
    /\ IF Month(t) \in sched.bits[5] THEN Pass("day")
       ELSE Turn(Midnight(MonthOf(t), 1), AddMonth, LAMBDA u : Month(u) = 1)

FindDay ==
    /\ pc = "day"
    /\ IF dayMatches(t) THEN Pass("hour")
       ELSE Turn(Midnight(MonthOf(t), Day(t)),
                 LAMBDA u : u + TicksDay, LAMBDA u : Day(u) = 1)

FindHour ==
    /\ pc = "hour"
    /\ IF Hour(t) \in sched.bits[3] THEN Pass("minute")
       ELSE Turn(Truncate(t, TicksHour),
                 LAMBDA u : u + TicksHour, LAMBDA u : Hour(u) = 0)

FindMinute ==
    /\ pc = "minute"
    /\ IF Minute(t) \in sched.bits[2] THEN Pass("second")
       ELSE Turn(Truncate(t, TicksMin),
                 LAMBDA u : u + TicksMin, LAMBDA u : Minute(u) = 0)

FindSecond ==
    /\ pc = "second"
    /\ IF Second(t) \in sched.bits[1]
       THEN /\ pc' = "done" /\ result' = t
            /\ UNCHANGED <<inputs, sched, t, added, yearLimit>>
       ELSE Turn(Truncate(t, Frac), LAMBDA u : u + Frac, LAMBDA u : Second(u) = 0)

-----------------------------------------------------------------------------
Next ==
    \/ ParseSpec
    \/ DelayNext
    \/ NextStart \/ Wrap
    \/ FindMonth \/ FindDay \/ FindHour \/ FindMinute \/ FindSecond

\* The call runs to its end.
Spec == Init /\ [][Next]_vars /\ WF_vars(Next)

-----------------------------------------------------------------------------
(* Properties *)

\* The text of the six fields of a spec; a predefined schedule stands for the
\* text that the table of doc.go gives it.
Text ==
    LET table ==
            [yearly  |-> <<One(0), One(0), One(0), One(1), One(1), All>>,
             monthly |-> <<One(0), One(0), One(0), One(1), All, All>>,
             weekly  |-> <<One(0), One(0), One(0), All, All, One(0)>>,
             daily   |-> <<One(0), One(0), One(0), All, All, All>>,
             hourly  |-> <<One(0), One(0), All, All, All, All>>]
    IN  IF spec.is = "descriptor" THEN table[spec.name]
        ELSE expandFields(spec.fields, NewParser(parser).options)

\* Value v is in range e of place i: a-b, a, "*", each with an optional step;
\* "a/step" runs to the end of the field.
InRange(e, i, v) ==
    LET value(tok) == IF tok.is = "num" THEN tok.n ELSE limits[i].names[tok.s]
        star  == e.parts[1].is = "star"
        start == IF star THEN limits[i].min ELSE value(e.parts[1])
        end   == IF star \/ (Len(e.parts) = 1 /\ e.steps # <<>>) THEN limits[i].max
                 ELSE value(e.parts[Len(e.parts)])
    IN  /\ v \in start..end
        /\ e.steps # <<>> => (v - start) % e.steps[1].n = 0

InField(text, i, v) == \E e \in ToSet(text[i]) : InRange(e, i, v)

\* The field has a star, with or without a step.  This is the rule of the code
\* (spec.go:154) and of its tests (spec_test.go:49-55), not that of doc.go:53-54,
\* which makes "*" with a step equivalent to "first-last" with that step: the
\* latter has no star.
HasStar(text, i) == \E e \in ToSet(text[i]) : e.parts[1] = Star

\* The schedule is due at second u.  "If both [day fields] are specified, then only
\* one needs to match.  However, if one has a star, then both need to match"
\* (spec_test.go:45, 49).
Due(text, u) ==
    /\ InField(text, 5, Month(u))
    /\ IF HasStar(text, 4) \/ HasStar(text, 6)
       THEN InField(text, 4, Day(u)) /\ InField(text, 6, Weekday(u))
       ELSE InField(text, 4, Day(u)) \/ InField(text, 6, Weekday(u))
    /\ InField(text, 3, Hour(u))
    /\ InField(text, 2, Minute(u))
    /\ InField(text, 1, Second(u))

\* The seconds after from and before u.
SecondsBefore(u) == {s * Frac : s \in (from \div Frac + 1)..((u - 1) \div Frac)}

\* Next returns the first whole second after its argument at which the spec, as
\* it was written, is due; or the zero time if there is none in this year and
\* the next five (spec.go:53).  "@every" counts from the second of its argument.
\* A day field with a stepped star is read as the code and its tests read it, see
\* HasStar; in every other field it means what doc.go says.
NextIsFirst ==
    pc = "done" =>
        IF sched.is = "delay"
        THEN /\ result % Frac = 0
             /\ result - from >= Frac - (from % Frac)
             /\ result - from <= Max({Frac, spec.duration})
        ELSE LET text == Text
                 last == IF result # ZeroTime THEN result
                         ELSE Midnight(NMonth * (Year(from + Frac) + YearsAhead + 1), 1)
             IN  /\ \A u \in SecondsBefore(last) : ~Due(text, u)
                 /\ result # ZeroTime => /\ result % Frac = 0 /\ result > from
                                         /\ Due(text, result)

\* Next returns, also for a schedule that is never due: the goroutine of run
\* computes it before it serves anybody (cron.go:173).
SearchEnds == <>(pc \in {"done", "refused"})

=============================================================================
