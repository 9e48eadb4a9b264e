----------------------------- MODULE MCCronSpec -----------------------------
(* A small calendar for CronSpec: three seconds to the minute, a year of nine *)
(* days in three months, a leap year with a tenth day every eight years.  Day *)
(* 3 of month 2 is its February 29th and day 4 of month 2 its February 30th.  *)
EXTENDS CronSpec

Months   == <<4, 2, 3>>
NamesM   == [jan |-> 1, feb |-> 2, mar |-> 3]
NamesD   == [sun |-> 0, mon |-> 1]

standardParser == {"Minute", "Hour", "Dom", "Month", "Dow", "Descriptor"}
defaultParser  == {"Second", "Minute", "Hour", "Dom", "Month", "DowOptional", "Descriptor"}
BothParsers    == {standardParser, defaultParser}

Fields(fs)       == [is |-> "fields", fields |-> fs]
Descriptor(n, d) == [is |-> "descriptor", name |-> n, duration |-> d]

To(a, b)    == <<Range1(<<Num(a), Num(b)>>, <<>>)>>
By(f, n)    == <<Range1(f[1].parts, <<Num(n)>>)>>
Named(a)    == <<Range1(<<Name(a)>>, <<>>)>>

\* Six fields: every kind of day, of month and of week day, at few times of day.
TimesOfDay == {<<One(2), One(1), One(0)>>, <<One(0) \o One(2), All, All>>,
               <<By(All, 2), By(One(1), 1), To(1, 2)>>}
DomFields  == {All, One(3), One(4), By(To(1, 4), 2), By(All, 2)}
MonFields  == {All, Named("feb"), By(One(1), 2), <<>>}
DowFields  == {All, Named("mon"), By(One(2), 1), By(All, 2)}
Full  == {Fields(x \o <<d, m, w>>) : x \in TimesOfDay, d \in DomFields,
                                     m \in MonFields, w \in DowFields}

\* Five fields, which the two parsers read differently.
Five  == {Fields(<<One(0), a, b, c, d>>) :
              a \in {All, One(1)}, b \in {One(1), To(1, 2)},
              c \in {One(2), Named("jan") \o One(3)}, d \in {All, One(1), One(3)}}

\* Fields that are refused, and a few that look wrong and are accepted.
Odd ==
    {Range1(<<Num(2), Num(1)>>, <<>>), Range1(<<Num(0), Num(1), Num(2)>>, <<>>),
     Range1(<<Star, Junk, Junk>>, <<>>), Range1(<<Star>>, <<Num(0)>>),
     Range1(<<Star>>, <<Num(1), Num(1)>>), Range1(<<Num(-1)>>, <<>>),
     Range1(<<Num(9)>>, <<>>), Range1(<<Junk>>, <<>>), Range1(<<Num(1)>>, <<Junk>>),
     Range1(<<Num(1), Num(9)>>, <<>>), Range1(<<Num(0)>>, <<>>), Range1(<<Name("feb")>>, <<>>)}
OddSpecs == {Fields(<<All, All, All, <<e>>, All, All>>) : e \in Odd}
            \cup {Fields(<<All, All, All, All, All>> \o <<<<e>>>>) : e \in Odd}
            \cup {[is |-> "empty"], Fields(<<All>>), Fields(<<All, All, All, All, All, All, All>>)}

Descriptors ==
    {Descriptor(n, 0) : n \in {"yearly", "monthly", "weekly", "daily", "hourly", "unknown"}}
    \cup {Descriptor("every", d) : d \in {-3, 1, 2, 5, 6}}

AllSpecs == Full \cup Five \cup OddSpecs \cup Descriptors

\* Around the leap day, the ends of months and years, and within a minute.
At(y, m, d, ticks) == Midnight(y * NMonth + m - 1, d) + ticks
SomeFroms == {At(0, 2, 2, 17), At(0, 2, 3, 2), At(0, 3, 3, TicksDay - 1), At(1, 2, 2, 1),
              At(2, 1, 4, TicksDay - 2), At(3, 3, 3, TicksDay - 3), At(3, 3, 2, 3)}
=============================================================================
