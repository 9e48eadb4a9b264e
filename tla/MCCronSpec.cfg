\* A calendar of eleven years; each spec with each parser and each time.
CONSTANTS
    Frac = 2
    NSec = 3
    NMin = 2
    NHour = 3
    NWeek = 4
    MonthDays <- Months
    LeapMonth = 2
    LeapEvery = 8
    MaxDom = 4
    MonthNames <- NamesM
    DowNames <- NamesD
    Years = 10
    YearsAhead = 5
    Parsers <- BothParsers
    Specs <- AllSpecs
    Froms <- SomeFroms
SPECIFICATION Spec
INVARIANTS
    TypeOK
    
PROPERTIES
    SearchEnds
\* The call returns.
CHECK_DEADLOCK FALSE
