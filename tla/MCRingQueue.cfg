\* A slice of minimal length 4 that grows to 16 and shrinks back.
CONSTANTS
    Elem = {a, b}
    Nil = Nil
    MinQueueLen = 4
    MaxCount = 9
SPECIFICATION Spec
INVARIANTS
    TypeOK
    TailConsistent
    OnlyLiveSlots
    MaskIsModulo
PROPERTIES
    ImplementsFifo
