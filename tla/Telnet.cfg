SPECIFICATION Spec
CONSTANTS
    Size = 2
    Style = {"crlf", "crnul", "lf", "cr", "mixed"}
    MaxWaiting = 5
INVARIANTS
    TypeOK
    Synchronised
    OnlyTyped
    EveryLineOnce
PROPERTY PacketEnds
