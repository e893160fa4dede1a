SPECIFICATION Spec
CONSTANTS
    Width = {10, 11}
    Shown = {0, 3, 9, 11}
    MaxText = 16
    Message = {a, b}
    Marks = {mark, drop}
    MaxMessages = 8
    NULL = NULL
INVARIANTS
    LinesFit
    Accounted
    RepeatsLast
PROPERTY Ends
CHECK_DEADLOCK FALSE
