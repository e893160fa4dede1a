SPECIFICATION Spec
CONSTANTS
    BUFFER_SIZE = 6
    swBLOCKSIZE = 3
    Text = {1, 2}
    Alarm = 2
    MaxSaid = 6
    MaxAlarms = 1
INVARIANTS
    Fits
    InOrder
PROPERTY Delivered
