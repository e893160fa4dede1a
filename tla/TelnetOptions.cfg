SPECIFICATION OSpec
CONSTANTS
    MaxAsks = 2
    MaxCommands = 1
    MaxPrompts = 2
INVARIANTS
    OTypeOK
    EchoAgreed
PROPERTIES
    NoGoAhead
    Settles
CHECK_DEADLOCK FALSE
