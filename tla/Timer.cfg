SPECIFICATION Spec
CONSTANTS
    CLICK_RATE = 5
    REQ_TWO_DAYS = 3
    UINT = 4
    MARK = 3
INVARIANT DetectionClock
PROPERTIES
    HoldingDays
    RequestPurged
