SPECIFICATION MCSpec
CONSTANTS
    Cell = {c1, c2, c3}
    Data = {ban, d1, d2}
    Ban = ban
    NULL = NULL
INVARIANT AcknowledgedIsQueued
