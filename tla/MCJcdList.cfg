SPECIFICATION MCSpec
CONSTANTS
    Cell = {c1, c2, c3}
    Data = {d1, d2, d3}
    NULL = NULL
INVARIANTS
    ForwardChain
    BackwardChain
    Accounted
    NoDangling
PROPERTIES
    ImplementsAbstractList
    CallsReturn
