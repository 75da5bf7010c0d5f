SPECIFICATION Spec
CONSTANTS
    a = a
    b = b
    c = c
    d = d
    NoKey = NoKey
    Renderings <- AllRenderings
    MaxRenders = 2
INVARIANTS TypeOK DomIsRendered HostCallsAreLegal
PROPERTY KeyedStateKept
CHECK_DEADLOCK FALSE
