SPECIFICATION Spec
CONSTANTS
    a = a
    b = b
    c = c
    d = d
    NodeId = {a, b, c, d}
    Workflows <- Small
INVARIANTS
    TypeOK
    VerdictIsRight
    OrderIsTopological
    OffendersAreTheCyclicPart
CHECK_DEADLOCK FALSE
