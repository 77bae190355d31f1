SPECIFICATION FairSpec
CONSTANTS
    a = a
    b = b
    c = c
    d = d
    NodeId = {a, b, c, d}
    OutIndex <- MCOutIndex
    Workflows <- Shapes
    None = None
INVARIANTS
    TypeOK
    RunsOnce
    ParentsFirst
    InputsComplete
    HooksBracketTheRun
    OutcomeIsTruthful
PROPERTIES
    Terminates
    RecordsAreFinal
    ImplementsDagRun
CHECK_DEADLOCK FALSE
