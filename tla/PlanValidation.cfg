\* Every dependency relation over three steps and one id of no step.
SPECIFICATION Spec
CONSTANTS
    a = a
    b = b
    c = c
    Step <- MCStep
    Order <- MCOrder
    Foreign = {x}
    NoStep = NoStep
INVARIANTS VerdictExact CyclePathIsReal
CHECK_DEADLOCK FALSE
