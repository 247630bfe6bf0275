\* Twin plans at one level, two consumers that are stopped and restarted.
SPECIFICATION Spec
CONSTANTS
    crit = crit
    norm = norm
    back = back
    Plan <- MCPlan
    PriorityOf <- MCPriorityOf
    Concurrency <- MCConcurrency
    MaxLevel = 1
    Threshold = 2
    Consumer = {c1, c2}
    Stoppable = {c2}
    MaxCopies = 1
    MaxSlips = 1
INVARIANTS LimitRespected NoLeakedSlot
PROPERTY NoOvertakingStep
