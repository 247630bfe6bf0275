\* Two plans of one priority, fair scheduling, every user operation
\* but checkpoints and rollback, no step executor raises CancelledError.
SPECIFICATION FairSpec
CONSTANTS
    p1 = p1
    p2 = p2
    a = a
    b = b
    c = c
    d = d
    NoPlan = NoPlan
    Plan <- TwoPlans
    Step <- TwoPlanStep
    Steps <- TwoPlanSteps
    DependsOn <- TwoPlanDependsOn
    PriorityOf <- SamePriority
    MaxLevel = 1
    Threshold = 1
    Concurrency <- MCConcurrency
    MaxConcurrent = 2
    MaxCopies = 1
    MaxRollbacks = 0
    MaxCheckpoints = 0
    UserOps = {"submit", "cancel", "pause", "resume", "stop"}
    CutSteps = {}
INVARIANT ObserversAgree
PROPERTY PlansEnd
