\* One plan with a fork, every user operation.
SPECIFICATION Spec
CONSTANTS
    p1 = p1
    p2 = p2
    a = a
    b = b
    c = c
    d = d
    NoPlan = NoPlan
    Plan <- OnePlan
    Step <- ThreeSteps
    Steps <- OneSteps
    DependsOn <- ForkDependsOn
    PriorityOf <- SamePriority
    MaxLevel = 0
    Threshold = 1
    Concurrency <- ThreeSlots
    MaxConcurrent = 1
    MaxCopies = 2
    MaxRollbacks = 1
    MaxCheckpoints = 2
    UserOps = {"submit", "cancel", "pause", "resume", "stop", "checkpoint", "rollback"}
    CutSteps <- ThreeSteps
INVARIANTS DependenciesMet ExecutedAtMostOnce SuccessIsComplete ResourcesReleased
PROPERTY ImplementsDataflow
