\* Decisions, expiries and timeouts in any order.
SPECIFICATION ApprovalFairSpec
CONSTANTS
    normal = normal
    critical = critical
    other = other
    Approval = {normal, critical, other}
    Order <- MCOrder
    Required <- MCRequired
    Waiter = {w1, w2}
    NoApproval = NoApproval
INVARIANTS FutureFollowsDecision VerdictReachesWaiter
PROPERTY VerdictFinal
    DecisionReturns
CHECK_DEADLOCK FALSE
