SPECIFICATION RouterSpec
CONSTANTS
    p1 = p1
    p2 = p2
    Providers = {p1, p2}
    Priority <- MCPriority
    Callers = {c1, c2}
    MaxRequests = 1
    MaxTokens = 1
    Tokens = {1}
    Costs = {1}
    MaxEntries = 1
    DegradedAfter = 1
    UnhealthyAfter = 2
    Removable = {p1}
    MaxClosing = 2
INVARIANTS RouterTypeOK OverrunBounded LedgerBalances
PROPERTY RequestsEnd
