SPECIFICATION Spec
CHECK_DEADLOCK FALSE
CONSTANTS
    r1 = r1
    r2 = r2
    c1 = c1
    Requests <- TwoRequests
    Codes <- OneCode
    MaxTokens = 4
    MaxHops = 3
    Suspendable = TRUE
SYMMETRY Symmetry
INVARIANTS
    SingleSuccessor
    ReuseEndsChain
    CopiesAreOfOpenSessions
    WithdrawalEndsRotations
