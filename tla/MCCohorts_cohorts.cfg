SPECIFICATION Spec
CHECK_DEADLOCK FALSE
CONSTANTS
    r1 = r1
    r2 = r2
    r3 = r3
    u1 = u1
    u2 = u2
    c1 = c1
    c2 = c2
    q1 = q1
    q2 = q2
    Requests <- ThreeRequests
    Users <- OneUser
    Cohorts <- TwoCohorts
    Questions <- OneQuestion
SYMMETRY Symmetry
INVARIANTS
    HistoryIsKept
    NobodyLeftWaits
    ReviewedMeansDecided
PROPERTIES
    DecisionStands
    HandedInFits
    ActsAtCommit
