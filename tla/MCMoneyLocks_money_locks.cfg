SPECIFICATION Spec
CHECK_DEADLOCK FALSE
CONSTANTS
    r1 = r1
    r2 = r2
    r3 = r3
    b1 = b1
    b2 = b2
    p1 = p1
    p2 = p2
    p3 = p3
    p4 = p4
    h1 = h1
    h2 = h2
    h3 = h3
    None = None
    Requests <- TwoRequests
    Bounties <- TwoBounties
    Payouts <- FourPayouts
    Hashes <- ThreeHashes
    BountyOf <- ThreeAndOne
    Cap <- Shares
    Deposit <- Sent
SYMMETRY Symmetry
INVARIANTS
    HashProvesOnce
    RewardFollowsPayouts
    AllocationsWithinCap
    NoCircularWait
PROPERTIES
    ActsAtCommit
