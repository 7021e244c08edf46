SPECIFICATION Spec
CHECK_DEADLOCK FALSE
CONSTANTS
    a1 = a1
    a2 = a2
    u1 = u1
    u2 = u2
    Actors <- TwoPeople
    Users <- TwoUsers
    OwnerOf <- OwnAccounts
    AgentActors <- Nobody
    Suspendable <- Nobody
    Amount = 3
    Deposits = {3, 4}
    PayAmounts = {1, 2, 3}
    TermsSet <- FreeTerms
    MaxWallets = 1
INVARIANTS
    PayoutsWithinCap
    WinnersBounded
    DeletedHoldsNoFunds
    RewardStatusAgrees
PROPERTIES
    ImplementsEscrow
