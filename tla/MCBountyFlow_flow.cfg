SPECIFICATION Spec
CHECK_DEADLOCK FALSE
CONSTANTS
    a1 = a1
    a2 = a2
    u1 = u1
    u2 = u2
    Actors <- TwoPeople
    Users <- OneUser
    OwnerOf <- SharedAccount
    AgentActors <- OneAgent
    Suspendable <- OneUser
    Amount = 2
    Deposits = {2}
    PayAmounts = {1}
    TermsSet <- AllTerms
    MaxWallets = 2
INVARIANTS
    PayoutBacked
    UnsettledPayoutFollowsWallet
    CompletionHasParent
    OpenImpliesFunded
    ClosedMeansSettled
    ClosedHasNoOpenWork
PROPERTIES
    ClosedIsFinal
