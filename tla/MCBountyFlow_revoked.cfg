SPECIFICATION Spec
CHECK_DEADLOCK FALSE
CONSTANTS
    a1 = a1
    a2 = a2
    u1 = u1
    u2 = u2
    Actors <- TwoPeople
    Users <- OneUser
    OwnerOf <- SharedAccount
    AgentActors <- OneAgent
    Suspendable <- Nobody
    Amount = 1
    Deposits = {1}
    PayAmounts = {1}
    TermsSet <- AgentTerms
    MaxWallets = 1
PROPERTIES
    RevokedAgentCannotSubmit
