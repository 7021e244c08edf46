SPECIFICATION Spec
CHECK_DEADLOCK FALSE
CONSTANTS
    r1 = r1
    r2 = r2
    u1 = u1
    u2 = u2
    a1 = a1
    a2 = a2
    None = None
    Requests <- TwoRequests
    Users <- TwoUsers
    Addresses <- TwoAddresses
    AgentAddresses <- OneAddress
    Rows <- ThreeRows
SYMMETRY Symmetry
INVARIANTS
    ProvedAddressKeepsOwner
    AgentIsNotOwner
    KeysOfActiveAgents
    WithdrawnLetGo
    WithdrawalNotDeadlocked
PROPERTIES
    ActsAtCommit
