SPECIFICATION FairSpec
CHECK_DEADLOCK FALSE
CONSTANTS
    parent = parent
    child = child
    first = first
    second = second
    NoClaim = NoClaim
    Parent <- parent
    Children <- OneChild
    Slots <- OneSlot
    MaxRetry = 2
    Pausable = TRUE
    Unstable = TRUE
PROPERTIES
    EveryNftIsMinted
    EveryChildIsAttached
