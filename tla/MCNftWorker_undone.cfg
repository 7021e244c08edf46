SPECIFICATION Spec
CHECK_DEADLOCK FALSE
CONSTANTS
    parent = parent
    child = child
    first = first
    second = second
    NoClaim = NoClaim
    Parent <- parent
    Children <- OneChild
    Slots <- TwoSlots
    MaxRetry = 1
    Pausable = FALSE
    Unstable = TRUE
INVARIANTS
    AttachedIsNotUndone
