SPECIFICATION Spec
CONSTANTS
    p1 = p1
    p2 = p2
    c1 = c1
    c2 = c2
    None = None
    Calls <- MCCalls
    Codes <- MCCodes
    FailureLimit = 2
    CodeLife = 3
    Cooldown = 1
    MaxTime = 3
    MaxCodes = 3
CHECK_DEADLOCK FALSE
SYMMETRY Symmetry
INVARIANTS
    OneTokenPerCode
    MailedWasStored
PROPERTIES
    CooldownKept
    LockedMeansShut
