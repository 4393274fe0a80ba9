SPECIFICATION Spec
CONSTANTS
    p1 = p1
    p2 = p2
    t1 = t1
    t2 = t2
    t3 = t3
    t4 = t4
    w1 = w1
    w2 = w2
    w3 = w3
    w4 = w4
    None = None
    Calls <- MCCalls
    Tokens <- MCTokens
    Passwords <- MCPasswords
    Keep = 3
    MaxResets = 5
CHECK_DEADLOCK FALSE
SYMMETRY Symmetry
INVARIANTS
    LinkUses
    HistorySound
    DifferentFromLast
PROPERTIES
    LinkStaysDead
