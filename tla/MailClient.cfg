SPECIFICATION Spec
CONSTANTS
    t1 = t1
    t2 = t2
    letter = letter
    None = None
    Threads = {t1, t2}
    Mails = {letter}
    Kind <- Kinds
    Margin = 1
    TokenLife = 2
    SessionLife = 3
    MaxTime = 3
    MaxFaults = 2
    MaxReads = 1
SYMMETRY ThreadSymmetry
CHECK_DEADLOCK FALSE
INVARIANTS
    CopiesAccounted
    TokenInHandIsGood
