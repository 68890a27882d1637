SPECIFICATION MCSpec
CONSTANTS
    w1 = w1
    t1 = t1
    t2 = t2
    s1 = s1
    Workers = {w1}
    Rotators = {t1}
    WorkerOf <- OneProcess
    Failures = TRUE
    MaxKeys = 3
    Callers = {t1, t2}
    Processes = {w1}
    ProcessOf <- OneHome
    Tokens = {s1}
    TTL = 1
    MaxDelay = 1
    MaxTime = 3
    Faults = TRUE
    NoToken = NoToken
INVARIANTS
    SignersKnownUnlessCut
    RetiredStaysRetired
    LogoutWins
    WindowSlides
    OwnerCanLogIn
    AnnouncedKeysAreRecorded

    
