SPECIFICATION ExportFairSpec
CONSTANTS
    t1 = t1
    t2 = t2
    v1 = v1
    w1 = w1
    None = None
    ExportWorker = w1
    Appenders = {t1, t2}
    Verifiers = {v1}
    Workers = {w1}
    WorkerOf <- OneProcess
    FullChoices = {TRUE, FALSE}
    MaxEntries = 2
    MaxKeys = 3
    StorageFails = TRUE
    Crashes = TRUE
    Damages = FALSE
INVARIANTS
    
    NoAnchorAlarm
PROPERTIES
    AppendsEnd
    
