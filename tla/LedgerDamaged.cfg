SPECIFICATION ExportSpec
CONSTANTS
    t1 = t1
    t2 = t2
    v1 = v1
    w1 = w1
    None = None
    ExportWorker = w1
    Appenders = {t1}
    Verifiers = {v1}
    Workers = {w1}
    WorkerOf <- OneProcess
    FullChoices = {TRUE, FALSE}
    MaxEntries = 3
    MaxKeys = 1
    StorageFails = FALSE
    Crashes = FALSE
    Damages = TRUE
INVARIANTS
    IntegrityVouches
PROPERTIES
    WalksDetect
    AcceptedExportIsWhole
