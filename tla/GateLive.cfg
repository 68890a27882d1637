SPECIFICATION FairSpec
CONSTANTS
    r1 = r1
    r2 = r2
    s1 = s1
    s2 = s2
    w1 = w1
    a1 = a1
    None = None
    Requests = {r1, r2}
    Resolvers = {s1, s2}
    Workers = {w1}
    Actors = {a1}
    RequestWorker <- OneWorkerRequests
    ResolverWorker <- OneWorkerResolvers
    RequestActor <- OneActor
    StorageFails = FALSE
    EffectRaises = TRUE
    Crashes = FALSE
    MaxEffects = 3
PROPERTIES
    GateSettles
