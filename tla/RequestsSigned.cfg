SPECIFICATION Spec
CONSTANTS
    a1 = a1
    m1 = m1
    m2 = m2
    c1 = c1
    c2 = c2
    n1 = n1
    n2 = n2
    Agents = {a1}
    Messages = {m1, m2}
    Nonces = {n1, n2}
    Calls = {c1, c2}
    SenderOf <- OneAgent
    NonceOf <- OwnNonces
    TTL = 2
    MaxSkew = 1
    MaxDelay = 1
    Failures = TRUE
    MaxTime = 4
PROPERTIES
    RepeatsOnlyLate
