SPECIFICATION Spec
CONSTANTS
    r1 = r1
    r2 = r2
    right = right
    wrong = wrong
    Requests = {r1}
    Calls <- SomeCalls
    RuleLists <- DefaultsOnly
    Modes = {"enforced"}
    Hours = {12, 23}
    Devices <- Home
    Within <- Parts
    Inboxes <- SomeInboxes
    MaxLines = 3
    McpToken = right
    Junk = Junk
    NaN = NaN
    None = None
INVARIANT
    EveryMailIsHeld
