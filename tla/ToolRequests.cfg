SPECIFICATION Spec
CONSTANTS
    r1 = r1
    r2 = r2
    right = right
    wrong = wrong
    Requests = {r1, r2}
    Calls <- SomeCalls
    RuleLists <- SomeRules
    Modes = {"enforced", "audit_only"}
    Hours = {12, 23}
    Devices <- Home
    Within <- Parts
    Inboxes <- SomeInboxes
    MaxLines = 3
    McpToken = right
    Junk = Junk
    NaN = NaN
    None = None
SYMMETRY RequestSymmetry
CHECK_DEADLOCK FALSE
INVARIANTS
    TypeOK
    FlaggedWaitsForOwner
    StrictestRuleDecides
    PurchasesStayInLimits
    ApprovalRunsWhatWasHeld
    AnswersAreTrue
    InboxWarningIsSeen
PROPERTIES
    OnlyNamedDevicesMove
