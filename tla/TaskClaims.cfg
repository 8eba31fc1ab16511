\* Two agents, two contracts that may come back, one submission: claims, renewals, expiry, updates, refunds.
CONSTANTS
    Publisher = pub
    Agents = {a1, a2}
    Audience = {a1, a2}
    Keys = {k1}
    Payloads = {"plain", "rich"}
    Contracts <- TwoContracts
    Amounts = {1, 2}
    Credits = 2
    MaxAmount = 4
    Handlers = {h1}
    Workers = {}
    ClaimIds = {1, 2}
    SubIds = {1}
    MaxVersion = 3
    LeaseDelivering = 1
    LeaseUncertain = 1
    UnresolvedAfter = 1
    RejectionWindow = 1
    FaultThreshold = 2
    MaxCrashes = 0
    None = None
SPECIFICATION Spec
SYMMETRY Alike
INVARIANTS TypeOK ClaimsKeepTheirTerms ReservedIsBacked BudgetKept BoardAgreesWithClaims
CHECK_DEADLOCK FALSE
