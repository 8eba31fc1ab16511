\* An agent and the publisher itself submit with and without claims, two requests at a time.
CONSTANTS
    Publisher = pub
    Agents = {a1, pub}
    Audience = {a1, pub}
    Keys = {k1, k2}
    Payloads = {"plain"}
    Contracts <- OneContract
    Amounts = {2}
    Credits = 2
    MaxAmount = 4
    Handlers = {h1, h2}
    Workers = {}
    ClaimIds = {1, 2}
    SubIds = {1, 2}
    MaxVersion = 1
    LeaseDelivering = 0
    LeaseUncertain = 0
    UnresolvedAfter = 0
    RejectionWindow = 1
    FaultThreshold = 2
    MaxCrashes = 0
    None = None
SPECIFICATION Spec
INVARIANTS SubmittedOnce CreditsAddUp
PROPERTIES EscrowKept
CHECK_DEADLOCK FALSE
