\* One submission, its request, two recovery workers and a crash race for the outcome; fair workers.
CONSTANTS
    Publisher = pub
    Agents = {a1}
    Audience = {a1}
    Keys = {k1}
    Payloads = {"plain"}
    Contracts <- OneContract
    Amounts = {1}
    Credits = 1
    MaxAmount = 4
    Handlers = {h1}
    Workers = {w1, w2}
    ClaimIds = {1}
    SubIds = {1}
    MaxVersion = 1
    LeaseDelivering = 1
    LeaseUncertain = 1
    UnresolvedAfter = 2
    RejectionWindow = 1
    FaultThreshold = 1
    MaxCrashes = 1
    None = None
SPECIFICATION FairSpec
INVARIANTS PaidExactlyOnce
PROPERTIES OutcomeIsTheReceivers SubmissionResolved ReservationsDrain
CHECK_DEADLOCK FALSE
