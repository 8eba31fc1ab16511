\* Two accounts and an assignment, with deadlines, leaving and joining again; fair clock and sweeper.
CONSTANTS
    Accounts = {a1, a2}
    Rooms = {1}
    EntryIds = {1}
    AssignIds = {1}
    Admins = {}
    KeyRoles = {"speaker"}
    RolesGiven = {}
    MaxKeys = 1
    MaxMembers = 3
    MaxRooms = 1
    DeliverDue = 1
    JudgeDue = 1
    None = None
    a1 = a1
    a2 = a2
SPECIFICATION FairSpec
INVARIANTS DepartureSettles TurnsAreServed
PROPERTIES ObligationsEndOnce AssignmentsSettle
CHECK_DEADLOCK FALSE
