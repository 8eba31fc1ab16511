\* Three accounts, room for two members, two rooms, an entry, two keys: joining, posting,
\* roles, leaving, closing.
CONSTANTS
    Accounts = {a1, a2, a3}
    Rooms = {1, 2}
    EntryIds = {1}
    AssignIds = {}
    Admins = {}
    KeyRoles = {"speaker", "observer"}
    RolesGiven = {"governor", "observer"}
    MaxKeys = 2
    MaxMembers = 2
    MaxRooms = 1
    DeliverDue = 1
    JudgeDue = 1
    None = None
    a1 = a1
    a2 = a2
    a3 = a3
SPECIFICATION Spec
CONSTRAINT RotationOrEntries
SYMMETRY AccountSymmetry
INVARIANTS RoomsInOrder NextActionsServed
PROPERTIES AdmittedByLiveKey
CHECK_DEADLOCK FALSE
