\* Two admins disable accounts at once while members are promoted, asked and assigned, also too late.
CONSTANTS
    Accounts = {a1, a2}
    Rooms = {1}
    EntryIds = {1}
    AssignIds = {1}
    Admins = {d1, d2}
    KeyRoles = {"speaker"}
    RolesGiven = {"governor"}
    MaxKeys = 1
    MaxMembers = 3
    MaxRooms = 1
    DeliverDue = 1
    JudgeDue = 1
    None = None
    a1 = a1
    a2 = a2
SPECIFICATION OrderSpec
CONSTRAINTS FewLate AsksOrAssigns
SYMMETRY OrderSymmetry
INVARIANTS DisabledInOrder
PROPERTIES ObligationsEndOnce
CHECK_DEADLOCK FALSE
