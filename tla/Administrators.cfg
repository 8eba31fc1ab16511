\* Two superadmins and one who may do everything else, two requests at once.
CONSTANTS
    Admins = {a1, a2, a3}
    CustomRoles = {ops, aid}
    Names = {"n1", "n2"}
    Passwords = {"p1", "p2"}
    AdminSessions = {s1, s2}
    AdminRequests = {q1, q2}
    MaxChanges = 2
    Scenarios <- MCScenarios
    PermissionCodes <- MCPermissionCodes
    PermissionSets <- MCPermissionSets
    Nobody = Nobody
    a1 = a1
    a2 = a2
    a3 = a3
    ops = ops
    aid = aid
    s1 = s1
    s2 = s2
    q1 = q1
    q2 = q2
SYMMETRY Alike
SPECIFICATION AdminSpec
PROPERTIES SuperadminsKeepControl SessionsEnd AuditTellsTheTruth
CHECK_DEADLOCK FALSE
