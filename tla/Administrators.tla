--------------------------- MODULE Administrators ---------------------------
(***************************************************************************)
(* The platform's administrators: accounts, roles and permissions,         *)
(* server-side sessions and the audit row of every change.                 *)
(*                                                                         *)
(* A request resolves its session, then opens one transaction: it takes    *)
(* the row locks of its operation and reads what it decides on (Check),    *)
(* and writes, audits and commits (Commit).  The principal, its            *)
(* permissions included, is read before the locks and not read again.      *)
(* Login reads the account, verifies the password and inserts the session  *)
(* later.  A request may end without effect after any step: a refusal, an  *)
(* error, a crash.                                                         *)
(***************************************************************************)
EXTENDS Naturals, FiniteSets

CONSTANTS
    Admins,          \* tb_admins (bound on accounts)
    CustomRoles,     \* codes of custom roles
    PermissionCodes, \* the catalogue of permissions, without the wildcard
    PermissionSets,  \* permission sets a custom role is given
    Names,           \* display names
    Passwords,       \* passwords administrators use
    AdminSessions,   \* tb_admin_sessions (bound on logins)
    AdminRequests,   \* requests served at once
    MaxChanges,      \* bound on committed operations
    Scenarios,       \* one is chosen at the start: the accounts and roles the operator seeded
                     \* (admins, roles) and the operations requested; "clock" lets sessions age
    Nobody           \* no such row

Super == "superadmin"
Wildcard == "*"

\* tb_admins with tb_admin_user_roles, tb_admin_roles with tb_admin_role_permissions, tb_admin_sessions.
AdminRow == [status : {"active", "disabled"}, name : Names, version : Nat, pw : Passwords,
             roles : SUBSET ({Super} \cup CustomRoles)]
RoleRow == [status : {"active", "disabled"}, perms : SUBSET PermissionCodes]
SessionRow == [admin : Admins, version : Nat, pw : Passwords, revoked : BOOLEAN, expired : BOOLEAN,
               seen : {"fresh", "stale", "idle"}]

ASSUME AdminAssumption ==
    /\ MaxChanges \in Nat
    /\ Super \notin CustomRoles
    /\ Wildcard \notin PermissionCodes /\ \A perms \in PermissionSets : perms \subseteq PermissionCodes
    /\ Nobody \notin AdminRow /\ Nobody \notin RoleRow /\ Nobody \notin SessionRow

\* What the operator seeds: complete rows and an active superadmin.
ASSUME ScenarioAssumption ==
    \A sc \in Scenarios :
        /\ \A a \in Admins \cap DOMAIN sc.admins :
             /\ sc.admins[a] \in AdminRow /\ sc.admins[a].version = 0
             /\ sc.admins[a].roles \subseteq {Super} \cup DOMAIN sc.roles
        /\ \A r \in CustomRoles \cap DOMAIN sc.roles : sc.roles[r] \in RoleRow
        /\ \E a \in Admins \cap DOMAIN sc.admins :
             sc.admins[a].status = "active" /\ Super \in sc.admins[a].roles

VARIABLES
    admin,     \* tb_admins and tb_admin_user_roles: status, name, auth version, password, roles
    role,      \* tb_admin_roles and tb_admin_role_permissions, the custom ones
    session,   \* tb_admin_sessions; opened with which password, last seen when
    request,   \* requests: step, principal, operation and what was read for it
    audit,     \* the last row of tb_admin_audit_logs: key, before and after
    changes,   \* operations committed (bound)
    agenda     \* the operations of this behaviour

adminVars == <<admin, role, session, request, audit, changes, agenda>>

Waiting == [step |-> "idle"]

Exists(a) == admin[a] # Nobody

-----------------------------------------------------------------------------
(* Roles and permissions.                                                  *)

\* ListAdminPermissionCodesByAdminID: through active roles, read live.
PermissionsOf(a) ==
    (IF Super \in admin[a].roles THEN {Wildcard} ELSE {})
    \cup UNION {role[r].perms : r \in {c \in admin[a].roles \ {Super} : role[c].status = "active"}}

HasPermission(perms, code) == Wildcard \in perms \/ code \in perms

\* IsSuperadmin: holds the role, whatever the account's status.
IsSuperadmin(a) == Exists(a) /\ Super \in admin[a].roles

ActiveSuperadmins == {a \in Admins : IsSuperadmin(a) /\ admin[a].status = "active"}

\* Mutant: a superadmin is an account like any other.
AnyTarget(perms, a) == TRUE

\* requireWildcardForSuperadmin
MayOperateOn(perms, a) == HasPermission(perms, Wildcard) \/ ~IsSuperadmin(a)

-----------------------------------------------------------------------------
(* Sessions.                                                               *)

\* What ResolveSession accepts: not revoked, within 12 hours, seen within 30
\* minutes, of an active account, and of the account's present auth version.
Resolvable(s) ==
    /\ session[s] # Nobody
    /\ ~session[s].revoked /\ ~session[s].expired /\ session[s].seen # "idle"
    /\ admin[session[s].admin].status = "active"
    /\ session[s].version = admin[session[s].admin].version

\* Time passes without a touch: 5 minutes, 30 minutes.
SessionAges(s) ==
    /\ "clock" \in agenda
    /\ session[s] # Nobody /\ session[s].seen # "idle"
    /\ session' = [session EXCEPT ![s].seen = IF @ = "fresh" THEN "stale" ELSE "idle"]
    /\ UNCHANGED <<admin, role, request, audit, changes>>

\* Twelve hours since the login.
SessionExpires(s) ==
    /\ "clock" \in agenda
    /\ session[s] # Nobody /\ ~session[s].expired
    /\ session' = [session EXCEPT ![s].expired = TRUE]
    /\ UNCHANGED <<admin, role, request, audit, changes>>

\* Login up to the verified password.
LoginRead(q, a) ==
    /\ request[q].step = "idle"
    /\ Exists(a) /\ admin[a].status = "active"
    /\ request' = [request EXCEPT ![q] =
          [step |-> "login", actor |-> a, version |-> admin[a].version, pw |-> admin[a].pw]]
    /\ UNCHANGED <<admin, role, session, audit, changes>>

-----------------------------------------------------------------------------
(* Row locks held from Check to Commit.                                    *)

\* Mutant: operations do not meet on the superadmin role.
LocksOfRowsOnly(x) ==
    IF x.op \in {"setPermissions", "updateRole"} THEN {x.on}
    ELSE IF x.op \in {"disable", "setRoles", "enable", "rename", "reset", "forceLogout"} THEN {x.actor, x.on}
    ELSE {}

\* Mutant: roles are edited without their row.
LocksOfAdminsOnly(x) ==
    CASE x.op \in {"disable", "setRoles"} -> {Super, x.actor, x.on}
      [] x.op \in {"enable", "rename", "reset", "forceLogout"} -> {x.actor, x.on}
      [] OTHER -> {}

\* LockSuperadminInvariant, lockAdminRowsOrdered, LockAdminRoleRowForUpdate
Locks(x) ==
    CASE x.op \in {"disable", "setRoles"} -> {Super, x.actor, x.on}
      [] x.op \in {"enable", "rename", "reset", "forceLogout"} -> {x.actor, x.on}
      [] x.op \in {"setPermissions", "updateRole"} -> {x.on}
      [] OTHER -> {}

Checked == {q \in AdminRequests : request[q].step = "checked"}
Locked == UNION {Locks(request[q]) : q \in Checked}
LockedByOthers(q) == UNION {Locks(request[p]) : p \in Checked \ {q}}

\* Login's transaction: the session of the version that was read.  Its foreign key
\* and last_login_at wait for the account's row.
LoginCommit(q, s) ==
    /\ request[q].step = "login"
    /\ request[q].actor \notin Locked
    /\ session[s] = Nobody
    /\ session' = [session EXCEPT ![s] =
          [admin |-> request[q].actor, version |-> request[q].version, pw |-> request[q].pw,
           revoked |-> FALSE, expired |-> FALSE, seen |-> "fresh"]]
    /\ request' = [request EXCEPT ![q] = Waiting]
    /\ UNCHANGED <<admin, role, audit, changes>>

\* ResolveSession, with its touch once five minutes old.
ResolveSession(q, s) ==
    /\ request[q].step = "idle"
    /\ Resolvable(s)
    /\ session' = [session EXCEPT ![s].seen = "fresh"]
    /\ request' = [request EXCEPT ![q] =
          [step |-> "ready", actor |-> session[s].admin, session |-> s,
           perms |-> PermissionsOf(session[s].admin), pw |-> admin[session[s].admin].pw]]
    /\ UNCHANGED <<admin, role, audit, changes>>

-----------------------------------------------------------------------------
(* Operations: what the principal asks for, and what is read under locks.  *)

UserOperations ==
    [op : {"create", "disable", "enable", "reset"}, on : Admins, arg : {Nobody}]
    \cup [op : {"rename"}, on : Admins, arg : Names]
    \cup [op : {"setRoles"}, on : Admins, arg : SUBSET ({Super} \cup CustomRoles)]

RoleOperations ==
    [op : {"createRole"}, on : CustomRoles, arg : {Nobody}]
    \cup [op : {"updateRole"}, on : CustomRoles, arg : {"active", "disabled", Nobody}]
    \cup [op : {"setPermissions"}, on : CustomRoles, arg : PermissionSets]

SessionOperations ==
    [op : {"forceLogout"}, on : Admins, arg : {Nobody}]
    \cup [op : {"revoke"}, on : AdminSessions, arg : {Nobody}]

Operations == UserOperations \cup RoleOperations \cup SessionOperations

\* RequirePermission of each operation.
Required(op) ==
    CASE op \in {"create", "disable", "enable", "rename", "reset"} -> "admin.users.manage"
      [] op \in {"setRoles", "createRole", "updateRole", "setPermissions"} -> "admin.roles.manage"
      [] op \in {"forceLogout", "revoke"} -> "admin.sessions.manage"

\* IsActiveSuperadmin and CountActiveSuperadmins without a.
KeepsSuperadmin(a) == a \in ActiveSuperadmins => ActiveSuperadmins \ {a} # {}

MayDisable(x) ==
    /\ Exists(x.on) /\ MayOperateOn(x.perms, x.on)
    /\ admin[x.on].status = "active" => KeepsSuperadmin(x.on)

\* Giving or taking the superadmin role needs the wildcard; the last one keeps it.
MaySetRoles(x) ==
    LET had == IsSuperadmin(x.on)
    IN  /\ Exists(x.on)
        /\ \A r \in x.arg \ {Super} : role[r] # Nobody
        /\ had # (Super \in x.arg) => HasPermission(x.perms, Wildcard)
        /\ had /\ Super \notin x.arg => KeepsSuperadmin(x.on)

\* System roles are not edited: only custom ones are.
MayEditRole(x) == role[x.on] # Nobody

\* What an operation reads under its locks, and whether it goes on.
Accepted(x) ==
    CASE x.op = "disable" -> MayDisable(x)
      [] x.op \in {"enable", "rename"} -> Exists(x.on)
      [] x.op \in {"reset", "forceLogout"} -> Exists(x.on) /\ MayOperateOn(x.perms, x.on)
      [] x.op = "setRoles" -> MaySetRoles(x)
      [] x.op \in {"updateRole", "setPermissions"} -> MayEditRole(x)
      [] x.op = "revoke" -> session[x.on] # Nobody
      [] OTHER -> TRUE

\* The fact an audit row of the operation is about, as it is now.
Fact(key) ==
    LET x == key[2]
    IN  CASE key[1] = "admin" -> IF Exists(x) THEN admin[x].status ELSE Nobody
          [] key[1] = "name" -> IF Exists(x) THEN admin[x].name ELSE Nobody
          [] key[1] = "roles" -> IF Exists(x) THEN admin[x].roles ELSE {}
          [] key[1] = "role" -> IF role[x] # Nobody THEN role[x].status ELSE Nobody
          [] key[1] = "perms" -> IF role[x] # Nobody THEN role[x].perms ELSE {}
          [] OTHER -> Nobody

Key(x) ==
    CASE x.op \in {"create", "disable", "enable"} -> <<"admin", x.on>>
      [] x.op = "rename" -> <<"name", x.on>>
      [] x.op = "setRoles" -> <<"roles", x.on>>
      [] x.op \in {"createRole", "updateRole"} -> <<"role", x.on>>
      [] x.op = "setPermissions" -> <<"perms", x.on>>
      [] OTHER -> <<"event", x.on>>

FactKeys == ({"admin", "name", "roles"} \X Admins) \cup ({"role", "perms"} \X CustomRoles)

\* The transaction up to its first write.
Check(q, o) ==
    LET x == [op |-> o.op, on |-> o.on, arg |-> o.arg, step |-> "checked",
              actor |-> request[q].actor, perms |-> request[q].perms, before |-> Fact(Key(o))]
    IN  /\ request[q].step = "ready"
        /\ o.op \in agenda /\ changes < MaxChanges
        /\ HasPermission(x.perms, Required(x.op))
        /\ Locks(x) \cap Locked = {}
        /\ Accepted(x)
        /\ request' = [request EXCEPT ![q] = x]
        /\ UNCHANGED <<admin, role, session, audit, changes>>

-----------------------------------------------------------------------------
(* Writes.  Each is followed by its audit row in the same transaction.     *)

\* WithAuditTx: the row is written on the transaction of the change, and its
\* foreign key waits for the actor's row.
WithAuditTx(q, x, after) ==
    /\ x.actor \notin LockedByOthers(q)
    /\ audit' = [key |-> Key(x), before |-> x.before, after |-> after]
    /\ request' = [request EXCEPT ![q] = Waiting]
    /\ changes' = changes + 1

\* Mutant: the sessions are revoked, but a login under way is not told.
RevokeSessionsOnly(a, next) ==
    /\ admin' = [admin EXCEPT ![a] = next]
    /\ session' = [s \in AdminSessions |->
          IF session[s] # Nobody /\ session[s].admin = a
          THEN [session[s] EXCEPT !.revoked = TRUE] ELSE session[s]]

\* bumpAuthVersionAndRevokeSessions, with the account's other changes.
BumpAndRevoke(a, next) ==
    /\ admin' = [admin EXCEPT ![a] = [next EXCEPT !.version = @ + 1]]
    /\ session' = [s \in AdminSessions |->
          IF session[s] # Nobody /\ session[s].admin = a
          THEN [session[s] EXCEPT !.revoked = TRUE] ELSE session[s]]

\* Mutant: the status is left to the caller.
NewAdminNoStatus(name, pw) == [status |-> Nobody, name |-> name, version |-> 0, pw |-> pw, roles |-> {}]

NewAdmin(name, pw) == [status |-> "active", name |-> name, version |-> 0, pw |-> pw, roles |-> {}]

CreateAdmin(q, x) ==
    /\ ~Exists(x.on)
    /\ \E name \in Names, pw \in Passwords : admin' = [admin EXCEPT ![x.on] = NewAdmin(name, pw)]
    /\ WithAuditTx(q, x, "active")
    /\ UNCHANGED <<role, session>>

UpdateAdminDisplayName(q, x) ==
    /\ admin' = [admin EXCEPT ![x.on].name = x.arg]
    /\ WithAuditTx(q, x, x.arg)
    /\ UNCHANGED <<role, session>>

\* Mutant: the account is switched off and its sessions are left to the status check.
DisableAdminOnly(q, x) ==
    /\ admin' = [admin EXCEPT ![x.on].status = "disabled"]
    /\ WithAuditTx(q, x, "disabled")
    /\ UNCHANGED <<role, session>>

DisableAdmin(q, x) ==
    /\ IF x.before = "disabled" THEN UNCHANGED <<admin, session>>
       ELSE BumpAndRevoke(x.on, [admin[x.on] EXCEPT !.status = "disabled"])
    /\ WithAuditTx(q, x, "disabled")
    /\ UNCHANGED role

EnableAdmin(q, x) ==
    /\ admin' = [admin EXCEPT ![x.on].status = "active"]
    /\ WithAuditTx(q, x, "active")
    /\ UNCHANGED <<role, session>>

ResetAdminPassword(q, x) ==
    /\ \E pw \in Passwords : BumpAndRevoke(x.on, [admin[x.on] EXCEPT !.pw = pw])
    /\ WithAuditTx(q, x, Nobody)
    /\ UNCHANGED role

ForceLogoutAdmin(q, x) ==
    /\ BumpAndRevoke(x.on, admin[x.on])
    /\ WithAuditTx(q, x, Nobody)
    /\ UNCHANGED role

\* ReplaceAdminUserRoles; its foreign keys wait for the roles' rows.
SetAdminRoles(q, x) ==
    /\ x.arg \cap LockedByOthers(q) = {}
    /\ admin' = [admin EXCEPT ![x.on].roles = x.arg]
    /\ WithAuditTx(q, x, x.arg)
    /\ UNCHANGED <<role, session>>

CreateRole(q, x) ==
    /\ role[x.on] = Nobody
    /\ role' = [role EXCEPT ![x.on] = [status |-> "active", perms |-> {}]]
    /\ WithAuditTx(q, x, "active")
    /\ UNCHANGED <<admin, session>>

\* A field that is not patched is written back as it was read.
UpdateRole(q, x) ==
    LET next == IF x.arg = Nobody THEN x.before ELSE x.arg
    IN  /\ role' = [role EXCEPT ![x.on].status = next]
        /\ WithAuditTx(q, x, next)
        /\ UNCHANGED <<admin, session>>

SetRolePermissions(q, x) ==
    /\ role' = [role EXCEPT ![x.on].perms = x.arg]
    /\ WithAuditTx(q, x, x.arg)
    /\ UNCHANGED <<admin, session>>

RevokeSessionByID(q, x) ==
    /\ session' = [session EXCEPT ![x.on].revoked = TRUE]
    /\ WithAuditTx(q, x, Nobody)
    /\ UNCHANGED <<admin, role>>

Commit(q) ==
    LET x == request[q]
    IN  /\ x.step = "checked"
        /\ \/ x.op = "create" /\ CreateAdmin(q, x)
           \/ x.op = "rename" /\ UpdateAdminDisplayName(q, x)
           \/ x.op = "disable" /\ DisableAdmin(q, x)
           \/ x.op = "enable" /\ EnableAdmin(q, x)
           \/ x.op = "reset" /\ ResetAdminPassword(q, x)
           \/ x.op = "forceLogout" /\ ForceLogoutAdmin(q, x)
           \/ x.op = "setRoles" /\ SetAdminRoles(q, x)
           \/ x.op = "createRole" /\ CreateRole(q, x)
           \/ x.op = "updateRole" /\ UpdateRole(q, x)
           \/ x.op = "setPermissions" /\ SetRolePermissions(q, x)
           \/ x.op = "revoke" /\ RevokeSessionByID(q, x)

\* Any administrator; the current password is compared with the one the principal
\* was resolved with.
ChangeOwnPassword(q) ==
    LET x == [op |-> "ownPassword", actor |-> request[q].actor, on |-> request[q].actor, before |-> Nobody]
    IN  /\ request[q].step = "ready"
        /\ "ownPassword" \in agenda /\ changes < MaxChanges
        /\ request[q].actor \notin Locked
        /\ \E pw \in Passwords \ {request[q].pw} :
             BumpAndRevoke(request[q].actor, [admin[request[q].actor] EXCEPT !.pw = pw])
        /\ WithAuditTx(q, x, Nobody)
        /\ UNCHANGED role

\* RevokeSession: logout.
Logout(q) ==
    /\ request[q].step = "ready"
    /\ request[q].actor \notin Locked
    /\ session' = [session EXCEPT ![request[q].session].revoked = TRUE]
    /\ request' = [request EXCEPT ![q] = Waiting]
    /\ UNCHANGED <<admin, role, audit, changes>>

RequestEnds(q) ==
    /\ request[q].step # "idle"
    /\ request' = [request EXCEPT ![q] = Waiting]
    /\ UNCHANGED <<admin, role, session, audit, changes>>

-----------------------------------------------------------------------------
AdminInit ==
    /\ \E sc \in Scenarios :
        /\ agenda = sc.agenda
        /\ admin = [a \in Admins |-> IF a \in DOMAIN sc.admins THEN sc.admins[a] ELSE Nobody]
        /\ role = [r \in CustomRoles |-> IF r \in DOMAIN sc.roles THEN sc.roles[r] ELSE Nobody]
    /\ session = [s \in AdminSessions |-> Nobody]
    /\ request = [q \in AdminRequests |-> Waiting]
    /\ audit = [key |-> <<"none", Nobody>>]
    /\ changes = 0

AdminNext ==
    \/ \E s \in AdminSessions : SessionAges(s) \/ SessionExpires(s)
    \/ \E q \in AdminRequests :
        \/ \E a \in Admins : LoginRead(q, a)
        \/ \E s \in AdminSessions : LoginCommit(q, s) \/ ResolveSession(q, s)
        \/ \E o \in Operations : Check(q, o)
        \/ Commit(q)
        \/ ChangeOwnPassword(q)
        \/ Logout(q)
        \/ RequestEnds(q)

AdminSpec == AdminInit /\ [][AdminNext /\ UNCHANGED agenda]_adminVars

-----------------------------------------------------------------------------
(* Properties.                                                             *)

AdminTypeOK ==
    /\ \A a \in Admins : Exists(a) =>
        /\ admin[a].status \in {"active", "disabled"}
        /\ admin[a].version \in 0 .. MaxChanges /\ admin[a].pw \in Passwords
        /\ \A r \in admin[a].roles \ {Super} : r \in CustomRoles /\ role[r] # Nobody
    /\ \A r \in CustomRoles : role[r] # Nobody =>
        role[r].status \in {"active", "disabled"} /\ Wildcard \notin role[r].perms
    /\ \A s \in AdminSessions : session[s] # Nobody =>
        Exists(session[s].admin) /\ session[s].version <= admin[session[s].admin].version
    /\ \A q \in AdminRequests : request[q].step \in {"idle", "login", "ready", "checked"}

\* However administrators disable each other and themselves and move the role
\* around at once, an active one with the wildcard is left to undo it.
SuperadminRemains == ActiveSuperadmins # {}

\* A session that is accepted was opened with the password the account has now, also
\* when the password was verified before a reset and the session inserted after it.
SessionsOfPresentPassword ==
    \A s \in AdminSessions : Resolvable(s) => session[s].pw = admin[session[s].admin].pw

\* A session that was ended other than by idleness never works again, not even when
\* its account is enabled again.
LoggedOutForGood ==
    [][\A s \in AdminSessions :
         session[s] # Nobody /\ ~Resolvable(s) /\ session[s].seen # "idle" => ~Resolvable(s)']_adminVars

\* Whoever takes a superadmin's access away (status, password, sessions, role) holds the
\* wildcard, or is that superadmin changing its own password.
SuperadminProtected ==
    [][\A a \in Admins :
         IsSuperadmin(a) /\ (admin'[a].version # admin[a].version \/ admin'[a].pw # admin[a].pw
                             \/ Super \notin admin'[a].roles) =>
           \E q \in AdminRequests :
              /\ request[q].step # "idle" /\ request'[q].step = "idle"
              /\ Wildcard \in request[q].perms \/ request[q].actor = a]_adminVars

\* What an audit row says was so immediately before and is so after, and nothing an
\* audit row would tell of changes without one (a new account's name is part of the row
\* that creates it).
AuditTellsTheTruth ==
    [][\A k \in FactKeys :
         LET told == audit' # audit /\ audit'.key = k
         IN  /\ told => audit'.before = Fact(k) /\ audit'.after = Fact(k)'
             /\ Fact(k)' # Fact(k) /\ (k[1] = "name" => Exists(k[2])) => told]_adminVars

\* An active superadmin is always left, and what takes a superadmin's access away comes from one.
SuperadminsKeepControl == [](AdminTypeOK /\ SuperadminRemains) /\ SuperadminProtected

\* A session works under the present password only, and once ended never again, whatever login or request was under
\* way when it ended.
SessionsEnd == []SessionsOfPresentPassword /\ LoggedOutForGood
=============================================================================
