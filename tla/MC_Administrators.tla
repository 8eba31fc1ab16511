-------------------------- MODULE MC_Administrators --------------------------
(***************************************************************************)
(* Instances of Administrators.                                            *)
(***************************************************************************)
EXTENDS Administrators, TLC

CONSTANTS a1, a2, a3, ops, aid

Account(roles) == [status |-> "active", name |-> "n1", version |-> 0, pw |-> "p1", roles |-> roles]

Scenario(requested, accounts) ==
    [agenda |-> requested, admins |-> accounts,
     roles |-> (ops :> [status |-> "active",
                        perms |-> {"admin.users.manage", "admin.roles.manage", "admin.sessions.manage"}])]

One == (a1 :> Account({Super})) @@ (a3 :> Account({ops}))
Two == One @@ (a2 :> Account({Super}))

\* Access is taken away and given back; credentials change under logins; accounts and
\* roles are made; roles are edited; sessions age.
MCScenarios ==
    {Scenario({"disable", "setRoles"}, Two),
     Scenario({"disable", "enable", "reset", "ownPassword"}, Two),
     Scenario({"create", "rename", "createRole"}, One),
     Scenario({"updateRole", "setPermissions"}, One),
     Scenario({"clock", "revoke", "forceLogout"}, One)}

MCPermissionCodes == {"admin.users.manage", "admin.roles.manage", "admin.sessions.manage"}
MCPermissionSets == {{"admin.users.manage"}, {}}
Alike == Permutations(AdminRequests) \cup Permutations(AdminSessions)
=============================================================================
