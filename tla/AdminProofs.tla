---------------------------- MODULE AdminProofs ----------------------------
(***************************************************************************)
(* Administrators, for any number of accounts, roles, sessions, requests   *)
(* and changes: a superadmin is left, sessions end, the audit is true.     *)
(*                                                                         *)
(* What a request has read under its locks still holds when it commits,    *)
(* because whoever changes a row holds that row, and whoever may reduce    *)
(* the superadmins holds their role.  A changed password, a disabled       *)
(* account and a forced logout raise the account's version, so that a      *)
(* session or a login of the present version was opened with the present   *)
(* password by an active account.                                          *)
(***************************************************************************)
EXTENDS Administrators, TLAPS

-----------------------------------------------------------------------------
(* The inductive invariant.                                                *)

RowsOK ==
    /\ admin \in [Admins -> AdminRow \cup {Nobody}]
    /\ role \in [CustomRoles -> RoleRow \cup {Nobody}]
    /\ session \in [AdminSessions -> SessionRow \cup {Nobody}]
    /\ changes \in Nat
    /\ request = [q \in AdminRequests |-> request[q]]

\* An account's version counts changes, and its roles exist.
AccountInv(a) ==
    Exists(a) =>
      /\ admin[a].version <= changes /\ admin[a].version <= MaxChanges
      /\ \A r \in admin[a].roles \ {Super} : role[r] # Nobody

\* What carries the present version carries the present password of an active account.
Current(a, version, pw) ==
    /\ Exists(a) /\ version <= admin[a].version
    /\ version = admin[a].version => pw = admin[a].pw /\ admin[a].status = "active"

SessionInv(s) ==
    session[s] # Nobody => Current(session[s].admin, session[s].version, session[s].pw)

LoginInv(x) ==
    x.actor \in Admins /\ x.version \in Nat /\ x.pw \in Passwords /\ Current(x.actor, x.version, x.pw)

ReadyInv(x) ==
    /\ x.actor \in Admins /\ Exists(x.actor)
    /\ x.session \in AdminSessions /\ session[x.session] # Nobody

AskedFor(x) == [op |-> x.op, on |-> x.on, arg |-> x.arg] \in Operations

\* A fact read under its row's lock is still the fact; a row about to be created has none.
ReadTrue(x) ==
    \/ x.before = Fact(Key(x))
    \/ x.op = "create" /\ Exists(x.on)
    \/ x.op = "createRole" /\ role[x.on] # Nobody

\* What was accepted would be accepted again.
CheckedInv(x) ==
    /\ x.actor \in Admins /\ Exists(x.actor)
    /\ AskedFor(x) /\ Accepted(x) /\ ReadTrue(x)
    /\ x.op \in {"disable", "reset", "forceLogout"} => admin[x.on].version < MaxChanges

RequestInv(x) ==
    /\ x.step \in {"idle", "login", "ready", "checked"}
    /\ x.step = "login" => LoginInv(x)
    /\ x.step = "ready" => ReadyInv(x)
    /\ x.step = "checked" => CheckedInv(x)

LocksApart ==
    \A p, q \in Checked : p # q => Locks(request[p]) \cap Locks(request[q]) = {}

\* The last audit row is about how things are.
AuditInv == audit.key \in FactKeys => audit.after = Fact(audit.key)

AdminInv ==
    /\ RowsOK
    /\ \A a \in Admins : AccountInv(a)
    /\ ActiveSuperadmins # {}
    /\ \A s \in AdminSessions : SessionInv(s)
    /\ \A q \in AdminRequests : RequestInv(request[q])
    /\ LocksApart
    /\ AuditInv

-----------------------------------------------------------------------------
(* Locks and facts.                                                        *)

\* The rows an operation holds.
LEMMA LocksOf ==
  ASSUME NEW x
  PROVE  /\ x.op \in {"disable", "setRoles"} => Locks(x) = {Super, x.actor, x.on}
         /\ x.op \in {"enable", "rename", "reset", "forceLogout"} => Locks(x) = {x.actor, x.on}
         /\ x.op \in {"setPermissions", "updateRole"} => Locks(x) = {x.on}
         /\ x.op \in {"create", "createRole", "revoke"} => Locks(x) = {}
  BY DEF Locks

\* What an operation may be asked about.
LEMMA OperationCases ==
  ASSUME NEW x, AskedFor(x)
  PROVE  /\ x.op \in {"create", "disable", "enable", "reset", "rename", "setRoles", "createRole", "updateRole",
                      "setPermissions", "forceLogout", "revoke"}
         /\ x.op \in {"create", "disable", "enable", "reset", "rename", "setRoles", "forceLogout"} => x.on \in Admins
         /\ x.op = "rename" => x.arg \in Names
         /\ x.op = "setRoles" => x.arg \subseteq {Super} \cup CustomRoles
         /\ x.op \in {"createRole", "updateRole", "setPermissions"} => x.on \in CustomRoles
         /\ x.op = "updateRole" => x.arg \in {"active", "disabled", Nobody}
         /\ x.op = "setPermissions" => x.arg \in PermissionSets
         /\ x.op = "revoke" => x.on \in AdminSessions
  BY DEF AskedFor, Operations, UserOperations, RoleOperations, SessionOperations

\* The facts, one by one.
LEMMA Facts ==
  ASSUME NEW x
  PROVE  /\ Fact(<<"admin", x>>) = IF Exists(x) THEN admin[x].status ELSE Nobody
         /\ Fact(<<"name", x>>) = IF Exists(x) THEN admin[x].name ELSE Nobody
         /\ Fact(<<"roles", x>>) = IF Exists(x) THEN admin[x].roles ELSE {}
         /\ Fact(<<"role", x>>) = IF role[x] # Nobody THEN role[x].status ELSE Nobody
         /\ Fact(<<"perms", x>>) = IF role[x] # Nobody THEN role[x].perms ELSE {}
         /\ Fact(<<"event", x>>) = Nobody
  BY DEF Fact

LEMMA FactsNext ==
  ASSUME NEW x
  PROVE  /\ Fact(<<"admin", x>>)' = IF admin'[x] # Nobody THEN admin'[x].status ELSE Nobody
         /\ Fact(<<"name", x>>)' = IF admin'[x] # Nobody THEN admin'[x].name ELSE Nobody
         /\ Fact(<<"roles", x>>)' = IF admin'[x] # Nobody THEN admin'[x].roles ELSE {}
         /\ Fact(<<"role", x>>)' = IF role'[x] # Nobody THEN role'[x].status ELSE Nobody
         /\ Fact(<<"perms", x>>)' = IF role'[x] # Nobody THEN role'[x].perms ELSE {}
         /\ Fact(<<"event", x>>)' = Nobody
  BY DEF Fact, Exists

\* The facts of an account that there is, and still is.
LEMMA AccountFacts ==
  ASSUME NEW a, Exists(a), admin'[a] # Nobody
  PROVE  /\ Fact(<<"admin", a>>) = admin[a].status /\ Fact(<<"admin", a>>)' = admin'[a].status
         /\ Fact(<<"name", a>>) = admin[a].name /\ Fact(<<"name", a>>)' = admin'[a].name
         /\ Fact(<<"roles", a>>) = admin[a].roles /\ Fact(<<"roles", a>>)' = admin'[a].roles
  BY Facts, FactsNext

\* A row that stays keeps its facts.
LEMMA AccountFactsStay ==
  ASSUME NEW b, admin'[b] = admin[b], NEW t \in {"admin", "name", "roles"}
  PROVE  Fact(<<t, b>>)' = Fact(<<t, b>>)
  <1>1. CASE t = "admin"
    BY <1>1, Facts, FactsNext DEF Exists
  <1>2. CASE t = "name"
    BY <1>2, Facts, FactsNext DEF Exists
  <1>3. CASE t = "roles"
    BY <1>3, Facts, FactsNext DEF Exists
  <1> QED
    BY <1>1, <1>2, <1>3

LEMMA RoleFactsStay ==
  ASSUME NEW b, role'[b] = role[b], NEW t \in {"role", "perms"}
  PROVE  Fact(<<t, b>>)' = Fact(<<t, b>>)
  BY Facts, FactsNext

LEMMA Keys ==
  ASSUME NEW x, NEW op, x.op = op
  PROVE  /\ op \in {"create", "disable", "enable"} => Key(x) = <<"admin", x.on>>
         /\ op = "rename" => Key(x) = <<"name", x.on>>
         /\ op = "setRoles" => Key(x) = <<"roles", x.on>>
         /\ op \in {"createRole", "updateRole"} => Key(x) = <<"role", x.on>>
         /\ op = "setPermissions" => Key(x) = <<"perms", x.on>>
         /\ op \in {"reset", "forceLogout", "revoke", "ownPassword"} => Key(x) = <<"event", x.on>>
  BY DEF Key

LEMMA FactKeyCases ==
  ASSUME NEW k \in FactKeys
  PROVE  \/ \E a \in Admins : k = <<"admin", a>> \/ k = <<"name", a>> \/ k = <<"roles", a>>
         \/ \E r \in CustomRoles : k = <<"role", r>> \/ k = <<"perms", r>>
  BY DEF FactKeys

\* An event is about no fact.
LEMMA EventIsNoFact ==
  ASSUME NEW x
  PROVE  <<"event", x>> \notin FactKeys /\ <<"none", x>> \notin FactKeys
  BY DEF FactKeys

-----------------------------------------------------------------------------
(* What a step leaves to the requests that do not take it.                 *)

AccountsKept ==
    \A a \in Admins : Exists(a) =>
      /\ admin'[a] # Nobody
      /\ admin'[a].version >= admin[a].version
      /\ admin'[a].version = admin[a].version =>
           admin'[a].pw = admin[a].pw /\ (admin[a].status = "active" => admin'[a].status = "active")

RolesKept == \A r \in CustomRoles : role[r] # Nobody => role'[r] # Nobody

SessionsKept ==
    \A s \in AdminSessions : session[s] # Nobody =>
      /\ session'[s] # Nobody
      /\ session'[s].admin = session[s].admin /\ session'[s].version = session[s].version
      /\ session'[s].pw = session[s].pw
      /\ session[s].revoked => session'[s].revoked
      /\ session[s].expired => session'[s].expired

\* The rows that x holds.
HeldKept(x) ==
    /\ \A a \in Admins : a \in Locks(x) /\ Exists(a) => admin'[a] = admin[a]
    /\ \A r \in CustomRoles : r \in Locks(x) /\ role[r] # Nobody => role'[r] = role[r]
    /\ Super \in Locks(x) => ActiveSuperadmins \subseteq ActiveSuperadmins'

\* A request past its check goes on as if nothing had happened.
LEMMA CheckedStays ==
  ASSUME AccountsKept, RolesKept, SessionsKept, NEW x, CheckedInv(x), HeldKept(x)
  PROVE  CheckedInv(x)'
  <1>1. x.actor \in Admins /\ Exists(x.actor)' /\ AskedFor(x)
    BY DEF CheckedInv, AccountsKept, Exists
  <1>2. CASE x.op \in {"disable", "setRoles", "enable", "rename", "reset", "forceLogout"}
    <2>1. x.on \in Admins /\ x.on \in Locks(x)
      BY <1>2, LocksOf, OperationCases DEF CheckedInv
    <2>2. Exists(x.on)
      BY <1>2 DEF CheckedInv, Accepted, MayDisable, MaySetRoles
    <2>3. admin'[x.on] = admin[x.on] /\ Exists(x.on)'
      BY <2>1, <2>2 DEF HeldKept, Exists
    <2>4. IsSuperadmin(x.on)' = IsSuperadmin(x.on)
      BY <2>2, <2>3 DEF IsSuperadmin
    <2>5. MayOperateOn(x.perms, x.on) => MayOperateOn(x.perms, x.on)'
      BY <2>4 DEF MayOperateOn
    <2>6. ReadTrue(x)'
      <3>1. x.before = Fact(Key(x))
        BY <1>2 DEF CheckedInv, ReadTrue
      <3>2. Fact(Key(x))' = Fact(Key(x))
        BY <1>2, <2>2, <2>3, Keys, Facts DEF Key, Fact, Exists
      <3> QED
        BY <3>1, <3>2 DEF ReadTrue
    <2>7. x.op \in {"disable", "setRoles"} => (KeepsSuperadmin(x.on) => KeepsSuperadmin(x.on)')
      <3>1. ASSUME x.op \in {"disable", "setRoles"}
            PROVE  ActiveSuperadmins \subseteq ActiveSuperadmins' /\ (x.on \in ActiveSuperadmins' => x.on \in ActiveSuperadmins)
        BY <2>1, <2>2, <2>3, <2>4, <3>1, LocksOf DEF HeldKept, ActiveSuperadmins
      <3> QED
        BY <3>1 DEF KeepsSuperadmin
    <2>8. Accepted(x)'
      <3>1. CASE x.op = "disable"
        BY <2>2, <2>3, <2>5, <2>7, <3>1 DEF CheckedInv, Accepted, MayDisable, Exists
      <3>2. CASE x.op = "setRoles"
        <4>1. \A r \in x.arg \ {Super} : role[r] # Nobody => role'[r] # Nobody
          BY <3>2, OperationCases DEF CheckedInv, RolesKept
        <4> QED
          BY <2>3, <2>4, <2>7, <3>2, <4>1 DEF CheckedInv, Accepted, MaySetRoles
      <3>3. CASE x.op \in {"enable", "rename"}
        BY <2>3, <3>3 DEF Accepted
      <3>4. CASE x.op \in {"reset", "forceLogout"}
        BY <2>3, <2>5, <3>4 DEF CheckedInv, Accepted
      <3> QED
        BY <1>2, <3>1, <3>2, <3>3, <3>4
    <2> QED
      BY <1>1, <2>3, <2>6, <2>8 DEF CheckedInv, AskedFor
  <1>3. CASE x.op \in {"updateRole", "setPermissions"}
    <2>1. x.on \in CustomRoles /\ x.on \in Locks(x) /\ role[x.on] # Nobody
      BY <1>3, LocksOf, OperationCases DEF CheckedInv, Accepted, MayEditRole
    <2>2. role'[x.on] = role[x.on]
      BY <2>1 DEF HeldKept
    <2>3. ReadTrue(x)'
      BY <1>3, <2>1, <2>2 DEF CheckedInv, ReadTrue, Key, Fact
    <2> QED
      BY <1>1, <1>3, <2>1, <2>2, <2>3 DEF CheckedInv, Accepted, MayEditRole, AskedFor
  <1>4. CASE x.op = "create"
    <2>1. x.on \in Admins
      BY <1>4, OperationCases DEF CheckedInv
    <2>2. Exists(x.on) => Exists(x.on)'
      BY <2>1 DEF AccountsKept, Exists
    <2>3. ReadTrue(x)'
      BY <1>4, <2>2 DEF CheckedInv, ReadTrue, Key, Fact
    <2> QED
      BY <1>1, <1>4, <2>3 DEF CheckedInv, Accepted, AskedFor
  <1>5. CASE x.op = "createRole"
    <2>1. role[x.on] # Nobody => role'[x.on] # Nobody
      BY <1>5, OperationCases DEF CheckedInv, RolesKept
    <2>3. ReadTrue(x)'
      BY <1>5, <2>1 DEF CheckedInv, ReadTrue, Key, Fact
    <2> QED
      BY <1>1, <1>5, <2>3 DEF CheckedInv, Accepted, AskedFor
  <1>6. CASE x.op = "revoke"
    <2>1. session'[x.on] # Nobody
      BY <1>6, OperationCases DEF CheckedInv, Accepted, SessionsKept
    <2>3. ReadTrue(x)'
      BY <1>6 DEF CheckedInv, ReadTrue, Key, Fact
    <2> QED
      BY <1>1, <1>6, <2>1, <2>3 DEF CheckedInv, Accepted, AskedFor
  <1> QED
    BY <1>2, <1>3, <1>4, <1>5, <1>6, OperationCases DEF CheckedInv

\* So does a login and a session, as far as they are still of the present version.
LEMMA CurrentStays ==
  ASSUME RowsOK, RowsOK', AccountsKept, NEW a \in Admins, NEW v \in Nat, NEW pw, Current(a, v, pw)
  PROVE  Current(a, v, pw)'
  <1>1. admin[a] # Nobody /\ admin'[a] # Nobody /\ admin'[a].version >= admin[a].version
    BY DEF Current, Exists, AccountsKept
  <1>2. admin[a].version \in Nat /\ admin'[a].version \in Nat
    BY <1>1 DEF RowsOK, AdminRow
  <1>3. v <= admin'[a].version /\ (v = admin'[a].version => v = admin[a].version /\ admin'[a].version = admin[a].version)
    BY <1>1, <1>2 DEF Current
  <1> QED
    BY <1>1, <1>3 DEF Current, Exists, AccountsKept

LEMMA SessionStays ==
  ASSUME RowsOK, RowsOK', AccountsKept, SessionsKept, NEW s \in AdminSessions, SessionInv(s), session[s] # Nobody
  PROVE  SessionInv(s)'
  <1>1. session[s].admin \in Admins /\ session[s].version \in Nat /\ session[s].pw \in Passwords
    BY DEF RowsOK, SessionRow
  <1>2. PICK a \in Admins, v \in Nat, pw \in Passwords : a = session[s].admin /\ v = session[s].version /\ pw = session[s].pw
    BY <1>1
  <1>3. Current(a, v, pw)'
    BY <1>2, CurrentStays DEF SessionInv
  <1>4. session'[s].admin = a /\ session'[s].version = v /\ session'[s].pw = pw
    BY <1>2 DEF SessionsKept
  <1> QED
    BY <1>3, <1>4 DEF SessionInv

\* What a request knows stays true through the steps of others.
LEMMA RequestStays ==
  ASSUME RowsOK, RowsOK', AccountsKept, RolesKept, SessionsKept,
         NEW x, RequestInv(x), x.step = "checked" => HeldKept(x)
  PROVE  RequestInv(x)'
  <1>1. x.step = "login" => LoginInv(x)'
    BY CurrentStays DEF RequestInv, LoginInv
  <1>2. x.step = "ready" => ReadyInv(x)'
    BY DEF RequestInv, ReadyInv, AccountsKept, SessionsKept, Exists
  <1>3. x.step = "checked" => CheckedInv(x)'
    BY CheckedStays DEF RequestInv
  <1> QED
    BY <1>1, <1>2, <1>3 DEF RequestInv

-----------------------------------------------------------------------------
(* What every step has to show.                                            *)

\* A request's new state, beside the locks of the others.
Fresh(q) ==
    /\ RequestInv(request[q])
    /\ request[q].step = "checked" => Locks(request[q]) \cap LockedByOthers(q) = {}

OthersKept(q) ==
    \A p \in AdminRequests \ {q} :
        request'[p] = request[p] /\ (p \in Checked => HeldKept(request[p]))

\* Facts change with an audit row that tells of them, but for a new account's name.
Told ==
    \A k \in FactKeys :
        LET told == audit' # audit /\ audit'.key = k
        IN  /\ told => audit'.before = Fact(k) /\ audit'.after = Fact(k)'
            /\ Fact(k)' # Fact(k) /\ (k[1] = "name" => Exists(k[2])) => told

Protected ==
    \A a \in Admins :
        IsSuperadmin(a) /\ (admin'[a].version # admin[a].version \/ admin'[a].pw # admin[a].pw
                            \/ Super \notin admin'[a].roles) =>
          \E q \in AdminRequests :
             /\ request[q].step # "idle" /\ request'[q].step = "idle"
             /\ Wildcard \in request[q].perms \/ request[q].actor = a

EndedStay ==
    \A s \in AdminSessions :
        session[s] # Nobody /\ ~Resolvable(s) /\ session[s].seen # "idle" => ~Resolvable(s)'

StepOK ==
    /\ RowsOK' /\ AccountsKept /\ RolesKept /\ SessionsKept
    /\ \A a \in Admins : AccountInv(a)'
    /\ ActiveSuperadmins' # {}
    /\ \A s \in AdminSessions : session[s] = Nobody => SessionInv(s)'
    /\ \E q : OthersKept(q) /\ (q \in AdminRequests => Fresh(q)')
    /\ AuditInv' /\ Told /\ Protected

\* A session that ended has a version the account is past, or is marked.
LEMMA EndedSessionsStay ==
  ASSUME RowsOK, RowsOK', AccountsKept, SessionsKept, NEW s \in AdminSessions, SessionInv(s),
         session[s] # Nobody, ~Resolvable(s), session[s].seen # "idle"
  PROVE  ~Resolvable(s)'
  <1>1. session[s] \in SessionRow /\ session[s].admin \in Admins /\ session[s].version \in Nat
    BY DEF RowsOK, SessionRow
  <1>2. PICK a \in Admins : a = session[s].admin
    BY <1>1
  <1>3. admin[a] # Nobody /\ admin'[a] # Nobody /\ session[s].version <= admin[a].version
        /\ (session[s].version = admin[a].version => admin[a].status = "active")
    BY <1>2 DEF SessionInv, Current, Exists, AccountsKept
  <1>4. admin[a].version \in Nat /\ admin'[a].version \in Nat /\ admin'[a].version >= admin[a].version
    BY <1>3 DEF RowsOK, AdminRow, AccountsKept, Exists
  <1>5. session'[s].admin = a /\ session'[s].version = session[s].version
    BY <1>2 DEF SessionsKept
  <1>6. CASE session[s].revoked \/ session[s].expired
    BY <1>6 DEF SessionsKept, Resolvable
  <1>7. CASE session[s].version # admin[a].version
    <2>1. session'[s].version # admin'[a].version
      BY <1>1, <1>3, <1>4, <1>5, <1>7
    <2> QED
      BY <1>5, <2>1 DEF Resolvable
  <1> QED
    BY <1>2, <1>3, <1>6, <1>7 DEF Resolvable

LEMMA StepKeeps ==
  ASSUME AdminInv, StepOK
  PROVE  AdminInv' /\ EndedStay
  <1>1. PICK q : OthersKept(q) /\ (q \in AdminRequests => Fresh(q)')
    BY DEF StepOK
  <1>2. \A s \in AdminSessions : SessionInv(s)'
    BY SessionStays DEF AdminInv, StepOK
  <1>3. ASSUME NEW p \in AdminRequests
        PROVE  RequestInv(request[p])'
    <2>1. CASE p = q
      BY <1>1, <2>1 DEF Fresh
    <2>2. CASE p # q
      <3>1. request'[p] = request[p] /\ (p \in Checked => HeldKept(request[p]))
        BY <1>1, <2>2 DEF OthersKept
      <3>2. PICK x : x = request[p]
        OBVIOUS
      <3>3. RequestInv(x) /\ (x.step = "checked" => HeldKept(x))
        BY <3>1, <3>2 DEF AdminInv, Checked
      <3>4. RequestInv(x)'
        BY <3>3, RequestStays DEF AdminInv, StepOK
      <3> QED
        BY <3>1, <3>2, <3>4
    <2> QED
      BY <2>1, <2>2
  <1>4. LocksApart'
    <2>1. \A p \in AdminRequests \ {q} : request'[p] = request[p]
      BY <1>1 DEF OthersKept
    <2>2. ASSUME NEW p \in Checked', NEW r \in Checked', p # r, p # q, r # q
          PROVE  Locks(request'[p]) \cap Locks(request'[r]) = {}
      <3>1. p \in Checked /\ r \in Checked /\ request'[p] = request[p] /\ request'[r] = request[r]
        BY <2>1, <2>2 DEF Checked
      <3> QED
        BY <2>2, <3>1 DEF AdminInv, LocksApart
    <2>3. ASSUME NEW p \in Checked', p # q, q \in Checked'
          PROVE  Locks(request'[p]) \cap Locks(request'[q]) = {}
      <3>1. Locks(request'[q]) \cap LockedByOthers(q)' = {}
        BY <1>1, <2>3 DEF Fresh, Checked, Locks
      <3>2. Locks(request'[p]) \subseteq LockedByOthers(q)'
        BY <2>3 DEF LockedByOthers, Locks
      <3> QED
        BY <3>1, <3>2
    <2>4. \A p, r \in Checked' : p # r => Locks(request'[p]) \cap Locks(request'[r]) = {}
      BY <2>2, <2>3
    <2> QED
      BY <2>4 DEF LocksApart, Locks
  <1>5. EndedStay
    BY EndedSessionsStay DEF AdminInv, StepOK, EndedStay
  <1> QED
    BY <1>2, <1>3, <1>4, <1>5 DEF AdminInv, StepOK

-----------------------------------------------------------------------------
(* Steps that change no account and no role.                               *)

RowsUntouched == UNCHANGED <<admin, role>>

LEMMA UntouchedKeeps ==
  ASSUME AdminInv, RowsUntouched, changes' \in Nat, changes' >= changes
  PROVE  /\ AccountsKept /\ RolesKept /\ Protected /\ ActiveSuperadmins' # {}
         /\ \A x : HeldKept(x)
         /\ \A a \in Admins : AccountInv(a)'
         /\ \A k : Fact(k)' = Fact(k)
  <1>1. admin' = admin /\ role' = role
    BY DEF RowsUntouched
  <1>2. \A a \in Admins : Exists(a)' = Exists(a) /\ IsSuperadmin(a)' = IsSuperadmin(a)
    BY <1>1 DEF Exists, IsSuperadmin
  <1>3. ActiveSuperadmins' = ActiveSuperadmins
    BY <1>1, <1>2 DEF ActiveSuperadmins
  <1>4. \A k : Fact(k)' = Fact(k)
    BY <1>1 DEF Fact, Exists
  <1>5. AccountsKept
    <2>1. ASSUME NEW a \in Admins, Exists(a) PROVE admin[a].version >= admin[a].version
      BY <2>1 DEF AdminInv, RowsOK, AdminRow, Exists
    <2> QED
      BY <1>1, <2>1 DEF AccountsKept, Exists
  <1>6. ASSUME NEW a \in Admins PROVE AccountInv(a)'
    <2>1. AccountInv(a) /\ (Exists(a) => admin[a].version \in Nat) /\ changes \in Nat
      BY DEF AdminInv, RowsOK, AdminRow, Exists
    <2> QED
      BY <1>1, <2>1 DEF AccountInv, Exists
  <1>7. \A x : HeldKept(x)
    BY <1>1, <1>3 DEF HeldKept
  <1>8. Protected
    BY <1>1 DEF Protected, IsSuperadmin
  <1> QED
    BY <1>1, <1>3, <1>4, <1>5, <1>6, <1>7, <1>8 DEF RolesKept, AdminInv

\* Without an audit row, a fact stays.
LEMMA SilentStep ==
  ASSUME AuditInv, audit' = audit, \A k \in FactKeys : Fact(k)' = Fact(k)
  PROVE  AuditInv' /\ Told
  <1>1. PICK k : k = audit.key
    OBVIOUS
  <1>2. k \in FactKeys => Fact(k)' = audit.after
    BY <1>1 DEF AuditInv
  <1>3. AuditInv'
    BY <1>1, <1>2 DEF AuditInv, FactKeys, Fact
  <1> QED
    BY <1>3 DEF Told

\* An audit row that tells of the only fact that changes.
LEMMA ToldStep ==
  ASSUME AuditInv, NEW K, NEW B, NEW A, audit' = [key |-> K, before |-> B, after |-> A],
         K \in FactKeys => B = Fact(K) /\ A = Fact(K)',
         \A k \in FactKeys : k # K /\ Fact(k)' # Fact(k) => k[1] = "name" /\ ~Exists(k[2])
  PROVE  AuditInv' /\ Told
  <1>1. audit'.key = K /\ audit'.before = B /\ audit'.after = A
    OBVIOUS
  <1>2. AuditInv'
    BY <1>1 DEF AuditInv, FactKeys
  <1>3. ASSUME NEW k \in FactKeys, audit'.key = k
        PROVE  audit'.before = Fact(k) /\ audit'.after = Fact(k)'
    BY <1>1, <1>3
  <1>4. ASSUME NEW k \in FactKeys, Fact(k)' # Fact(k), k[1] = "name" => Exists(k[2])
        PROVE  audit' # audit /\ audit'.key = k
    <2>1. k = K
      BY <1>4
    <2>2. audit' = audit => audit.key = K /\ audit.after = A
      BY <1>1
    <2>3. audit' # audit
      BY <1>4, <2>1, <2>2 DEF AuditInv
    <2> QED
      BY <1>1, <2>1, <2>3
  <1> QED
    BY <1>2, <1>3, <1>4 DEF Told

\* A request moves, and only it.
LEMMA RequestMoves ==
  ASSUME RowsOK, NEW q \in AdminRequests, NEW y, request' = [request EXCEPT ![q] = y]
  PROVE  /\ request'[q] = y /\ \A p \in AdminRequests \ {q} : request'[p] = request[p]
         /\ request' = [p \in AdminRequests |-> request'[p]]
  BY DEF RowsOK

LEMMA RequestWaits ==
  ASSUME RowsOK, NEW q \in AdminRequests, request' = [request EXCEPT ![q] = Waiting]
  PROVE  /\ request'[q].step = "idle" /\ \A p \in AdminRequests \ {q} : request'[p] = request[p]
         /\ request' = [p \in AdminRequests |-> request'[p]]
         /\ Fresh(q)'
  <1>1. /\ request'[q] = Waiting
        /\ \A p \in AdminRequests \ {q} : request'[p] = request[p]
        /\ request' = [p \in AdminRequests |-> request'[p]]
    BY RequestMoves
  <1>2. request'[q].step = "idle"
    BY <1>1 DEF Waiting
  <1>3. Fresh(q)'
    BY <1>2 DEF Fresh, RequestInv
  <1> QED
    BY <1>1, <1>2, <1>3

\* A step of one request, or of none, that changes no account and no role.
LEMMA QuietStep ==
  ASSUME AdminInv, RowsUntouched, SessionsKept, NEW q,
         session' \in [AdminSessions -> SessionRow \cup {Nobody}],
         \A s \in AdminSessions : session[s] = Nobody => SessionInv(s)',
         changes' \in Nat, changes' >= changes,
         request' = [p \in AdminRequests |-> request'[p]],
         \A p \in AdminRequests \ {q} : request'[p] = request[p],
         q \in AdminRequests => Fresh(q)',
         \/ audit' = audit
         \/ \E K, B, A : audit' = [key |-> K, before |-> B, after |-> A] /\ (K \in FactKeys => B = Fact(K) /\ A = B)
  PROVE  StepOK
  <1>1. /\ AccountsKept /\ RolesKept /\ Protected /\ ActiveSuperadmins' # {}
        /\ \A x : HeldKept(x)
        /\ \A a \in Admins : AccountInv(a)'
        /\ \A k : Fact(k)' = Fact(k)
    BY UntouchedKeeps
  <1>2. RowsOK'
    BY DEF AdminInv, RowsOK, RowsUntouched
  <1>3. OthersKept(q)
    BY <1>1 DEF OthersKept
  <1>4. AuditInv' /\ Told
    <2>1. CASE audit' = audit
      BY <1>1, <2>1, SilentStep DEF AdminInv
    <2>2. ASSUME NEW K, NEW B, NEW A,
                 audit' = [key |-> K, before |-> B, after |-> A], K \in FactKeys => B = Fact(K) /\ A = B
          PROVE  AuditInv' /\ Told
      BY <1>1, <2>2, ToldStep DEF AdminInv
    <2> QED
      BY <2>1, <2>2
  <1> QED
    BY <1>1, <1>2, <1>3, <1>4 DEF StepOK

\* A session row written over keeps what it was opened with.
LEMMA SessionTouched ==
  ASSUME RowsOK, NEW s \in AdminSessions, session[s] # Nobody, NEW row \in SessionRow,
         row.admin = session[s].admin, row.version = session[s].version, row.pw = session[s].pw,
         session[s].revoked => row.revoked, session[s].expired => row.expired,
         session' = [session EXCEPT ![s] = row]
  PROVE  /\ SessionsKept /\ session' \in [AdminSessions -> SessionRow \cup {Nobody}]
         /\ \A t \in AdminSessions : session[t] = Nobody => SessionInv(t)'
  <1>1. /\ session' \in [AdminSessions -> SessionRow \cup {Nobody}]
        /\ session'[s] = row /\ \A t \in AdminSessions \ {s} : session'[t] = session[t]
    BY DEF RowsOK
  <1>2. row # Nobody
    BY AdminAssumption
  <1> QED
    BY <1>1, <1>2 DEF SessionsKept, SessionInv

LEMMA SameSessions ==
  ASSUME RowsOK, session' = session
  PROVE  /\ SessionsKept /\ session' \in [AdminSessions -> SessionRow \cup {Nobody}]
         /\ \A t \in AdminSessions : session[t] = Nobody => SessionInv(t)'
  BY DEF RowsOK, SessionsKept, SessionInv

\* Time, for a session.
LEMMA ClockStep ==
  ASSUME AdminInv, NEW s \in AdminSessions, SessionAges(s) \/ SessionExpires(s)
  PROVE  StepOK
  <1>1. /\ session[s] # Nobody /\ UNCHANGED <<admin, role, request, audit, changes>>
        /\ RowsOK /\ session[s] \in SessionRow
    BY DEF SessionAges, SessionExpires, AdminInv, RowsOK
  <1>2. PICK row : /\ session' = [session EXCEPT ![s] = row] /\ row \in SessionRow
                   /\ row.admin = session[s].admin /\ row.version = session[s].version /\ row.pw = session[s].pw
                   /\ session[s].revoked => row.revoked
                   /\ session[s].expired => row.expired
    <2>1. CASE SessionAges(s)
      <3>1. PICK v \in {"stale", "idle"} : session' = [session EXCEPT ![s].seen = v]
        BY <2>1 DEF SessionAges
      <3> WITNESS [session[s] EXCEPT !.seen = v]
      <3> QED
        BY <1>1, <3>1 DEF SessionRow
    <2>2. CASE SessionExpires(s)
      <3> WITNESS [session[s] EXCEPT !.expired = TRUE]
      <3> QED
        BY <1>1, <2>2 DEF SessionExpires, SessionRow
    <2> QED
      BY <2>1, <2>2
  <1>3. /\ SessionsKept /\ session' \in [AdminSessions -> SessionRow \cup {Nobody}]
        /\ \A t \in AdminSessions : session[t] = Nobody => SessionInv(t)'
    BY <1>1, <1>2, SessionTouched
  <1>4. PICK q : q \notin AdminRequests
    <2>1. PICK q : q = {x \in AdminRequests : x \notin x}
      OBVIOUS
    <2> QED
      BY <2>1
  <1>5. changes' \in Nat /\ changes' >= changes /\ request' = [p \in AdminRequests |-> request'[p]]
    BY <1>1 DEF RowsOK
  <1> QED
    BY <1>1, <1>3, <1>4, <1>5, QuietStep DEF RowsUntouched

\* A request that ends, with or without having looked at anything.
LEMMA EndStep ==
  ASSUME AdminInv, NEW q \in AdminRequests, RequestEnds(q)
  PROVE  StepOK
  <1>1. RowsOK /\ request' = [request EXCEPT ![q] = Waiting] /\ UNCHANGED <<admin, role, session, audit, changes>>
    BY DEF RequestEnds, AdminInv
  <1>2. changes' \in Nat /\ changes' >= changes
    BY <1>1 DEF RowsOK
  <1> QED
    BY <1>1, <1>2, RequestWaits, SameSessions, QuietStep DEF RowsUntouched

\* A logout.
LEMMA LogoutStep ==
  ASSUME AdminInv, NEW q \in AdminRequests, Logout(q)
  PROVE  StepOK
  <1>1. /\ RowsOK /\ request[q].step = "ready"
        /\ request' = [request EXCEPT ![q] = Waiting] /\ UNCHANGED <<admin, role, audit, changes>>
    BY DEF Logout, AdminInv
  <1>2. PICK s \in AdminSessions : s = request[q].session /\ session[s] # Nobody
    BY <1>1 DEF AdminInv, RequestInv, ReadyInv
  <1>3. PICK row : row = [session[s] EXCEPT !.revoked = TRUE]
    OBVIOUS
  <1>4. /\ session' = [session EXCEPT ![s] = row] /\ row \in SessionRow
        /\ row.admin = session[s].admin /\ row.version = session[s].version /\ row.pw = session[s].pw
        /\ session[s].revoked => row.revoked
        /\ session[s].expired => row.expired
    <2>1. session' = [session EXCEPT ![s] = row]
      BY <1>2, <1>3 DEF Logout
    <2>2. session[s] \in SessionRow
      BY <1>1, <1>2 DEF RowsOK
    <2> QED
      BY <1>3, <2>1, <2>2 DEF SessionRow
  <1>5. /\ SessionsKept /\ session' \in [AdminSessions -> SessionRow \cup {Nobody}]
        /\ \A t \in AdminSessions : session[t] = Nobody => SessionInv(t)'
    BY <1>1, <1>2, <1>4, SessionTouched
  <1>6. changes' \in Nat /\ changes' >= changes
    BY <1>1 DEF RowsOK
  <1> QED
    BY <1>1, <1>5, <1>6, RequestWaits, QuietStep DEF RowsUntouched

\* A login that has read the account, and its session.
LEMMA LoginStep ==
  ASSUME AdminInv, NEW q \in AdminRequests
  PROVE  /\ \A a \in Admins : LoginRead(q, a) => StepOK
         /\ \A s \in AdminSessions : LoginCommit(q, s) => StepOK
  <1>1. RowsOK
    BY DEF AdminInv
  <1>2. ASSUME NEW a \in Admins, LoginRead(q, a)
        PROVE  StepOK
    <2>1. PICK y : y = [step |-> "login", actor |-> a, version |-> admin[a].version, pw |-> admin[a].pw]
      OBVIOUS
    <2>2. /\ Exists(a) /\ admin[a].status = "active" /\ request' = [request EXCEPT ![q] = y]
          /\ UNCHANGED <<admin, role, session, audit, changes>>
      BY <1>2, <2>1 DEF LoginRead
    <2>3. admin[a].version \in Nat /\ admin[a].pw \in Passwords
      BY <1>1, <2>2 DEF RowsOK, AdminRow, Exists
    <2>4. y.step = "login" /\ y.actor = a /\ y.version = admin'[a].version /\ y.pw = admin'[a].pw
      BY <2>1, <2>2
    <2>5. RequestInv(y)'
      BY <2>2, <2>3, <2>4 DEF RequestInv, LoginInv, Current, Exists
    <2>6. request'[q] = y
      BY <1>1, <2>2, RequestMoves
    <2>7. Fresh(q)'
      BY <2>4, <2>5, <2>6 DEF Fresh
    <2>8. changes' \in Nat /\ changes' >= changes
      BY <1>1, <2>2 DEF RowsOK
    <2> QED
      BY <1>1, <2>2, <2>7, <2>8, RequestMoves, SameSessions, QuietStep DEF RowsUntouched
  <1>3. ASSUME NEW s \in AdminSessions, LoginCommit(q, s)
        PROVE  StepOK
    <2>1. PICK x : x = request[q]
      OBVIOUS
    <2>2. PICK row : row = [admin |-> x.actor, version |-> x.version, pw |-> x.pw,
                            revoked |-> FALSE, expired |-> FALSE, seen |-> "fresh"]
      OBVIOUS
    <2>3. /\ x.step = "login" /\ session[s] = Nobody /\ session' = [session EXCEPT ![s] = row]
          /\ request' = [request EXCEPT ![q] = Waiting] /\ UNCHANGED <<admin, role, audit, changes>>
      BY <1>3, <2>1, <2>2 DEF LoginCommit
    <2>4. LoginInv(x)
      BY <2>1, <2>3 DEF AdminInv, RequestInv
    <2>5. row \in SessionRow /\ row.admin = x.actor /\ row.version = x.version /\ row.pw = x.pw
      BY <2>2, <2>4 DEF LoginInv, SessionRow
    <2>6. /\ session' \in [AdminSessions -> SessionRow \cup {Nobody}]
          /\ session'[s] = row /\ \A t \in AdminSessions \ {s} : session'[t] = session[t]
      BY <1>1, <2>3, <2>5 DEF RowsOK
    <2>7. Current(x.actor, x.version, x.pw)'
      BY <2>3, <2>4 DEF LoginInv, Current, Exists
    <2>8. \A t \in AdminSessions : session[t] = Nobody => SessionInv(t)'
      BY <2>5, <2>6, <2>7 DEF SessionInv
    <2>9. SessionsKept
      BY <2>3, <2>6 DEF SessionsKept
    <2>10. changes' \in Nat /\ changes' >= changes
      BY <1>1, <2>3 DEF RowsOK
    <2> QED
      BY <1>1, <2>3, <2>6, <2>8, <2>9, <2>10, RequestWaits, QuietStep DEF RowsUntouched
  <1> QED
    BY <1>2, <1>3

\* A request resolved to its session's account.
LEMMA ResolveStep ==
  ASSUME AdminInv, NEW q \in AdminRequests, NEW s \in AdminSessions, ResolveSession(q, s)
  PROVE  StepOK
  <1>1. PICK y : y = [step |-> "ready", actor |-> session[s].admin, session |-> s,
                      perms |-> PermissionsOf(session[s].admin), pw |-> admin[session[s].admin].pw]
    OBVIOUS
  <1>2. PICK row : row = [session[s] EXCEPT !.seen = "fresh"]
    OBVIOUS
  <1>3. /\ RowsOK /\ session[s] # Nobody /\ request' = [request EXCEPT ![q] = y]
        /\ session' = [session EXCEPT ![s] = row]
        /\ UNCHANGED <<admin, role, audit, changes>>
    BY <1>1, <1>2 DEF ResolveSession, Resolvable, AdminInv, RowsOK
  <1>4. session[s] \in SessionRow /\ session[s].admin \in Admins /\ Exists(session[s].admin)
    BY <1>3 DEF AdminInv, RowsOK, SessionRow, SessionInv, Current
  <1>5. /\ row \in SessionRow
        /\ row.admin = session[s].admin /\ row.version = session[s].version /\ row.pw = session[s].pw
        /\ session[s].revoked => row.revoked
        /\ session[s].expired => row.expired
    BY <1>2, <1>4 DEF SessionRow
  <1>6. /\ SessionsKept /\ session' \in [AdminSessions -> SessionRow \cup {Nobody}]
        /\ \A t \in AdminSessions : session[t] = Nobody => SessionInv(t)'
    BY <1>3, <1>5, SessionTouched
  <1>7. y.step = "ready" /\ y.actor = session[s].admin /\ y.session = s
    BY <1>1
  <1>8. RequestInv(y)'
    BY <1>3, <1>4, <1>6, <1>7 DEF RequestInv, ReadyInv, Exists, SessionsKept
  <1>9. Fresh(q)'
    BY <1>3, <1>7, <1>8, RequestMoves DEF Fresh
  <1>10. changes' \in Nat /\ changes' >= changes
    BY <1>3 DEF RowsOK
  <1> QED
    BY <1>3, <1>6, <1>9, <1>10, RequestMoves, QuietStep DEF RowsUntouched

\* The first half of an operation: its locks, what it read under them, and that it may go on.
LEMMA CheckStep ==
  ASSUME AdminInv, NEW q \in AdminRequests, NEW o \in Operations, Check(q, o)
  PROVE  StepOK
  <1>1. PICK x : x = [op |-> o.op, on |-> o.on, arg |-> o.arg, step |-> "checked",
                      actor |-> request[q].actor, perms |-> request[q].perms, before |-> Fact(Key(o))]
    OBVIOUS
  <1>2. /\ x.op = o.op /\ x.on = o.on /\ x.arg = o.arg /\ x.step = "checked"
        /\ x.actor = request[q].actor /\ x.before = Fact(Key(o))
    BY <1>1
  <1>3. /\ RowsOK /\ request[q].step = "ready" /\ changes < MaxChanges /\ Locks(x) \cap Locked = {} /\ Accepted(x)
        /\ request' = [request EXCEPT ![q] = x] /\ UNCHANGED <<admin, role, session, audit, changes>>
    BY <1>1 DEF Check, AdminInv
  <1>4. AskedFor(x)
    <2>1. \/ \E op, on, arg : o = [op |-> op, on |-> on, arg |-> arg]
      BY DEF Operations, UserOperations, RoleOperations, SessionOperations
    <2>2. o = [op |-> o.op, on |-> o.on, arg |-> o.arg]
      BY <2>1
    <2> QED
      BY <1>2, <2>2 DEF AskedFor
  <1>5. ReadTrue(x)
    BY <1>2 DEF ReadTrue, Key
  <1>6. ASSUME x.op \in {"disable", "reset", "forceLogout"}
        PROVE  admin[x.on].version < MaxChanges
    <2>1. x.on \in Admins /\ Exists(x.on)
      BY <1>3, <1>4, <1>6, OperationCases DEF Accepted, MayDisable
    <2>2. admin[x.on].version \in Nat /\ admin[x.on].version <= changes /\ changes \in Nat
      BY <1>3, <2>1 DEF AdminInv, AccountInv, RowsOK, AdminRow, Exists
    <2> QED
      BY <1>3, <2>2, AdminAssumption
  <1>7. CheckedInv(x)
    BY <1>2, <1>3, <1>4, <1>5, <1>6 DEF CheckedInv, AdminInv, RequestInv, ReadyInv
  <1>8. RequestInv(x)'
    <2>1. RequestInv(x) /\ x.step = "checked"
      BY <1>2, <1>7 DEF RequestInv
    <2>2. AccountsKept /\ RolesKept /\ HeldKept(x)
      BY <1>3, UntouchedKeeps DEF RowsUntouched, RowsOK
    <2>3. RowsOK'
      BY <1>3, RequestMoves DEF RowsOK
    <2> QED
      BY <1>3, <2>1, <2>2, <2>3, RequestStays, SameSessions
  <1>9. request'[q] = x /\ \A p \in AdminRequests \ {q} : request'[p] = request[p]
    BY <1>3, RequestMoves
  <1>10. Fresh(q)'
    <2>1. LockedByOthers(q)' \subseteq Locked
      BY <1>9 DEF LockedByOthers, Locked, Checked, Locks
    <2>2. Locks(x)' = Locks(x)
      BY DEF Locks
    <2> QED
      BY <1>3, <1>8, <1>9, <2>1, <2>2 DEF Fresh, Locks
  <1>11. changes' \in Nat /\ changes' >= changes
    BY <1>3 DEF RowsOK
  <1> QED
    BY <1>3, <1>9, <1>10, <1>11, RequestMoves, SameSessions, QuietStep DEF RowsUntouched

-----------------------------------------------------------------------------
(* Commits.                                                                *)

\* What every commit does beside its change.
LEMMA CommitFrame ==
  ASSUME AdminInv, NEW q \in AdminRequests, NEW x, NEW after, WithAuditTx(q, x, after)
  PROVE  /\ request' = [request EXCEPT ![q] = Waiting]
         /\ audit' = [key |-> Key(x), before |-> x.before, after |-> after]
         /\ changes' = changes + 1 /\ changes' \in Nat /\ changes' >= changes
  BY DEF WithAuditTx, AdminInv, RowsOK

\* A commit that writes no account and no role: a session revoked, or an account disabled already.
LEMMA QuietCommit ==
  ASSUME AdminInv, NEW q \in AdminRequests, NEW x, NEW after, WithAuditTx(q, x, after), RowsUntouched,
         SessionsKept, session' \in [AdminSessions -> SessionRow \cup {Nobody}],
         \A s \in AdminSessions : session[s] = Nobody => SessionInv(s)',
         Key(x) \in FactKeys => x.before = Fact(Key(x)) /\ after = x.before
  PROVE  StepOK
  BY CommitFrame, RequestWaits, QuietStep DEF AdminInv

LEMMA RevokeStep ==
  ASSUME AdminInv, NEW q \in AdminRequests, request[q].step = "checked", request[q].op = "revoke",
         RevokeSessionByID(q, request[q])
  PROVE  StepOK
  <1>1. PICK x : x = request[q]
    OBVIOUS
  <1>2. RowsOK /\ CheckedInv(x) /\ x.op = "revoke"
    BY <1>1 DEF AdminInv, RequestInv
  <1>3. PICK s \in AdminSessions : s = x.on /\ session[s] # Nobody
    BY <1>2, OperationCases DEF CheckedInv, Accepted
  <1>4. PICK row : row = [session[s] EXCEPT !.revoked = TRUE]
    OBVIOUS
  <1>5. session' = [session EXCEPT ![s] = row] /\ WithAuditTx(q, x, Nobody) /\ RowsUntouched
    BY <1>1, <1>3, <1>4 DEF RevokeSessionByID, RowsUntouched
  <1>6. session[s] \in SessionRow
    BY <1>2, <1>3 DEF RowsOK
  <1>7. /\ row \in SessionRow
        /\ row.admin = session[s].admin /\ row.version = session[s].version /\ row.pw = session[s].pw
        /\ session[s].revoked => row.revoked
        /\ session[s].expired => row.expired
    BY <1>4, <1>6 DEF SessionRow
  <1>8. /\ SessionsKept /\ session' \in [AdminSessions -> SessionRow \cup {Nobody}]
        /\ \A t \in AdminSessions : session[t] = Nobody => SessionInv(t)'
    BY <1>2, <1>3, <1>5, <1>7, SessionTouched
  <1>9. Key(x) \notin FactKeys
    BY <1>2, Keys, EventIsNoFact
  <1> QED
    BY <1>5, <1>8, <1>9, QuietCommit

\* How an account's row may change.
RowFollows(a, row) ==
    /\ row.version <= changes + 1 /\ row.version <= MaxChanges
    /\ \A r \in row.roles \ {Super} : role[r] # Nobody
    /\ Exists(a) =>
         /\ row.version >= admin[a].version
         /\ row.version = admin[a].version =>
              row.pw = admin[a].pw /\ (admin[a].status = "active" => row.status = "active")

\* Who holds none of the rows in L.
FreeOfOthers(q, L) == \A p \in Checked \ {q} : Locks(request[p]) \cap L = {}

\* A superadmin is left: this one, or another while nobody else may take it away.
LeavesSuperadmin(q, a, row) ==
    a \in ActiveSuperadmins =>
      \/ row.status = "active" /\ Super \in row.roles
      \/ ActiveSuperadmins \ {a} # {} /\ FreeOfOthers(q, {Super})

\* Who takes a superadmin's access away may.
Authorised(q, a, row) ==
    IsSuperadmin(a) =>
      \/ Wildcard \in request[q].perms \/ request[q].actor = a
      \/ row.version = admin[a].version /\ row.pw = admin[a].pw /\ Super \in row.roles

LEMMA OwnLocks ==
  ASSUME AdminInv, NEW q \in Checked, NEW L, L \subseteq Locks(request[q])
  PROVE  FreeOfOthers(q, L)
  BY DEF AdminInv, LocksApart, FreeOfOthers

LEMMA AccountChanged ==
  ASSUME AdminInv, NEW q \in AdminRequests, request[q].step # "idle", NEW a \in Admins, NEW row \in AdminRow,
         NEW x, NEW after, WithAuditTx(q, x, after),
         admin' = [admin EXCEPT ![a] = row], role' = role,
         SessionsKept, session' \in [AdminSessions -> SessionRow \cup {Nobody}],
         \A s \in AdminSessions : session[s] = Nobody => session'[s] = Nobody,
         RowFollows(a, row), Exists(a) => FreeOfOthers(q, {a}),
         LeavesSuperadmin(q, a, row), Authorised(q, a, row),
         Key(x) \in FactKeys => x.before = Fact(Key(x)) /\ after = Fact(Key(x))',
         \A k \in {<<"admin", a>>, <<"name", a>>, <<"roles", a>>} :
            k # Key(x) /\ Fact(k)' # Fact(k) => k[1] = "name" /\ ~Exists(a)
  PROVE  StepOK
  <1>1. /\ RowsOK
        /\ request' = [request EXCEPT ![q] = Waiting]
        /\ audit' = [key |-> Key(x), before |-> x.before, after |-> after]
        /\ changes' = changes + 1 /\ changes' \in Nat /\ changes' >= changes
    BY CommitFrame DEF AdminInv
  <1>2. /\ admin' \in [Admins -> AdminRow \cup {Nobody}]
        /\ admin'[a] = row /\ \A b \in Admins \ {a} : admin'[b] = admin[b]
    BY <1>1 DEF RowsOK
  <1>3. row # Nobody /\ row.version \in Nat
    BY AdminAssumption DEF AdminRow
  <1>4. RowsOK'
    BY <1>1, <1>2, RequestWaits DEF RowsOK
  <1>5. AccountsKept
    <2>1. ASSUME NEW b \in Admins, Exists(b) PROVE admin[b].version >= admin[b].version
      BY <1>1, <2>1 DEF RowsOK, AdminRow, Exists
    <2>2. ASSUME NEW b \in Admins, Exists(b)
          PROVE  /\ admin'[b] # Nobody
                 /\ admin'[b].version >= admin[b].version
                 /\ admin'[b].version = admin[b].version =>
                      admin'[b].pw = admin[b].pw /\ (admin[b].status = "active" => admin'[b].status = "active")
      <3>1. CASE b = a
        BY <1>2, <1>3, <2>2, <3>1 DEF RowFollows
      <3>2. CASE b # a
        BY <1>2, <2>1, <2>2, <3>2 DEF Exists
      <3> QED
        BY <3>1, <3>2
    <2> QED
      BY <2>2 DEF AccountsKept
  <1>6. RolesKept
    BY DEF RolesKept
  <1>7. ASSUME NEW b \in Admins
        PROVE  AccountInv(b)'
    <2>1. CASE b = a
      BY <1>1, <1>2, <2>1 DEF AccountInv, RowFollows
    <2>2. CASE b # a
      <3>1. AccountInv(b) /\ (Exists(b) => admin[b].version \in Nat) /\ changes \in Nat
        BY <1>1 DEF AdminInv, RowsOK, AdminRow, Exists
      <3> QED
        BY <1>1, <1>2, <2>2, <3>1 DEF AccountInv, Exists
    <2> QED
      BY <2>1, <2>2
  <1>8. \A b \in Admins \ {a} : b \in ActiveSuperadmins' <=> b \in ActiveSuperadmins
    BY <1>2 DEF ActiveSuperadmins, IsSuperadmin, Exists
  <1>9. row.status = "active" /\ Super \in row.roles => a \in ActiveSuperadmins'
    BY <1>2, <1>3 DEF ActiveSuperadmins, IsSuperadmin, Exists
  <1>10. ActiveSuperadmins \subseteq Admins /\ ActiveSuperadmins' \subseteq Admins /\ ActiveSuperadmins # {}
    BY DEF ActiveSuperadmins, AdminInv
  <1>11. ActiveSuperadmins' # {}
    BY <1>8, <1>9, <1>10 DEF LeavesSuperadmin
  <1>12. ASSUME NEW p \in Checked \ {q}
         PROVE  HeldKept(request[p])
    <2>1. \A b \in Admins : b \in Locks(request[p]) /\ Exists(b) => admin'[b] = admin[b]
      BY <1>2, <1>12 DEF FreeOfOthers
    <2>2. Super \in Locks(request[p]) => ActiveSuperadmins \subseteq ActiveSuperadmins'
      BY <1>8, <1>9, <1>10, <1>12 DEF LeavesSuperadmin, FreeOfOthers
    <2> QED
      BY <2>1, <2>2 DEF HeldKept
  <1>13. OthersKept(q) /\ Fresh(q)'
    BY <1>1, <1>12, RequestWaits DEF OthersKept
  <1>14. AuditInv' /\ Told
    <2>1. ASSUME NEW k \in FactKeys, k # Key(x), Fact(k)' # Fact(k)
          PROVE  k[1] = "name" /\ ~Exists(k[2])
      <3>1. CASE k \in {<<"admin", a>>, <<"name", a>>, <<"roles", a>>}
        <4>1. k[2] = a
          BY <3>1
        <4> QED
          BY <2>1, <3>1, <4>1
      <3>2. ASSUME NEW b \in Admins, k = <<"admin", b>> \/ k = <<"name", b>> \/ k = <<"roles", b>>, b # a
            PROVE  FALSE
        BY <1>2, <2>1, <3>2, AccountFactsStay
      <3>3. ASSUME NEW r \in CustomRoles, k = <<"role", r>> \/ k = <<"perms", r>>
            PROVE  FALSE
        BY <2>1, <3>3, RoleFactsStay
      <3> QED
        BY <3>1, <3>2, <3>3, FactKeyCases
    <2> QED
      BY <1>1, <2>1, ToldStep DEF AdminInv
  <1>15. Protected
    <2>1. ASSUME NEW b \in Admins, IsSuperadmin(b),
                 admin'[b].version # admin[b].version \/ admin'[b].pw # admin[b].pw \/ Super \notin admin'[b].roles
          PROVE  Wildcard \in request[q].perms \/ request[q].actor = b
      <3>1. b = a
        BY <1>2, <2>1 DEF IsSuperadmin
      <3> QED
        BY <1>2, <2>1, <3>1 DEF Authorised
    <2> QED
      BY <1>1, <2>1, RequestWaits DEF Protected
  <1> QED
    BY <1>4, <1>5, <1>6, <1>7, <1>11, <1>13, <1>14, <1>15, AdminAssumption DEF StepOK, SessionInv

LEMMA RoleChanged ==
  ASSUME AdminInv, NEW q \in AdminRequests, NEW r \in CustomRoles, NEW row \in RoleRow,
         NEW x, NEW after, WithAuditTx(q, x, after),
         role' = [role EXCEPT ![r] = row], UNCHANGED <<admin, session>>,
         role[r] # Nobody => FreeOfOthers(q, {r}),
         Key(x) \in FactKeys => x.before = Fact(Key(x)) /\ after = Fact(Key(x))',
         \A k \in {<<"role", r>>, <<"perms", r>>} : k # Key(x) => Fact(k)' = Fact(k)
  PROVE  StepOK
  <1>1. /\ RowsOK
        /\ request' = [request EXCEPT ![q] = Waiting]
        /\ audit' = [key |-> Key(x), before |-> x.before, after |-> after]
        /\ changes' = changes + 1 /\ changes' \in Nat /\ changes' >= changes
    BY CommitFrame DEF AdminInv
  <1>2. /\ role' \in [CustomRoles -> RoleRow \cup {Nobody}]
        /\ role'[r] = row /\ \A b \in CustomRoles \ {r} : role'[b] = role[b]
        /\ admin' = admin /\ session' = session
    BY <1>1 DEF RowsOK
  <1>3. row # Nobody
    BY AdminAssumption
  <1>4. RowsOK'
    BY <1>1, <1>2, RequestWaits DEF RowsOK
  <1>5. AccountsKept
    <2>1. ASSUME NEW b \in Admins, Exists(b) PROVE admin[b].version >= admin[b].version
      BY <1>1, <2>1 DEF RowsOK, AdminRow, Exists
    <2> QED
      BY <1>2, <2>1 DEF AccountsKept, Exists
  <1>6. RolesKept
    BY <1>2, <1>3 DEF RolesKept
  <1>7. ASSUME NEW b \in Admins
        PROVE  AccountInv(b)'
    <2>1. AccountInv(b) /\ (Exists(b) => admin[b] \in AdminRow) /\ changes \in Nat
      BY <1>1 DEF AdminInv, RowsOK, Exists
    <2>2. Exists(b) => admin[b].version \in Nat /\ admin[b].roles \ {Super} \subseteq CustomRoles
      BY <2>1 DEF AdminRow
    <2> QED
      BY <1>1, <1>2, <1>6, <2>1, <2>2 DEF AccountInv, Exists, RolesKept
  <1>8. ActiveSuperadmins' = ActiveSuperadmins
    BY <1>2 DEF ActiveSuperadmins, IsSuperadmin, Exists
  <1>9. ASSUME NEW p \in Checked \ {q}
        PROVE  HeldKept(request[p])
    BY <1>2, <1>8, <1>9 DEF HeldKept, FreeOfOthers
  <1>10. OthersKept(q) /\ Fresh(q)'
    BY <1>1, <1>9, RequestWaits DEF OthersKept
  <1>11. AuditInv' /\ Told
    <2>1. ASSUME NEW k \in FactKeys, k # Key(x), Fact(k)' # Fact(k)
          PROVE  FALSE
      <3>1. ASSUME NEW b \in Admins, k = <<"admin", b>> \/ k = <<"name", b>> \/ k = <<"roles", b>>
            PROVE  FALSE
        BY <1>2, <2>1, <3>1, AccountFactsStay
      <3>2. ASSUME NEW b \in CustomRoles, k = <<"role", b>> \/ k = <<"perms", b>>
            PROVE  FALSE
        <4>1. CASE b = r
          BY <2>1, <3>2, <4>1
        <4>2. CASE b # r
          BY <1>2, <2>1, <3>2, <4>2, RoleFactsStay
        <4> QED
          BY <4>1, <4>2
      <3> QED
        BY <3>1, <3>2, FactKeyCases
    <2> QED
      BY <1>1, <2>1, ToldStep DEF AdminInv
  <1>12. Protected
    BY <1>2 DEF Protected, IsSuperadmin
  <1>13. SessionsKept /\ \A s \in AdminSessions : session[s] = Nobody => SessionInv(s)'
    BY <1>1, <1>2, SameSessions
  <1>14. ActiveSuperadmins' # {}
    BY <1>8 DEF AdminInv
  <1> QED
    BY <1>4, <1>5, <1>6, <1>7, <1>10, <1>11, <1>12, <1>13, <1>14 DEF StepOK

-----------------------------------------------------------------------------
(* The operations on accounts.                                             *)

\* A version raised, and the account's sessions revoked.
LEMMA BumpLaw ==
  ASSUME RowsOK, NEW a \in Admins, NEW next \in AdminRow, BumpAndRevoke(a, next)
  PROVE  /\ \E row \in AdminRow :
              /\ admin' = [admin EXCEPT ![a] = row] /\ row.version = next.version + 1
              /\ row.status = next.status /\ row.name = next.name /\ row.pw = next.pw /\ row.roles = next.roles
         /\ SessionsKept /\ session' \in [AdminSessions -> SessionRow \cup {Nobody}]
         /\ \A s \in AdminSessions : session[s] = Nobody => session'[s] = Nobody
  <1>1. PICK row : row = [next EXCEPT !.version = @ + 1]
    OBVIOUS
  <1>2. /\ row \in AdminRow /\ row.version = next.version + 1
        /\ row.status = next.status /\ row.name = next.name /\ row.pw = next.pw /\ row.roles = next.roles
    BY <1>1 DEF AdminRow
  <1>3. admin' = [admin EXCEPT ![a] = row]
    BY <1>1 DEF BumpAndRevoke
  <1>4. ASSUME NEW s \in AdminSessions, session[s] # Nobody
        PROVE  /\ session'[s] \in SessionRow
               /\ session'[s].admin = session[s].admin /\ session'[s].version = session[s].version
               /\ session'[s].pw = session[s].pw
               /\ session[s].revoked => session'[s].revoked
               /\ session[s].expired => session'[s].expired
    <2>1. session[s] \in SessionRow
      BY <1>4 DEF RowsOK
    <2>2. session'[s] = session[s] \/ session'[s] = [session[s] EXCEPT !.revoked = TRUE]
      BY DEF BumpAndRevoke
    <2>3. CASE session'[s] = session[s]
      BY <2>1, <2>3
    <2>4. CASE session'[s] = [session[s] EXCEPT !.revoked = TRUE]
      BY <2>1, <2>4 DEF SessionRow
    <2> QED
      BY <2>2, <2>3, <2>4
  <1>5. \A s \in AdminSessions : session[s] = Nobody => session'[s] = Nobody
    BY DEF BumpAndRevoke
  <1>6. session' \in [AdminSessions -> SessionRow \cup {Nobody}]
    <2>1. session' = [s \in AdminSessions |-> session'[s]]
      BY DEF BumpAndRevoke
    <2> QED
      BY <1>4, <1>5, <2>1
  <1>7. SessionsKept
    BY <1>4, AdminAssumption DEF SessionsKept
  <1> QED
    BY <1>2, <1>3, <1>5, <1>6, <1>7

\* What an account's row is.
LEMMA AccountRow ==
  ASSUME AdminInv, NEW a \in Admins, Exists(a)
  PROVE  /\ admin[a] \in AdminRow /\ admin[a].version \in Nat /\ changes \in Nat
         /\ admin[a].version <= changes /\ admin[a].version <= MaxChanges
         /\ admin[a].status \in {"active", "disabled"}
         /\ \A r \in admin[a].roles \ {Super} : role[r] # Nobody
         /\ a \in ActiveSuperadmins <=> admin[a].status = "active" /\ Super \in admin[a].roles
         /\ IsSuperadmin(a) <=> Super \in admin[a].roles
  BY DEF AdminInv, RowsOK, AdminRow, Exists, AccountInv, ActiveSuperadmins, IsSuperadmin

LEMMA CreateStep ==
  ASSUME AdminInv, NEW q \in AdminRequests, request[q].step = "checked", request[q].op = "create",
         CreateAdmin(q, request[q])
  PROVE  StepOK
  <1>1. PICK x : x = request[q]
    OBVIOUS
  <1>2. RowsOK /\ CheckedInv(x) /\ x.op = "create"
    BY <1>1 DEF AdminInv, RequestInv
  <1>3. PICK a \in Admins : a = x.on
    BY <1>2, OperationCases DEF CheckedInv
  <1>4. PICK name \in Names, pw \in Passwords : admin' = [admin EXCEPT ![a] = NewAdmin(name, pw)]
    BY <1>1, <1>3 DEF CreateAdmin
  <1>5. PICK row : row = NewAdmin(name, pw)
    OBVIOUS
  <1>6. /\ ~Exists(a) /\ WithAuditTx(q, x, "active") /\ role' = role /\ session' = session
        /\ admin' = [admin EXCEPT ![a] = row]
    BY <1>1, <1>3, <1>4, <1>5 DEF CreateAdmin
  <1>7. row \in AdminRow /\ row.version = 0 /\ row.status = "active" /\ row.roles = {}
    BY <1>5 DEF NewAdmin, AdminRow
  <1>8. RowFollows(a, row)
    BY <1>2, <1>6, <1>7, AdminAssumption DEF RowFollows, RowsOK
  <1>9. LeavesSuperadmin(q, a, row) /\ Authorised(q, a, row)
    BY <1>6 DEF LeavesSuperadmin, Authorised, ActiveSuperadmins, IsSuperadmin
  <1>10. admin'[a] = row /\ row # Nobody /\ admin[a] = Nobody
    BY <1>2, <1>6, <1>7, AdminAssumption DEF RowsOK, Exists
  <1>11. Key(x) = <<"admin", a>> /\ x.before = Fact(Key(x)) /\ "active" = Fact(Key(x))'
    <2>1. Key(x) = <<"admin", a>>
      BY <1>2, <1>3, Keys
    <2>2. x.before = Fact(Key(x))
      BY <1>2, <1>3, <1>6 DEF CheckedInv, ReadTrue
    <2>3. Fact(<<"admin", a>>)' = "active"
      BY <1>7, <1>10, FactsNext
    <2>4. Fact(Key(x))' = Fact(<<"admin", a>>)'
      BY <2>1 DEF Fact, Key
    <2> QED
      BY <2>1, <2>2, <2>3, <2>4
  <1>12. Fact(<<"roles", a>>)' = Fact(<<"roles", a>>)
    BY <1>6, <1>7, <1>10, Facts, FactsNext
  <1>13. SessionsKept /\ session' \in [AdminSessions -> SessionRow \cup {Nobody}]
    BY <1>2, <1>6, SameSessions
  <1>14. \A k \in {<<"admin", a>>, <<"name", a>>, <<"roles", a>>} :
            k # Key(x) /\ Fact(k)' # Fact(k) => k[1] = "name" /\ ~Exists(a)
    BY <1>6, <1>11, <1>12
  <1>15. \A s \in AdminSessions : session[s] = Nobody => session'[s] = Nobody
    BY <1>6
  <1>16. request[q].step # "idle"
    OBVIOUS
  <1> QED
    BY <1>6, <1>7, <1>8, <1>9, <1>11, <1>13, <1>14, <1>15, <1>16, AccountChanged

\* Rename, enable and the change of roles write one field and leave the version.
LEMMA FieldStep ==
  ASSUME AdminInv, NEW q \in AdminRequests, NEW x, x = request[q], x.step = "checked",
         x.op \in {"rename", "enable", "setRoles"},
         NEW row, NEW after, WithAuditTx(q, x, after), admin' = [admin EXCEPT ![x.on] = row],
         UNCHANGED <<role, session>>,
         row = IF x.op = "rename" THEN [admin[x.on] EXCEPT !.name = x.arg]
               ELSE IF x.op = "enable" THEN [admin[x.on] EXCEPT !.status = "active"]
               ELSE [admin[x.on] EXCEPT !.roles = x.arg],
         after = IF x.op = "rename" THEN x.arg ELSE IF x.op = "enable" THEN "active" ELSE x.arg
  PROVE  StepOK
  <1>1. RowsOK /\ CheckedInv(x) /\ q \in Checked
    BY DEF AdminInv, RequestInv, Checked
  <1>2. PICK a \in Admins : a = x.on
    BY <1>1, OperationCases DEF CheckedInv
  <1>3. Exists(a)
    BY <1>1, <1>2 DEF CheckedInv, Accepted, MaySetRoles
  <1>4. /\ admin[a] \in AdminRow /\ admin[a].version \in Nat /\ changes \in Nat
        /\ admin[a].version <= changes /\ admin[a].version <= MaxChanges
        /\ \A r \in admin[a].roles \ {Super} : role[r] # Nobody
        /\ a \in ActiveSuperadmins <=> admin[a].status = "active" /\ Super \in admin[a].roles
        /\ IsSuperadmin(a) <=> Super \in admin[a].roles
    BY <1>3, AccountRow
  <1>5. /\ row \in AdminRow /\ row.version = admin[a].version /\ row.pw = admin[a].pw
        /\ row.status = IF x.op = "enable" THEN "active" ELSE admin[a].status
        /\ row.name = IF x.op = "rename" THEN x.arg ELSE admin[a].name
        /\ row.roles = IF x.op = "setRoles" THEN x.arg ELSE admin[a].roles
    <2>1. CASE x.op = "rename"
      BY <1>1, <1>2, <1>4, <2>1, OperationCases DEF AdminRow, CheckedInv
    <2>2. CASE x.op = "enable"
      BY <1>2, <1>4, <2>2 DEF AdminRow
    <2>3. CASE x.op = "setRoles"
      BY <1>1, <1>2, <1>4, <2>3, OperationCases DEF AdminRow, CheckedInv
    <2> QED
      BY <2>1, <2>2, <2>3
  <1>6. RowFollows(a, row)
    <2>1. \A r \in row.roles \ {Super} : role[r] # Nobody
      <3>1. CASE x.op = "setRoles"
        <4>1. MaySetRoles(x)
          BY <1>1, <3>1 DEF CheckedInv, Accepted
        <4>2. \A r \in x.arg \ {Super} : role[r] # Nobody
          BY <4>1 DEF MaySetRoles
        <4> QED
          BY <1>5, <3>1, <4>2
      <3>2. CASE x.op # "setRoles"
        BY <1>4, <1>5, <3>2
      <3> QED
        BY <3>1, <3>2
    <2>2. row.version <= changes + 1 /\ row.version <= MaxChanges /\ row.version >= admin[a].version
      BY <1>4, <1>5
    <2>3. row.pw = admin[a].pw /\ (admin[a].status = "active" => row.status = "active")
      BY <1>5
    <2> QED
      BY <2>1, <2>2, <2>3 DEF RowFollows
  <1>7. FreeOfOthers(q, {a}) /\ (x.op = "setRoles" => FreeOfOthers(q, {Super}))
    BY <1>1, <1>2, LocksOf, OwnLocks
  <1>8. LeavesSuperadmin(q, a, row)
    <2>1. CASE x.op = "setRoles"
      <3>1. IsSuperadmin(a) /\ Super \notin x.arg => KeepsSuperadmin(a)
        BY <1>1, <1>2, <2>1 DEF CheckedInv, Accepted, MaySetRoles
      <3> QED
        BY <1>4, <1>5, <1>7, <2>1, <3>1 DEF KeepsSuperadmin, LeavesSuperadmin
    <2>2. CASE x.op # "setRoles"
      BY <1>4, <1>5, <2>2 DEF LeavesSuperadmin
    <2> QED
      BY <2>1, <2>2
  <1>9. Authorised(q, a, row)
    <2>1. CASE x.op = "setRoles"
      <3>1. IsSuperadmin(a) # (Super \in x.arg) => HasPermission(x.perms, Wildcard)
        BY <1>1, <1>2, <2>1 DEF CheckedInv, Accepted, MaySetRoles
      <3> QED
        BY <1>4, <1>5, <2>1, <3>1 DEF HasPermission, Authorised
    <2>2. CASE x.op # "setRoles"
      BY <1>4, <1>5, <2>2 DEF Authorised
    <2> QED
      BY <2>1, <2>2
  <1>10. admin'[a] = row /\ row # Nobody /\ admin[a] # Nobody
    BY <1>1, <1>2, <1>3, <1>5, AdminAssumption DEF RowsOK, Exists
  <1>14. /\ Fact(<<"admin", a>>) = admin[a].status /\ Fact(<<"admin", a>>)' = row.status
         /\ Fact(<<"name", a>>) = admin[a].name /\ Fact(<<"name", a>>)' = row.name
         /\ Fact(<<"roles", a>>) = admin[a].roles /\ Fact(<<"roles", a>>)' = row.roles
    <2>1. admin'[a] # Nobody /\ admin'[a] = row
      BY <1>10
    <2>2. /\ Fact(<<"admin", a>>) = admin[a].status /\ Fact(<<"admin", a>>)' = admin'[a].status
          /\ Fact(<<"name", a>>) = admin[a].name /\ Fact(<<"name", a>>)' = admin'[a].name
          /\ Fact(<<"roles", a>>) = admin[a].roles /\ Fact(<<"roles", a>>)' = admin'[a].roles
      BY <1>3, <2>1, AccountFacts
    <2> QED
      BY ONLY <2>1, <2>2
  <1>11. x.before = Fact(Key(x)) /\ after = Fact(Key(x))'
    <2>1. x.before = Fact(Key(x))
      BY <1>1 DEF CheckedInv, ReadTrue
    <2>2. PICK k : k = Key(x)
      OBVIOUS
    <2>3. Fact(Key(x))' = Fact(k)'
      BY <2>2 DEF Fact, Key
    <2>4. after = Fact(k)'
      BY <1>2, <1>5, <1>14, <2>2, Keys
    <2> QED
      BY <2>1, <2>3, <2>4
  <1>12. \A k \in {<<"admin", a>>, <<"name", a>>, <<"roles", a>>} : k # Key(x) => Fact(k)' = Fact(k)
    <2>1. Key(x) = IF x.op = "rename" THEN <<"name", a>> ELSE IF x.op = "enable" THEN <<"admin", a>> ELSE <<"roles", a>>
      BY <1>2, Keys
    <2>2. x.op # "enable" => Fact(<<"admin", a>>)' = Fact(<<"admin", a>>)
      BY <1>5, <1>14
    <2>3. x.op # "rename" => Fact(<<"name", a>>)' = Fact(<<"name", a>>)
      BY <1>5, <1>14
    <2>4. x.op # "setRoles" => Fact(<<"roles", a>>)' = Fact(<<"roles", a>>)
      BY <1>5, <1>14
    <2> QED
      BY <2>1, <2>2, <2>3, <2>4
  <1>13. SessionsKept /\ session' \in [AdminSessions -> SessionRow \cup {Nobody}]
    BY <1>1, SameSessions
  <1> QED
    BY <1>2, <1>5, <1>6, <1>7, <1>8, <1>9, <1>11, <1>12, <1>13, AccountChanged

\* A version raised: a password reset or changed, a forced logout, an account disabled.
LEMMA BumpStep ==
  ASSUME AdminInv, NEW q \in AdminRequests, request[q].step # "idle", NEW a \in Admins, Exists(a),
         NEW next \in AdminRow, BumpAndRevoke(a, next), role' = role,
         next.version = admin[a].version, next.name = admin[a].name, next.roles = admin[a].roles,
         admin[a].version < MaxChanges,
         NEW x, NEW after, WithAuditTx(q, x, after), FreeOfOthers(q, {a}),
         a \in ActiveSuperadmins /\ next.status # "active" => KeepsSuperadmin(a) /\ FreeOfOthers(q, {Super}),
         IsSuperadmin(a) => Wildcard \in request[q].perms \/ request[q].actor = a,
         \/ Key(x) \notin FactKeys /\ next.status = admin[a].status
         \/ Key(x) = <<"admin", a>> /\ x.before = Fact(Key(x)) /\ after = next.status
  PROVE  StepOK
  <1>1. /\ RowsOK /\ admin[a] \in AdminRow /\ admin[a].version \in Nat /\ changes \in Nat
        /\ admin[a].version <= changes
        /\ \A r \in admin[a].roles \ {Super} : role[r] # Nobody
        /\ a \in ActiveSuperadmins <=> admin[a].status = "active" /\ Super \in admin[a].roles
    BY AccountRow DEF AdminInv
  <1>2. PICK row \in AdminRow :
              /\ admin' = [admin EXCEPT ![a] = row] /\ row.version = next.version + 1
              /\ row.status = next.status /\ row.name = next.name /\ row.pw = next.pw /\ row.roles = next.roles
    BY <1>1, BumpLaw
  <1>3. /\ SessionsKept /\ session' \in [AdminSessions -> SessionRow \cup {Nobody}]
        /\ \A s \in AdminSessions : session[s] = Nobody => session'[s] = Nobody
    BY <1>1, BumpLaw
  <1>4. RowFollows(a, row)
    BY <1>1, <1>2, AdminAssumption DEF RowFollows
  <1>5. LeavesSuperadmin(q, a, row)
    BY <1>1, <1>2 DEF LeavesSuperadmin, KeepsSuperadmin
  <1>6. Authorised(q, a, row)
    BY DEF Authorised
  <1>7. admin'[a] = row /\ row # Nobody
    BY <1>1, <1>2, AdminAssumption DEF RowsOK
  <1>8. /\ Fact(<<"admin", a>>) = admin[a].status /\ Fact(<<"admin", a>>)' = next.status
        /\ Fact(<<"name", a>>) = admin[a].name /\ Fact(<<"name", a>>)' = next.name
        /\ Fact(<<"roles", a>>) = admin[a].roles /\ Fact(<<"roles", a>>)' = next.roles
    <2>1. /\ Fact(<<"admin", a>>) = admin[a].status /\ Fact(<<"admin", a>>)' = admin'[a].status
          /\ Fact(<<"name", a>>) = admin[a].name /\ Fact(<<"name", a>>)' = admin'[a].name
          /\ Fact(<<"roles", a>>) = admin[a].roles /\ Fact(<<"roles", a>>)' = admin'[a].roles
      BY <1>7, AccountFacts
    <2> QED
      BY ONLY <1>2, <1>7, <2>1
  <1>9. Key(x) \in FactKeys => x.before = Fact(Key(x)) /\ after = Fact(Key(x))'
    <2>1. ASSUME Key(x) \in FactKeys
          PROVE  after = Fact(Key(x))'
      <3>1. Key(x) = <<"admin", a>> /\ after = next.status
        BY <2>1
      <3>2. PICK k : k = Key(x)
        OBVIOUS
      <3>3. Fact(Key(x))' = Fact(k)'
        BY <3>2 DEF Fact, Key
      <3> QED
        BY <1>8, <3>1, <3>2, <3>3
    <2> QED
      BY <2>1
  <1>10. \A k \in {<<"admin", a>>, <<"name", a>>, <<"roles", a>>} : k # Key(x) => Fact(k)' = Fact(k)
    <2>1. <<"admin", a>> # Key(x) => next.status = admin[a].status
      OBVIOUS
    <2> QED
      BY <1>8, <2>1
  <1> QED
    BY <1>2, <1>3, <1>4, <1>5, <1>6, <1>9, <1>10, AccountChanged

LEMMA MayOperate ==
  ASSUME NEW perms, NEW a, MayOperateOn(perms, a), IsSuperadmin(a)
  PROVE  Wildcard \in perms
  BY DEF MayOperateOn, HasPermission

LEMMA DisableStep ==
  ASSUME AdminInv, NEW q \in AdminRequests, request[q].step = "checked", request[q].op = "disable",
         DisableAdmin(q, request[q])
  PROVE  StepOK
  <1>1. PICK x : x = request[q]
    OBVIOUS
  <1>2. RowsOK /\ CheckedInv(x) /\ x.op = "disable" /\ q \in Checked
    BY <1>1 DEF AdminInv, RequestInv, Checked
  <1>3. PICK a \in Admins : a = x.on
    BY <1>2, OperationCases DEF CheckedInv
  <1>4. /\ Exists(a) /\ MayOperateOn(x.perms, a) /\ (admin[a].status = "active" => KeepsSuperadmin(a))
        /\ admin[a].version < MaxChanges
    BY <1>2, <1>3 DEF CheckedInv, Accepted, MayDisable
  <1>5. WithAuditTx(q, x, "disabled") /\ role' = role
    BY <1>1 DEF DisableAdmin
  <1>6. Key(x) = <<"admin", a>> /\ x.before = Fact(Key(x))
    BY <1>2, <1>3, Keys DEF CheckedInv, ReadTrue
  <1>7. CASE x.before = "disabled"
    <2>1. RowsUntouched /\ session' = session
      BY <1>1, <1>7 DEF DisableAdmin, RowsUntouched
    <2>2. /\ SessionsKept /\ session' \in [AdminSessions -> SessionRow \cup {Nobody}]
          /\ \A s \in AdminSessions : session[s] = Nobody => SessionInv(s)'
      BY <1>2, <2>1, SameSessions
    <2> QED
      BY <1>5, <1>6, <1>7, <2>1, <2>2, QuietCommit
  <1>8. CASE x.before # "disabled"
    <2>1. PICK next : next = [admin[a] EXCEPT !.status = "disabled"]
      OBVIOUS
    <2>2. BumpAndRevoke(a, next)
      BY <1>1, <1>3, <1>8, <2>1 DEF DisableAdmin
    <2>3. admin[a] \in AdminRow /\ admin[a].status \in {"active", "disabled"}
      BY <1>4, AccountRow
    <2>4. /\ next \in AdminRow /\ next.version = admin[a].version /\ next.name = admin[a].name
          /\ next.roles = admin[a].roles /\ next.status = "disabled"
      BY <2>1, <2>3 DEF AdminRow
    <2>5. admin[a].status = "active"
      BY <1>4, <1>6, <1>8, <2>3, Facts
    <2>6. FreeOfOthers(q, {a}) /\ FreeOfOthers(q, {Super})
      BY <1>1, <1>2, <1>3, LocksOf, OwnLocks
    <2>7. IsSuperadmin(a) => Wildcard \in request[q].perms
      BY <1>1, <1>4, MayOperate
    <2> QED
      BY <1>4, <1>5, <1>6, <2>2, <2>4, <2>5, <2>6, <2>7, BumpStep
  <1> QED
    BY <1>7, <1>8

LEMMA ResetStep ==
  ASSUME AdminInv, NEW q \in AdminRequests, request[q].step = "checked", request[q].op \in {"reset", "forceLogout"},
         \/ request[q].op = "reset" /\ ResetAdminPassword(q, request[q])
         \/ request[q].op = "forceLogout" /\ ForceLogoutAdmin(q, request[q])
  PROVE  StepOK
  <1>1. PICK x : x = request[q]
    OBVIOUS
  <1>2. RowsOK /\ CheckedInv(x) /\ x.op \in {"reset", "forceLogout"} /\ q \in Checked
    BY <1>1 DEF AdminInv, RequestInv, Checked
  <1>3. PICK a \in Admins : a = x.on
    BY <1>2, OperationCases DEF CheckedInv
  <1>4. Exists(a) /\ MayOperateOn(x.perms, a) /\ admin[a].version < MaxChanges
    BY <1>2, <1>3 DEF CheckedInv, Accepted
  <1>5. WithAuditTx(q, x, Nobody) /\ role' = role
    BY <1>1 DEF ResetAdminPassword, ForceLogoutAdmin
  <1>6. admin[a] \in AdminRow
    BY <1>4, AccountRow
  <1>7. \E next : /\ BumpAndRevoke(a, next) /\ next \in AdminRow /\ next.version = admin[a].version
                  /\ next.name = admin[a].name /\ next.roles = admin[a].roles /\ next.status = admin[a].status
    <2>1. CASE request[q].op = "reset"
      <3>1. PICK pw \in Passwords : BumpAndRevoke(a, [admin[a] EXCEPT !.pw = pw])
        BY <1>1, <1>3, <2>1 DEF ResetAdminPassword
      <3> WITNESS [admin[a] EXCEPT !.pw = pw]
      <3> QED
        BY <1>6, <3>1 DEF AdminRow
    <2>2. CASE request[q].op = "forceLogout"
      <3>1. BumpAndRevoke(a, admin[a])
        BY <1>1, <1>3, <2>2 DEF ForceLogoutAdmin
      <3> QED
        BY <1>6, <3>1
    <2> QED
      BY <2>1, <2>2
  <1>8. PICK next \in AdminRow : /\ BumpAndRevoke(a, next) /\ next.version = admin[a].version
                  /\ next.name = admin[a].name /\ next.roles = admin[a].roles /\ next.status = admin[a].status
    BY <1>7
  <1>9. FreeOfOthers(q, {a})
    BY <1>1, <1>2, <1>3, LocksOf, OwnLocks
  <1>10. IsSuperadmin(a) => Wildcard \in request[q].perms
    BY <1>1, <1>4, MayOperate
  <1>11. Key(x) \notin FactKeys
    BY <1>2, Keys, EventIsNoFact
  <1>12. ~(a \in ActiveSuperadmins /\ next.status # "active")
    BY <1>8 DEF ActiveSuperadmins
  <1> QED
    BY <1>4, <1>5, <1>8, <1>9, <1>10, <1>11, <1>12, BumpStep

\* Any administrator's own password.
LEMMA OwnPasswordStep ==
  ASSUME AdminInv, NEW q \in AdminRequests, ChangeOwnPassword(q)
  PROVE  StepOK
  <1>1. PICK a : a = request[q].actor
    OBVIOUS
  <1>2. PICK x : x = [op |-> "ownPassword", actor |-> a, on |-> a, before |-> Nobody]
    OBVIOUS
  <1>3. PICK pw \in Passwords : BumpAndRevoke(a, [admin[a] EXCEPT !.pw = pw])
    BY <1>1 DEF ChangeOwnPassword
  <1>4. /\ request[q].step = "ready" /\ changes < MaxChanges /\ a \notin Locked
        /\ WithAuditTx(q, x, Nobody) /\ role' = role
    BY <1>1, <1>2 DEF ChangeOwnPassword
  <1>5. a \in Admins /\ Exists(a)
    BY <1>1, <1>4 DEF AdminInv, RequestInv, ReadyInv
  <1>6. admin[a] \in AdminRow /\ admin[a].version \in Nat /\ changes \in Nat /\ admin[a].version <= changes
    BY <1>5, AccountRow
  <1>7. admin[a].version < MaxChanges
    BY <1>4, <1>6, AdminAssumption
  <1>8. PICK next : next = [admin[a] EXCEPT !.pw = pw]
    OBVIOUS
  <1>9. /\ next \in AdminRow /\ next.version = admin[a].version /\ next.name = admin[a].name
        /\ next.roles = admin[a].roles /\ next.status = admin[a].status
    BY <1>6, <1>8 DEF AdminRow
  <1>10. BumpAndRevoke(a, next)
    BY <1>3, <1>8
  <1>11. FreeOfOthers(q, {a})
    BY <1>4 DEF Locked, FreeOfOthers
  <1>12. ~(a \in ActiveSuperadmins /\ next.status # "active")
    BY <1>9 DEF ActiveSuperadmins
  <1>13. Key(x) \notin FactKeys
    BY <1>2, Keys, EventIsNoFact
  <1> QED
    BY <1>1, <1>4, <1>5, <1>7, <1>9, <1>10, <1>11, <1>12, <1>13, BumpStep

\* The operations that write one field.
LEMMA FieldSteps ==
  ASSUME AdminInv, NEW q \in AdminRequests, request[q].step = "checked",
         \/ request[q].op = "rename" /\ UpdateAdminDisplayName(q, request[q])
         \/ request[q].op = "enable" /\ EnableAdmin(q, request[q])
         \/ request[q].op = "setRoles" /\ SetAdminRoles(q, request[q])
  PROVE  StepOK
  <1>1. PICK x : x = request[q]
    OBVIOUS
  <1>2. CASE x.op = "rename"
    <2>1. PICK row : row = [admin[x.on] EXCEPT !.name = x.arg]
      OBVIOUS
    <2>2. admin' = [admin EXCEPT ![x.on] = row] /\ WithAuditTx(q, x, x.arg) /\ UNCHANGED <<role, session>>
      BY <1>1, <1>2, <2>1 DEF UpdateAdminDisplayName
    <2> QED
      BY <1>1, <1>2, <2>1, <2>2, FieldStep
  <1>3. CASE x.op = "enable"
    <2>1. PICK row : row = [admin[x.on] EXCEPT !.status = "active"]
      OBVIOUS
    <2>2. admin' = [admin EXCEPT ![x.on] = row] /\ WithAuditTx(q, x, "active") /\ UNCHANGED <<role, session>>
      BY <1>1, <1>3, <2>1 DEF EnableAdmin
    <2> QED
      BY <1>1, <1>3, <2>1, <2>2, FieldStep
  <1>4. CASE x.op = "setRoles"
    <2>1. PICK row : row = [admin[x.on] EXCEPT !.roles = x.arg]
      OBVIOUS
    <2>2. admin' = [admin EXCEPT ![x.on] = row] /\ WithAuditTx(q, x, x.arg) /\ UNCHANGED <<role, session>>
      BY <1>1, <1>4, <2>1 DEF SetAdminRoles
    <2> QED
      BY <1>1, <1>4, <2>1, <2>2, FieldStep
  <1> QED
    BY <1>1, <1>2, <1>3, <1>4

-----------------------------------------------------------------------------
(* The operations on roles.                                                *)

\* The facts of a role that there is, and still is.
LEMMA RoleFacts ==
  ASSUME NEW r, role'[r] # Nobody
  PROVE  /\ Fact(<<"role", r>>)' = role'[r].status /\ Fact(<<"perms", r>>)' = role'[r].perms
         /\ role[r] # Nobody => Fact(<<"role", r>>) = role[r].status /\ Fact(<<"perms", r>>) = role[r].perms
         /\ role[r] = Nobody => Fact(<<"role", r>>) = Nobody /\ Fact(<<"perms", r>>) = {}
  BY Facts, FactsNext

LEMMA RoleStep ==
  ASSUME AdminInv, NEW q \in AdminRequests, request[q].step = "checked",
         \/ request[q].op = "createRole" /\ CreateRole(q, request[q])
         \/ request[q].op = "updateRole" /\ UpdateRole(q, request[q])
         \/ request[q].op = "setPermissions" /\ SetRolePermissions(q, request[q])
  PROVE  StepOK
  <1>1. PICK x : x = request[q]
    OBVIOUS
  <1>2. RowsOK /\ CheckedInv(x) /\ x.op \in {"createRole", "updateRole", "setPermissions"} /\ q \in Checked
    BY <1>1 DEF AdminInv, RequestInv, Checked
  <1>3. PICK r \in CustomRoles : r = x.on
    BY <1>2, OperationCases DEF CheckedInv
  <1>4. \A k : k = Key(x) => Fact(Key(x))' = Fact(k)'
    BY DEF Fact, Key
  <1>5. CASE x.op = "createRole"
    <2>1. PICK row : row = [status |-> "active", perms |-> {}]
      OBVIOUS
    <2>2. /\ role[r] = Nobody /\ role' = [role EXCEPT ![r] = row] /\ WithAuditTx(q, x, "active")
          /\ UNCHANGED <<admin, session>>
      BY <1>1, <1>3, <1>5, <2>1 DEF CreateRole
    <2>3. row \in RoleRow /\ row.status = "active" /\ row.perms = {} /\ row # Nobody
      BY <2>1, AdminAssumption DEF RoleRow
    <2>4. role'[r] = row
      BY <1>2, <2>2 DEF RowsOK
    <2>5. Key(x) = <<"role", r>> /\ x.before = Fact(Key(x))
      BY <1>2, <1>3, <1>5, <2>2, Keys DEF CheckedInv, ReadTrue
    <2>6. Fact(<<"role", r>>)' = "active" /\ Fact(<<"perms", r>>)' = Fact(<<"perms", r>>)
      BY <2>2, <2>3, <2>4, RoleFacts
    <2>7. "active" = Fact(Key(x))'
      BY <1>4, <2>5, <2>6
    <2> QED
      BY <2>2, <2>3, <2>5, <2>6, <2>7, RoleChanged
  <1>6. CASE x.op \in {"updateRole", "setPermissions"}
    <2>1. role[r] # Nobody /\ role[r] \in RoleRow
      BY <1>2, <1>3, <1>6 DEF CheckedInv, Accepted, MayEditRole, RowsOK
    <2>2. Key(x) = (IF x.op = "updateRole" THEN <<"role", r>> ELSE <<"perms", r>>) /\ x.before = Fact(Key(x))
      BY <1>2, <1>3, <1>6, Keys DEF CheckedInv, ReadTrue
    <2>3. FreeOfOthers(q, {r})
      BY <1>1, <1>2, <1>3, <1>6, LocksOf, OwnLocks
    <2>4. CASE x.op = "updateRole"
      <3>1. PICK next : next = IF x.arg = Nobody THEN x.before ELSE x.arg
        OBVIOUS
      <3>2. PICK row : row = [role[r] EXCEPT !.status = next]
        OBVIOUS
      <3>3. role' = [role EXCEPT ![r] = row] /\ WithAuditTx(q, x, next) /\ UNCHANGED <<admin, session>>
        BY <1>1, <1>3, <2>4, <3>1, <3>2 DEF UpdateRole
      <3>4. x.before = role[r].status
        BY <2>1, <2>2, <2>4, Facts
      <3>5. next \in {"active", "disabled"}
        BY <1>2, <2>1, <2>4, <3>1, <3>4, OperationCases DEF CheckedInv, RoleRow
      <3>6. row \in RoleRow /\ row.status = next /\ row.perms = role[r].perms
        BY <2>1, <3>2, <3>5 DEF RoleRow
      <3>7. role'[r] = row /\ row # Nobody
        BY <1>2, <3>3, <3>6, AdminAssumption DEF RowsOK
      <3>8. Fact(<<"role", r>>)' = next /\ Fact(<<"perms", r>>)' = Fact(<<"perms", r>>)
        BY <2>1, <3>6, <3>7, RoleFacts
      <3>9. next = Fact(Key(x))'
        BY <1>4, <2>2, <2>4, <3>8
      <3> QED
        BY <2>2, <2>3, <2>4, <3>3, <3>6, <3>8, <3>9, RoleChanged
    <2>5. CASE x.op = "setPermissions"
      <3>1. PICK row : row = [role[r] EXCEPT !.perms = x.arg]
        OBVIOUS
      <3>2. role' = [role EXCEPT ![r] = row] /\ WithAuditTx(q, x, x.arg) /\ UNCHANGED <<admin, session>>
        BY <1>1, <1>3, <2>5, <3>1 DEF SetRolePermissions
      <3>3. x.arg \in SUBSET PermissionCodes
        BY <1>2, <2>5, OperationCases, AdminAssumption DEF CheckedInv
      <3>4. row \in RoleRow /\ row.perms = x.arg /\ row.status = role[r].status
        BY <2>1, <3>1, <3>3 DEF RoleRow
      <3>5. role'[r] = row /\ row # Nobody
        BY <1>2, <3>2, <3>4, AdminAssumption DEF RowsOK
      <3>6. Fact(<<"perms", r>>)' = x.arg /\ Fact(<<"role", r>>)' = Fact(<<"role", r>>)
        BY <2>1, <3>4, <3>5, RoleFacts
      <3>7. x.arg = Fact(Key(x))'
        BY <1>4, <2>2, <2>5, <3>6
      <3> QED
        BY <2>2, <2>3, <2>5, <3>2, <3>4, <3>6, <3>7, RoleChanged
    <2> QED
      BY <1>6, <2>4, <2>5
  <1> QED
    BY <1>2, <1>5, <1>6

-----------------------------------------------------------------------------
(* The theorems.                                                           *)

LEMMA InvStarts ==
  ASSUME AdminInit
  PROVE  AdminInv
  <1>1. PICK sc \in Scenarios :
          /\ admin = [a \in Admins |-> IF a \in DOMAIN sc.admins THEN sc.admins[a] ELSE Nobody]
          /\ role = [r \in CustomRoles |-> IF r \in DOMAIN sc.roles THEN sc.roles[r] ELSE Nobody]
    BY DEF AdminInit
  <1>2. /\ session = [s \in AdminSessions |-> Nobody] /\ request = [q \in AdminRequests |-> Waiting]
        /\ audit.key = <<"none", Nobody>> /\ changes = 0
    BY DEF AdminInit
  <1>3. /\ \A a \in Admins \cap DOMAIN sc.admins :
             /\ sc.admins[a] \in AdminRow /\ sc.admins[a].version = 0
             /\ sc.admins[a].roles \subseteq {Super} \cup DOMAIN sc.roles
        /\ \A r \in CustomRoles \cap DOMAIN sc.roles : sc.roles[r] \in RoleRow
    BY ScenarioAssumption
  <1>4. RowsOK
    BY <1>1, <1>2, <1>3 DEF RowsOK
  <1>5. ASSUME NEW a \in Admins, Exists(a)
        PROVE  AccountInv(a)
    <2>1. a \in DOMAIN sc.admins /\ admin[a] = sc.admins[a]
      BY <1>1, <1>5 DEF Exists
    <2>2. admin[a].roles \subseteq {Super} \cup CustomRoles
      BY <1>3, <2>1 DEF AdminRow
    <2>3. ASSUME NEW r \in admin[a].roles \ {Super} PROVE role[r] # Nobody
      <3>1. r \in CustomRoles \cap DOMAIN sc.roles
        BY <1>3, <2>1, <2>2, <2>3
      <3> QED
        BY <1>1, <1>3, <3>1, AdminAssumption
    <2> QED
      BY <1>2, <1>3, <2>1, <2>3, AdminAssumption DEF AccountInv
  <1>6. ActiveSuperadmins # {}
    <2>1. PICK a \in Admins \cap DOMAIN sc.admins : sc.admins[a].status = "active" /\ Super \in sc.admins[a].roles
      BY ScenarioAssumption
    <2>2. admin[a] = sc.admins[a] /\ admin[a] # Nobody
      BY <1>1, <1>3, <2>1, AdminAssumption
    <2> QED
      BY <2>1, <2>2 DEF ActiveSuperadmins, IsSuperadmin, Exists
  <1>7. \A s \in AdminSessions : SessionInv(s)
    BY <1>2 DEF SessionInv
  <1>8. \A q \in AdminRequests : RequestInv(request[q]) /\ q \notin Checked
    BY <1>2 DEF RequestInv, Waiting, Checked
  <1>9. LocksApart
    BY <1>8 DEF LocksApart, Checked
  <1>10. AuditInv
    BY <1>2, EventIsNoFact DEF AuditInv
  <1> QED
    BY <1>4, <1>5, <1>6, <1>7, <1>8, <1>9, <1>10 DEF AdminInv, AccountInv

LEMMA CommitStep ==
  ASSUME AdminInv, NEW q \in AdminRequests, Commit(q)
  PROVE  StepOK
  BY CreateStep, FieldSteps, DisableStep, ResetStep, RoleStep, RevokeStep DEF Commit

LEMMA AnyStep ==
  ASSUME AdminInv, [AdminNext /\ UNCHANGED agenda]_adminVars
  PROVE  StepOK
  <1>1. CASE UNCHANGED adminVars
    <2>1. RowsOK /\ UNCHANGED <<admin, role, session, request, audit, changes>>
      BY <1>1 DEF adminVars, AdminInv
    <2>2. PICK q : q \notin AdminRequests
      <3>1. PICK q : q = {x \in AdminRequests : x \notin x}
        OBVIOUS
      <3> QED
        BY <3>1
    <2>3. changes' \in Nat /\ changes' >= changes /\ request' = [p \in AdminRequests |-> request'[p]]
      BY <2>1 DEF RowsOK
    <2> QED
      BY <2>1, <2>2, <2>3, SameSessions, QuietStep DEF RowsUntouched
  <1>2. CASE AdminNext
    BY <1>2, ClockStep, LoginStep, ResolveStep, CheckStep, CommitStep, OwnPasswordStep, LogoutStep, EndStep
       DEF AdminNext
  <1> QED
    BY <1>1, <1>2

LEMMA InvHolds == AdminSpec => [](AdminInv)
  <1>1. AdminInv /\ [AdminNext /\ UNCHANGED agenda]_adminVars => AdminInv'
    BY AnyStep, StepKeeps
  <1> QED
    BY <1>1, InvStarts, PTL DEF AdminSpec

LEMMA InvTypes ==
  ASSUME AdminInv
  PROVE  AdminTypeOK
  <1>1. ASSUME NEW a \in Admins, Exists(a)
        PROVE  /\ admin[a].status \in {"active", "disabled"}
               /\ admin[a].version \in 0 .. MaxChanges /\ admin[a].pw \in Passwords
               /\ \A r \in admin[a].roles \ {Super} : r \in CustomRoles /\ role[r] # Nobody
    <2>1. admin[a] \in AdminRow /\ AccountInv(a)
      BY <1>1 DEF AdminInv, RowsOK, Exists
    <2>2. admin[a].roles \subseteq {Super} \cup CustomRoles /\ admin[a].version \in Nat
      BY <2>1 DEF AdminRow
    <2>3. admin[a].version \in 0 .. MaxChanges
      BY <1>1, <2>1, <2>2, AdminAssumption DEF AccountInv
    <2> QED
      BY <1>1, <2>1, <2>2, <2>3 DEF AdminRow, AccountInv
  <1>2. ASSUME NEW r \in CustomRoles, role[r] # Nobody
        PROVE  role[r].status \in {"active", "disabled"} /\ Wildcard \notin role[r].perms
    <2>1. role[r] \in RoleRow
      BY <1>2 DEF AdminInv, RowsOK
    <2> QED
      BY <2>1, AdminAssumption DEF RoleRow
  <1>3. ASSUME NEW s \in AdminSessions, session[s] # Nobody
        PROVE  Exists(session[s].admin) /\ session[s].version <= admin[session[s].admin].version
    BY <1>3 DEF AdminInv, SessionInv, Current
  <1>4. \A q \in AdminRequests : request[q].step \in {"idle", "login", "ready", "checked"}
    BY DEF AdminInv, RequestInv
  <1> QED
    BY <1>1, <1>2, <1>3, <1>4 DEF AdminTypeOK

\* An active superadmin is always left, whoever disables whom and moves the role around at once, and only who holds
\* the wildcard, or a superadmin itself, takes a superadmin's access away.
THEOREM SuperadminsStay == AdminSpec => SuperadminsKeepControl
  <1>1. AdminInv => AdminTypeOK /\ SuperadminRemains
    BY InvTypes DEF AdminInv, SuperadminRemains
  <1>2. AdminInv /\ [AdminNext /\ UNCHANGED agenda]_adminVars =>
          [\A a \in Admins :
             IsSuperadmin(a) /\ (admin'[a].version # admin[a].version \/ admin'[a].pw # admin[a].pw
                                 \/ Super \notin admin'[a].roles) =>
               \E q \in AdminRequests :
                  /\ request[q].step # "idle" /\ request'[q].step = "idle"
                  /\ Wildcard \in request[q].perms \/ request[q].actor = a]_adminVars
    BY AnyStep DEF StepOK, Protected
  <1>3. AdminSpec => SuperadminProtected
    BY <1>2, InvHolds, PTL DEF AdminSpec, SuperadminProtected
  <1>4. AdminSpec => [](AdminTypeOK /\ SuperadminRemains)
    BY <1>1, InvHolds, PTL
  <1> QED
    BY <1>3, <1>4 DEF SuperadminsKeepControl

\* A session works under the present password only and once ended never again, whatever login or request was under
\* way when the password changed, the account was disabled or its sessions were ended.
THEOREM SessionsEndForGood == AdminSpec => SessionsEnd
  <1>1. ASSUME AdminInv
        PROVE  SessionsOfPresentPassword
    <2> SUFFICES ASSUME NEW s \in AdminSessions, Resolvable(s)
                 PROVE  session[s].pw = admin[session[s].admin].pw
      BY DEF SessionsOfPresentPassword
    <2>1. session[s] # Nobody /\ session[s].version = admin[session[s].admin].version
      BY DEF Resolvable
    <2> QED
      BY <1>1, <2>1 DEF AdminInv, SessionInv, Current
  <1>2. AdminInv /\ [AdminNext /\ UNCHANGED agenda]_adminVars =>
          [\A s \in AdminSessions :
             session[s] # Nobody /\ ~Resolvable(s) /\ session[s].seen # "idle" => ~Resolvable(s)']_adminVars
    BY AnyStep, StepKeeps DEF EndedStay
  <1>3. AdminSpec => LoggedOutForGood
    BY <1>2, InvHolds, PTL DEF AdminSpec, LoggedOutForGood
  <1>4. AdminSpec => []SessionsOfPresentPassword
    BY <1>1, InvHolds, PTL
  <1> QED
    BY <1>3, <1>4 DEF SessionsEnd

\* What an audit row says was so immediately before and is so after, and no fact of an account or a role changes
\* without a row that tells of it, however operations interleave.
THEOREM AuditIsTrue == AdminSpec => AuditTellsTheTruth
  <1>1. AdminInv /\ [AdminNext /\ UNCHANGED agenda]_adminVars =>
          [\A k \in FactKeys :
             LET told == audit' # audit /\ audit'.key = k
             IN  /\ told => audit'.before = Fact(k) /\ audit'.after = Fact(k)'
                 /\ Fact(k)' # Fact(k) /\ (k[1] = "name" => Exists(k[2])) => told]_adminVars
    BY AnyStep DEF StepOK, Told
  <1> QED
    BY <1>1, InvHolds, PTL DEF AdminSpec, AuditTellsTheTruth

=============================================================================
