----------------------------- MODULE ThreadRoom -----------------------------
(***************************************************************************)
(* Rooms (threads): admission by key, roles, entries and the responses     *)
(* they ask for, assignments from post to judgment, closing, and what      *)
(* disabling an account does to all of them.                               *)
(*                                                                         *)
(* A room tool runs in one transaction that locks the account row first    *)
(* and the room row next (runThreadAction, LockThreadByCode), so it is one *)
(* action.  thread_join and the assign tools read before they lock the     *)
(* room: their lookup is an action of its own, and the request holds the   *)
(* account row from there on.  Disabling an account is a transaction of    *)
(* several statements that locks only some of the rooms it touches; each   *)
(* statement is an action.  Its writes are shown at once: whoever else     *)
(* wants the same row waits for the commit and then sees them.             *)
(*                                                                         *)
(* Deadlines are kept as the time left.                                    *)
(***************************************************************************)
EXTENDS Integers, FiniteSets

CONSTANTS
    Accounts,    \* agents
    Rooms,       \* room ids (bound on rows)
    EntryIds,    \* entry ids (bound on rows)
    AssignIds,   \* assignment ids (bound on rows)
    Admins,      \* concurrent disable/enable requests of the admin console
    KeyRoles,    \* roles that thread_key requests ask for
    RolesGiven,  \* roles that thread_set_role requests ask for
    MaxKeys,     \* bound on keys issued per room
    MaxMembers,  \* threadMaxMembers
    MaxRooms,    \* threadMaxOpenRoomsPerAccount
    DeliverDue,  \* deliver_due_s
    JudgeDue,    \* judge_due_s
    None         \* SQL NULL / Go nil

Roles == {"governor", "speaker", "observer"}

\* Row identifiers are assigned in increasing order.
ASSUME RoomIdAssumption ==
    /\ Rooms \subseteq Nat /\ EntryIds \subseteq Nat /\ AssignIds \subseteq Nat
    /\ None \notin Accounts \cup Rooms \cup EntryIds \cup AssignIds

ASSUME RoomBoundAssumption ==
    /\ KeyRoles \subseteq Roles /\ RolesGiven \subseteq Roles
    /\ MaxKeys \in Nat /\ MaxMembers \in Nat \ {0} /\ MaxRooms \in Nat \ {0}
    /\ DeliverDue \in Nat \ {0} /\ JudgeDue \in Nat \ {0}
    /\ IsFiniteSet(Accounts) /\ IsFiniteSet(EntryIds) /\ IsFiniteSet(AssignIds)

VARIABLES
    active,   \* tb_bots.status = 'active'
    room,     \* threads rows: status, number of the live key (0: none), the
              \* role it grants, keys issued so far
    role,     \* thread_members: role[r][a], "none" without a membership
    entry,    \* thread_entries: room and author
    receipt,  \* thread_receipts: receipt[e][a]
    assign,   \* assigns and assign_deliveries rows
    req,      \* what an account's request remembers between lookup and lock
    admin     \* what a disable request has done so far, and the rooms it locked

vars == <<active, room, role, entry, receipt, assign, req, admin>>

ReceiptStates == {"none", "pending", "fulfilled", "withdrawn"}
AssignStates == {"none", "open", "taken", "delivered", "adopted", "rejected",
                 "undecided", "dropped", "timed_out", "voided"}
Undelivered == {"open", "taken"}
Settled == {"adopted", "rejected", "undecided", "dropped", "timed_out", "voided"}
AssignOps == {"take", "take_submit", "submit", "adopt", "reject", "drop", "void"}

NoRoom == [status |-> "none", key |-> 0, krole |-> None, issued |-> 0]
NoEntry == [room |-> None, author |-> None]
NoAssign == [state |-> "none", entry |-> None, creator |-> None, assignee |-> None,
             due |-> 0, forfeited |-> FALSE]
NoReq == [op |-> "none", room |-> None, key |-> 0, id |-> None, state |-> "none",
          late |-> FALSE, forfeited |-> FALSE, age |-> 0]
NoAdmin == [pc |-> "idle", account |-> None, locks |-> {}]

Init ==
    /\ active = [a \in Accounts |-> TRUE]
    /\ room = [r \in Rooms |-> NoRoom]
    /\ role = [r \in Rooms |-> [a \in Accounts |-> "none"]]
    /\ entry = [e \in EntryIds |-> NoEntry]
    /\ receipt = [e \in EntryIds |-> [a \in Accounts |-> "none"]]
    /\ assign = [w \in AssignIds |-> NoAssign]
    /\ req = [a \in Accounts |-> NoReq]
    /\ admin = [d \in Admins |-> NoAdmin]

-----------------------------------------------------------------------------
(* Locks, members and rows.                                                *)

\* The account row is free: no request of the account and no admin holds it.
AccountFree(a) ==
    /\ req[a] = NoReq
    /\ \A d \in Admins : admin[d].account # a

RoomFree(r) == \A d \in Admins : r \notin admin[d].locks

\* LockAccountRow and requireActiveAccount
MayRequest(a) == AccountFree(a) /\ active[a]

IsOpen(r) == room[r].status = "open"
IsMember(r, a) == role[r][a] # "none"
IsGovernor(r, a) == role[r][a] = "governor"

\* speechRight
Speaks(r, a) == role[r][a] \in {"governor", "speaker"}

Members(r) == {a \in Accounts : IsMember(r, a)}
Governors(r) == {a \in Accounts : IsGovernor(r, a)}
Speakers(r) == {a \in Accounts : Speaks(r, a)}
OpenRooms(a) == {r \in Rooms : IsOpen(r) /\ IsMember(r, a)}

RoomOf(w) == entry[assign[w].entry].room

NextRow(ids, used(_), i) == ~used(i) /\ \A j \in ids : j < i => used(j)

RoomUsed(r) == room[r].status # "none"
EntryUsed(e) == entry[e].room # None
AssignUsed(w) == assign[w].state # "none"

\* The id the next entry gets, while the bound lasts.
NewEntries == {e \in EntryIds : NextRow(EntryIds, EntryUsed, e)}

-----------------------------------------------------------------------------
(* Creation, keys and admission.                                           *)

\* IssueThreadKey: the key replaces the one before it.
WithKey(row, ro) == [row EXCEPT !.key = row.issued + 1, !.krole = ro, !.issued = @ + 1]

WithoutKey(row) == [row EXCEPT !.key = 0, !.krole = None]

ThreadStart(a, r, issueKey) ==
    /\ MayRequest(a)
    /\ Cardinality(OpenRooms(a)) < MaxRooms
    /\ NextRow(Rooms, RoomUsed, r)
    /\ LET fresh == [NoRoom EXCEPT !.status = "open"] IN
         room' = [room EXCEPT ![r] = IF issueKey THEN WithKey(fresh, "speaker") ELSE fresh]
    /\ role' = [role EXCEPT ![r][a] = "governor"]
    /\ UNCHANGED <<active, entry, receipt, assign, req, admin>>

\* loadRoomForGovernor
Governs(a, r) ==
    /\ MayRequest(a)
    /\ RoomFree(r)
    /\ IsGovernor(r, a)
    /\ IsOpen(r)

ThreadIssueKey(a, r, ro) ==
    /\ Governs(a, r)
    /\ room[r].issued < MaxKeys
    /\ room' = [room EXCEPT ![r] = WithKey(@, ro)]
    /\ UNCHANGED <<active, role, entry, receipt, assign, req, admin>>

ThreadRevokeKey(a, r) ==
    /\ Governs(a, r)
    /\ room[r].key # 0
    /\ room' = [room EXCEPT ![r] = WithoutKey(@)]
    /\ UNCHANGED <<active, role, entry, receipt, assign, req, admin>>

\* FindOpenThreadByKeyHash, before the room is locked.
JoinLookup(a, r) ==
    /\ MayRequest(a)
    /\ IsOpen(r)
    /\ room[r].key # 0
    /\ req' = [req EXCEPT ![a] = [NoReq EXCEPT !.op = "join", !.room = r,
                                               !.key = room[r].key]]
    /\ UNCHANGED <<active, room, role, entry, receipt, assign, admin>>

\* Mutant for the runs: the key is not looked at again under the lock.
KeyStillLiveUnchecked(q) == IsOpen(q.room)

\* The check repeated under the room lock.
KeyStillLive(q) == IsOpen(q.room) /\ room[q.room].key = q.key

\* Mutant for the runs: the member limit is off by one.
RoomForOneMoreOff(r, a) ==
    Cardinality(Members(r)) <= MaxMembers /\ Cardinality(OpenRooms(a)) < MaxRooms

RoomForOneMore(r, a) ==
    Cardinality(Members(r)) < MaxMembers /\ Cardinality(OpenRooms(a)) < MaxRooms

\* The room is locked.  A member joining again keeps its role.
ThreadJoin(a) ==
    LET q == req[a] IN
    /\ q.op = "join"
    /\ RoomFree(q.room)
    /\ role' = IF KeyStillLive(q) /\ ~IsMember(q.room, a) /\ RoomForOneMore(q.room, a)
               THEN [role EXCEPT ![q.room][a] = room[q.room].krole]
               ELSE role
    /\ req' = [req EXCEPT ![a] = NoReq]
    /\ UNCHANGED <<active, room, entry, receipt, assign, admin>>

-----------------------------------------------------------------------------
(* What the end of a membership and of a room takes with it.               *)

\* Mutant for the runs: a departing member's responses stay pending.
WithdrawByMemberLost(r, a) == receipt

\* WithdrawThreadReceiptsByMember
WithdrawByMember(r, a) ==
    [e \in EntryIds |->
        [receipt[e] EXCEPT ![a] = IF entry[e].room = r /\ @ = "pending"
                                  THEN "withdrawn" ELSE @]]

\* Mutant for the runs: closing a room leaves the pending responses.
WithdrawAllLost(r) == receipt

\* WithdrawAllThreadReceipts
WithdrawAll(r) ==
    [e \in EntryIds |->
        [a \in Accounts |-> IF entry[e].room = r /\ receipt[e][a] = "pending"
                            THEN "withdrawn" ELSE receipt[e][a]]]

EndAssign(row, st) == [row EXCEPT !.state = st, !.due = 0]

\* Mutant for the runs: only the taker's assignments are voided.
VoidedAsTaker(row, a) ==
    IF row.state \in Undelivered /\ a = row.assignee
    THEN EndAssign(row, "voided") ELSE row

\* VoidUndeliveredAssignsForMember: as assignee and as creator.
VoidedFor(row, a) ==
    IF row.state \in Undelivered /\ a \in {row.assignee, row.creator}
    THEN EndAssign(row, "voided") ELSE row

\* Mutant for the runs: a departing creator keeps its right to judge.
ForfeitedForNobody(row, a) == row

\* ForfeitJudgmentsForCreator
ForfeitedFor(row, a) ==
    IF row.state = "delivered" /\ row.creator = a
    THEN [row EXCEPT !.forfeited = TRUE] ELSE row

\* Both, in the rooms rs.
LeaveAssigns(rs, a) ==
    [w \in AssignIds |-> IF AssignUsed(w) /\ RoomOf(w) \in rs
                         THEN ForfeitedFor(VoidedFor(assign[w], a), a) ELSE assign[w]]

EndMembership(r, a) ==
    /\ assign' = LeaveAssigns({r}, a)
    /\ receipt' = WithdrawByMember(r, a)
    /\ role' = [role EXCEPT ![r][a] = "none"]
    /\ UNCHANGED <<active, room, entry, req, admin>>

\* Mutant for the runs: nothing is asked of the last governor.
KeepsGovernorUnchecked(r, a) == TRUE

\* The LAST_MANAGER guard: another governor stays.
KeepsGovernor(r, a) == IsGovernor(r, a) => Cardinality(Governors(r)) > 1

\* Allowed in open and closed rooms alike.
ThreadLeave(a, r) ==
    /\ MayRequest(a)
    /\ RoomFree(r)
    /\ IsMember(r, a)
    /\ IsOpen(r) => KeepsGovernor(r, a)
    /\ EndMembership(r, a)

ThreadRemoveMember(a, r, m) ==
    /\ Governs(a, r)
    /\ IsMember(r, m)
    /\ KeepsGovernor(r, m)
    /\ EndMembership(r, m)

ThreadSetRole(a, r, m, ro) ==
    /\ Governs(a, r)
    /\ IsMember(r, m)
    /\ role[r][m] # ro
    /\ KeepsGovernor(r, m)
    /\ receipt' = IF ro = "observer" THEN WithdrawByMember(r, m) ELSE receipt
    /\ role' = [role EXCEPT ![r][m] = ro]
    /\ UNCHANGED <<active, room, entry, assign, req, admin>>

Closed(row) == [WithoutKey(row) EXCEPT !.status = "closed"]

ThreadClose(a, r) ==
    /\ Governs(a, r)
    /\ assign' = [w \in AssignIds |->
                    IF assign[w].state \in Undelivered /\ RoomOf(w) = r
                    THEN EndAssign(assign[w], "voided") ELSE assign[w]]
    /\ receipt' = WithdrawAll(r)
    /\ room' = [room EXCEPT ![r] = Closed(@)]
    /\ UNCHANGED <<active, role, entry, req, admin>>

-----------------------------------------------------------------------------
(* Entries and responses.                                                  *)

\* The ordered rules that fix whom an entry asks.
Responders(r, a, ask, reply) ==
    IF ask # None THEN ask
    ELSE IF reply # None /\ entry[reply].author # a
         THEN {entry[reply].author} \cap Speakers(r)
         ELSE IF Cardinality(Speakers(r)) = 2 THEN Speakers(r) \ {a} ELSE {}

\* Ends a pending response once.
Fulfilled(rs, e, a) == [rs EXCEPT ![e][a] = IF @ = "pending" THEN "fulfilled" ELSE @]

NewAssign(a, to, e) == [NoAssign EXCEPT !.state = "open", !.entry = e, !.creator = a,
                                        !.assignee = to]

ThreadPost(a, r, e, ask, reply, to) ==
    /\ MayRequest(a)
    /\ RoomFree(r)
    /\ IsOpen(r)
    /\ Speaks(r, a)
    /\ ask # None => ask \subseteq Speakers(r) \ {a}
    /\ reply # None => entry[reply].room = r
    /\ entry' = [entry EXCEPT ![e] = [room |-> r, author |-> a]]
    /\ LET asked == Responders(r, a, ask, reply)
           added == [receipt EXCEPT ![e] = [x \in Accounts |->
                        IF x \in asked THEN "pending" ELSE "none"]]
       IN receipt' = IF reply = None THEN added ELSE Fulfilled(added, reply, a)
    /\ \/ to = None /\ UNCHANGED assign
       \/ /\ to \in Speakers(r)
          /\ \E w \in AssignIds : /\ NextRow(AssignIds, AssignUsed, w)
                                  /\ assign' = [assign EXCEPT ![w] = NewAssign(a, to, e)]
    /\ UNCHANGED <<active, room, role, req, admin>>

ThreadHandle(a, e) ==
    /\ MayRequest(a)
    /\ EntryUsed(e)
    /\ RoomFree(entry[e].room)
    /\ IsMember(entry[e].room, a)
    /\ IsOpen(entry[e].room)
    /\ receipt[e][a] = "pending"
    /\ receipt' = Fulfilled(receipt, e, a)
    /\ UNCHANGED <<active, room, role, entry, assign, req, admin>>

\* WithdrawThreadReceiptsByEntry, by the author.
ThreadRetract(a, e) ==
    /\ MayRequest(a)
    /\ EntryUsed(e)
    /\ RoomFree(entry[e].room)
    /\ IsMember(entry[e].room, a)
    /\ IsOpen(entry[e].room)
    /\ entry[e].author = a
    /\ \E x \in Accounts : receipt[e][x] = "pending"
    /\ receipt' = [receipt EXCEPT ![e] = [x \in Accounts |->
                      IF @[x] = "pending" THEN "withdrawn" ELSE @[x]]]
    /\ UNCHANGED <<active, room, role, entry, assign, req, admin>>

-----------------------------------------------------------------------------
(* Assignments.                                                            *)

Down(n) == IF n > 0 THEN n - 1 ELSE 0

Left(due, age) == IF age < due THEN due - age ELSE 0

\* deadlinePassed: by the database clock of the transaction's start.
DeadlinePassed(row) == row.state \in {"taken", "delivered"} /\ row.due = 0

\* FindAssignment, before the room is locked.
AssignLookup(a, w, op) ==
    /\ MayRequest(a)
    /\ AssignUsed(w)
    /\ req' = [req EXCEPT ![a] =
                  [NoReq EXCEPT !.op = op, !.id = w, !.state = assign[w].state,
                                !.late = DeadlinePassed(assign[w]),
                                !.forfeited = assign[w].forfeited]]
    /\ UNCHANGED <<active, room, role, entry, receipt, assign, admin>>

\* Mutant for the runs: the states read at the lookup are trusted.
StillAsReadUnchecked(q) == TRUE

\* The compare-and-set of the transition: the row is still in the state the
\* lookup read, and a judgment is still the creator's to give.
StillAsRead(q) ==
    /\ assign[q.id].state = q.state
    /\ q.op \in {"adopt", "reject"} => ~assign[q.id].forfeited

\* Who may do what, from which state.
Permitted(a, q) ==
    LET row == assign[q.id] IN
    /\ IsMember(RoomOf(q.id), a)
    /\ \/ q.op \in {"take", "take_submit"} /\ a = row.assignee /\ q.state = "open"
       \/ q.op \in {"submit", "drop"} /\ a = row.assignee /\ q.state = "taken" /\ ~q.late
       \/ /\ q.op \in {"adopt", "reject"} /\ a = row.creator
          /\ q.state = "delivered" /\ ~q.late /\ ~q.forfeited
       \/ q.op = "void" /\ a = row.creator /\ q.state \in Undelivered

AssignTo(q) ==
    LET row == assign[q.id] IN
    CASE q.op = "take" -> [row EXCEPT !.state = "taken", !.due = Left(DeliverDue, q.age)]
      [] q.op \in {"submit", "take_submit"} ->
            [row EXCEPT !.state = "delivered", !.due = Left(JudgeDue, q.age)]
      [] q.op = "adopt" -> EndAssign(row, "adopted")
      [] q.op = "reject" -> EndAssign(row, "rejected")
      [] q.op = "drop" -> EndAssign(row, "dropped")
      [] q.op = "void" -> EndAssign(row, "voided")

\* The room is locked; taking also ends the taker's own response.
AssignAct(a) ==
    LET q == req[a] IN
    /\ q.op \in AssignOps
    /\ RoomFree(RoomOf(q.id))
    /\ Permitted(a, q)
    /\ StillAsRead(q)
    /\ assign' = [assign EXCEPT ![q.id] = AssignTo(q)]
    /\ receipt' = IF q.op \in {"take", "take_submit"}
                  THEN Fulfilled(receipt, assign[q.id].entry, a) ELSE receipt
    /\ req' = [req EXCEPT ![a] = NoReq]
    /\ UNCHANGED <<active, room, role, entry, admin>>

AssignRefused(a) ==
    LET q == req[a] IN
    /\ q.op \in AssignOps
    /\ RoomFree(RoomOf(q.id))
    /\ ~(Permitted(a, q) /\ StillAsRead(q))
    /\ req' = [req EXCEPT ![a] = NoReq]
    /\ UNCHANGED <<active, room, role, entry, receipt, assign, admin>>

\* Mutant for the runs: what has ended in time is swept once more.
AssignTimedOutAgain(w) ==
    /\ assign[w].state \notin {"none", "open", "delivered"}
    /\ assign[w].due = 0
    /\ assign' = [assign EXCEPT ![w] = EndAssign(@, "timed_out")]
    /\ UNCHANGED <<active, room, role, entry, receipt, req, admin>>

\* RecoverAssigns, which takes no room lock.
AssignTimedOut(w) ==
    /\ assign[w].state = "taken"
    /\ assign[w].due = 0
    /\ assign' = [assign EXCEPT ![w] = EndAssign(@, "timed_out")]
    /\ UNCHANGED <<active, room, role, entry, receipt, req, admin>>

\* Mutant for the runs: forfeited deliveries are left out of the sweep.
AssignUndecidedStanding(w) ==
    /\ assign[w].state = "delivered"
    /\ assign[w].due = 0
    /\ ~assign[w].forfeited
    /\ assign' = [assign EXCEPT ![w] = EndAssign(@, "undecided")]
    /\ UNCHANGED <<active, room, role, entry, receipt, req, admin>>

AssignUndecided(w) ==
    /\ assign[w].state = "delivered"
    /\ assign[w].due = 0
    /\ assign' = [assign EXCEPT ![w] = EndAssign(@, "undecided")]
    /\ UNCHANGED <<active, room, role, entry, receipt, req, admin>>

-----------------------------------------------------------------------------
(* Disabling an account: TerminateAccountThreadMemberships, statement by   *)
(* statement, inside the admin's transaction.                              *)

\* AdminLockBotForUpdate
DisableBegin(d, a) ==
    /\ admin[d].pc = "idle"
    /\ MayRequest(a)
    /\ admin' = [admin EXCEPT ![d] = [pc |-> "lock", account |-> a, locks |-> {}]]
    /\ UNCHANGED <<active, room, role, entry, receipt, assign, req>>

Governed(a) == {r \in Rooms : IsOpen(r) /\ IsGovernor(r, a)}

\* Mutant for the runs: the rooms are not locked before the decision.
DisableLockNone(d) ==
    /\ admin[d].pc = "lock"
    /\ admin' = [admin EXCEPT ![d].pc = "close"]
    /\ UNCHANGED <<active, room, role, entry, receipt, assign, req>>

DisableLock(d) ==
    /\ admin[d].pc = "lock"
    /\ \A r \in Governed(admin[d].account) : RoomFree(r)
    /\ admin' = [admin EXCEPT ![d].pc = "close", ![d].locks = Governed(admin[d].account)]
    /\ UNCHANGED <<active, room, role, entry, receipt, assign, req>>

\* Open rooms that the account governs alone; an UPDATE locks them too.
GovernedAlone(a) == {r \in Governed(a) : Governors(r) = {a}}

DisableClose(d) ==
    LET alone == GovernedAlone(admin[d].account) IN
    /\ admin[d].pc = "close"
    /\ \A r \in alone : r \in admin[d].locks \/ RoomFree(r)
    /\ room' = [r \in Rooms |-> IF r \in alone THEN Closed(room[r]) ELSE room[r]]
    /\ admin' = [admin EXCEPT ![d].pc = "receipts", ![d].locks = @ \cup alone]
    /\ UNCHANGED <<active, role, entry, receipt, assign, req>>

DisableReceipts(d) ==
    /\ admin[d].pc = "receipts"
    /\ receipt' = [e \in EntryIds |->
                     [receipt[e] EXCEPT ![admin[d].account] =
                         IF @ = "pending" THEN "withdrawn" ELSE @]]
    /\ admin' = [admin EXCEPT ![d].pc = "assigns"]
    /\ UNCHANGED <<active, room, role, entry, assign, req>>

DisableAssigns(d) ==
    /\ admin[d].pc = "assigns"
    /\ assign' = LeaveAssigns(Rooms, admin[d].account)
    /\ admin' = [admin EXCEPT ![d].pc = "members"]
    /\ UNCHANGED <<active, room, role, entry, receipt, req>>

\* The memberships are deleted and the transaction commits.
DisableCommit(d) ==
    /\ admin[d].pc = "members"
    /\ role' = [r \in Rooms |-> [role[r] EXCEPT ![admin[d].account] = "none"]]
    /\ active' = [active EXCEPT ![admin[d].account] = FALSE]
    /\ admin' = [admin EXCEPT ![d] = NoAdmin]
    /\ UNCHANGED <<room, entry, receipt, assign, req>>

EnableAccount(d, a) ==
    /\ admin[d].pc = "idle"
    /\ AccountFree(a)
    /\ ~active[a]
    /\ active' = [active EXCEPT ![a] = TRUE]
    /\ UNCHANGED <<room, role, entry, receipt, assign, req, admin>>

-----------------------------------------------------------------------------

LongestDue == IF DeliverDue > JudgeDue THEN DeliverDue ELSE JudgeDue

\* Time passes for the deadlines and for the requests under way.
Tick ==
    /\ \E w \in AssignIds : assign[w].due > 0
    /\ assign' = [w \in AssignIds |-> [assign[w] EXCEPT !.due = Down(@)]]
    /\ req' = [a \in Accounts |->
                 IF req[a].op \in AssignOps /\ req[a].age < LongestDue
                 THEN [req[a] EXCEPT !.age = @ + 1] ELSE req[a]]
    /\ UNCHANGED <<active, room, role, entry, receipt, admin>>

RoomStep(a) ==
    \/ \E r \in Rooms :
         \/ \E k \in BOOLEAN : ThreadStart(a, r, k)
         \/ \E ro \in KeyRoles : ThreadIssueKey(a, r, ro)
         \/ ThreadRevokeKey(a, r)
         \/ JoinLookup(a, r)
         \/ ThreadLeave(a, r)
         \/ \E m \in Accounts : ThreadRemoveMember(a, r, m)
         \/ \E m \in Accounts, ro \in RolesGiven : ThreadSetRole(a, r, m, ro)
         \/ ThreadClose(a, r)
    \/ ThreadJoin(a)

EntryStep(a) ==
    \/ \E r \in Rooms, e \in NewEntries :
          \E ask \in SUBSET Speakers(r) \cup {None}, reply \in EntryIds \cup {None},
             to \in Speakers(r) \cup {None} : ThreadPost(a, r, e, ask, reply, to)
    \/ \E e \in EntryIds : ThreadHandle(a, e) \/ ThreadRetract(a, e)

AssignStep(a) ==
    \/ \E w \in AssignIds, op \in AssignOps : AssignLookup(a, w, op)
    \/ AssignAct(a)
    \/ AssignRefused(a)

DisableStep(d) ==
    \/ \E a \in Accounts : DisableBegin(d, a) \/ EnableAccount(d, a)
    \/ DisableLock(d) \/ DisableClose(d) \/ DisableReceipts(d)
    \/ DisableAssigns(d) \/ DisableCommit(d)

SweepStep(w) == AssignTimedOut(w) \/ AssignUndecided(w)

Next ==
    \/ \E a \in Accounts : RoomStep(a) \/ EntryStep(a) \/ AssignStep(a)
    \/ \E d \in Admins : DisableStep(d)
    \/ \E w \in AssignIds : SweepStep(w)
    \/ Tick

Spec == Init /\ [][Next]_vars

\* Time passes and the sweeper reaches every assignment.
FairSpec == Spec /\ WF_vars(Tick) /\ \A w \in AssignIds : WF_vars(SweepStep(w))

-----------------------------------------------------------------------------
(* Properties.                                                             *)

\* Types of the rows, of the requests and of the admin transactions.
TypeOK ==
    /\ active \in [Accounts -> BOOLEAN]
    /\ room \in [Rooms -> [status : {"none", "open", "closed"},
                           key : 0..MaxKeys + 1, krole : Roles \cup {None},
                           issued : 0..MaxKeys + 1]]
    /\ role \in [Rooms -> [Accounts -> Roles \cup {"none"}]]
    /\ entry \in [EntryIds -> [room : Rooms \cup {None}, author : Accounts \cup {None}]]
    /\ receipt \in [EntryIds -> [Accounts -> ReceiptStates]]
    /\ assign \in [AssignIds -> [state : AssignStates, entry : EntryIds \cup {None},
                                 creator : Accounts \cup {None},
                                 assignee : Accounts \cup {None},
                                 due : 0..LongestDue, forfeited : BOOLEAN]]
    /\ req \in [Accounts -> [op : AssignOps \cup {"join", "none"},
                             room : Rooms \cup {None}, key : 0..MaxKeys + 1,
                             id : AssignIds \cup {None}, state : AssignStates,
                             late : BOOLEAN, forfeited : BOOLEAN, age : 0..LongestDue]]
    /\ admin \in [Admins -> [pc : {"idle", "lock", "close", "receipts", "assigns", "members"},
                             account : Accounts \cup {None}, locks : SUBSET Rooms]]

\* kungfu.md 6.2: "An open thread MUST always have at least one governor",
\* across leaving, removal, demotion, handing over and deactivation.
OpenRoomHasGovernor == \A r \in Rooms : IsOpen(r) => Governors(r) # {}

\* kungfu.md 6.5: once the closing is committed, a closed room leaves no
\* response pending, which nobody could answer or handle any more, and no
\* assignment undelivered.
ClosedRoomOwesNothing ==
    \A r \in Rooms : room[r].status = "closed" /\ RoomFree(r) =>
        /\ \A e \in EntryIds, a \in Accounts :
              entry[e].room = r => receipt[e][a] # "pending"
        /\ \A w \in AssignIds :
              AssignUsed(w) /\ RoomOf(w) = r => assign[w].state \notin Undelivered

\* kungfu.md 6.2: only a member who may speak owes a response; losing the
\* membership or the right to speak ends what is pending in the same fact.
PendingOwedByMember ==
    \A e \in EntryIds, a \in Accounts :
        receipt[e][a] = "pending" => Speaks(entry[e].room, a)

\* kungfu.md 6.2: an assignment that is not delivered is between two members;
\* it is voided with the membership of either side.
UndeliveredBetweenMembers ==
    \A w \in AssignIds : assign[w].state \in Undelivered =>
        {assign[w].creator, assign[w].assignee} \subseteq Members(RoomOf(w))

\* kungfu.md 6.2: the creator of a delivered assignment who is no longer a
\* member has forfeited the judgment, and whoever forfeited it never judges,
\* not after joining again either.
JudgmentForfeited ==
    \A w \in AssignIds :
        /\ assign[w].state = "delivered" /\ ~IsMember(RoomOf(w), assign[w].creator)
              => assign[w].forfeited
        /\ assign[w].forfeited => assign[w].state \in {"delivered", "undecided"}

\* An account belongs to at most MaxRooms open rooms, a room has at most
\* MaxMembers members, however joins and starts interleave.
WithinLimits ==
    /\ \A r \in Rooms : Cardinality(Members(r)) <= MaxMembers
    /\ \A a \in Accounts : Cardinality(OpenRooms(a)) <= MaxRooms

\* kungfu.md L5: every obligation and every delivery ends at most once, also
\* when a tool acts on an assignment it read before it had the room.
EndsOnce ==
    [][/\ \A e \in EntryIds, a \in Accounts :
             receipt[e][a] \in {"fulfilled", "withdrawn"} => receipt'[e][a] = receipt[e][a]
       /\ \A w \in AssignIds :
             /\ assign[w].state \in Settled => assign'[w].state = assign[w].state
             /\ assign[w].state = "delivered" => assign'[w].state \notin Undelivered]_vars

\* thread_join: a membership begins with the room's creation or through the
\* key that is live at that moment, in the role that key grants; a key
\* replaced since the lookup admits nobody.
AdmittedByLiveKey ==
    [][\A r \in Rooms, a \in Accounts :
          role[r][a] = "none" /\ role'[r][a] # "none" =>
             \/ room[r].status = "none"
             \/ /\ IsOpen(r)
                /\ room[r].key # 0 /\ req[a].key = room[r].key
                /\ role'[r][a] = room[r].krole]_vars

\* kungfu.md L4: a taken assignment is delivered or ended, a delivered one is
\* settled, also when its creator is gone or has lost the right to judge.
AssignmentsSettle ==
    \A w \in AssignIds :
        /\ assign[w].state = "taken" ~> assign[w].state # "taken"
        /\ assign[w].state = "delivered" ~> assign[w].state \in Settled
=============================================================================
