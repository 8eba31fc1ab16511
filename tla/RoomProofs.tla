----------------------------- MODULE RoomProofs -----------------------------
(***************************************************************************)
(* Rooms, for any number of accounts, rooms, entries, assignments and      *)
(* administrators: the types of their rows, who is admitted by a key, when *)
(* an open room keeps a governor; that responses, deliveries and judgments *)
(* end once and a creator that is gone has lost its judgment; that rooms   *)
(* stay in order: their limits, who owes a response, what a departure and  *)
(* a closing leave behind; and that what a member is shown of its rooms is *)
(* what the tools would serve.                                             *)
(***************************************************************************)
EXTENDS RoomOrder, FiniteSetTheorems, TLAPS

RoomRow == [status : {"none", "open", "closed"}, key : 0..MaxKeys + 1,
            krole : Roles \cup {None}, issued : 0..MaxKeys + 1]
EntryRow == [room : Rooms \cup {None}, author : Accounts \cup {None}]
AssignRow == [state : AssignStates, entry : EntryIds \cup {None},
              creator : Accounts \cup {None}, assignee : Accounts \cup {None},
              due : 0..LongestDue, forfeited : BOOLEAN]
ReqRow == [op : AssignOps \cup {"join", "none"}, room : Rooms \cup {None},
           key : 0..MaxKeys + 1, id : AssignIds \cup {None}, state : AssignStates,
           late : BOOLEAN, forfeited : BOOLEAN, age : 0..LongestDue]
AdminRow == [pc : {"idle", "lock", "close", "receipts", "assigns", "members"},
             account : Accounts \cup {None}, locks : SUBSET Rooms]

\* A live key grants a role.
RoomsTyped ==
    /\ room \in [Rooms -> RoomRow]
    /\ \A r \in Rooms : room[r].key # 0 => room[r].krole \in Roles

\* A join remembers a key, an assignment tool the assignment.
ReqsTyped ==
    /\ req \in [Accounts -> ReqRow]
    /\ \A a \in Accounts :
         /\ req[a].op = "join" => req[a].key # 0 /\ req[a].room \in Rooms
         /\ req[a].op \in AssignOps => req[a].id \in AssignIds

\* An administrator's transaction is about an account.
AdminsTyped ==
    /\ admin \in [Admins -> AdminRow]
    /\ \A d \in Admins : admin[d].pc # "idle" => admin[d].account \in Accounts

RolesTyped == role \in [Rooms -> [Accounts -> Roles \cup {"none"}]]
AssignsTyped == assign \in [AssignIds -> AssignRow]
ReceiptsTyped == receipt \in [EntryIds -> [Accounts -> ReceiptStates]]
EntriesTyped == entry \in [EntryIds -> EntryRow]
ActiveTyped == active \in [Accounts -> BOOLEAN]

TypeInv ==
    /\ RoomsTyped /\ ReqsTyped /\ AdminsTyped /\ RolesTyped
    /\ AssignsTyped /\ ReceiptsTyped /\ EntriesTyped /\ ActiveTyped

-----------------------------------------------------------------------------
(* Rows.                                                                   *)

LEMMA DueIsNumber == LongestDue \in Nat /\ DeliverDue <= LongestDue /\ JudgeDue <= LongestDue
  BY RoomBoundAssumption DEF LongestDue

LEMMA ZeroType == 0 \in 0..MaxKeys + 1 /\ 0 \in 0..LongestDue
  BY RoomBoundAssumption, DueIsNumber

LEMMA WithKeyType ==
  ASSUME NEW row \in RoomRow, NEW ro \in Roles, row.issued <= MaxKeys
  PROVE  /\ WithKey(row, ro) \in RoomRow
         /\ WithKey(row, ro).krole = ro /\ WithKey(row, ro).status = row.status
  <1>1. row.issued + 1 \in 0..MaxKeys + 1
    BY RoomBoundAssumption DEF RoomRow
  <1> QED
    BY <1>1 DEF WithKey, RoomRow

LEMMA WithoutKeyType ==
  ASSUME NEW row \in RoomRow
  PROVE  /\ WithoutKey(row) \in RoomRow
         /\ WithoutKey(row).key = 0 /\ WithoutKey(row).status = row.status
  BY ZeroType DEF WithoutKey, RoomRow

LEMMA ClosedType ==
  ASSUME NEW row \in RoomRow
  PROVE  Closed(row) \in RoomRow /\ Closed(row).key = 0 /\ Closed(row).status = "closed"
  BY ZeroType DEF Closed, WithoutKey, RoomRow

LEMMA EndAssignType ==
  ASSUME NEW row \in AssignRow, NEW st \in AssignStates
  PROVE  /\ EndAssign(row, st) \in AssignRow /\ EndAssign(row, st).state = st
         /\ EndAssign(row, st).creator = row.creator
         /\ EndAssign(row, st).forfeited = row.forfeited
  BY ZeroType DEF EndAssign, AssignRow

LEMMA LeaveAssignType ==
  ASSUME NEW row \in AssignRow, NEW a
  PROVE  ForfeitedFor(VoidedFor(row, a), a) \in AssignRow
  <1>1. "voided" \in AssignStates
    BY DEF AssignStates
  <1>2. VoidedFor(row, a) \in AssignRow
    BY <1>1, EndAssignType DEF VoidedFor
  <1>3. ASSUME NEW x \in AssignRow PROVE ForfeitedFor(x, a) \in AssignRow
    BY DEF ForfeitedFor, AssignRow
  <1> QED
    BY <1>2, <1>3

LEMMA LeaveAssignsType ==
  ASSUME AssignsTyped, NEW rs, NEW a
  PROVE  LeaveAssigns(rs, a) \in [AssignIds -> AssignRow]
  BY LeaveAssignType DEF LeaveAssigns, AssignsTyped

LEMMA WithdrawType ==
  ASSUME ReceiptsTyped, NEW r, NEW a
  PROVE  /\ WithdrawByMember(r, a) \in [EntryIds -> [Accounts -> ReceiptStates]]
         /\ WithdrawAll(r) \in [EntryIds -> [Accounts -> ReceiptStates]]
  BY DEF WithdrawByMember, WithdrawAll, ReceiptsTyped, ReceiptStates

LEMMA FulfilledType ==
  ASSUME NEW rs \in [EntryIds -> [Accounts -> ReceiptStates]], NEW e, NEW a
  PROVE  Fulfilled(rs, e, a) \in [EntryIds -> [Accounts -> ReceiptStates]]
  BY DEF Fulfilled, ReceiptStates

LEMMA NoReqType == NoReq \in ReqRow /\ NoReq.op = "none"
  BY ZeroType DEF NoReq, ReqRow, AssignStates

\* A request that is over remembers nothing.
LEMMA ForgetType ==
  ASSUME ReqsTyped, NEW a \in Accounts, req' = [req EXCEPT ![a] = NoReq]
  PROVE  ReqsTyped'
  BY NoReqType DEF ReqsTyped, AssignOps

\* One request begins.
LEMMA RememberType ==
  ASSUME ReqsTyped, NEW a \in Accounts, NEW q \in ReqRow, req' = [req EXCEPT ![a] = q],
         q.op = "join" => q.key # 0 /\ q.room \in Rooms, q.op \in AssignOps => q.id \in AssignIds
  PROVE  ReqsTyped'
  BY DEF ReqsTyped

\* One row of a room changes.
LEMMA OneRoomType ==
  ASSUME RoomsTyped, NEW r \in Rooms, NEW row \in RoomRow, row.key # 0 => row.krole \in Roles,
         room' = [room EXCEPT ![r] = row]
  PROVE  RoomsTyped'
  BY DEF RoomsTyped

-----------------------------------------------------------------------------
(* Rooms, keys and members keep the types.                                 *)

LEMMA TypeThreadStart ==
  ASSUME TypeInv, NEW a \in Accounts, NEW r \in Rooms, NEW k \in BOOLEAN, ThreadStart(a, r, k)
  PROVE  TypeInv'
  <1> DEFINE fresh == [NoRoom EXCEPT !.status = "open"]
  <1>1. fresh \in RoomRow /\ fresh.key = 0 /\ fresh.issued = 0
    <2>1. NoRoom = [status |-> "none", key |-> 0, krole |-> None, issued |-> 0]
      BY DEF NoRoom
    <2>2. fresh = [status |-> "open", key |-> 0, krole |-> None, issued |-> 0]
      BY <2>1
    <2> QED
      BY <2>2, ZeroType DEF RoomRow
  <1>2. WithKey(fresh, "speaker") \in RoomRow /\ WithKey(fresh, "speaker").krole = "speaker"
    <2>1. fresh.issued <= MaxKeys
      BY <1>1, RoomBoundAssumption
    <2>2. "speaker" \in Roles
      BY DEF Roles
    <2> HIDE DEF fresh
    <2> QED
      BY <1>1, <2>1, <2>2, WithKeyType
  <1>3. room' = [room EXCEPT ![r] = IF k THEN WithKey(fresh, "speaker") ELSE fresh]
    BY DEF ThreadStart
  <1> HIDE DEF fresh
  <1>4. RoomsTyped'
    BY <1>1, <1>2, <1>3, OneRoomType DEF TypeInv, Roles
  <1>5. RolesTyped'
    BY DEF ThreadStart, TypeInv, RolesTyped, Roles
  <1> QED
    BY <1>4, <1>5 DEF ThreadStart, TypeInv, ReqsTyped, AdminsTyped, AssignsTyped,
                      ReceiptsTyped, EntriesTyped, ActiveTyped

LEMMA TypeIssueKey ==
  ASSUME TypeInv, NEW a \in Accounts, NEW r \in Rooms, NEW ro \in KeyRoles, ThreadIssueKey(a, r, ro)
  PROVE  TypeInv'
  <1>1. room[r] \in RoomRow /\ room[r].issued <= MaxKeys /\ ro \in Roles
    BY RoomBoundAssumption DEF ThreadIssueKey, TypeInv, RoomsTyped, RoomRow
  <1>2. WithKey(room[r], ro) \in RoomRow /\ WithKey(room[r], ro).krole = ro
    BY <1>1, WithKeyType
  <1>3. RoomsTyped'
    BY <1>1, <1>2, OneRoomType DEF ThreadIssueKey, TypeInv
  <1> QED
    BY <1>3 DEF ThreadIssueKey, TypeInv, ReqsTyped, AdminsTyped, RolesTyped, AssignsTyped,
                ReceiptsTyped, EntriesTyped, ActiveTyped

LEMMA TypeRevokeKey ==
  ASSUME TypeInv, NEW a \in Accounts, NEW r \in Rooms, ThreadRevokeKey(a, r)
  PROVE  TypeInv'
  <1>1. WithoutKey(room[r]) \in RoomRow /\ WithoutKey(room[r]).key = 0
    BY WithoutKeyType DEF TypeInv, RoomsTyped
  <1>2. RoomsTyped'
    BY <1>1, OneRoomType DEF ThreadRevokeKey, TypeInv
  <1> QED
    BY <1>2 DEF ThreadRevokeKey, TypeInv, ReqsTyped, AdminsTyped, RolesTyped, AssignsTyped,
                ReceiptsTyped, EntriesTyped, ActiveTyped

LEMMA TypeJoinLookup ==
  ASSUME TypeInv, NEW a \in Accounts, NEW r \in Rooms, JoinLookup(a, r)
  PROVE  TypeInv'
  <1> DEFINE q == [NoReq EXCEPT !.op = "join", !.room = r, !.key = room[r].key]
  <1>1. room[r].key \in 0..MaxKeys + 1 /\ room[r].key # 0
    BY DEF JoinLookup, TypeInv, RoomsTyped, RoomRow
  <1>2. q \in ReqRow /\ q.op = "join" /\ q.room = r /\ q.key = room[r].key
    BY <1>1, ZeroType DEF NoReq, ReqRow, AssignStates
  <1>3. req' = [req EXCEPT ![a] = q]
    BY DEF JoinLookup
  <1> HIDE DEF q
  <1>4. ReqsTyped'
    BY <1>1, <1>2, <1>3, RememberType DEF TypeInv, AssignOps
  <1> QED
    BY <1>4 DEF JoinLookup, TypeInv, RoomsTyped, AdminsTyped, RolesTyped, AssignsTyped,
                ReceiptsTyped, EntriesTyped, ActiveTyped

LEMMA TypeThreadJoin ==
  ASSUME TypeInv, NEW a \in Accounts, ThreadJoin(a)
  PROVE  TypeInv'
  <1>1. req[a].op = "join" /\ req[a].room \in Rooms /\ req[a].key # 0
    BY DEF ThreadJoin, TypeInv, ReqsTyped
  <1>2. KeyStillLive(req[a]) => room[req[a].room].krole \in Roles
    BY <1>1 DEF KeyStillLive, TypeInv, RoomsTyped
  <1>3. RolesTyped'
    BY <1>1, <1>2 DEF ThreadJoin, TypeInv, RolesTyped
  <1>4. ReqsTyped'
    BY ForgetType DEF ThreadJoin, TypeInv
  <1> QED
    BY <1>3, <1>4 DEF ThreadJoin, TypeInv, RoomsTyped, AdminsTyped, AssignsTyped,
                      ReceiptsTyped, EntriesTyped, ActiveTyped

LEMMA TypeEndMembership ==
  ASSUME TypeInv, NEW r \in Rooms, NEW a \in Accounts, EndMembership(r, a)
  PROVE  TypeInv'
  <1>1. AssignsTyped'
    BY LeaveAssignsType DEF EndMembership, TypeInv, AssignsTyped
  <1>2. ReceiptsTyped'
    BY WithdrawType DEF EndMembership, TypeInv, ReceiptsTyped
  <1>3. RolesTyped'
    BY DEF EndMembership, TypeInv, RolesTyped
  <1> QED
    BY <1>1, <1>2, <1>3 DEF EndMembership, TypeInv, RoomsTyped, ReqsTyped, AdminsTyped,
                            EntriesTyped, ActiveTyped

LEMMA TypeSetRole ==
  ASSUME TypeInv, NEW a \in Accounts, NEW r \in Rooms, NEW m \in Accounts, NEW ro \in RolesGiven,
         ThreadSetRole(a, r, m, ro)
  PROVE  TypeInv'
  <1>1. RolesTyped'
    BY RoomBoundAssumption DEF ThreadSetRole, TypeInv, RolesTyped
  <1>2. ReceiptsTyped'
    BY WithdrawType DEF ThreadSetRole, TypeInv, ReceiptsTyped
  <1> QED
    BY <1>1, <1>2 DEF ThreadSetRole, TypeInv, RoomsTyped, ReqsTyped, AdminsTyped, AssignsTyped,
                      EntriesTyped, ActiveTyped

LEMMA TypeThreadClose ==
  ASSUME TypeInv, NEW a \in Accounts, NEW r \in Rooms, ThreadClose(a, r)
  PROVE  TypeInv'
  <1>1. RoomsTyped'
    BY ClosedType, OneRoomType DEF ThreadClose, TypeInv, RoomsTyped
  <1>2. "voided" \in AssignStates
    BY DEF AssignStates
  <1>3. AssignsTyped'
    BY <1>2, EndAssignType DEF ThreadClose, TypeInv, AssignsTyped
  <1>4. ReceiptsTyped'
    BY WithdrawType DEF ThreadClose, TypeInv, ReceiptsTyped
  <1> QED
    BY <1>1, <1>3, <1>4 DEF ThreadClose, TypeInv, ReqsTyped, AdminsTyped, RolesTyped,
                            EntriesTyped, ActiveTyped

-----------------------------------------------------------------------------
(* Entries, assignments and the sweeper keep the types.                    *)

LEMMA TypeThreadPost ==
  ASSUME TypeInv, NEW a \in Accounts, NEW r \in Rooms, NEW e \in NewEntries,
         NEW ask \in SUBSET Speakers(r) \cup {None}, NEW reply \in EntryIds \cup {None},
         NEW to \in Speakers(r) \cup {None}, ThreadPost(a, r, e, ask, reply, to)
  PROVE  TypeInv'
  <1>1. EntriesTyped'
    <2>1. [room |-> r, author |-> a] \in EntryRow
      BY DEF EntryRow
    <2> QED
      BY <2>1 DEF ThreadPost, TypeInv, EntriesTyped
  <1>2. ReceiptsTyped'
    <2> DEFINE due == Responders(r, a, ask, reply)
               added == [receipt EXCEPT ![e] = [x \in Accounts |->
                            IF x \in due THEN "pending" ELSE "none"]]
    <2>1. receipt' = IF reply = None THEN added ELSE Fulfilled(added, reply, a)
      BY DEF ThreadPost
    <2> HIDE DEF due
    <2>2. added \in [EntryIds -> [Accounts -> ReceiptStates]]
      BY DEF TypeInv, ReceiptsTyped, ReceiptStates
    <2> HIDE DEF added
    <2> QED
      BY <2>1, <2>2, FulfilledType DEF ReceiptsTyped
  <1>3. AssignsTyped'
    <2>1. CASE UNCHANGED assign
      BY <2>1 DEF TypeInv, AssignsTyped
    <2>2. CASE to \in Speakers(r) /\ \E w \in AssignIds : assign' = [assign EXCEPT ![w] = NewAssign(a, to, e)]
      <3>1. to \in Accounts /\ e \in EntryIds
        BY <2>2 DEF Speakers, NewEntries
      <3>2. NoAssign \in AssignRow
        BY ZeroType DEF NoAssign, AssignRow, AssignStates
      <3>3. NewAssign(a, to, e) \in AssignRow
        BY <3>1, <3>2 DEF NewAssign, AssignRow, AssignStates
      <3> QED
        BY <2>2, <3>3 DEF TypeInv, AssignsTyped
    <2> QED
      BY <2>1, <2>2 DEF ThreadPost
  <1> QED
    BY <1>1, <1>2, <1>3 DEF ThreadPost, TypeInv, RoomsTyped, ReqsTyped, AdminsTyped,
                            RolesTyped, ActiveTyped

LEMMA TypeHandle ==
  ASSUME TypeInv, NEW a \in Accounts, NEW e \in EntryIds, ThreadHandle(a, e) \/ ThreadRetract(a, e)
  PROVE  TypeInv'
  <1>1. ReceiptsTyped'
    <2>1. CASE ThreadHandle(a, e)
      BY <2>1, FulfilledType DEF ThreadHandle, TypeInv, ReceiptsTyped
    <2>2. CASE ThreadRetract(a, e)
      BY <2>2 DEF ThreadRetract, TypeInv, ReceiptsTyped, ReceiptStates
    <2> QED
      BY <2>1, <2>2
  <1> QED
    BY <1>1 DEF ThreadHandle, ThreadRetract, TypeInv, RoomsTyped, ReqsTyped, AdminsTyped,
                RolesTyped, AssignsTyped, EntriesTyped, ActiveTyped

LEMMA TypeAssignLookup ==
  ASSUME TypeInv, NEW a \in Accounts, NEW w \in AssignIds, NEW op \in AssignOps,
         AssignLookup(a, w, op)
  PROVE  TypeInv'
  <1> DEFINE late == DeadlinePassed(assign[w])
             q == [NoReq EXCEPT !.op = op, !.id = w, !.state = assign[w].state,
                                !.late = late, !.forfeited = assign[w].forfeited]
  <1>1. req' = [req EXCEPT ![a] = q]
    BY DEF AssignLookup
  <1>2. late \in BOOLEAN
    BY DEF DeadlinePassed
  <1>3. assign[w].state \in AssignStates /\ assign[w].forfeited \in BOOLEAN
    BY DEF TypeInv, AssignsTyped, AssignRow
  <1> HIDE DEF late
  <1>5. q \in ReqRow /\ q.op = op /\ q.id = w
    BY <1>2, <1>3, NoReqType DEF ReqRow
  <1> HIDE DEF q
  <1>6. ReqsTyped'
    BY <1>1, <1>5, RememberType DEF TypeInv, AssignOps
  <1> QED
    BY <1>6 DEF AssignLookup, TypeInv, RoomsTyped, AdminsTyped, RolesTyped, AssignsTyped,
                ReceiptsTyped, EntriesTyped, ActiveTyped

LEMMA AssignToType ==
  ASSUME TypeInv, NEW q \in ReqRow, q.op \in AssignOps, q.id \in AssignIds
  PROVE  AssignTo(q) \in AssignRow
  <1> DEFINE row == assign[q.id]
  <1>1. row \in AssignRow
    BY DEF TypeInv, AssignsTyped
  <1>2. Left(DeliverDue, q.age) \in 0..LongestDue /\ Left(JudgeDue, q.age) \in 0..LongestDue
    <2>1. q.age \in Nat
      BY DueIsNumber DEF ReqRow
    <2> QED
      BY <2>1, DueIsNumber, RoomBoundAssumption DEF Left
  <1>3. {"adopted", "rejected", "dropped", "voided"} \subseteq AssignStates
    BY DEF AssignStates
  <1> HIDE DEF row
  <1>4. [row EXCEPT !.state = "taken", !.due = Left(DeliverDue, q.age)] \in AssignRow
    BY <1>1, <1>2 DEF AssignRow, AssignStates
  <1>5. [row EXCEPT !.state = "delivered", !.due = Left(JudgeDue, q.age)] \in AssignRow
    BY <1>1, <1>2 DEF AssignRow, AssignStates
  <1>6. /\ EndAssign(row, "adopted") \in AssignRow /\ EndAssign(row, "rejected") \in AssignRow
        /\ EndAssign(row, "dropped") \in AssignRow /\ EndAssign(row, "voided") \in AssignRow
    BY <1>1, <1>3, EndAssignType
  <1> QED
    BY <1>4, <1>5, <1>6 DEF AssignTo, AssignOps, row

LEMMA TypeAssignAct ==
  ASSUME TypeInv, NEW a \in Accounts, AssignAct(a)
  PROVE  TypeInv'
  <1>1. req[a] \in ReqRow /\ req[a].op \in AssignOps /\ req[a].id \in AssignIds
    BY DEF AssignAct, TypeInv, ReqsTyped
  <1>2. AssignsTyped'
    BY <1>1, AssignToType DEF AssignAct, TypeInv, AssignsTyped
  <1>3. ReceiptsTyped'
    BY FulfilledType DEF AssignAct, TypeInv, ReceiptsTyped
  <1>4. ReqsTyped'
    BY ForgetType DEF AssignAct, TypeInv
  <1> QED
    BY <1>2, <1>3, <1>4 DEF AssignAct, TypeInv, RoomsTyped, AdminsTyped, RolesTyped,
                            EntriesTyped, ActiveTyped

LEMMA TypeAssignRefused ==
  ASSUME TypeInv, NEW a \in Accounts, AssignRefused(a)
  PROVE  TypeInv'
  <1>1. ReqsTyped'
    BY ForgetType DEF AssignRefused, TypeInv
  <1> QED
    BY <1>1 DEF AssignRefused, TypeInv, RoomsTyped, AdminsTyped, RolesTyped, AssignsTyped,
                ReceiptsTyped, EntriesTyped, ActiveTyped

LEMMA TypeSweep ==
  ASSUME TypeInv, NEW w \in AssignIds, SweepStep(w)
  PROVE  TypeInv'
  <1>1. {"timed_out", "undecided"} \subseteq AssignStates
    BY DEF AssignStates
  <1>2. AssignsTyped'
    BY <1>1, EndAssignType DEF SweepStep, AssignTimedOut, AssignUndecided, TypeInv, AssignsTyped
  <1> QED
    BY <1>2 DEF SweepStep, AssignTimedOut, AssignUndecided, TypeInv, RoomsTyped, ReqsTyped,
                AdminsTyped, RolesTyped, ReceiptsTyped, EntriesTyped, ActiveTyped

LEMMA TypeTick ==
  ASSUME TypeInv, Tick
  PROVE  TypeInv'
  <1>1. AssignsTyped'
    <2>1. ASSUME NEW row \in AssignRow PROVE [row EXCEPT !.due = Down(@)] \in AssignRow
      <3>1. Down(row.due) \in 0..LongestDue
        BY DueIsNumber DEF Down, AssignRow
      <3> QED
        BY <3>1 DEF AssignRow
    <2> QED
      BY <2>1 DEF Tick, TypeInv, AssignsTyped
  <1>2. ReqsTyped'
    <2>1. ASSUME NEW q \in ReqRow, q.age < LongestDue
          PROVE  /\ [q EXCEPT !.age = @ + 1] \in ReqRow
                 /\ [q EXCEPT !.age = @ + 1].op = q.op /\ [q EXCEPT !.age = @ + 1].id = q.id
      <3>1. q.age + 1 \in 0..LongestDue
        BY <2>1, DueIsNumber DEF ReqRow
      <3> QED
        BY <3>1 DEF ReqRow
    <2>2. \A a \in Accounts : req[a] \in ReqRow
      BY DEF TypeInv, ReqsTyped
    <2>3. req' \in [Accounts -> ReqRow]
      BY <2>1, <2>2 DEF Tick
    <2>4. \A a \in Accounts : req'[a] = req[a] \/ (req[a].op \in AssignOps /\ req'[a].op = req[a].op
                                                  /\ req'[a].id = req[a].id)
      BY <2>1, <2>2 DEF Tick
    <2> QED
      BY <2>3, <2>4 DEF TypeInv, ReqsTyped, AssignOps
  <1> QED
    BY <1>1, <1>2 DEF Tick, TypeInv, RoomsTyped, AdminsTyped, RolesTyped, ReceiptsTyped,
                      EntriesTyped, ActiveTyped

-----------------------------------------------------------------------------
(* Disabling an account keeps the types.                                   *)

\* An administrator's transaction goes on to its next statement.
LEMMA OneAdminType ==
  ASSUME AdminsTyped, NEW d \in Admins, NEW row \in AdminRow, row.pc # "idle" => row.account \in Accounts,
         admin' = [admin EXCEPT ![d] = row]
  PROVE  AdminsTyped'
  BY DEF AdminsTyped

LEMMA TypeDisableBegin ==
  ASSUME TypeInv, NEW d \in Admins, NEW a \in Accounts, DisableBegin(d, a)
  PROVE  TypeInv'
  <1>1. [pc |-> "lock", account |-> a, locks |-> {}] \in AdminRow
    BY DEF AdminRow
  <1>2. AdminsTyped'
    BY <1>1, OneAdminType DEF DisableBegin, TypeInv
  <1> QED
    BY <1>2 DEF DisableBegin, TypeInv, RoomsTyped, ReqsTyped, RolesTyped, AssignsTyped,
                ReceiptsTyped, EntriesTyped, ActiveTyped

LEMMA TypeEnable ==
  ASSUME TypeInv, NEW d \in Admins, NEW a \in Accounts, EnableAccount(d, a)
  PROVE  TypeInv'
  BY DEF EnableAccount, TypeInv, RoomsTyped, ReqsTyped, AdminsTyped, RolesTyped, AssignsTyped,
         ReceiptsTyped, EntriesTyped, ActiveTyped

LEMMA TypeDisableLock ==
  ASSUME TypeInv, NEW d \in Admins, DisableLock(d)
  PROVE  TypeInv'
  <1>1. AdminsTyped'
    BY DEF DisableLock, TypeInv, AdminsTyped, AdminRow, Governed
  <1> QED
    BY <1>1 DEF DisableLock, TypeInv, RoomsTyped, ReqsTyped, RolesTyped, AssignsTyped,
                ReceiptsTyped, EntriesTyped, ActiveTyped

LEMMA TypeDisableClose ==
  ASSUME TypeInv, NEW d \in Admins, DisableClose(d)
  PROVE  TypeInv'
  <1>1. AdminsTyped'
    BY DEF DisableClose, TypeInv, AdminsTyped, AdminRow, GovernedAlone, Governed
  <1>2. RoomsTyped'
    BY ClosedType DEF DisableClose, TypeInv, RoomsTyped
  <1> QED
    BY <1>1, <1>2 DEF DisableClose, TypeInv, ReqsTyped, RolesTyped, AssignsTyped,
                      ReceiptsTyped, EntriesTyped, ActiveTyped

LEMMA TypeDisableReceipts ==
  ASSUME TypeInv, NEW d \in Admins, DisableReceipts(d)
  PROVE  TypeInv'
  <1>1. AdminsTyped'
    BY DEF DisableReceipts, TypeInv, AdminsTyped, AdminRow
  <1>2. ReceiptsTyped'
    BY DEF DisableReceipts, TypeInv, ReceiptsTyped, ReceiptStates
  <1> QED
    BY <1>1, <1>2 DEF DisableReceipts, TypeInv, RoomsTyped, ReqsTyped, RolesTyped, AssignsTyped,
                      EntriesTyped, ActiveTyped

LEMMA TypeDisableAssigns ==
  ASSUME TypeInv, NEW d \in Admins, DisableAssigns(d)
  PROVE  TypeInv'
  <1>1. AdminsTyped'
    BY DEF DisableAssigns, TypeInv, AdminsTyped, AdminRow
  <1>2. AssignsTyped'
    BY LeaveAssignsType DEF DisableAssigns, TypeInv, AssignsTyped
  <1> QED
    BY <1>1, <1>2 DEF DisableAssigns, TypeInv, RoomsTyped, ReqsTyped, RolesTyped, ReceiptsTyped,
                      EntriesTyped, ActiveTyped

LEMMA TypeDisableCommit ==
  ASSUME TypeInv, NEW d \in Admins, DisableCommit(d)
  PROVE  TypeInv'
  <1>1. NoAdmin \in AdminRow /\ NoAdmin.pc = "idle"
    BY DEF NoAdmin, AdminRow
  <1>2. AdminsTyped'
    BY <1>1, OneAdminType DEF DisableCommit, TypeInv
  <1>3. RolesTyped' /\ ActiveTyped'
    BY DEF DisableCommit, TypeInv, RolesTyped, ActiveTyped
  <1> QED
    BY <1>2, <1>3 DEF DisableCommit, TypeInv, RoomsTyped, ReqsTyped, AssignsTyped, ReceiptsTyped,
                      EntriesTyped

-----------------------------------------------------------------------------
LEMMA TypeInit == Init => TypeInv
  <1> SUFFICES ASSUME Init PROVE TypeInv
    OBVIOUS
  <1>1. NoRoom \in RoomRow /\ NoRoom.key = 0
    BY ZeroType DEF NoRoom, RoomRow
  <1>2. NoAssign \in AssignRow /\ NoEntry \in EntryRow /\ NoAdmin \in AdminRow /\ NoAdmin.pc = "idle"
    BY ZeroType DEF NoAssign, AssignRow, AssignStates, NoEntry, EntryRow, NoAdmin, AdminRow
  <1> QED
    BY <1>1, <1>2, NoReqType
    DEF Init, TypeInv, RoomsTyped, ReqsTyped, AdminsTyped, RolesTyped, AssignsTyped,
        ReceiptsTyped, EntriesTyped, ActiveTyped, ReceiptStates, AssignOps

LEMMA TypeNext == TypeInv /\ [Next]_vars => TypeInv'
  <1> SUFFICES ASSUME TypeInv, [Next]_vars PROVE TypeInv'
    OBVIOUS
  <1>1. ASSUME NEW a \in Accounts, RoomStep(a) PROVE TypeInv'
    BY <1>1, TypeThreadStart, TypeIssueKey, TypeRevokeKey, TypeJoinLookup, TypeThreadJoin,
       TypeEndMembership, TypeSetRole, TypeThreadClose
    DEF RoomStep, ThreadLeave, ThreadRemoveMember
  <1>2. ASSUME NEW a \in Accounts, EntryStep(a) PROVE TypeInv'
    BY <1>2, TypeThreadPost, TypeHandle DEF EntryStep
  <1>3. ASSUME NEW a \in Accounts, AssignStep(a) PROVE TypeInv'
    BY <1>3, TypeAssignLookup, TypeAssignAct, TypeAssignRefused DEF AssignStep
  <1>4. ASSUME NEW d \in Admins, DisableStep(d) PROVE TypeInv'
    BY <1>4, TypeDisableBegin, TypeEnable, TypeDisableLock, TypeDisableClose,
       TypeDisableReceipts, TypeDisableAssigns, TypeDisableCommit
    DEF DisableStep
  <1>5. CASE UNCHANGED vars
    BY <1>5 DEF vars, TypeInv, RoomsTyped, ReqsTyped, AdminsTyped, RolesTyped, AssignsTyped,
                ReceiptsTyped, EntriesTyped, ActiveTyped
  <1> QED
    BY <1>1, <1>2, <1>3, <1>4, <1>5, TypeSweep, TypeTick DEF Next

LEMMA TypesKept == Spec => []TypeInv
  BY TypeInit, TypeNext, PTL DEF Spec

\* The rows of rooms, members, entries, responses and assignments, what a request remembers
\* between its lookup and its lock, and what an administrator has locked keep their types.
THEOREM RoomTypeCorrect == Spec => []TypeOK
  <1>1. TypeInv => TypeOK
    BY DEF TypeInv, TypeOK, RoomsTyped, ReqsTyped, AdminsTyped, RolesTyped, AssignsTyped,
           ReceiptsTyped, EntriesTyped, ActiveTyped, RoomRow, EntryRow, AssignRow, ReqRow, AdminRow
  <1> QED
    BY <1>1, TypesKept, PTL

-----------------------------------------------------------------------------
(* Admission.                                                              *)

LEMMA EntriesKeepRoles ==
  ASSUME NEW a \in Accounts, EntryStep(a) \/ AssignStep(a)
  PROVE  UNCHANGED <<role, room, admin>>
  <1>1. ASSUME NEW r, NEW e, NEW ask, NEW reply, NEW to, ThreadPost(a, r, e, ask, reply, to)
        PROVE  UNCHANGED <<role, room, admin>>
    BY <1>1 DEF ThreadPost
  <1>2. ASSUME NEW e, ThreadHandle(a, e) \/ ThreadRetract(a, e)
        PROVE  UNCHANGED <<role, room, admin>>
    BY <1>2 DEF ThreadHandle, ThreadRetract
  <1>3. ASSUME AssignStep(a) PROVE UNCHANGED <<role, room, admin>>
    BY <1>3 DEF AssignStep, AssignLookup, AssignAct, AssignRefused
  <1> QED
    BY <1>1, <1>2, <1>3 DEF EntryStep

LEMMA AdmissionStep ==
  ASSUME TypeInv, [Next]_vars, NEW r \in Rooms, NEW a \in Accounts,
         role[r][a] = "none", role'[r][a] # "none"
  PROVE  \/ room[r].status = "none"
         \/ /\ IsOpen(r) /\ room[r].key # 0 /\ req[a].key = room[r].key
            /\ role'[r][a] = room[r].krole
  <1> USE DEF TypeInv, RolesTyped
  <1>1. ASSUME NEW b \in Accounts, NEW s \in Rooms, NEW k \in BOOLEAN, ThreadStart(b, s, k)
        PROVE  r = s /\ room[s].status = "none"
    BY <1>1 DEF ThreadStart, NextRow, RoomUsed
  <1>2. ASSUME NEW b \in Accounts, ThreadJoin(b)
        PROVE  /\ IsOpen(r) /\ room[r].key # 0 /\ req[a].key = room[r].key
               /\ role'[r][a] = room[r].krole
    <2>1. req[b].key # 0 /\ req[b].room \in Rooms
      BY <1>2 DEF ThreadJoin, ReqsTyped
    <2>2. KeyStillLive(req[b]) /\ role' = [role EXCEPT ![req[b].room][b] = room[req[b].room].krole]
      BY <1>2 DEF ThreadJoin
    <2>3. b = a /\ req[b].room = r
      BY <2>1, <2>2
    <2> QED
      BY <2>1, <2>2, <2>3 DEF KeyStillLive
  <1>3. ASSUME NEW b \in Accounts, NEW s \in Rooms, EndMembership(s, b) PROVE FALSE
    BY <1>3 DEF EndMembership
  <1>4. ASSUME NEW b \in Accounts, NEW s \in Rooms, NEW m \in Accounts, NEW ro \in RolesGiven,
               ThreadSetRole(b, s, m, ro)
        PROVE  FALSE
    BY <1>4 DEF ThreadSetRole, IsMember
  <1>5. ASSUME NEW d \in Admins, DisableCommit(d) PROVE FALSE
    BY <1>5 DEF DisableCommit
  <1>6. role' # role
    OBVIOUS
  <1>7. ASSUME NEW b \in Accounts, RoomStep(b)
        PROVE  \/ room[r].status = "none"
               \/ /\ IsOpen(r) /\ room[r].key # 0 /\ req[a].key = room[r].key
                  /\ role'[r][a] = room[r].krole
    <2>1. PICK s \in Rooms : \/ \E k \in BOOLEAN : ThreadStart(b, s, k)
                             \/ \E m \in Accounts : EndMembership(s, m)
                             \/ \E m \in Accounts, ro \in RolesGiven : ThreadSetRole(b, s, m, ro)
                             \/ ThreadJoin(b)
      <3>1. CASE ThreadJoin(b)
        BY <3>1 DEF ThreadJoin, ReqsTyped
      <3>2. CASE ~ThreadJoin(b)
        BY <1>6, <1>7, <3>2
        DEF RoomStep, ThreadIssueKey, ThreadRevokeKey, JoinLookup, ThreadLeave,
            ThreadRemoveMember, ThreadClose
      <3> QED
        BY <3>1, <3>2
    <2> QED
      BY <1>1, <1>2, <1>3, <1>4, <2>1
  <1>8. ASSUME NEW b \in Accounts, EntryStep(b) \/ AssignStep(b) PROVE FALSE
    BY <1>6, <1>8, EntriesKeepRoles
  <1>9. ASSUME NEW d \in Admins, DisableStep(d) PROVE FALSE
    BY <1>5, <1>6, <1>9 DEF DisableStep, DisableBegin, EnableAccount, DisableLock, DisableClose,
                            DisableReceipts, DisableAssigns
  <1>10. ~(Tick \/ UNCHANGED vars \/ \E w \in AssignIds : SweepStep(w))
    BY <1>6 DEF Tick, vars, SweepStep, AssignTimedOut, AssignUndecided
  <1> QED
    BY <1>7, <1>8, <1>9, <1>10 DEF Next

\* thread_join: a membership begins with the room or through the key that is live at that
\* moment, in the role the key grants; a key replaced since the lookup admits nobody.
THEOREM KeysAdmit == Spec => AdmittedByLiveKey
  <1>1. TypeInv /\ [Next]_vars =>
          [\A r \in Rooms, a \in Accounts :
             role[r][a] = "none" /\ role'[r][a] # "none" =>
               \/ room[r].status = "none"
               \/ /\ IsOpen(r)
                  /\ room[r].key # 0 /\ req[a].key = room[r].key
                  /\ role'[r][a] = room[r].krole]_vars
    BY AdmissionStep
  <1> QED
    BY <1>1, TypesKept, PTL DEF Spec, AdmittedByLiveKey

-----------------------------------------------------------------------------
(* An open room keeps a governor while accounts are disabled one statement *)
(* at a time, but for those an account is promoted in once its rooms are   *)
(* locked (PromotedLate): an administrator locks the rooms an account      *)
(* governs, decides which of them to close, and deletes the memberships    *)
(* only at the end.  The argument is that the other rooms the account      *)
(* governs are, from the lock on, among the locked ones, and that no two   *)
(* administrators lock the same room.                                      *)

\* What a step leaves behind is remembered.
Remembered ==
    /\ asked \subseteq asked' /\ given \subseteq given'
    /\ unanswered \subseteq unanswered' /\ undelivered \subseteq undelivered'
    /\ \A e \in EntryIds, a \in Accounts :
          /\ AskedLate(e, a) => <<e, a>> \in asked'
          /\ LeftUnanswered(e, a) => <<e, a>> \in unanswered'
    /\ \A w \in AssignIds :
          /\ AssignedLate(w) => w \in given'
          /\ LeftUndelivered(w) => w \in undelivered'

LEMMA Noted ==
  ASSUME Remembered, NEW e \in EntryIds, NEW a \in Accounts
  PROVE  /\ AskedLate(e, a) => <<e, a>> \in asked'
         /\ LeftUnanswered(e, a) => <<e, a>> \in unanswered'
  BY Zenon DEF Remembered

Grows == promoted \subseteq promoted' /\ \A r \in Rooms : PromotedLate(r) => r \in promoted'

LEMMA StepRemembers == [OrderNext]_<<vars, history>> => Grows /\ Remembered
  <1>1. ASSUME Remember PROVE Grows /\ Remembered
    <2>1. Grows
      BY <1>1 DEF Remember, Grows
    <2>2. ASSUME NEW e \in EntryIds, NEW a \in Accounts
          PROVE  /\ AskedLate(e, a) => <<e, a>> \in asked'
                 /\ LeftUnanswered(e, a) => <<e, a>> \in unanswered'
      <3>1. <<e, a>> \in EntryIds \X Accounts /\ <<e, a>>[1] = e /\ <<e, a>>[2] = a
        OBVIOUS
      <3>2. AskedLate(e, a) => AskedLate(<<e, a>>[1], <<e, a>>[2])
        BY <3>1
      <3>3. LeftUnanswered(e, a) => LeftUnanswered(<<e, a>>[1], <<e, a>>[2])
        BY <3>1
      <3> QED
        BY <1>1, <3>1, <3>2, <3>3 DEF Remember
    <2> QED
      BY <1>1, <2>1, <2>2 DEF Remember, Remembered
  <1>2. ASSUME UNCHANGED <<vars, history>> PROVE Grows /\ Remembered
    BY <1>2 DEF Grows, Remembered, vars, history, PromotedLate, AskedLate, AssignedLate, LeftUnanswered,
                LeftUndelivered, ClosedBy, IsGovernor, AssignUsed
  <1> QED
    BY <1>1, <1>2 DEF OrderNext

\* A transaction that has its locks, and one that has closed what nobody else governs.
Locked == {"close", "receipts", "assigns", "members"}
Decided == {"receipts", "assigns", "members"}

\* A room that was never opened has no members.
UnusedIsEmpty == \A r \in Rooms : room[r].status = "none" => \A a \in Accounts : role[r][a] = "none"

\* The owner of an account that is being disabled has no request under way.
OwnerWaits == \A d \in Admins : admin[d].pc # "idle" => req[admin[d].account] = NoReq

\* No room is locked by two administrators.
LocksApart ==
    \A d, c \in Admins : d # c => admin[d].locks \cap admin[c].locks = {}

GovernedLocked ==
    \A d \in Admins : admin[d].pc \in Locked =>
        \A r \in Rooms : IsOpen(r) /\ IsGovernor(r, admin[d].account) /\ r \notin promoted => r \in admin[d].locks

AnotherStays ==
    \A d \in Admins : admin[d].pc \in Decided =>
        \A r \in Rooms : IsOpen(r) /\ IsGovernor(r, admin[d].account) /\ r \notin promoted =>
            \E b \in Accounts : b # admin[d].account /\ IsGovernor(r, b)

SomeoneGoverns == \A r \in Rooms : IsOpen(r) /\ r \notin promoted => \E b \in Accounts : IsGovernor(r, b)

GovernInv ==
    UnusedIsEmpty /\ OwnerWaits /\ LocksApart /\ GovernedLocked /\ AnotherStays /\ SomeoneGoverns

-----------------------------------------------------------------------------
\* Where there is more than one governor, there is another.
LEMMA AnotherGovernor ==
  ASSUME NEW r \in Rooms, NEW a \in Accounts, IsGovernor(r, a), KeepsGovernor(r, a)
  PROVE  \E b \in Accounts : b # a /\ IsGovernor(r, b)
  <1>1. SUFFICES ASSUME \A b \in Accounts : IsGovernor(r, b) => b = a PROVE FALSE
    OBVIOUS
  <1>2. Governors(r) = {a}
    BY <1>1 DEF Governors
  <1>3. Cardinality({a}) = 1
    BY FS_Singleton
  <1>4. Cardinality(Governors(r)) > 1
    BY DEF KeepsGovernor
  <1> QED
    BY <1>2, <1>3, <1>4

\* Who has no request under way keeps waiting when others start or end theirs.
LEMMA OthersRequest ==
  ASSUME TypeInv, GovernInv, Grows, UNCHANGED admin, NEW a \in Accounts, NEW q,
         req' = [req EXCEPT ![a] = q], AccountFree(a) \/ q = NoReq
  PROVE  OwnerWaits'
  BY DEF TypeInv, ReqsTyped, AdminsTyped, GovernInv, OwnerWaits, AccountFree

\* A step that changes neither members nor rooms nor administrators.
LEMMA ElsewhereKeeps ==
  ASSUME GovernInv, Grows, UNCHANGED <<role, room, admin>>, OwnerWaits'
  PROVE  GovernInv'
  BY DEF Grows, GovernInv, UnusedIsEmpty, LocksApart, GovernedLocked, AnotherStays, SomeoneGoverns, IsOpen,
         IsGovernor

\* The room has a governor, or has lost it to a late promotion.
GovernedStill(r) == IsOpen(r) /\ r \notin promoted => \E b \in Accounts : IsGovernor(r, b)

\* The step makes nobody a governor whose rooms are locked, but for late promotions.
GovernsAsBefore(r) ==
    \A d \in Admins :
        admin[d].pc \in Locked /\ r \notin promoted' /\ IsGovernor(r, admin[d].account)' /\ IsOpen(r)'
          => IsGovernor(r, admin[d].account) /\ IsOpen(r)

\* A room tool changes one room: it leaves it a governor, makes nobody a governor unnoticed whose
\* rooms are locked, and takes governors only from a room that is not locked.
LEMMA OneRoomKeeps ==
  ASSUME TypeInv, GovernInv, Grows, UNCHANGED admin, OwnerWaits', NEW r \in Rooms,
         \A s \in Rooms : s # r => role'[s] = role[s] /\ room'[s].status = room[s].status,
         room'[r].status # "none",
         GovernedStill(r)', GovernsAsBefore(r),
         RoomFree(r) \/ \A b \in Accounts : IsGovernor(r, b) => IsGovernor(r, b)'
  PROVE  GovernInv'
  <1>1. \A s \in Rooms : s # r => /\ IsOpen(s)' = IsOpen(s)
                                  /\ \A b \in Accounts : IsGovernor(s, b)' = IsGovernor(s, b)
    BY DEF IsOpen, IsGovernor
  <1>2. UnusedIsEmpty'
    BY DEF GovernInv, UnusedIsEmpty
  <1>3. LocksApart'
    BY DEF GovernInv, LocksApart
  <1>4. \A d \in Admins, s \in Rooms :
          admin[d].pc \in Locked /\ IsOpen(s)' /\ IsGovernor(s, admin[d].account)' /\ s \notin promoted' =>
            IsOpen(s) /\ IsGovernor(s, admin[d].account) /\ s \in admin[d].locks
    BY <1>1 DEF Grows, GovernInv, GovernedLocked, GovernsAsBefore, Locked, TypeInv, AdminsTyped
  <1>5. GovernedLocked'
    BY <1>4 DEF GovernedLocked
  <1>6. ASSUME NEW d \in Admins, admin[d].pc \in Decided, NEW s \in Rooms,
               IsOpen(s)', IsGovernor(s, admin[d].account)', s \notin promoted'
        PROVE  \E b \in Accounts : b # admin[d].account /\ IsGovernor(s, b)'
    <2>1. IsOpen(s) /\ IsGovernor(s, admin[d].account) /\ s \in admin[d].locks
      BY <1>4, <1>6 DEF Locked, Decided
    <2>2. PICK b \in Accounts : b # admin[d].account /\ IsGovernor(s, b)
      BY <1>6, <2>1 DEF Grows, GovernInv, AnotherStays
    <2>3. ~RoomFree(s)
      BY <2>1 DEF RoomFree
    <2> QED
      BY <1>1, <2>2, <2>3
  <1>7. AnotherStays'
    BY <1>6 DEF AnotherStays
  <1>8. SomeoneGoverns'
    BY <1>1 DEF Grows, GovernInv, SomeoneGoverns, GovernedStill
  <1> QED
    BY <1>2, <1>3, <1>5, <1>7, <1>8 DEF GovernInv

-----------------------------------------------------------------------------
(* The room tools.                                                         *)

\* An account that may request is not being disabled.
LEMMA NotBeingDisabled ==
  ASSUME NEW a \in Accounts, AccountFree(a), NEW d \in Admins
  PROVE  admin[d].account # a
  BY DEF AccountFree

LEMMA StartKeeps ==
  ASSUME TypeInv, GovernInv, Grows, NEW a \in Accounts, NEW r \in Rooms, NEW k \in BOOLEAN,
         ThreadStart(a, r, k)
  PROVE  GovernInv'
  <1> USE DEF TypeInv, RolesTyped, RoomsTyped
  <1>1. room[r].status = "none" /\ UNCHANGED <<req, admin>> /\ AccountFree(a)
        /\ role' = [role EXCEPT ![r][a] = "governor"]
    BY DEF ThreadStart, NextRow, RoomUsed, MayRequest
  <1>2. PICK row \in RoomRow : row.status = "open" /\ room' = [room EXCEPT ![r] = row]
    <2> DEFINE fresh == [NoRoom EXCEPT !.status = "open"]
    <2>1. fresh \in RoomRow /\ fresh.status = "open" /\ fresh.issued = 0
      <3>1. fresh = [status |-> "open", key |-> 0, krole |-> None, issued |-> 0]
        BY DEF NoRoom
      <3> QED
        BY <3>1, ZeroType DEF RoomRow
    <2>2. fresh.issued <= MaxKeys /\ "speaker" \in Roles
      BY <2>1, RoomBoundAssumption DEF Roles
    <2>3. room' = [room EXCEPT ![r] = IF k THEN WithKey(fresh, "speaker") ELSE fresh]
      BY DEF ThreadStart
    <2> HIDE DEF fresh
    <2>4. WithKey(fresh, "speaker") \in RoomRow /\ WithKey(fresh, "speaker").status = "open"
      BY <2>1, <2>2, WithKeyType
    <2> QED
      BY <2>1, <2>3, <2>4
  <1>3. OwnerWaits'
    BY <1>1 DEF GovernInv, OwnerWaits
  <1>4. \A s \in Rooms : s # r => role'[s] = role[s] /\ room'[s].status = room[s].status
    BY <1>1, <1>2
  <1>5. IsGovernor(r, a)' /\ room'[r].status = "open"
    BY <1>1, <1>2 DEF IsGovernor
  <1>6. \A b \in Accounts : role[r][b] = "none"
    BY <1>1 DEF GovernInv, UnusedIsEmpty
  <1>7. \A b \in Accounts : b # a => ~IsGovernor(r, b)'
    BY <1>1, <1>6 DEF IsGovernor
  <1>8. \A d \in Admins : admin[d].pc # "idle" => ~IsGovernor(r, admin[d].account)'
    BY <1>1, <1>7, NotBeingDisabled DEF AdminsTyped
  <1>9. \A b \in Accounts : ~IsGovernor(r, b)
    BY <1>6 DEF IsGovernor
  <1> QED
    <2>1. GovernedStill(r)' /\ GovernsAsBefore(r)
      BY <1>1, <1>5, <1>8 DEF GovernedStill, GovernsAsBefore, Locked
    <2> QED
      BY <1>1, <1>3, <1>4, <1>5, <1>9, <2>1, OneRoomKeeps

LEMMA KeyToolsKeep ==
  ASSUME TypeInv, GovernInv, Grows, NEW a \in Accounts, NEW r \in Rooms,
         ThreadRevokeKey(a, r) \/ \E ro \in KeyRoles : ThreadIssueKey(a, r, ro)
  PROVE  GovernInv'
  <1> USE DEF TypeInv, RoomsTyped
  <1>1. UNCHANGED <<role, req, admin>> /\ IsOpen(r) /\ IsGovernor(r, a)
    BY DEF ThreadRevokeKey, ThreadIssueKey, Governs
  <1>2. PICK row \in RoomRow : row.status = room[r].status /\ room' = [room EXCEPT ![r] = row]
    <2>1. CASE ThreadRevokeKey(a, r)
      BY <2>1, WithoutKeyType DEF ThreadRevokeKey
    <2>2. CASE \E ro \in KeyRoles : ThreadIssueKey(a, r, ro)
      <3>1. PICK ro \in KeyRoles : ThreadIssueKey(a, r, ro)
        BY <2>2
      <3>2. room[r] \in RoomRow /\ room[r].issued <= MaxKeys /\ ro \in Roles
        BY <3>1, RoomBoundAssumption DEF ThreadIssueKey, RoomRow
      <3> QED
        BY <3>1, <3>2, WithKeyType DEF ThreadIssueKey
    <2> QED
      BY <2>1, <2>2
  <1>3. OwnerWaits'
    BY <1>1 DEF GovernInv, OwnerWaits
  <1>4. \A s \in Rooms : room'[s].status = room[s].status
    BY <1>2
  <1> QED
    BY <1>1, <1>3, <1>4
    DEF Grows, GovernInv, UnusedIsEmpty, LocksApart, GovernedLocked, AnotherStays, SomeoneGoverns, IsOpen, IsGovernor

LEMMA JoinKeeps ==
  ASSUME TypeInv, GovernInv, Grows, NEW a \in Accounts, ThreadJoin(a)
  PROVE  GovernInv'
  <1> USE DEF TypeInv, RolesTyped
  <1>1. PICK r \in Rooms : r = req[a].room
    BY DEF ThreadJoin, ReqsTyped
  <1>2. req[a].op = "join" /\ UNCHANGED <<room, admin>> /\ req' = [req EXCEPT ![a] = NoReq]
    BY DEF ThreadJoin
  <1>3. OwnerWaits'
    BY <1>2, OthersRequest
  <1>4. CASE role' = role
    BY <1>2, <1>3, <1>4, ElsewhereKeeps
  <1>5. CASE role' # role
    <2>1. role' = [role EXCEPT ![r][a] = room[r].krole] /\ role[r][a] = "none" /\ IsOpen(r)
      BY <1>1, <1>5 DEF ThreadJoin, KeyStillLive, IsMember
    <2>2. \A b \in Accounts : b # a => role'[r][b] = role[r][b]
      BY <2>1
    <2>3. \A b \in Accounts : IsGovernor(r, b) => IsGovernor(r, b)'
      BY <2>1, <2>2 DEF IsGovernor
    <2>4. \A d \in Admins : admin[d].pc # "idle" => admin[d].account # a /\ admin[d].account \in Accounts
      BY <1>2 DEF GovernInv, OwnerWaits, NoReq, AdminsTyped
    <2>5. \A d \in Admins : admin[d].pc # "idle" /\ IsGovernor(r, admin[d].account)' =>
                               IsGovernor(r, admin[d].account)
      BY <1>2, <2>2, <2>4 DEF IsGovernor
    <2>6. \A s \in Rooms : s # r => role'[s] = role[s] /\ room'[s].status = room[s].status
      BY <1>2, <2>1
    <2>7. r \notin promoted' => \E b \in Accounts : IsGovernor(r, b)'
      BY <2>1, <2>3 DEF Grows, GovernInv, SomeoneGoverns
    <2>8. room'[r].status # "none"
      BY <1>2, <2>1 DEF IsOpen
    <2> QED
      <3>1. GovernedStill(r)' /\ GovernsAsBefore(r)
        BY <1>2, <2>1, <2>5, <2>7 DEF GovernedStill, GovernsAsBefore, Locked
      <3> QED
        BY <1>2, <1>3, <2>3, <2>6, <2>8, <3>1, OneRoomKeeps
  <1> QED
    BY <1>4, <1>5

\* A member loses its role or gets another in a room that keeps a governor.
LEMMA RoleChangeKeeps ==
  ASSUME TypeInv, GovernInv, Grows, UNCHANGED <<room, req, admin>>, NEW r \in Rooms, NEW m \in Accounts,
         NEW ro \in Roles \cup {"none"}, role' = [role EXCEPT ![r][m] = ro], RoomFree(r), IsMember(r, m),
         IsOpen(r) => KeepsGovernor(r, m)
  PROVE  GovernInv'
  <1> USE DEF TypeInv, RolesTyped
  <1>1. OwnerWaits'
    BY DEF GovernInv, OwnerWaits
  <1>2. /\ \A s \in Rooms : s # r => role'[s] = role[s]
        /\ \A b \in Accounts : b # m => role'[r][b] = role[r][b]
        /\ role'[r][m] = ro
    OBVIOUS
  <1>3. room'[r].status # "none"
    BY DEF GovernInv, UnusedIsEmpty, IsMember
  <1>4. IsOpen(r)' /\ r \notin promoted' => \E b \in Accounts : IsGovernor(r, b)'
    <2>1. SUFFICES ASSUME IsOpen(r), r \notin promoted' PROVE \E b \in Accounts : IsGovernor(r, b)'
      BY DEF IsOpen
    <2>2. PICK b \in Accounts : IsGovernor(r, b)
      BY <2>1 DEF Grows, GovernInv, SomeoneGoverns
    <2>3. CASE b # m
      BY <1>2, <2>2, <2>3 DEF IsGovernor
    <2>4. CASE b = m
      <3>1. PICK c \in Accounts : c # m /\ IsGovernor(r, c)
        BY <2>1, <2>2, <2>4, AnotherGovernor
      <3> QED
        BY <1>2, <3>1 DEF IsGovernor
    <2> QED
      BY <2>3, <2>4
  <1>5. ASSUME NEW d \in Admins, admin[d].pc \in Locked, IsGovernor(r, admin[d].account)', IsOpen(r),
               r \notin promoted'
        PROVE  IsGovernor(r, admin[d].account)
    <2>1. admin[d].account \in Accounts /\ role'[r][admin[d].account] = "governor"
      BY <1>5 DEF AdminsTyped, Locked, IsGovernor
    <2>2. Behind(admin[d].account, Locked) /\ ~PromotedLate(r)
      BY <1>5 DEF Grows, Behind
    <2> QED
      BY <1>5, <2>1, <2>2 DEF PromotedLate, Locked
  <1>6. GovernedStill(r)' /\ GovernsAsBefore(r)
    BY <1>4, <1>5 DEF GovernedStill, GovernsAsBefore, IsOpen, IsGovernor
  <1> QED
    BY <1>1, <1>2, <1>3, <1>6, OneRoomKeeps DEF IsOpen

LEMMA NoneIsRole == "none" \in Roles \cup {"none"}
  OBVIOUS

LEMMA LeaveKeeps ==
  ASSUME TypeInv, GovernInv, Grows, NEW a \in Accounts, NEW r \in Rooms, NEW m \in Accounts,
         ThreadLeave(a, r) \/ ThreadRemoveMember(a, r, m)
  PROVE  GovernInv'
  <1>1. CASE ThreadLeave(a, r)
    <2>1. /\ RoomFree(r) /\ IsMember(r, a) /\ (IsOpen(r) => KeepsGovernor(r, a))
          /\ UNCHANGED <<room, req, admin>> /\ role' = [role EXCEPT ![r][a] = "none"]
      BY <1>1 DEF ThreadLeave, EndMembership
    <2> QED
      BY <2>1, NoneIsRole, RoleChangeKeeps
  <1>2. CASE ThreadRemoveMember(a, r, m)
    <2>1. /\ RoomFree(r) /\ IsMember(r, m) /\ KeepsGovernor(r, m)
          /\ UNCHANGED <<room, req, admin>> /\ role' = [role EXCEPT ![r][m] = "none"]
      BY <1>2 DEF ThreadRemoveMember, Governs, EndMembership
    <2> QED
      BY <2>1, NoneIsRole, RoleChangeKeeps
  <1> QED
    BY <1>1, <1>2

LEMMA SetRoleKeeps ==
  ASSUME TypeInv, GovernInv, Grows,
         NEW a \in Accounts, NEW r \in Rooms, NEW m \in Accounts, NEW ro \in RolesGiven,
         ThreadSetRole(a, r, m, ro)
  PROVE  GovernInv'
  BY RoleChangeKeeps, RoomBoundAssumption DEF ThreadSetRole, Governs

LEMMA CloseKeeps ==
  ASSUME TypeInv, GovernInv, Grows, NEW a \in Accounts, NEW r \in Rooms, ThreadClose(a, r)
  PROVE  GovernInv'
  <1> USE DEF TypeInv, RoomsTyped
  <1>1. UNCHANGED <<role, req, admin>> /\ room' = [room EXCEPT ![r] = Closed(room[r])]
    BY DEF ThreadClose
  <1>2. room'[r].status = "closed" /\ \A s \in Rooms : s # r => room'[s] = room[s]
    BY <1>1, ClosedType
  <1>3. OwnerWaits'
    BY <1>1 DEF GovernInv, OwnerWaits
  <1>4. ~IsOpen(r)'
    BY <1>2 DEF IsOpen
  <1>5. \A b \in Accounts : IsGovernor(r, b) => IsGovernor(r, b)'
    BY <1>1 DEF IsGovernor
  <1> QED
    <2>1. GovernedStill(r)' /\ GovernsAsBefore(r)
      BY <1>4 DEF GovernedStill, GovernsAsBefore
    <2> QED
      BY <1>1, <1>2, <1>3, <1>5, <2>1, OneRoomKeeps

\* Requests look at rooms and assignments, and change only what they remember.
LEMMA LookupKeeps ==
  ASSUME TypeInv, GovernInv, Grows, NEW a \in Accounts,
         AssignStep(a) \/ \E r \in Rooms : JoinLookup(a, r)
  PROVE  GovernInv'
  <1>1. /\ UNCHANGED <<role, room, admin>>
        /\ \E q : req' = [req EXCEPT ![a] = q] /\ (AccountFree(a) \/ q = NoReq)
    BY DEF AssignStep, AssignLookup, AssignAct, AssignRefused, JoinLookup, MayRequest
  <1> QED
    BY <1>1, OthersRequest, ElsewhereKeeps

\* Time makes requests older, not those that remember nothing.
LEMMA TickKeeps ==
  ASSUME TypeInv, GovernInv, Grows, Tick
  PROVE  GovernInv'
  <1>1. UNCHANGED <<role, room, admin>>
    BY DEF Tick
  <1>2. \A a \in Accounts : req[a] = NoReq => req'[a] = NoReq
    BY NoReqType DEF Tick, AssignOps
  <1>3. OwnerWaits'
    BY <1>1, <1>2 DEF GovernInv, OwnerWaits, TypeInv, AdminsTyped
  <1> QED
    BY <1>1, <1>3, ElsewhereKeeps

-----------------------------------------------------------------------------
(* Disabling an account.                                                   *)

LEMMA BeginKeeps ==
  ASSUME TypeInv, GovernInv, Grows, NEW d \in Admins, NEW a \in Accounts, DisableBegin(d, a)
  PROVE  GovernInv'
  <1> USE DEF TypeInv, AdminsTyped
  <1>1. UNCHANGED <<role, room, req>> /\ req[a] = NoReq
    BY DEF DisableBegin, MayRequest, AccountFree
  <1>2. /\ admin'[d].pc = "lock" /\ admin'[d].account = a /\ admin'[d].locks = {}
        /\ \A c \in Admins : c # d => admin'[c] = admin[c]
    BY DEF DisableBegin
  <1>3. UnusedIsEmpty' /\ SomeoneGoverns'
    BY <1>1 DEF Grows, GovernInv, UnusedIsEmpty, SomeoneGoverns, IsOpen, IsGovernor
  <1>4. OwnerWaits'
    BY <1>1, <1>2 DEF GovernInv, OwnerWaits
  <1>5. LocksApart'
    BY <1>2 DEF GovernInv, LocksApart
  <1>6. GovernedLocked' /\ AnotherStays'
    BY <1>1, <1>2 DEF Grows, GovernInv, GovernedLocked, AnotherStays, Locked, Decided, IsOpen, IsGovernor
  <1> QED
    BY <1>3, <1>4, <1>5, <1>6 DEF GovernInv

LEMMA LockKeeps ==
  ASSUME TypeInv, GovernInv, Grows, NEW d \in Admins, DisableLock(d)
  PROVE  GovernInv'
  <1> USE DEF TypeInv, AdminsTyped
  <1>1. UNCHANGED <<role, room, req>> /\ \A r \in Governed(admin[d].account) : RoomFree(r)
    BY DEF DisableLock
  <1>2. /\ admin[d].pc = "lock" /\ admin'[d].pc = "close" /\ admin'[d].account = admin[d].account
        /\ admin'[d].locks = Governed(admin[d].account)
        /\ \A c \in Admins : c # d => admin'[c] = admin[c]
    BY DEF DisableLock, AdminRow
  <1>3. UnusedIsEmpty' /\ SomeoneGoverns' /\ OwnerWaits'
    BY <1>1, <1>2 DEF Grows, GovernInv, UnusedIsEmpty, SomeoneGoverns, OwnerWaits, IsOpen, IsGovernor
  <1>4. LocksApart'
    BY <1>1, <1>2 DEF GovernInv, LocksApart, RoomFree
  <1>5. GovernedLocked' /\ AnotherStays'
    BY <1>1, <1>2
    DEF Grows, GovernInv, GovernedLocked, AnotherStays, Locked, Decided, IsOpen, IsGovernor, Governed
  <1> QED
    BY <1>3, <1>4, <1>5 DEF GovernInv

LEMMA DecideKeeps ==
  ASSUME TypeInv, GovernInv, Grows, NEW d \in Admins, DisableClose(d)
  PROVE  GovernInv'
  <1> USE DEF TypeInv, AdminsTyped
  <1> DEFINE alone == GovernedAlone(admin[d].account)
  <1>1. PICK x \in Accounts : x = admin[d].account
    BY DEF DisableClose
  <1>2. alone = {r \in Rooms : IsOpen(r) /\ IsGovernor(r, x) /\ Governors(r) = {x}}
    BY <1>1 DEF GovernedAlone, Governed
  <1>3. \A r \in alone : r \in admin[d].locks \/ RoomFree(r)
    BY DEF DisableClose
  <1>4. /\ admin[d].pc = "close" /\ admin'[d].pc = "receipts" /\ admin'[d].account = x
        /\ admin'[d].locks = admin[d].locks \cup alone
        /\ \A c \in Admins : c # d => admin'[c] = admin[c]
    BY <1>1 DEF DisableClose, AdminRow
  <1>5. UNCHANGED <<role, req>> /\ room' = [r \in Rooms |-> IF r \in alone THEN Closed(room[r]) ELSE room[r]]
    BY DEF DisableClose
  <1> HIDE DEF alone
  <1>6. \A r \in Rooms : IF r \in alone THEN room'[r].status = "closed" ELSE room'[r] = room[r]
    BY <1>5, ClosedType DEF RoomsTyped
  <1>7. \A r \in Rooms : IsOpen(r)' => IsOpen(r) /\ r \notin alone
    BY <1>6 DEF IsOpen
  <1>8. \A r \in Rooms, b \in Accounts : IsGovernor(r, b)' = IsGovernor(r, b)
    BY <1>5 DEF IsGovernor
  <1>9. UnusedIsEmpty'
    BY <1>5, <1>6 DEF GovernInv, UnusedIsEmpty
  <1>10. OwnerWaits' /\ LocksApart'
    <2>1. OwnerWaits'
      BY <1>1, <1>4, <1>5 DEF GovernInv, OwnerWaits
    <2>2. \A c \in Admins : c # d => admin'[d].locks \cap admin'[c].locks = {}
      BY <1>3, <1>4 DEF GovernInv, LocksApart, RoomFree
    <2> QED
      BY <1>4, <2>1, <2>2 DEF GovernInv, LocksApart
  <1>11. GovernedLocked'
    BY <1>1, <1>4, <1>7, <1>8 DEF Grows, GovernInv, GovernedLocked, Locked
  <1>12. ASSUME NEW c \in Admins, admin'[c].pc \in Decided, NEW r \in Rooms,
                IsOpen(r)', IsGovernor(r, admin[c].account)', r \notin promoted'
         PROVE  (\E b \in Accounts : b # admin[c].account /\ IsGovernor(r, b))'
    <2>1. CASE c # d
      <3>1. admin'[c] = admin[c] /\ admin[c].account \in Accounts
        BY <1>4, <1>12, <2>1 DEF Decided
      <3>2. IsOpen(r) /\ IsGovernor(r, admin[c].account)
        BY <1>5, <1>7, <1>12, <3>1 DEF IsGovernor
      <3>3. PICK b \in Accounts : b # admin[c].account /\ IsGovernor(r, b)
        BY <1>12, <3>1, <3>2 DEF Grows, GovernInv, AnotherStays
      <3> QED
        BY <1>8, <3>1, <3>3
    <2>2. CASE c = d
      <3>1. IsGovernor(r, x) /\ Governors(r) # {x}
        BY <1>2, <1>4, <1>5, <1>7, <1>12, <2>2 DEF IsGovernor
      <3>2. PICK b \in Accounts : b # x /\ IsGovernor(r, b)
        BY <3>1 DEF Governors
      <3> QED
        BY <1>4, <1>8, <2>2, <3>2
    <2> QED
      BY <2>1, <2>2
  <1>13. AnotherStays'
    BY <1>12 DEF AnotherStays
  <1>14. SomeoneGoverns'
    BY <1>7, <1>8 DEF Grows, GovernInv, SomeoneGoverns
  <1> QED
    BY <1>9, <1>10, <1>11, <1>13, <1>14 DEF GovernInv

LEMMA WithdrawKeeps ==
  ASSUME TypeInv, GovernInv, Grows, NEW d \in Admins, DisableReceipts(d) \/ DisableAssigns(d)
  PROVE  GovernInv'
  <1> USE DEF TypeInv, AdminsTyped
  <1>1. UNCHANGED <<role, room, req>> /\ admin[d].pc \in {"receipts", "assigns"}
    BY DEF DisableReceipts, DisableAssigns
  <1>2. /\ admin'[d].pc \in {"assigns", "members"} /\ admin'[d].account = admin[d].account
        /\ admin'[d].locks = admin[d].locks
        /\ \A c \in Admins : c # d => admin'[c] = admin[c]
    BY DEF DisableReceipts, DisableAssigns, AdminRow
  <1>3. UnusedIsEmpty' /\ SomeoneGoverns' /\ OwnerWaits' /\ LocksApart'
    BY <1>1, <1>2
    DEF Grows, GovernInv, UnusedIsEmpty, SomeoneGoverns, OwnerWaits, LocksApart, IsOpen, IsGovernor
  <1>4. GovernedLocked' /\ AnotherStays'
    BY <1>1, <1>2
    DEF Grows, GovernInv, GovernedLocked, AnotherStays, Locked, Decided, IsOpen, IsGovernor
  <1> QED
    BY <1>3, <1>4 DEF GovernInv

LEMMA CommitKeeps ==
  ASSUME TypeInv, GovernInv, Grows, NEW d \in Admins, DisableCommit(d)
  PROVE  GovernInv'
  <1> USE DEF TypeInv, AdminsTyped
  <1>1. PICK x \in Accounts : x = admin[d].account
    BY DEF DisableCommit
  <1>2. UNCHANGED <<room, req>> /\ admin[d].pc = "members"
    BY DEF DisableCommit
  <1>3. /\ admin'[d].pc = "idle" /\ admin'[d].locks = {}
        /\ \A c \in Admins : c # d => admin'[c] = admin[c]
    BY DEF DisableCommit, NoAdmin
  <1>4. \A r \in Rooms : /\ role'[r][x] = "none"
                         /\ \A b \in Accounts : b # x => role'[r][b] = role[r][b]
    BY <1>1 DEF DisableCommit, RolesTyped
  <1>5. \A r \in Rooms, b \in Accounts : IsGovernor(r, b)' <=> IsGovernor(r, b) /\ b # x
    BY <1>4 DEF IsGovernor
  <1>6. \A r \in Rooms : IsOpen(r)' = IsOpen(r)
    BY <1>2 DEF IsOpen
  <1>7. UnusedIsEmpty'
    BY <1>2, <1>4 DEF GovernInv, UnusedIsEmpty
  <1>8. OwnerWaits' /\ LocksApart'
    BY <1>2, <1>3 DEF GovernInv, OwnerWaits, LocksApart
  <1>9. GovernedLocked'
    BY <1>3, <1>5, <1>6 DEF Grows, GovernInv, GovernedLocked, Locked
  <1>10. ASSUME NEW c \in Admins, admin'[c].pc \in Decided, NEW r \in Rooms,
                IsOpen(r)', IsGovernor(r, admin[c].account)', r \notin promoted'
         PROVE  (\E b \in Accounts : b # admin[c].account /\ IsGovernor(r, b))'
    <2>1. c # d /\ admin'[c] = admin[c] /\ admin[c].account \in Accounts
      BY <1>3, <1>10 DEF Decided
    <2>2. IsOpen(r) /\ IsGovernor(r, admin[c].account)
      BY <1>4, <1>6, <1>10, <2>1 DEF IsGovernor
    <2>3. r \in admin[c].locks
      BY <1>10, <2>1, <2>2 DEF Grows, GovernInv, GovernedLocked, Locked, Decided
    <2>4. ~IsGovernor(r, x)
      BY <1>1, <1>2, <1>10, <2>1, <2>2, <2>3 DEF Grows, GovernInv, GovernedLocked, LocksApart, Locked
    <2>5. PICK b \in Accounts : b # admin[c].account /\ IsGovernor(r, b)
      BY <1>10, <2>1, <2>2 DEF Grows, GovernInv, AnotherStays
    <2> QED
      BY <1>5, <2>1, <2>4, <2>5
  <1>11. AnotherStays'
    BY <1>10 DEF AnotherStays
  <1>12. ASSUME NEW r \in Rooms, IsOpen(r)', r \notin promoted' PROVE \E b \in Accounts : IsGovernor(r, b)'
    <2>1. CASE IsGovernor(r, x)
      BY <1>1, <1>2, <1>5, <1>6, <1>12, <2>1 DEF Grows, GovernInv, AnotherStays, Decided
    <2>2. CASE ~IsGovernor(r, x)
      BY <1>5, <1>6, <1>12, <2>2 DEF Grows, GovernInv, SomeoneGoverns
    <2> QED
      BY <2>1, <2>2
  <1>13. SomeoneGoverns'
    BY <1>12 DEF SomeoneGoverns
  <1> QED
    BY <1>7, <1>8, <1>9, <1>11, <1>13 DEF GovernInv

-----------------------------------------------------------------------------
LEMMA GovernInit == Init => GovernInv
  BY DEF Init, GovernInv, UnusedIsEmpty, OwnerWaits, LocksApart, GovernedLocked, AnotherStays, SomeoneGoverns,
         NoAdmin, NoRoom, IsOpen, Locked, Decided

LEMMA GovernNext == TypeInv /\ GovernInv /\ [OrderNext]_<<vars, history>> => GovernInv'
  <1> SUFFICES ASSUME TypeInv, GovernInv, Grows, [Next]_vars PROVE GovernInv'
    BY StepRemembers DEF OrderNext
  <1>1. ASSUME NEW a \in Accounts, RoomStep(a) PROVE GovernInv'
    BY <1>1, StartKeeps, KeyToolsKeep, LookupKeeps, JoinKeeps, LeaveKeeps, SetRoleKeeps, CloseKeeps
    DEF RoomStep
  <1>2. ASSUME NEW a \in Accounts, EntryStep(a) PROVE GovernInv'
    <2>1. UNCHANGED req
      <3>1. ASSUME NEW r, NEW e, NEW ask, NEW reply, NEW to, ThreadPost(a, r, e, ask, reply, to)
            PROVE  UNCHANGED req
        BY <3>1 DEF ThreadPost
      <3> QED
        BY <1>2, <3>1 DEF EntryStep, ThreadHandle, ThreadRetract
    <2>2. UNCHANGED <<role, room, admin>>
      BY <1>2, EntriesKeepRoles
    <2>3. OwnerWaits'
      BY <2>1, <2>2 DEF GovernInv, OwnerWaits
    <2> QED
      BY <2>2, <2>3, ElsewhereKeeps
  <1>3. ASSUME NEW a \in Accounts, AssignStep(a) PROVE GovernInv'
    BY <1>3, LookupKeeps
  <1>4. ASSUME NEW d \in Admins, NEW a \in Accounts, EnableAccount(d, a) PROVE GovernInv'
    <2>1. UNCHANGED <<role, room, admin, req>>
      BY <1>4 DEF EnableAccount
    <2> QED
      BY <2>1, ElsewhereKeeps DEF GovernInv, OwnerWaits
  <1>5. ASSUME NEW d \in Admins, DisableStep(d) PROVE GovernInv'
    BY <1>4, <1>5, BeginKeeps, LockKeeps, DecideKeeps, WithdrawKeeps, CommitKeeps DEF DisableStep
  <1>6. ASSUME (\E w \in AssignIds : SweepStep(w)) \/ UNCHANGED vars PROVE GovernInv'
    <2>1. UNCHANGED <<role, room, admin, req>>
      BY <1>6 DEF SweepStep, AssignTimedOut, AssignUndecided, vars
    <2> QED
      BY <2>1, ElsewhereKeeps DEF GovernInv, OwnerWaits
  <1> QED
    BY <1>1, <1>2, <1>3, <1>5, <1>6, TickKeeps DEF Next

LEMMA OrderIsRooms == OrderSpec => Spec
  <1>1. [OrderNext]_<<vars, history>> => [Next]_vars
    BY DEF OrderNext
  <1> QED
    BY <1>1, PTL DEF OrderSpec, OrderInit, Spec

LEMMA GovernInvHolds == OrderSpec => []GovernInv
  BY OrderIsRooms, TypesKept, GovernInit, GovernNext, PTL DEF OrderSpec, OrderInit

\* kungfu.md 6.2: across leaving, removal, demotion and the disabling of any number of accounts
\* at once an open room loses its last governor only to a promotion between the statement of a
\* deactivation that locks the rooms its account governs and the commit
\* (TerminateAccountThreadMemberships looks for them once); while there is none, never.
THEOREM GovernorStays ==
  OrderSpec => []GovernedButPromoted /\ [](promoted = {} => OpenRoomHasGovernor)
  <1>1. GovernInv => GovernedButPromoted
    BY DEF GovernInv, SomeoneGoverns, GovernedButPromoted, Governors
  <1>2. GovernedButPromoted => (promoted = {} => OpenRoomHasGovernor)
    BY DEF GovernedButPromoted, OpenRoomHasGovernor
  <1> QED
    BY <1>1, <1>2, GovernInvHolds, PTL

-----------------------------------------------------------------------------
(***************************************************************************)
(* A tool that acts on an assignment it read before it had the room passes *)
(* only if the assignment is as it was read (StillAsRead).  A creator      *)
(* never leaves an assignment behind: what it has out is voided and what   *)
(* it may judge is forfeited in the fact that ends its membership, or,     *)
(* when its account is disabled, before its memberships are deleted, after *)
(* which it creates nothing any more.                                      *)
(*                                                                         *)
(* A membership begins only under the room lock with both counts taken     *)
(* again, so the limits hold whatever else happens.  Pending responses and *)
(* undelivered assignments follow the membership: every fact that ends a   *)
(* membership, or the right to speak, ends them too, but for what the      *)
(* histories of RoomOrder name: an account that is being disabled may      *)
(* still be asked between two statements of that transaction.              *)
(***************************************************************************)

\* An assignment is of an entry, which is in a room, and has a creator.
AssignsPlaced ==
    \A w \in AssignIds : AssignUsed(w) =>
        /\ assign[w].entry \in EntryIds /\ RoomOf(w) \in Rooms
        /\ assign[w].creator \in Accounts

\* An entry not yet written asks nothing of anybody.
FreshIsSilent ==
    \A e \in EntryIds : ~EntryUsed(e) => \A a \in Accounts : receipt[e][a] = "none"

\* Who waits for a delivery is a member.
CreatorIsMember ==
    \A w \in AssignIds : assign[w].state \in Undelivered => IsMember(RoomOf(w), assign[w].creator)

\* An account whose assignments have been ended has none left to wait for or to judge.
NothingLeft ==
    \A d \in Admins : admin[d].pc = "members" =>
        \A w \in AssignIds : assign[w].creator = admin[d].account =>
            /\ assign[w].state \notin Undelivered
            /\ assign[w].state = "delivered" => assign[w].forfeited

DutyInv == AssignsPlaced /\ FreshIsSilent /\ CreatorIsMember /\ NothingLeft /\ JudgmentForfeited

-----------------------------------------------------------------------------
(* One assignment's row.                                                   *)

\* What a departure does to a row.
LEMMA LeftRow ==
  ASSUME NEW row \in AssignRow, NEW a
  PROVE  LET left == ForfeitedFor(VoidedFor(row, a), a) IN
         /\ left.entry = row.entry /\ left.creator = row.creator
         /\ left.state = row.state \/ (row.state \in Undelivered /\ left.state = "voided")
         /\ row.creator = a => left.state \notin Undelivered
         /\ left.state = "delivered" /\ row.creator = a => left.forfeited
         /\ row.forfeited => left.forfeited
         /\ left.forfeited => row.forfeited \/ left.state = "delivered"
  <1> DEFINE v == VoidedFor(row, a)
  <1>1. /\ v \in AssignRow /\ v.entry = row.entry /\ v.creator = row.creator
        /\ v.forfeited = row.forfeited
        /\ v.state = row.state \/ (row.state \in Undelivered /\ v.state = "voided")
        /\ row.creator = a => v.state \notin Undelivered
    BY ZeroType DEF VoidedFor, EndAssign, AssignRow, Undelivered, AssignStates
  <1> HIDE DEF v
  <1>2. /\ ForfeitedFor(v, a).entry = v.entry /\ ForfeitedFor(v, a).creator = v.creator
        /\ ForfeitedFor(v, a).state = v.state
        /\ ForfeitedFor(v, a).forfeited = (v.forfeited \/ (v.state = "delivered" /\ v.creator = a))
    BY <1>1 DEF ForfeitedFor, AssignRow
  <1> QED
    BY <1>1, <1>2 DEF v, AssignRow

\* An end changes the state alone, as far as the duties go.
LEMMA EndedRow ==
  ASSUME NEW row \in AssignRow, NEW st \in AssignStates
  PROVE  /\ EndAssign(row, st).entry = row.entry /\ EndAssign(row, st).creator = row.creator
         /\ EndAssign(row, st).forfeited = row.forfeited /\ EndAssign(row, st).state = st
  BY DEF EndAssign, AssignRow

\* What a step may do to a row: nothing, deliver or end what was out, settle what was
\* delivered, without a judgment where that is forfeited.
RowMoves(w) ==
    /\ assign'[w].entry = assign[w].entry /\ assign'[w].creator = assign[w].creator
    /\ assign'[w].forfeited = assign[w].forfeited
    /\ \/ assign'[w].state = assign[w].state
       \/ assign[w].state \in Undelivered /\ assign'[w].state # "none"
       \/ /\ assign[w].state = "delivered" /\ assign'[w].state \in Settled
          /\ assign[w].forfeited => assign'[w].state = "undecided"

\* What a step may do to a response: end it while it is pending.
ReceiptMoves(e, a) ==
    \/ receipt'[e][a] = receipt[e][a]
    \/ receipt[e][a] = "pending" /\ receipt'[e][a] \in {"fulfilled", "withdrawn"}

\* The step of EndsOnce.
EndedStays ==
    /\ \A e \in EntryIds, a \in Accounts :
          receipt[e][a] \in {"fulfilled", "withdrawn"} => receipt'[e][a] = receipt[e][a]
    /\ \A w \in AssignIds :
          /\ assign[w].state \in Settled => assign'[w].state = assign[w].state
          /\ assign[w].state = "delivered" => assign'[w].state \notin Undelivered

LEMMA WithdrawMoves ==
  ASSUME ReceiptsTyped, NEW r, NEW a,
         receipt' \in {receipt, WithdrawByMember(r, a), WithdrawAll(r)}
  PROVE  \A e \in EntryIds, b \in Accounts : ReceiptMoves(e, b)
  <1>1. CASE receipt' = receipt
    BY <1>1 DEF ReceiptMoves
  <1>2. CASE receipt' = WithdrawByMember(r, a)
    BY <1>2 DEF ReceiptMoves, WithdrawByMember, ReceiptsTyped
  <1>3. CASE receipt' = WithdrawAll(r)
    BY <1>3 DEF ReceiptMoves, WithdrawAll, ReceiptsTyped
  <1> QED
    BY <1>1, <1>2, <1>3

LEMMA FulfilledMoves ==
  ASSUME ReceiptsTyped, NEW f, NEW a, receipt' = Fulfilled(receipt, f, a)
  PROVE  \A e \in EntryIds, b \in Accounts : ReceiptMoves(e, b)
  BY DEF ReceiptMoves, Fulfilled, ReceiptsTyped

\* Steps that take nobody's membership and write no entry.
LEMMA MovesKeep ==
  ASSUME TypeInv, DutyInv, UNCHANGED entry,
         \A r \in Rooms, a \in Accounts : IsMember(r, a) => IsMember(r, a)',
         \A d \in Admins : admin'[d].pc = "members" => admin'[d] = admin[d],
         \A w \in AssignIds : RowMoves(w),
         \A e \in EntryIds, a \in Accounts : ReceiptMoves(e, a)
  PROVE  DutyInv' /\ EndedStays
  <1>1. \A w \in AssignIds : AssignUsed(w)' => AssignUsed(w)
    BY DEF RowMoves, AssignUsed, Undelivered
  <1>2. \A w \in AssignIds : RoomOf(w)' = RoomOf(w)
    BY DEF RowMoves, RoomOf
  <1>3. \A w \in AssignIds : assign'[w].state \in Undelivered => assign[w].state \in Undelivered
    BY DEF RowMoves, Undelivered, Settled
  <1>4. \A w \in AssignIds : assign[w].state \in Undelivered \cup {"delivered"} =>
                               RoomOf(w) \in Rooms /\ assign[w].creator \in Accounts
    BY DEF DutyInv, AssignsPlaced, AssignUsed, Undelivered
  <1>5. AssignsPlaced'
    BY <1>1, <1>2 DEF DutyInv, AssignsPlaced, RowMoves
  <1>6. FreshIsSilent'
    BY DEF DutyInv, FreshIsSilent, ReceiptMoves, EntryUsed
  <1>7. CreatorIsMember'
    <2>1. SUFFICES ASSUME NEW w \in AssignIds, assign'[w].state \in Undelivered
                   PROVE  IsMember(RoomOf(w), assign[w].creator)'
      BY DEF CreatorIsMember
    <2>2. PICK r \in Rooms, c \in Accounts : r = RoomOf(w) /\ c = assign[w].creator
      BY <1>3, <1>4, <2>1
    <2>3. IsMember(r, c)
      BY <1>3, <2>1, <2>2 DEF DutyInv, CreatorIsMember
    <2>4. RoomOf(w)' = r /\ assign'[w].creator = c
      BY <1>2, <2>2 DEF RowMoves
    <2> QED
      BY <2>3, <2>4 DEF IsMember
  <1>8. NothingLeft'
    <2>1. SUFFICES ASSUME NEW d \in Admins, admin'[d].pc = "members", NEW w \in AssignIds,
                          assign'[w].creator = admin'[d].account
                   PROVE  /\ assign'[w].state \notin Undelivered
                          /\ assign'[w].state = "delivered" => assign'[w].forfeited
      BY DEF NothingLeft
    <2>2. admin[d].pc = "members" /\ assign[w].creator = admin[d].account
      BY <2>1 DEF RowMoves
    <2>3. /\ assign[w].state \notin Undelivered
          /\ assign[w].state = "delivered" => assign[w].forfeited
      BY <2>2 DEF DutyInv, NothingLeft
    <2> QED
      BY <2>3 DEF RowMoves, Settled, Undelivered
  <1>9. JudgmentForfeited'
    <2>1. ASSUME NEW w \in AssignIds, assign'[w].state = "delivered",
                 ~IsMember(RoomOf(w), assign[w].creator)'
          PROVE  assign'[w].forfeited
      <3>1. assign[w].state \in Undelivered \cup {"delivered"}
        BY <2>1 DEF RowMoves, Settled
      <3>2. PICK r \in Rooms, c \in Accounts : r = RoomOf(w) /\ c = assign[w].creator
        BY <1>4, <3>1
      <3>3. RoomOf(w)' = r /\ assign'[w].creator = c
        BY <1>2, <3>2 DEF RowMoves
      <3>4. ~IsMember(r, c)
        BY <2>1, <3>3 DEF IsMember
      <3>5. assign[w].state = "delivered"
        BY <3>1, <3>2, <3>4 DEF DutyInv, CreatorIsMember
      <3> QED
        BY <3>2, <3>4, <3>5 DEF DutyInv, JudgmentForfeited, RowMoves
    <2>2. ASSUME NEW w \in AssignIds, assign'[w].forfeited
          PROVE  assign'[w].state \in {"delivered", "undecided"}
      BY <2>2 DEF DutyInv, JudgmentForfeited, RowMoves, Undelivered
    <2> QED
      BY <2>1, <2>2 DEF JudgmentForfeited
  <1>10. EndedStays
    BY DEF EndedStays, ReceiptMoves, RowMoves, Settled, Undelivered
  <1> QED
    BY <1>5, <1>6, <1>7, <1>8, <1>9, <1>10 DEF DutyInv

\* A row that is left alone moves.
LEMMA Unmoved ==
  /\ UNCHANGED assign => \A w \in AssignIds : RowMoves(w)
  /\ UNCHANGED receipt => \A e \in EntryIds, a \in Accounts : ReceiptMoves(e, a)
  /\ UNCHANGED role => \A r \in Rooms, a \in Accounts : IsMember(r, a) => IsMember(r, a)'
  /\ UNCHANGED admin => \A d \in Admins : admin'[d].pc = "members" => admin'[d] = admin[d]
  BY DEF RowMoves, ReceiptMoves, IsMember

-----------------------------------------------------------------------------
(* Rooms and members.                                                      *)

LEMMA RoomToolsKeep ==
  ASSUME TypeInv, DutyInv, NEW a \in Accounts, NEW r \in Rooms,
         \/ \E k \in BOOLEAN : ThreadStart(a, r, k)
         \/ ThreadRevokeKey(a, r) \/ \E ro \in KeyRoles : ThreadIssueKey(a, r, ro)
         \/ JoinLookup(a, r)
  PROVE  DutyInv' /\ EndedStays
  <1>1. UNCHANGED <<entry, receipt, assign, admin>>
    BY DEF ThreadStart, ThreadRevokeKey, ThreadIssueKey, JoinLookup
  <1>2. role' = role \/ role' = [role EXCEPT ![r][a] = "governor"]
    BY DEF ThreadStart, ThreadRevokeKey, ThreadIssueKey, JoinLookup
  <1>3. \A s \in Rooms, b \in Accounts : IsMember(s, b) => IsMember(s, b)'
    BY <1>2 DEF IsMember, TypeInv, RolesTyped
  <1> QED
    BY <1>1, <1>3, Unmoved, MovesKeep

LEMMA JoinKeepsDuty ==
  ASSUME TypeInv, DutyInv, NEW a \in Accounts, ThreadJoin(a)
  PROVE  DutyInv' /\ EndedStays
  <1>1. UNCHANGED <<entry, receipt, assign, admin>>
    BY DEF ThreadJoin
  <1>2. PICK r \in Rooms : r = req[a].room
    BY DEF ThreadJoin, TypeInv, ReqsTyped
  <1>3. \/ role' = role
        \/ role[r][a] = "none" /\ \E ro : role' = [role EXCEPT ![r][a] = ro]
    BY <1>2 DEF ThreadJoin, IsMember
  <1>4. \A s \in Rooms, b \in Accounts : IsMember(s, b) => IsMember(s, b)'
    BY <1>3 DEF IsMember, TypeInv, RolesTyped
  <1> QED
    BY <1>1, <1>4, Unmoved, MovesKeep

LEMMA SetRoleKeepsDuty ==
  ASSUME TypeInv, DutyInv, NEW a \in Accounts, NEW r \in Rooms, NEW m \in Accounts,
         NEW ro \in RolesGiven, ThreadSetRole(a, r, m, ro)
  PROVE  DutyInv' /\ EndedStays
  <1>1. UNCHANGED <<entry, assign, admin>> /\ role' = [role EXCEPT ![r][m] = ro] /\ ro # "none"
    BY RoomBoundAssumption DEF ThreadSetRole, Roles
  <1>2. \A s \in Rooms, b \in Accounts : IsMember(s, b) => IsMember(s, b)'
    BY <1>1 DEF IsMember, TypeInv, RolesTyped
  <1>3. receipt' \in {receipt, WithdrawByMember(r, m), WithdrawAll(r)}
    BY DEF ThreadSetRole
  <1>4. \A e \in EntryIds, b \in Accounts : ReceiptMoves(e, b)
    BY <1>3, WithdrawMoves DEF TypeInv
  <1> QED
    BY <1>1, <1>2, <1>4, Unmoved, MovesKeep

LEMMA CloseKeepsDuty ==
  ASSUME TypeInv, DutyInv, NEW a \in Accounts, NEW r \in Rooms, ThreadClose(a, r)
  PROVE  DutyInv' /\ EndedStays
  <1>1. UNCHANGED <<entry, role, admin>> /\ receipt' = WithdrawAll(r)
    BY DEF ThreadClose
  <1>2. \A e \in EntryIds, b \in Accounts : ReceiptMoves(e, b)
    BY <1>1, WithdrawMoves DEF TypeInv
  <1>3. ASSUME NEW w \in AssignIds PROVE RowMoves(w)
    <2>1. \/ assign'[w] = assign[w]
          \/ assign[w].state \in Undelivered /\ assign'[w] = EndAssign(assign[w], "voided")
      BY DEF ThreadClose
    <2>2. assign[w] \in AssignRow
      BY DEF TypeInv, AssignsTyped
    <2> QED
      BY <2>1, <2>2 DEF RowMoves, EndAssign, AssignRow
  <1> QED
    BY <1>1, <1>2, <1>3, Unmoved, MovesKeep

-----------------------------------------------------------------------------
(* Departures.                                                             *)

\* An account departs from the rooms rs, at once or with its transaction's commit.
LEMMA LeftKeeps ==
  ASSUME TypeInv, DutyInv, UNCHANGED entry, NEW rs, NEW a \in Accounts,
         assign' = LeaveAssigns(rs, a),
         \A r \in Rooms, b \in Accounts : IsMember(r, b) => IsMember(r, b)' \/ (r \in rs /\ b = a),
         \A d \in Admins : admin'[d].pc = "members" =>
             admin'[d] = admin[d] \/ (rs = Rooms /\ admin'[d].account = a),
         \A e \in EntryIds, b \in Accounts : ReceiptMoves(e, b)
  PROVE  DutyInv' /\ EndedStays
  <1>1. ASSUME NEW w \in AssignIds
        PROVE  /\ assign'[w].entry = assign[w].entry /\ assign'[w].creator = assign[w].creator
               /\ \/ assign'[w].state = assign[w].state
                  \/ assign[w].state \in Undelivered /\ assign'[w].state = "voided"
               /\ AssignUsed(w) /\ RoomOf(w) \in rs /\ assign[w].creator = a =>
                    /\ assign'[w].state \notin Undelivered
                    /\ assign'[w].state = "delivered" => assign'[w].forfeited
               /\ assign[w].forfeited => assign'[w].forfeited
               /\ assign'[w].forfeited => assign[w].forfeited \/ assign'[w].state = "delivered"
    <2>1. assign[w] \in AssignRow
      BY DEF TypeInv, AssignsTyped
    <2>2. CASE AssignUsed(w) /\ RoomOf(w) \in rs
      <3>1. assign'[w] = ForfeitedFor(VoidedFor(assign[w], a), a)
        BY <2>2 DEF LeaveAssigns
      <3> QED
        BY <2>1, <3>1, LeftRow
    <2>3. CASE ~(AssignUsed(w) /\ RoomOf(w) \in rs)
      BY <2>3 DEF LeaveAssigns
    <2> QED
      BY <2>2, <2>3
  <1>2. \A w \in AssignIds : AssignUsed(w)' = AssignUsed(w) /\ RoomOf(w)' = RoomOf(w)
    BY <1>1 DEF AssignUsed, RoomOf, Undelivered
  <1>3. \A w \in AssignIds : assign'[w].state \in Undelivered \cup {"delivered"} =>
          /\ assign[w].state = assign'[w].state /\ AssignUsed(w)
          /\ RoomOf(w) \in Rooms /\ assign[w].creator \in Accounts
    BY <1>1 DEF DutyInv, AssignsPlaced, AssignUsed, Undelivered
  <1>4. AssignsPlaced'
    BY <1>1, <1>2 DEF DutyInv, AssignsPlaced
  <1>5. FreshIsSilent'
    BY DEF DutyInv, FreshIsSilent, ReceiptMoves, EntryUsed
  <1>6. CreatorIsMember'
    <2>1. SUFFICES ASSUME NEW w \in AssignIds, assign'[w].state \in Undelivered
                   PROVE  IsMember(RoomOf(w), assign[w].creator)'
      BY DEF CreatorIsMember
    <2>2. PICK r \in Rooms, c \in Accounts : r = RoomOf(w) /\ c = assign[w].creator
      BY <1>3, <2>1
    <2>3. IsMember(r, c) /\ ~(r \in rs /\ c = a)
      BY <1>1, <1>3, <2>1, <2>2 DEF DutyInv, CreatorIsMember
    <2>4. RoomOf(w)' = r /\ assign'[w].creator = c /\ IsMember(r, c)'
      BY <1>1, <1>2, <2>2, <2>3
    <2> QED
      BY <2>4 DEF IsMember
  <1>7. NothingLeft'
    <2>1. SUFFICES ASSUME NEW d \in Admins, admin'[d].pc = "members", NEW w \in AssignIds,
                          assign'[w].creator = admin'[d].account,
                          assign'[w].state \in Undelivered \cup {"delivered"}
                   PROVE  assign'[w].state = "delivered" /\ assign'[w].forfeited
      BY DEF NothingLeft, Undelivered
    <2>2. CASE admin'[d] = admin[d]
      BY <1>1, <1>3, <2>1, <2>2 DEF DutyInv, NothingLeft
    <2>3. CASE rs = Rooms /\ admin'[d].account = a
      BY <1>1, <1>3, <2>1, <2>3
    <2> QED
      BY <2>1, <2>2, <2>3
  <1>8. JudgmentForfeited'
    <2>1. ASSUME NEW w \in AssignIds, assign'[w].state = "delivered",
                 ~IsMember(RoomOf(w), assign[w].creator)'
          PROVE  assign'[w].forfeited
      <3>1. PICK r \in Rooms, c \in Accounts : r = RoomOf(w) /\ c = assign[w].creator
        BY <1>3, <2>1
      <3>2. RoomOf(w)' = r /\ assign'[w].creator = c
        BY <1>1, <1>2, <3>1
      <3>3. ~IsMember(r, c)'
        BY <2>1, <3>2 DEF IsMember
      <3>4. CASE r \in rs /\ c = a
        BY <1>1, <1>3, <2>1, <3>1, <3>4
      <3>5. CASE ~IsMember(r, c)
        BY <1>1, <1>3, <2>1, <3>1, <3>5 DEF DutyInv, JudgmentForfeited
      <3> QED
        BY <3>3, <3>4, <3>5
    <2>2. ASSUME NEW w \in AssignIds, assign'[w].forfeited
          PROVE  assign'[w].state \in {"delivered", "undecided"}
      BY <1>1, <2>2 DEF DutyInv, JudgmentForfeited, Undelivered
    <2> QED
      BY <2>1, <2>2 DEF JudgmentForfeited
  <1>9. EndedStays
    BY <1>1 DEF EndedStays, ReceiptMoves, Settled, Undelivered
  <1> QED
    BY <1>4, <1>5, <1>6, <1>7, <1>8, <1>9 DEF DutyInv

LEMMA DepartKeepsDuty ==
  ASSUME TypeInv, DutyInv, NEW r \in Rooms, NEW a \in Accounts, EndMembership(r, a)
  PROVE  DutyInv' /\ EndedStays
  <1>1. /\ UNCHANGED <<entry, admin>> /\ assign' = LeaveAssigns({r}, a)
        /\ receipt' = WithdrawByMember(r, a) /\ role' = [role EXCEPT ![r][a] = "none"]
    BY DEF EndMembership
  <1>2. \A e \in EntryIds, b \in Accounts : ReceiptMoves(e, b)
    BY <1>1, WithdrawMoves DEF TypeInv
  <1>3. \A s \in Rooms, b \in Accounts : IsMember(s, b) => IsMember(s, b)' \/ (s \in {r} /\ b = a)
    BY <1>1 DEF IsMember, TypeInv, RolesTyped
  <1> QED
    BY <1>1, <1>2, <1>3, LeftKeeps

LEMMA EndAllKeepsDuty ==
  ASSUME TypeInv, DutyInv, NEW d \in Admins, DisableAssigns(d)
  PROVE  DutyInv' /\ EndedStays
  <1>1. PICK a \in Accounts : a = admin[d].account
    BY DEF DisableAssigns, TypeInv, AdminsTyped
  <1>2. UNCHANGED <<entry, receipt, role>> /\ assign' = LeaveAssigns(Rooms, a)
    BY <1>1 DEF DisableAssigns
  <1>3. \A c \in Admins : admin'[c] = admin[c] \/ admin'[c].account = a
    BY <1>1 DEF DisableAssigns, TypeInv, AdminsTyped, AdminRow
  <1> QED
    BY <1>2, <1>3, Unmoved, LeftKeeps

\* The memberships go last: nothing of the account is out or its to judge any more.
LEMMA CommitKeepsDuty ==
  ASSUME TypeInv, DutyInv, NEW d \in Admins, DisableCommit(d)
  PROVE  DutyInv' /\ EndedStays
  <1>1. PICK x \in Accounts : x = admin[d].account
    BY DEF DisableCommit, TypeInv, AdminsTyped
  <1>2. UNCHANGED <<entry, receipt, assign>> /\ admin[d].pc = "members"
    BY DEF DisableCommit
  <1>3. \A c \in Admins : admin'[c].pc = "members" => admin'[c] = admin[c]
    BY DEF DisableCommit, NoAdmin, TypeInv, AdminsTyped
  <1>4. \A r \in Rooms, b \in Accounts : b # x => IsMember(r, b)' = IsMember(r, b)
    BY <1>1 DEF DisableCommit, IsMember, TypeInv, RolesTyped
  <1>5. \A w \in AssignIds : RoomOf(w)' = RoomOf(w) /\ AssignUsed(w)' = AssignUsed(w)
    BY <1>2 DEF RoomOf, AssignUsed
  <1>6. AssignsPlaced' /\ FreshIsSilent' /\ EndedStays
    BY <1>2, <1>5 DEF DutyInv, AssignsPlaced, FreshIsSilent, EntryUsed, EndedStays, Undelivered
  <1>7. NothingLeft'
    BY <1>2, <1>3 DEF DutyInv, NothingLeft
  <1>8. \A w \in AssignIds : assign[w].state \in Undelivered \cup {"delivered"} =>
                               RoomOf(w) \in Rooms /\ assign[w].creator \in Accounts
    BY DEF DutyInv, AssignsPlaced, AssignUsed, Undelivered
  <1>9. CreatorIsMember'
    <2>1. SUFFICES ASSUME NEW w \in AssignIds, assign[w].state \in Undelivered
                   PROVE  IsMember(RoomOf(w), assign[w].creator)'
      BY <1>2 DEF CreatorIsMember
    <2>2. PICK r \in Rooms, c \in Accounts : r = RoomOf(w) /\ c = assign[w].creator
      BY <1>8, <2>1
    <2>3. c # x /\ IsMember(r, c)
      BY <1>1, <1>2, <2>1, <2>2 DEF DutyInv, NothingLeft, CreatorIsMember
    <2>4. RoomOf(w)' = r /\ assign'[w].creator = c /\ IsMember(r, c)'
      BY <1>2, <1>4, <1>5, <2>2, <2>3
    <2> QED
      BY <2>4 DEF IsMember
  <1>10. JudgmentForfeited'
    <2>1. SUFFICES ASSUME NEW w \in AssignIds, assign[w].state = "delivered",
                          ~IsMember(RoomOf(w), assign[w].creator)'
                   PROVE  assign[w].forfeited
      BY <1>2 DEF DutyInv, JudgmentForfeited
    <2>2. PICK r \in Rooms, c \in Accounts : r = RoomOf(w) /\ c = assign[w].creator
      BY <1>8, <2>1
    <2>3. RoomOf(w)' = r /\ assign'[w].creator = c
      BY <1>2, <1>5, <2>2
    <2>4. ~IsMember(r, c)'
      BY <2>1, <2>3 DEF IsMember
    <2>5. CASE c = x
      BY <1>1, <1>2, <2>1, <2>2, <2>5 DEF DutyInv, NothingLeft
    <2>6. CASE c # x
      BY <1>4, <2>1, <2>2, <2>4, <2>6 DEF DutyInv, JudgmentForfeited
    <2> QED
      BY <2>5, <2>6
  <1> QED
    BY <1>6, <1>7, <1>9, <1>10 DEF DutyInv

-----------------------------------------------------------------------------
(* Entries and assignments.                                                *)

\* A post writes a new entry, asks for responses to it, and may put out an assignment of it.
LEMMA PostKeepsDuty ==
  ASSUME TypeInv, DutyInv, NEW a \in Accounts, NEW r \in Rooms, NEW e \in NewEntries,
         NEW ask \in SUBSET Speakers(r) \cup {None}, NEW reply \in EntryIds \cup {None},
         NEW to \in Speakers(r) \cup {None}, ThreadPost(a, r, e, ask, reply, to)
  PROVE  DutyInv' /\ EndedStays
  <1>1. e \in EntryIds /\ ~EntryUsed(e)
    BY DEF NewEntries, NextRow
  <1>2. /\ UNCHANGED <<role, admin>> /\ AccountFree(a) /\ IsMember(r, a)
        /\ entry' = [entry EXCEPT ![e] = [room |-> r, author |-> a]]
    BY DEF ThreadPost, MayRequest, Speaks, IsMember
  <1>3. entry'[e].room = r /\ \A f \in EntryIds : f # e => entry'[f] = entry[f]
    BY <1>1, <1>2 DEF TypeInv, EntriesTyped
  <1>4. \A f \in EntryIds : f # e => \A b \in Accounts : ReceiptMoves(f, b)
    <2> DEFINE due == Responders(r, a, ask, reply)
               added == [receipt EXCEPT ![e] = [x \in Accounts |->
                            IF x \in due THEN "pending" ELSE "none"]]
    <2>1. receipt' = IF reply = None THEN added ELSE Fulfilled(added, reply, a)
      BY DEF ThreadPost
    <2> HIDE DEF due
    <2>2. added \in [EntryIds -> [Accounts -> ReceiptStates]]
      BY DEF TypeInv, ReceiptsTyped, ReceiptStates
    <2>3. \A f \in EntryIds : f # e => added[f] = receipt[f]
      BY DEF TypeInv, ReceiptsTyped
    <2> HIDE DEF added
    <2>4. \A f \in EntryIds, b \in Accounts :
            receipt'[f][b] = added[f][b] \/ (added[f][b] = "pending" /\ receipt'[f][b] = "fulfilled")
      BY <2>1, <2>2 DEF Fulfilled
    <2> QED
      BY <2>3, <2>4 DEF ReceiptMoves
  <1>5. FreshIsSilent'
    <2>1. SUFFICES ASSUME NEW f \in EntryIds, entry'[f].room = None, NEW b \in Accounts
                   PROVE  receipt'[f][b] = "none"
      BY DEF FreshIsSilent, EntryUsed
    <2>2. f # e
      BY <1>3, <2>1, RoomIdAssumption
    <2>3. receipt[f][b] = "none"
      BY <1>3, <2>1, <2>2 DEF DutyInv, FreshIsSilent, EntryUsed
    <2> QED
      BY <1>4, <2>2, <2>3 DEF ReceiptMoves
  <1>6. ASSUME NEW f \in EntryIds, NEW b \in Accounts, receipt[f][b] \in {"fulfilled", "withdrawn"}
        PROVE  receipt'[f][b] = receipt[f][b]
    <2>1. f # e
      BY <1>1, <1>6 DEF DutyInv, FreshIsSilent
    <2> QED
      BY <1>4, <1>6, <2>1 DEF ReceiptMoves
  \* The new assignment, if there is one.
  <1>7. ASSUME NEW w \in AssignIds
        PROVE  \/ assign'[w] = assign[w]
               \/ /\ ~AssignUsed(w) /\ assign'[w].state = "open" /\ assign'[w].entry = e
                  /\ assign'[w].creator = a /\ assign'[w].forfeited = FALSE
    <2>1. CASE UNCHANGED assign
      BY <2>1
    <2>2. CASE \E v \in AssignIds : /\ NextRow(AssignIds, AssignUsed, v)
                                    /\ assign' = [assign EXCEPT ![v] = NewAssign(a, to, e)]
      <3>1. PICK v \in AssignIds : /\ NextRow(AssignIds, AssignUsed, v)
                                   /\ assign' = [assign EXCEPT ![v] = NewAssign(a, to, e)]
        BY <2>2
      <3>2. ~AssignUsed(v)
        BY <3>1 DEF NextRow
      <3>3. LET row == NewAssign(a, to, e) IN
              row.state = "open" /\ row.entry = e /\ row.creator = a /\ row.forfeited = FALSE
        BY DEF NewAssign, NoAssign
      <3> QED
        BY <3>1, <3>2, <3>3 DEF TypeInv, AssignsTyped
    <2> QED
      BY <2>1, <2>2 DEF ThreadPost
  <1>8. ASSUME NEW w \in AssignIds, AssignUsed(w)
        PROVE  /\ assign'[w] = assign[w] /\ RoomOf(w)' = RoomOf(w) /\ RoomOf(w) \in Rooms
               /\ assign[w].entry \in EntryIds /\ assign[w].creator \in Accounts
    <2>1. assign[w].entry \in EntryIds /\ RoomOf(w) \in Rooms /\ assign[w].creator \in Accounts
      BY <1>8 DEF DutyInv, AssignsPlaced
    <2>2. assign[w].entry # e
      BY <1>1, <2>1, RoomIdAssumption DEF EntryUsed, RoomOf
    <2> QED
      BY <1>3, <1>7, <1>8, <2>1, <2>2 DEF RoomOf
  <1>9. ASSUME NEW w \in AssignIds, ~AssignUsed(w), assign'[w] # assign[w]
        PROVE  /\ assign'[w].state = "open" /\ assign'[w].entry = e /\ RoomOf(w)' = r
               /\ assign'[w].creator = a /\ assign'[w].forfeited = FALSE
    BY <1>3, <1>7, <1>9 DEF RoomOf
  <1>10. AssignsPlaced'
    BY <1>1, <1>8, <1>9 DEF AssignsPlaced, AssignUsed
  <1>11. CreatorIsMember'
    <2>1. SUFFICES ASSUME NEW w \in AssignIds, assign'[w].state \in Undelivered
                   PROVE  IsMember(RoomOf(w), assign[w].creator)'
      BY DEF CreatorIsMember
    <2>2. CASE AssignUsed(w)
      BY <1>2, <1>8, <2>1, <2>2 DEF DutyInv, CreatorIsMember, IsMember
    <2>3. CASE ~AssignUsed(w)
      <3>1. assign'[w] # assign[w]
        BY <2>1, <2>3 DEF AssignUsed, Undelivered
      <3> QED
        BY <1>2, <1>9, <2>3, <3>1 DEF IsMember
    <2> QED
      BY <2>2, <2>3
  <1>12. NothingLeft'
    <2>1. SUFFICES ASSUME NEW d \in Admins, admin[d].pc = "members", NEW w \in AssignIds,
                          assign'[w].creator = admin[d].account
                   PROVE  /\ assign'[w].state \notin Undelivered
                          /\ assign'[w].state = "delivered" => assign'[w].forfeited
      BY <1>2 DEF NothingLeft
    <2>2. assign'[w] = assign[w]
      BY <1>2, <1>7, <2>1 DEF AccountFree
    <2> QED
      BY <2>1, <2>2 DEF DutyInv, NothingLeft
  <1>13. JudgmentForfeited'
    <2>1. ASSUME NEW w \in AssignIds, assign'[w].state = "delivered",
                 ~IsMember(RoomOf(w), assign[w].creator)'
          PROVE  assign'[w].forfeited
      <3>1. AssignUsed(w)
        BY <1>7, <2>1 DEF AssignUsed
      <3> QED
        BY <1>2, <1>8, <2>1, <3>1 DEF DutyInv, JudgmentForfeited, IsMember
    <2>2. ASSUME NEW w \in AssignIds, assign'[w].forfeited
          PROVE  assign'[w].state \in {"delivered", "undecided"}
      BY <1>7, <2>2 DEF DutyInv, JudgmentForfeited
    <2> QED
      BY <2>1, <2>2 DEF JudgmentForfeited
  <1>14. \A w \in AssignIds :
           /\ assign[w].state \in Settled => assign'[w].state = assign[w].state
           /\ assign[w].state = "delivered" => assign'[w].state \notin Undelivered
    BY <1>7 DEF AssignUsed, Settled, Undelivered
  <1> QED
    BY <1>5, <1>6, <1>10, <1>11, <1>12, <1>13, <1>14 DEF DutyInv, EndedStays

LEMMA HandleKeepsDuty ==
  ASSUME TypeInv, DutyInv, NEW a \in Accounts, NEW e \in EntryIds,
         ThreadHandle(a, e) \/ ThreadRetract(a, e)
  PROVE  DutyInv' /\ EndedStays
  <1>1. UNCHANGED <<entry, role, assign, admin>>
    BY DEF ThreadHandle, ThreadRetract
  <1>2. \A f \in EntryIds, b \in Accounts : ReceiptMoves(f, b)
    <2>1. CASE ThreadHandle(a, e)
      BY <2>1, FulfilledMoves DEF ThreadHandle, TypeInv
    <2>2. CASE ThreadRetract(a, e)
      BY <2>2 DEF ThreadRetract, ReceiptMoves, TypeInv, ReceiptsTyped
    <2> QED
      BY <2>1, <2>2
  <1> QED
    BY <1>1, <1>2, Unmoved, MovesKeep

\* A tool acts on the assignment as it read it: what it ends or delivers is still out, what
\* it judges is still its to judge.
LEMMA ActKeepsDuty ==
  ASSUME TypeInv, DutyInv, NEW a \in Accounts, AssignAct(a)
  PROVE  DutyInv' /\ EndedStays
  <1>1. PICK q \in ReqRow : q = req[a] /\ q.op \in AssignOps /\ q.id \in AssignIds
    BY DEF AssignAct, TypeInv, ReqsTyped
  <1>2. /\ UNCHANGED <<entry, role, admin>> /\ assign' = [assign EXCEPT ![q.id] = AssignTo(q)]
        /\ Permitted(a, q) /\ StillAsRead(q)
    BY <1>1 DEF AssignAct
  <1>3. \A e \in EntryIds, b \in Accounts : ReceiptMoves(e, b)
    <2>1. receipt' = receipt \/ receipt' = Fulfilled(receipt, assign[q.id].entry, a)
      BY <1>1 DEF AssignAct
    <2> QED
      BY <2>1, FulfilledMoves, Unmoved DEF TypeInv
  <1> DEFINE row == assign[q.id]
  <1>4. row \in AssignRow
    BY <1>1 DEF TypeInv, AssignsTyped
  <1>5. \/ row.state \in Undelivered /\ q.op \notin {"adopt", "reject"}
        \/ row.state = "delivered" /\ ~row.forfeited /\ q.op \in {"adopt", "reject"}
    <2>1. row.state = q.state /\ (q.op \in {"adopt", "reject"} => ~row.forfeited)
      BY <1>2 DEF StillAsRead
    <2>2. \/ q.op \in {"take", "take_submit"} /\ q.state = "open"
          \/ q.op \in {"submit", "drop"} /\ q.state = "taken"
          \/ q.op \in {"adopt", "reject"} /\ q.state = "delivered"
          \/ q.op = "void" /\ q.state \in Undelivered
      BY <1>2 DEF Permitted
    <2> HIDE DEF row
    <2> QED
      BY <2>1, <2>2 DEF Undelivered
  <1>6. /\ AssignTo(q).entry = row.entry /\ AssignTo(q).creator = row.creator
        /\ AssignTo(q).forfeited = row.forfeited
        /\ AssignTo(q).state = CASE q.op = "take" -> "taken"
                                 [] q.op \in {"submit", "take_submit"} -> "delivered"
                                 [] q.op = "adopt" -> "adopted"
                                 [] q.op = "reject" -> "rejected"
                                 [] q.op = "drop" -> "dropped"
                                 [] q.op = "void" -> "voided"
    <2> HIDE DEF row
    <2>1. CASE q.op = "take"
      <3>1. AssignTo(q) = [row EXCEPT !.state = "taken", !.due = Left(DeliverDue, q.age)]
        BY <2>1 DEF AssignTo, row
      <3> QED
        BY <1>4, <2>1, <3>1 DEF AssignRow
    <2>2. CASE q.op \in {"submit", "take_submit"}
      <3>1. AssignTo(q) = [row EXCEPT !.state = "delivered", !.due = Left(JudgeDue, q.age)]
        BY <2>2 DEF AssignTo, row
      <3> QED
        BY <1>4, <2>2, <3>1 DEF AssignRow
    <2>3. CASE q.op = "adopt"
      BY <1>4, <2>3, EndedRow DEF AssignTo, row, AssignStates
    <2>4. CASE q.op = "reject"
      BY <1>4, <2>4, EndedRow DEF AssignTo, row, AssignStates
    <2>5. CASE q.op = "drop"
      BY <1>4, <2>5, EndedRow DEF AssignTo, row, AssignStates
    <2>6. CASE q.op = "void"
      BY <1>4, <2>6, EndedRow DEF AssignTo, row, AssignStates
    <2> QED
      BY <1>1, <2>1, <2>2, <2>3, <2>4, <2>5, <2>6 DEF AssignOps
  <1>7. RowMoves(q.id)
    <2>1. assign'[q.id] = AssignTo(q)
      BY <1>1, <1>2 DEF TypeInv, AssignsTyped
    <2> QED
      BY <1>1, <1>5, <1>6, <2>1 DEF RowMoves, AssignOps, Settled
  <1>8. \A w \in AssignIds : RowMoves(w)
    BY <1>2, <1>7 DEF RowMoves, TypeInv, AssignsTyped
  <1> QED
    BY <1>2, <1>3, <1>8, Unmoved, MovesKeep

LEMMA LookKeepsDuty ==
  ASSUME TypeInv, DutyInv, NEW a \in Accounts,
         AssignRefused(a) \/ \E w \in AssignIds, op \in AssignOps : AssignLookup(a, w, op)
  PROVE  DutyInv' /\ EndedStays
  <1>1. UNCHANGED <<entry, receipt, role, assign, admin>>
    BY DEF AssignRefused, AssignLookup
  <1> QED
    BY <1>1, Unmoved, MovesKeep

LEMMA SweepKeepsDuty ==
  ASSUME TypeInv, DutyInv, NEW w \in AssignIds, SweepStep(w)
  PROVE  DutyInv' /\ EndedStays
  <1>1. UNCHANGED <<entry, receipt, role, admin>>
    BY DEF SweepStep, AssignTimedOut, AssignUndecided
  <1>2. \/ assign[w].state = "taken" /\ assign' = [assign EXCEPT ![w] = EndAssign(assign[w], "timed_out")]
        \/ assign[w].state = "delivered" /\ assign' = [assign EXCEPT ![w] = EndAssign(assign[w], "undecided")]
    BY DEF SweepStep, AssignTimedOut, AssignUndecided
  <1>3. \A v \in AssignIds : RowMoves(v)
    <2>1. \A v \in AssignIds : assign[v] \in AssignRow /\ (v # w => assign'[v] = assign[v])
      BY <1>2 DEF TypeInv, AssignsTyped
    <2>2. {"timed_out", "undecided"} \subseteq AssignStates
      BY DEF AssignStates
    <2>3. RowMoves(w)
      <3>1. CASE assign[w].state = "taken" /\ assign'[w] = EndAssign(assign[w], "timed_out")
        BY <2>1, <2>2, <3>1, EndedRow DEF RowMoves, Undelivered
      <3>2. CASE assign[w].state = "delivered" /\ assign'[w] = EndAssign(assign[w], "undecided")
        BY <2>1, <2>2, <3>2, EndedRow DEF RowMoves, Settled
      <3> QED
        BY <1>2, <3>1, <3>2 DEF TypeInv, AssignsTyped
    <2> QED
      BY <2>1, <2>3 DEF RowMoves
  <1> QED
    BY <1>1, <1>3, Unmoved, MovesKeep

LEMMA TickKeepsDuty ==
  ASSUME TypeInv, DutyInv, Tick
  PROVE  DutyInv' /\ EndedStays
  <1>1. UNCHANGED <<entry, receipt, role, admin>>
    BY DEF Tick
  <1>2. \A w \in AssignIds : RowMoves(w)
    BY DEF Tick, RowMoves, TypeInv, AssignsTyped, AssignRow
  <1> QED
    BY <1>1, <1>2, Unmoved, MovesKeep

-----------------------------------------------------------------------------
(* The statements of a disable transaction that end no membership.         *)
LEMMA DisableKeepsDuty ==
  ASSUME TypeInv, DutyInv, NEW d \in Admins,
         \/ \E a \in Accounts : DisableBegin(d, a) \/ EnableAccount(d, a)
         \/ DisableLock(d) \/ DisableClose(d) \/ DisableReceipts(d)
  PROVE  DutyInv' /\ EndedStays
  <1>1. UNCHANGED <<entry, role, assign>>
    BY DEF DisableBegin, EnableAccount, DisableLock, DisableClose, DisableReceipts
  <1>2. \A c \in Admins : admin'[c].pc = "members" => admin'[c] = admin[c]
    BY DEF DisableBegin, EnableAccount, DisableLock, DisableClose, DisableReceipts, TypeInv,
           AdminsTyped, AdminRow
  <1>3. \A e \in EntryIds, b \in Accounts : ReceiptMoves(e, b)
    <2>1. CASE DisableReceipts(d)
      BY <2>1 DEF DisableReceipts, ReceiptMoves, TypeInv, ReceiptsTyped
    <2>2. CASE ~DisableReceipts(d)
      BY <2>2, Unmoved DEF DisableBegin, EnableAccount, DisableLock, DisableClose
    <2> QED
      BY <2>1, <2>2
  <1> QED
    BY <1>1, <1>2, <1>3, Unmoved, MovesKeep

LEMMA DutyInit == Init => DutyInv
  BY DEF Init, DutyInv, AssignsPlaced, FreshIsSilent, CreatorIsMember, NothingLeft, JudgmentForfeited,
         AssignUsed, Undelivered, NoAssign, NoAdmin

LEMMA DutyNext == TypeInv /\ DutyInv /\ [Next]_vars => DutyInv' /\ EndedStays
  <1> SUFFICES ASSUME TypeInv, DutyInv, [Next]_vars PROVE DutyInv' /\ EndedStays
    OBVIOUS
  <1>1. ASSUME NEW a \in Accounts, RoomStep(a) PROVE DutyInv' /\ EndedStays
    BY <1>1, RoomToolsKeep, JoinKeepsDuty, DepartKeepsDuty, SetRoleKeepsDuty, CloseKeepsDuty
    DEF RoomStep, ThreadLeave, ThreadRemoveMember
  <1>2. ASSUME NEW a \in Accounts, EntryStep(a) PROVE DutyInv' /\ EndedStays
    BY <1>2, PostKeepsDuty, HandleKeepsDuty DEF EntryStep
  <1>3. ASSUME NEW a \in Accounts, AssignStep(a) PROVE DutyInv' /\ EndedStays
    BY <1>3, ActKeepsDuty, LookKeepsDuty DEF AssignStep
  <1>4. ASSUME NEW d \in Admins, DisableStep(d) PROVE DutyInv' /\ EndedStays
    BY <1>4, DisableKeepsDuty, EndAllKeepsDuty, CommitKeepsDuty DEF DisableStep
  <1>5. CASE UNCHANGED vars
    <2>1. UNCHANGED <<entry, receipt, role, assign, admin>>
      BY <1>5 DEF vars
    <2> QED
      BY <2>1, Unmoved, MovesKeep
  <1> QED
    BY <1>1, <1>2, <1>3, <1>4, <1>5, SweepKeepsDuty, TickKeepsDuty DEF Next

\* kungfu.md 6.2 and L5: responses, deliveries and judgments end once, for tools that act on
\* what they read before they had the room too; and a creator that left, was removed or was
\* disabled never judges, after joining again neither.
THEOREM ObligationsKept == Spec => ObligationsEndOnce
  <1>1. DutyInv => JudgmentForfeited
    BY DEF DutyInv
  <1>2. TypeInv /\ DutyInv /\ [Next]_vars => [EndedStays]_vars
    BY DutyNext
  <1> QED
    BY <1>1, <1>2, TypesKept, DutyInit, DutyNext, PTL DEF Spec, ObligationsEndOnce, EndsOnce, EndedStays

-----------------------------------------------------------------------------
(* Limits.                                                                 *)

FiniteRooms == \A a \in Accounts : IsFiniteSet(OpenRooms(a))

LimitInv == UnusedIsEmpty /\ FiniteRooms /\ WithinLimits

LEMMA MembersFinite ==
  ASSUME NEW r \in Rooms
  PROVE  IsFiniteSet(Members(r)) /\ Cardinality(Members(r)) \in Nat
  <1>1. Members(r) \subseteq Accounts
    BY DEF Members
  <1> QED
    BY <1>1, RoomBoundAssumption, FS_Subset, FS_CardinalityType

\* A part of a finite set is counted no higher.
LEMMA CountPart ==
  ASSUME NEW S, NEW T, IsFiniteSet(S), T \subseteq S, NEW n \in Nat, Cardinality(S) <= n
  PROVE  IsFiniteSet(T) /\ Cardinality(T) <= n
  <1>1. IsFiniteSet(T) /\ Cardinality(T) <= Cardinality(S)
    BY FS_Subset
  <1>2. Cardinality(T) \in Nat /\ Cardinality(S) \in Nat
    BY <1>1, FS_CardinalityType
  <1> QED
    BY <1>1, <1>2

LEMMA CountOneMore ==
  ASSUME NEW S, NEW x, IsFiniteSet(S), NEW n \in Nat, Cardinality(S) < n
  PROVE  IsFiniteSet(S \cup {x}) /\ Cardinality(S \cup {x}) <= n
  <1>1. Cardinality(S) \in Nat
    BY FS_CardinalityType
  <1>2. IsFiniteSet(S \cup {x}) /\ (Cardinality(S \cup {x}) = Cardinality(S)
                                    \/ Cardinality(S \cup {x}) = Cardinality(S) + 1)
    BY FS_AddElement
  <1> QED
    BY <1>1, <1>2

\* A step that makes nobody a member and opens no room.
LEMMA FewerKeepLimits ==
  ASSUME LimitInv,
         \A r \in Rooms, a \in Accounts : IsMember(r, a)' => IsMember(r, a),
         \A r \in Rooms : room'[r].status = room[r].status \/ room'[r].status = "closed"
  PROVE  LimitInv'
  <1>1. UnusedIsEmpty'
    BY DEF LimitInv, UnusedIsEmpty, IsMember
  <1>2. \A r \in Rooms : Members(r)' \subseteq Members(r)
    BY DEF Members
  <1>3. \A a \in Accounts : OpenRooms(a)' \subseteq OpenRooms(a)
    BY DEF OpenRooms, IsOpen
  <1>4. \A r \in Rooms : Cardinality(Members(r)') <= MaxMembers
    BY <1>2, MembersFinite, CountPart, RoomBoundAssumption DEF LimitInv, WithinLimits
  <1>5. \A a \in Accounts : IsFiniteSet(OpenRooms(a)') /\ Cardinality(OpenRooms(a)') <= MaxRooms
    BY <1>3, CountPart, RoomBoundAssumption DEF LimitInv, WithinLimits, FiniteRooms
  <1> QED
    BY <1>1, <1>4, <1>5 DEF LimitInv, WithinLimits, FiniteRooms

\* One account joins one room, with room for both.
LEMMA OneMoreKeepsLimits ==
  ASSUME LimitInv, NEW r \in Rooms, NEW a \in Accounts,
         Cardinality(Members(r)) < MaxMembers, Cardinality(OpenRooms(a)) < MaxRooms,
         room'[r].status # "none",
         \A s \in Rooms : s # r => room'[s].status = room[s].status,
         \A b \in Accounts : b # a /\ IsMember(r, b) => IsOpen(r)' = IsOpen(r),
         \A s \in Rooms, b \in Accounts : IsMember(s, b)' => IsMember(s, b) \/ (s = r /\ b = a)
  PROVE  LimitInv'
  <1>1. UnusedIsEmpty'
    BY DEF LimitInv, UnusedIsEmpty, IsMember
  <1>2. Members(r)' \subseteq Members(r) \cup {a} /\ \A s \in Rooms : s # r => Members(s)' \subseteq Members(s)
    BY DEF Members
  <1>3. OpenRooms(a)' \subseteq OpenRooms(a) \cup {r}
    BY DEF OpenRooms, IsOpen
  <1>4. ASSUME NEW b \in Accounts, b # a PROVE OpenRooms(b)' \subseteq OpenRooms(b)
    BY <1>4 DEF OpenRooms, IsOpen
  <1>5. \A s \in Rooms : Cardinality(Members(s)') <= MaxMembers
    <2>1. Cardinality(Members(r)') <= MaxMembers
      BY <1>2, MembersFinite, CountOneMore, CountPart, RoomBoundAssumption
    <2>2. ASSUME NEW s \in Rooms, s # r PROVE Cardinality(Members(s)') <= MaxMembers
      BY <1>2, <2>2, MembersFinite, CountPart, RoomBoundAssumption DEF LimitInv, WithinLimits
    <2> QED
      BY <2>1, <2>2
  <1>6. \A b \in Accounts : IsFiniteSet(OpenRooms(b)') /\ Cardinality(OpenRooms(b)') <= MaxRooms
    <2>1. IsFiniteSet(OpenRooms(a)') /\ Cardinality(OpenRooms(a)') <= MaxRooms
      BY <1>3, CountOneMore, CountPart, RoomBoundAssumption DEF LimitInv, FiniteRooms
    <2>2. ASSUME NEW b \in Accounts, b # a
          PROVE  IsFiniteSet(OpenRooms(b)') /\ Cardinality(OpenRooms(b)') <= MaxRooms
      BY <1>4, <2>2, CountPart, RoomBoundAssumption DEF LimitInv, WithinLimits, FiniteRooms
    <2> QED
      BY <2>1, <2>2
  <1> QED
    BY <1>1, <1>5, <1>6 DEF LimitInv, WithinLimits, FiniteRooms

LEMMA StartKeepsLimits ==
  ASSUME TypeInv, LimitInv, NEW a \in Accounts, NEW r \in Rooms, NEW k \in BOOLEAN,
         ThreadStart(a, r, k)
  PROVE  LimitInv'
  <1> USE DEF TypeInv, RolesTyped, RoomsTyped
  <1>1. /\ room[r].status = "none" /\ Cardinality(OpenRooms(a)) < MaxRooms
        /\ role' = [role EXCEPT ![r][a] = "governor"]
    BY DEF ThreadStart, NextRow, RoomUsed
  <1>2. room'[r].status = "open" /\ \A s \in Rooms : s # r => room'[s] = room[s]
    <2> DEFINE fresh == [NoRoom EXCEPT !.status = "open"]
    <2>1. fresh.status = "open" /\ WithKey(fresh, "speaker").status = "open"
      BY DEF NoRoom, WithKey
    <2>2. room' = [room EXCEPT ![r] = IF k THEN WithKey(fresh, "speaker") ELSE fresh]
      BY DEF ThreadStart
    <2> HIDE DEF fresh
    <2> QED
      BY <2>1, <2>2
  <1>3. \A b \in Accounts : ~IsMember(r, b)
    BY <1>1 DEF LimitInv, UnusedIsEmpty, IsMember
  <1>4. Cardinality(Members(r)) < MaxMembers
    <2>1. Members(r) = {}
      BY <1>3 DEF Members
    <2>2. Cardinality({}) = 0
      BY FS_EmptySet
    <2> QED
      BY <2>1, <2>2, RoomBoundAssumption
  <1>5. \A s \in Rooms, b \in Accounts : IsMember(s, b)' => IsMember(s, b) \/ (s = r /\ b = a)
    BY <1>1 DEF IsMember
  <1> QED
    BY <1>1, <1>2, <1>3, <1>4, <1>5, OneMoreKeepsLimits

LEMMA JoinKeepsLimits ==
  ASSUME TypeInv, LimitInv, NEW a \in Accounts, ThreadJoin(a)
  PROVE  LimitInv'
  <1> USE DEF TypeInv, RolesTyped
  <1>1. PICK r \in Rooms : r = req[a].room
    BY DEF ThreadJoin, ReqsTyped
  <1>2. UNCHANGED room
    BY DEF ThreadJoin
  <1>3. CASE role' = role
    BY <1>2, <1>3, FewerKeepLimits DEF IsMember
  <1>4. CASE role' # role
    <2>1. /\ role' = [role EXCEPT ![r][a] = room[r].krole]
          /\ IsOpen(r) /\ RoomForOneMore(r, a)
      BY <1>1, <1>4 DEF ThreadJoin, KeyStillLive
    <2>2. \A s \in Rooms, b \in Accounts : IsMember(s, b)' => IsMember(s, b) \/ (s = r /\ b = a)
      BY <2>1 DEF IsMember
    <2>3. room'[r].status # "none" /\ IsOpen(r)' = IsOpen(r)
      BY <1>2, <2>1 DEF IsOpen
    <2>4. Cardinality(Members(r)) < MaxMembers /\ Cardinality(OpenRooms(a)) < MaxRooms
      BY <2>1 DEF RoomForOneMore
    <2> QED
      BY <1>2, <2>2, <2>3, <2>4, OneMoreKeepsLimits
  <1> QED
    BY <1>3, <1>4

\* The other tools take memberships, change the roles of members, issue keys and close.
LEMMA OtherToolsKeepLimits ==
  ASSUME TypeInv, LimitInv, NEW a \in Accounts, RoomStep(a), ~ThreadJoin(a),
         ~ \E r \in Rooms, k \in BOOLEAN : ThreadStart(a, r, k)
  PROVE  LimitInv'
  <1> USE DEF TypeInv, RolesTyped, RoomsTyped
  <1>1. PICK r \in Rooms : \/ ThreadRevokeKey(a, r) \/ \E ro \in KeyRoles : ThreadIssueKey(a, r, ro)
                           \/ JoinLookup(a, r) \/ ThreadClose(a, r)
                           \/ \E m \in Accounts : EndMembership(r, m)
                           \/ \E m \in Accounts, ro \in RolesGiven : ThreadSetRole(a, r, m, ro)
    BY DEF RoomStep, ThreadLeave, ThreadRemoveMember
  <1>2. CASE ThreadRevokeKey(a, r)
    <2>1. role' = role /\ room' = [room EXCEPT ![r] = WithoutKey(room[r])]
      BY <1>2 DEF ThreadRevokeKey
    <2>2. \A s \in Rooms : room'[s].status = room[s].status
      BY <2>1, WithoutKeyType
    <2> QED
      BY <2>1, <2>2, FewerKeepLimits DEF IsMember
  <1>3. ASSUME NEW ro \in KeyRoles, ThreadIssueKey(a, r, ro) PROVE LimitInv'
    <2>1. /\ role' = role /\ room' = [room EXCEPT ![r] = WithKey(room[r], ro)]
          /\ room[r] \in RoomRow /\ room[r].issued <= MaxKeys /\ ro \in Roles
      BY <1>3, RoomBoundAssumption DEF ThreadIssueKey, RoomRow
    <2>2. \A s \in Rooms : room'[s].status = room[s].status
      BY <2>1, WithKeyType
    <2> QED
      BY <2>1, <2>2, FewerKeepLimits DEF IsMember
  <1>4. CASE JoinLookup(a, r)
    BY <1>4, FewerKeepLimits DEF JoinLookup, IsMember
  <1>5. CASE ThreadClose(a, r)
    <2>1. role' = role /\ room' = [room EXCEPT ![r] = Closed(room[r])]
      BY <1>5 DEF ThreadClose
    <2>2. \A s \in Rooms : room'[s].status = room[s].status \/ room'[s].status = "closed"
      BY <2>1, ClosedType
    <2> QED
      BY <2>1, <2>2, FewerKeepLimits DEF IsMember
  <1>6. ASSUME NEW m \in Accounts, EndMembership(r, m) PROVE LimitInv'
    <2>1. UNCHANGED room /\ role' = [role EXCEPT ![r][m] = "none"]
      BY <1>6 DEF EndMembership
    <2>2. \A s \in Rooms, b \in Accounts : IsMember(s, b)' => IsMember(s, b)
      BY <2>1 DEF IsMember
    <2> QED
      BY <2>1, <2>2, FewerKeepLimits
  <1>7. ASSUME NEW m \in Accounts, NEW ro \in RolesGiven, ThreadSetRole(a, r, m, ro) PROVE LimitInv'
    <2>1. UNCHANGED room /\ IsMember(r, m) /\ role' = [role EXCEPT ![r][m] = ro]
      BY <1>7 DEF ThreadSetRole
    <2>2. \A s \in Rooms, b \in Accounts : IsMember(s, b)' => IsMember(s, b)
      BY <2>1 DEF IsMember
    <2> QED
      BY <2>1, <2>2, FewerKeepLimits
  <1> QED
    BY <1>1, <1>2, <1>3, <1>4, <1>5, <1>6, <1>7

LEMMA DisableKeepsLimits ==
  ASSUME TypeInv, LimitInv, NEW d \in Admins, DisableStep(d)
  PROVE  LimitInv'
  <1> USE DEF TypeInv, RolesTyped, RoomsTyped
  <1>1. CASE DisableCommit(d)
    <2>1. UNCHANGED room /\ \A r \in Rooms, b \in Accounts : IsMember(r, b)' => IsMember(r, b)
      BY <1>1 DEF DisableCommit, IsMember
    <2> QED
      BY <2>1, FewerKeepLimits
  <1>2. CASE DisableClose(d)
    <2>1. UNCHANGED role
      BY <1>2 DEF DisableClose
    <2>2. \A r \in Rooms : room'[r] = room[r] \/ room'[r] = Closed(room[r])
      BY <1>2 DEF DisableClose
    <2>3. \A r \in Rooms : room'[r].status = room[r].status \/ room'[r].status = "closed"
      BY <2>2, ClosedType
    <2> QED
      BY <2>1, <2>3, FewerKeepLimits DEF IsMember
  <1>3. CASE UNCHANGED <<role, room>>
    BY <1>3, FewerKeepLimits DEF IsMember
  <1> QED
    BY <1>1, <1>2, <1>3 DEF DisableStep, DisableBegin, EnableAccount, DisableLock, DisableReceipts,
                           DisableAssigns

LEMMA LimitNext == TypeInv /\ LimitInv /\ [Next]_vars => LimitInv'
  <1> SUFFICES ASSUME TypeInv, LimitInv, [Next]_vars PROVE LimitInv'
    OBVIOUS
  <1>1. ASSUME NEW a \in Accounts, RoomStep(a) PROVE LimitInv'
    BY <1>1, StartKeepsLimits, JoinKeepsLimits, OtherToolsKeepLimits
  <1>2. CASE UNCHANGED <<role, room>>
    BY <1>2, FewerKeepLimits DEF IsMember
  <1> QED
    BY <1>1, <1>2, EntriesKeepRoles, DisableKeepsLimits
    DEF Next, Tick, vars, SweepStep, AssignTimedOut, AssignUndecided

LEMMA LimitInit == Init => LimitInv
  <1> SUFFICES ASSUME Init PROVE LimitInv
    OBVIOUS
  <1>1. \A r \in Rooms : Members(r) = {} /\ room[r].status = "none"
    BY DEF Init, Members, IsMember, NoRoom
  <1>2. \A a \in Accounts : OpenRooms(a) = {}
    BY DEF Init, OpenRooms, IsOpen, NoRoom
  <1>3. IsFiniteSet({}) /\ Cardinality({}) = 0
    BY FS_EmptySet
  <1>4. UnusedIsEmpty
    BY DEF Init, UnusedIsEmpty
  <1> QED
    <2>1. 0 <= MaxMembers /\ 0 <= MaxRooms
      BY RoomBoundAssumption
    <2> QED
      BY <1>1, <1>2, <1>3, <1>4, <2>1 DEF LimitInv, FiniteRooms, WithinLimits

LEMMA LimitInvHolds == Spec => []LimitInv
  BY LimitInit, LimitNext, TypesKept, PTL DEF Spec

\* threadMaxMembers and threadMaxOpenRoomsPerAccount: no room has more members and no account
\* is in more open rooms than allowed, however joins, starts and administrators interleave.
THEOREM LimitsKept == Spec => []WithinLimits
  BY LimitInvHolds, PTL DEF LimitInv

-----------------------------------------------------------------------------
(* What is owed.  Each of the three parts below is kept by every step, but *)
(* for what the histories name.                                            *)

\* A pending response is of a speaker, and not of an account that has had its own withdrawn.
AskedInv ==
    /\ \A e \in EntryIds, a \in Accounts :
          receipt[e][a] = "pending" /\ <<e, a>> \notin asked => Speaks(entry[e].room, a)
    /\ \A d \in Admins : admin[d].pc \in {"assigns", "members"} =>
          \A e \in EntryIds : receipt[e][admin[d].account] = "pending" => <<e, admin[d].account>> \in asked

\* An assignment given behind its assignee's cascade that nobody has taken.
Stray(w) == assign[w].state = "open" /\ w \in given

\* An assignment that is not delivered is a member's, and not of one that has lost its own.
HeldInv ==
    /\ \A w \in AssignIds : assign[w].state \in Undelivered =>
          Stray(w) \/ (assign[w].assignee \in Accounts /\ IsMember(RoomOf(w), assign[w].assignee))
    /\ \A d \in Admins : admin[d].pc = "members" =>
          \A w \in AssignIds :
             assign[w].assignee = admin[d].account => Stray(w) \/ assign[w].state \notin Undelivered

\* A response is pending in a closed room only until the transaction that has closed it
\* withdraws the account's own, and still has the room.
PendingOpen(e, a) ==
    \/ room[entry[e].room].status # "closed"
    \/ \E d \in Admins : /\ admin[d].pc = "receipts" /\ admin[d].account = a
                         /\ entry[e].room \in admin[d].locks

\* An assignment is out in a closed room only until that transaction voids the account's own.
OutOpen(w) ==
    \/ room[RoomOf(w)].status # "closed"
    \/ \E d \in Admins : /\ admin[d].pc \in {"receipts", "assigns"}
                         /\ admin[d].account \in {assign[w].creator, assign[w].assignee}
                         /\ RoomOf(w) \in admin[d].locks

ClosedInv ==
    /\ \A e \in EntryIds, a \in Accounts :
          receipt[e][a] = "pending" /\ <<e, a>> \notin unanswered => PendingOpen(e, a)
    /\ \A w \in AssignIds : assign[w].state \in Undelivered /\ w \notin undelivered => OutOpen(w)

\* What every step keeps.
OwedKept == (AskedInv => AskedInv') /\ (HeldInv => HeldInv') /\ (ClosedInv => ClosedInv')

\* Whoever is being disabled has no request under way, so it takes nothing.
Took(w) ==
    /\ assign[w].assignee \in Accounts /\ IsMember(RoomOf(w), assign[w].assignee)
    /\ \A d \in Admins : admin[d].pc = "members" => admin[d].account # assign[w].assignee

LEMMA PendingPlaced ==
  ASSUME TypeInv, DutyInv, NEW e \in EntryIds, NEW a \in Accounts, receipt[e][a] = "pending"
  PROVE  EntryUsed(e) /\ entry[e].room \in Rooms
  BY DEF TypeInv, EntriesTyped, EntryRow, DutyInv, FreshIsSilent, EntryUsed

LEMMA OutPlaced ==
  ASSUME TypeInv, DutyInv, NEW w \in AssignIds, assign[w].state \in Undelivered
  PROVE  /\ AssignUsed(w) /\ assign[w].entry \in EntryIds /\ RoomOf(w) \in Rooms
         /\ EntryUsed(assign[w].entry) /\ assign[w].creator \in Accounts
         /\ IsMember(RoomOf(w), assign[w].creator)
  <1>1. AssignUsed(w)
    BY DEF AssignUsed, Undelivered
  <1>2. assign[w].entry \in EntryIds /\ RoomOf(w) \in Rooms /\ assign[w].creator \in Accounts
    BY <1>1 DEF DutyInv, AssignsPlaced
  <1>3. EntryUsed(assign[w].entry)
    BY <1>2, RoomIdAssumption DEF EntryUsed, RoomOf
  <1> QED
    BY <1>1, <1>2, <1>3 DEF DutyInv, CreatorIsMember

\* What is still out after a step was out before it, between the same two, if not taken by it.
StillOut(w) ==
    assign'[w].state \in Undelivered =>
        /\ assign[w].state \in Undelivered
        /\ assign'[w].state = assign[w].state \/ Took(w)
        /\ assign'[w].entry = assign[w].entry /\ assign'[w].assignee = assign[w].assignee
        /\ assign'[w].creator = assign[w].creator

\* An assignment that is posted by the step.
New(w) == ~AssignUsed(w) /\ assign'[w].state \in {"none", "open"}

\* While no deactivation moves on, nobody is asked or assigned behind one but by the late steps.
LEMMA NoneComesBack ==
  ASSUME Remembered, UNCHANGED admin
  PROVE  /\ AskedInv =>
              \A d \in Admins : admin'[d].pc \in {"assigns", "members"} /\ admin'[d].account \in Accounts =>
                \A e \in EntryIds : receipt'[e][admin'[d].account] = "pending"
                                     => <<e, admin'[d].account>> \in asked'
         /\ HeldInv =>
              \A d \in Admins : admin'[d].pc = "members" =>
                \A w \in AssignIds : StillOut(w) \/ New(w) =>
                   (assign'[w].assignee = admin'[d].account => Stray(w)' \/ assign'[w].state \notin Undelivered)
  <1>1. ASSUME AskedInv, NEW d \in Admins, admin'[d].pc \in {"assigns", "members"}, NEW e \in EntryIds,
               admin'[d].account \in Accounts, receipt'[e][admin'[d].account] = "pending"
        PROVE  <<e, admin'[d].account>> \in asked'
    <2>1. PICK x \in Accounts : x = admin[d].account
      BY <1>1
    <2>2. CASE receipt[e][x] = "pending"
      BY <1>1, <2>1, <2>2 DEF AskedInv, Remembered
    <2>3. CASE receipt[e][x] # "pending"
      <3>1. Behind(x, {"assigns", "members"})
        BY <1>1, <2>1 DEF Behind
      <3>2. AskedLate(e, x)
        BY <1>1, <2>1, <2>3, <3>1 DEF AskedLate
      <3> QED
        BY <2>1, <3>2, Noted, Zenon
    <2> QED
      BY <2>2, <2>3
  <1>2. ASSUME HeldInv, NEW d \in Admins, admin'[d].pc = "members", NEW w \in AssignIds,
               StillOut(w) \/ New(w),
               assign'[w].assignee = admin'[d].account, assign'[w].state \in Undelivered
        PROVE  Stray(w)'
    <2>1. CASE StillOut(w)
      <3>1. assign'[w].state = assign[w].state /\ Stray(w)
        BY <1>2, <2>1 DEF StillOut, Took, HeldInv
      <3> QED
        BY <3>1 DEF Stray, Remembered
    <2>2. CASE New(w)
      <3>1. Behind(assign'[w].assignee, {"members"})
        BY <1>2 DEF Behind
      <3>2. AssignedLate(w) /\ assign'[w].state = "open"
        BY <1>2, <2>2, <3>1 DEF AssignedLate, New, Undelivered
      <3> QED
        BY <3>2 DEF Stray, Remembered
    <2> QED
      BY <1>2, <2>1, <2>2
  <1> QED
    BY <1>1, <1>2

\* A cascade under way is of an account.
LEMMA AccountsPicked ==
  ASSUME TypeInv
  PROVE  \A d \in Admins : admin[d].pc # "idle" => admin[d].account \in Accounts
  BY DEF TypeInv, AdminsTyped

\* What is still out or pending after a step lives in a room that was not closed by it, and
\* is of a member, or a speaker, that is still one.
LEMMA LivesOn ==
  ASSUME TypeInv, DutyInv, Remembered, UNCHANGED <<entry, admin>>,
         \A e \in EntryIds, a \in Accounts : receipt'[e][a] = "pending" =>
            /\ receipt[e][a] = "pending"
            /\ Speaks(entry[e].room, a) => Speaks(entry[e].room, a)'
            /\ room'[entry[e].room].status = "closed" => room[entry[e].room].status = "closed",
         \A w \in AssignIds : StillOut(w),
         \A w \in AssignIds : assign'[w].state \in Undelivered =>
            /\ assign[w].assignee \in Accounts /\ IsMember(RoomOf(w), assign[w].assignee)
                 => role'[RoomOf(w)][assign[w].assignee] # "none"
            /\ room'[RoomOf(w)].status = "closed" => room[RoomOf(w)].status = "closed"
  PROVE  OwedKept
  <1>1. ASSUME AskedInv PROVE AskedInv'
    BY <1>1, NoneComesBack, AccountsPicked DEF AskedInv, Speaks, Remembered
  <1>2. \A w \in AssignIds : assign'[w].state \in Undelivered => RoomOf(w)' = RoomOf(w)
    BY DEF StillOut, RoomOf
  <1>3. ASSUME HeldInv PROVE HeldInv'
    <2>1. \A w \in AssignIds : assign'[w].state \in Undelivered =>
            Stray(w)' \/ (assign'[w].assignee \in Accounts /\ role'[RoomOf(w)'][assign'[w].assignee] # "none")
      BY <1>2, <1>3 DEF HeldInv, StillOut, Took, IsMember, Stray, Remembered
    <2> QED
      BY <1>3, <2>1, NoneComesBack DEF HeldInv, IsMember
  <1>4. ASSUME ClosedInv PROVE ClosedInv'
    <2>1. \A e \in EntryIds, a \in Accounts :
            receipt'[e][a] = "pending" /\ <<e, a>> \notin unanswered' => PendingOpen(e, a)'
      BY <1>4 DEF ClosedInv, PendingOpen, Remembered
    <2>2. \A w \in AssignIds : assign'[w].state \in Undelivered /\ w \notin undelivered' => OutOpen(w)'
      BY <1>2, <1>4 DEF ClosedInv, OutOpen, StillOut, Remembered
    <2> QED
      BY <2>1, <2>2 DEF ClosedInv
  <1> QED
    BY <1>1, <1>3, <1>4 DEF OwedKept

\* A step that takes no role from a member and closes no room.
LEMMA QuietKeeps ==
  ASSUME TypeInv, DutyInv, Remembered, UNCHANGED <<entry, admin>>,
         \A r \in Rooms, a \in Accounts : IsMember(r, a) => role'[r][a] = role[r][a],
         \A r \in Rooms : room'[r].status = "closed" => room[r].status = "closed",
         \A e \in EntryIds, a \in Accounts : ReceiptMoves(e, a),
         \A w \in AssignIds : StillOut(w)
  PROVE  OwedKept
  <1>1. ASSUME NEW e \in EntryIds, NEW a \in Accounts, receipt'[e][a] = "pending"
        PROVE  /\ receipt[e][a] = "pending"
               /\ Speaks(entry[e].room, a) => Speaks(entry[e].room, a)'
               /\ room'[entry[e].room].status = "closed" => room[entry[e].room].status = "closed"
    <2>1. receipt[e][a] = "pending"
      BY <1>1 DEF ReceiptMoves
    <2>2. entry[e].room \in Rooms
      BY <2>1, PendingPlaced
    <2> QED
      BY <2>1, <2>2 DEF Speaks, IsMember
  <1>2. ASSUME NEW w \in AssignIds, assign'[w].state \in Undelivered
        PROVE  /\ assign[w].assignee \in Accounts /\ IsMember(RoomOf(w), assign[w].assignee)
                    => role'[RoomOf(w)][assign[w].assignee] # "none"
               /\ room'[RoomOf(w)].status = "closed" => room[RoomOf(w)].status = "closed"
    <2>1. assign[w].state \in Undelivered
      BY <1>2 DEF StillOut
    <2>2. RoomOf(w) \in Rooms
      BY <2>1, OutPlaced
    <2> QED
      BY <2>2 DEF IsMember
  <1> QED
    BY <1>1, <1>2, LivesOn

\* Rows that are left alone.
LEMMA StillThere ==
  /\ UNCHANGED assign => \A w \in AssignIds : StillOut(w)
  /\ UNCHANGED role => \A r \in Rooms, a \in Accounts : IsMember(r, a) => role'[r][a] = role[r][a]
  /\ UNCHANGED room => \A r \in Rooms : room'[r].status = "closed" => room[r].status = "closed"
  BY DEF StillOut, IsMember

LEMMA StartKeepsOwed ==
  ASSUME TypeInv, DutyInv, Remembered, LimitInv, NEW a \in Accounts, NEW r \in Rooms, NEW k \in BOOLEAN,
         ThreadStart(a, r, k)
  PROVE  OwedKept
  <1> USE DEF TypeInv, RolesTyped, RoomsTyped
  <1>1. /\ room[r].status = "none" /\ UNCHANGED <<entry, receipt, assign, admin>>
        /\ role' = [role EXCEPT ![r][a] = "governor"]
    BY DEF ThreadStart, NextRow, RoomUsed
  <1>2. \A s \in Rooms : room'[s].status = "closed" => room[s].status = "closed"
    <2> DEFINE fresh == [NoRoom EXCEPT !.status = "open"]
    <2>1. fresh.status = "open" /\ WithKey(fresh, "speaker").status = "open"
      BY DEF NoRoom, WithKey
    <2>2. room' = [room EXCEPT ![r] = IF k THEN WithKey(fresh, "speaker") ELSE fresh]
      BY DEF ThreadStart
    <2> HIDE DEF fresh
    <2> QED
      BY <2>1, <2>2
  <1>3. \A s \in Rooms, b \in Accounts : IsMember(s, b) => role'[s][b] = role[s][b]
    BY <1>1 DEF LimitInv, UnusedIsEmpty, IsMember
  <1> QED
    BY <1>1, <1>2, <1>3, StillThere, Unmoved, QuietKeeps

LEMMA KeysKeepOwed ==
  ASSUME TypeInv, DutyInv, Remembered, NEW a \in Accounts, NEW r \in Rooms,
         \/ ThreadRevokeKey(a, r) \/ \E ro \in KeyRoles : ThreadIssueKey(a, r, ro)
         \/ JoinLookup(a, r) \/ ThreadJoin(a)
  PROVE  OwedKept
  <1> USE DEF TypeInv, RolesTyped, RoomsTyped
  <1>1. UNCHANGED <<entry, receipt, assign, admin>>
    BY DEF ThreadRevokeKey, ThreadIssueKey, JoinLookup, ThreadJoin
  <1>2. \A s \in Rooms : room'[s].status = room[s].status
    <2>1. ASSUME NEW ro \in KeyRoles, ThreadIssueKey(a, r, ro)
          PROVE  \A s \in Rooms : room'[s].status = room[s].status
      BY <2>1, WithKeyType, RoomBoundAssumption DEF ThreadIssueKey, RoomRow
    <2>2. CASE ThreadRevokeKey(a, r)
      BY <2>2, WithoutKeyType DEF ThreadRevokeKey
    <2> QED
      BY <2>1, <2>2 DEF JoinLookup, ThreadJoin
  <1>3. \A s \in Rooms, b \in Accounts : IsMember(s, b) => role'[s][b] = role[s][b]
    <2>1. CASE ThreadJoin(a)
      <3>1. PICK q \in Rooms : q = req[a].room
        BY <2>1 DEF ThreadJoin, ReqsTyped
      <3>2. \/ role' = role
            \/ ~IsMember(q, a) /\ \E ro : role' = [role EXCEPT ![q][a] = ro]
        BY <2>1, <3>1 DEF ThreadJoin
      <3> QED
        BY <3>2 DEF IsMember
    <2> QED
      BY <2>1, StillThere DEF ThreadRevokeKey, ThreadIssueKey, JoinLookup
  <1> QED
    BY <1>1, <1>2, <1>3, StillThere, Unmoved, QuietKeeps

-----------------------------------------------------------------------------
(* Departures and closing.                                                 *)

\* What a departure leaves of a row.
LEMMA LeftOut ==
  ASSUME NEW row \in AssignRow, NEW a
  PROVE  LET left == ForfeitedFor(VoidedFor(row, a), a) IN
         left.state \in Undelivered => left = row /\ a \notin {row.assignee, row.creator}
  <1>1. CASE row.state \in Undelivered /\ a \in {row.assignee, row.creator}
    <2> DEFINE ended == EndAssign(row, "voided")
    <2>1. ended \in AssignRow /\ ended.state = "voided"
      BY EndAssignType DEF AssignStates
    <2>2. VoidedFor(row, a) = ended
      BY <1>1 DEF VoidedFor
    <2> HIDE DEF ended
    <2>3. ForfeitedFor(ended, a) = ended
      BY <2>1 DEF ForfeitedFor
    <2> QED
      BY <2>1, <2>2, <2>3 DEF Undelivered
  <1>2. CASE ~(row.state \in Undelivered /\ a \in {row.assignee, row.creator})
    <2>1. VoidedFor(row, a) = row
      BY <1>2 DEF VoidedFor
    <2>2. ForfeitedFor(row, a).state = row.state
      BY DEF ForfeitedFor, AssignRow
    <2>3. row.state \in Undelivered => ForfeitedFor(row, a) = row
      BY DEF ForfeitedFor, Undelivered
    <2> QED
      BY <1>2, <2>1, <2>2, <2>3
  <1> QED
    BY <1>1, <1>2

LEMMA DepartKeepsOwed ==
  ASSUME TypeInv, DutyInv, Remembered, NEW r \in Rooms, NEW m \in Accounts, EndMembership(r, m)
  PROVE  OwedKept
  <1>1. /\ UNCHANGED <<room, entry, admin>> /\ role' = [role EXCEPT ![r][m] = "none"]
        /\ receipt' = WithdrawByMember(r, m) /\ assign' = LeaveAssigns({r}, m)
    BY DEF EndMembership
  <1>2. \A s \in Rooms, b \in Accounts : ~(s = r /\ b = m) => role'[s][b] = role[s][b]
    BY <1>1 DEF TypeInv, RolesTyped
  <1>3. ASSUME NEW e \in EntryIds, NEW a \in Accounts, receipt'[e][a] = "pending"
        PROVE  receipt[e][a] = "pending" /\ ~(entry[e].room = r /\ a = m)
    BY <1>1, <1>3 DEF WithdrawByMember, TypeInv, ReceiptsTyped
  <1>4. ASSUME NEW w \in AssignIds, assign'[w].state \in Undelivered
        PROVE  assign'[w] = assign[w] /\ ~(RoomOf(w) = r /\ assign[w].assignee = m)
    <2>1. assign[w] \in AssignRow
      BY DEF TypeInv, AssignsTyped
    <2>2. CASE AssignUsed(w) /\ RoomOf(w) = r
      <3>1. assign'[w] = ForfeitedFor(VoidedFor(assign[w], m), m)
        BY <1>1, <2>2 DEF LeaveAssigns
      <3> QED
        BY <1>4, <2>1, <3>1, LeftOut
    <2>3. CASE ~(AssignUsed(w) /\ RoomOf(w) = r)
      <3>1. assign'[w] = assign[w]
        BY <1>1, <2>3 DEF LeaveAssigns
      <3> QED
        BY <1>4, <2>3, <3>1 DEF AssignUsed, Undelivered
    <2> QED
      BY <2>2, <2>3
  <1>5. \A w \in AssignIds : StillOut(w)
    BY <1>4 DEF StillOut
  <1>6. ASSUME NEW e \in EntryIds, NEW a \in Accounts, receipt'[e][a] = "pending"
        PROVE  Speaks(entry[e].room, a) => Speaks(entry[e].room, a)'
    <2>1. entry[e].room \in Rooms
      BY <1>3, <1>6, PendingPlaced
    <2> QED
      BY <1>1, <1>2, <1>3, <1>6, <2>1 DEF Speaks
  <1>7. ASSUME NEW w \in AssignIds, assign'[w].state \in Undelivered
        PROVE  assign[w].assignee \in Accounts /\ IsMember(RoomOf(w), assign[w].assignee)
                 => role'[RoomOf(w)][assign[w].assignee] # "none"
    <2>1. assign[w].state \in Undelivered
      BY <1>4, <1>7
    <2>2. RoomOf(w) \in Rooms
      BY <2>1, OutPlaced
    <2> QED
      BY <1>2, <1>4, <1>7, <2>2 DEF IsMember
  <1> QED
    BY <1>1, <1>3, <1>5, <1>6, <1>7, LivesOn

LEMMA SetRoleKeepsOwed ==
  ASSUME TypeInv, DutyInv, Remembered, NEW a \in Accounts, NEW r \in Rooms, NEW m \in Accounts,
         NEW ro \in RolesGiven, ThreadSetRole(a, r, m, ro)
  PROVE  OwedKept
  <1>1. /\ UNCHANGED <<room, entry, assign, admin>> /\ role' = [role EXCEPT ![r][m] = ro]
        /\ receipt' = IF ro = "observer" THEN WithdrawByMember(r, m) ELSE receipt
    BY DEF ThreadSetRole
  <1>2. /\ \A s \in Rooms, b \in Accounts : ~(s = r /\ b = m) => role'[s][b] = role[s][b]
        /\ role'[r][m] = ro /\ ro \in Roles
    BY <1>1, RoomBoundAssumption DEF TypeInv, RolesTyped
  <1>3. ASSUME NEW e \in EntryIds, NEW b \in Accounts, receipt'[e][b] = "pending"
        PROVE  receipt[e][b] = "pending" /\ (ro = "observer" => ~(entry[e].room = r /\ b = m))
    BY <1>1, <1>3 DEF WithdrawByMember, TypeInv, ReceiptsTyped
  <1>4. ASSUME NEW e \in EntryIds, NEW b \in Accounts, receipt'[e][b] = "pending"
        PROVE  Speaks(entry[e].room, b) => Speaks(entry[e].room, b)'
    <2>1. entry[e].room \in Rooms
      BY <1>3, <1>4, PendingPlaced
    <2> QED
      BY <1>1, <1>2, <1>3, <1>4, <2>1 DEF Speaks, Roles
  <1>5. ASSUME NEW w \in AssignIds, assign'[w].state \in Undelivered
        PROVE  assign[w].assignee \in Accounts /\ IsMember(RoomOf(w), assign[w].assignee)
                 => role'[RoomOf(w)][assign[w].assignee] # "none"
    <2>1. RoomOf(w) \in Rooms
      BY <1>1, <1>5, OutPlaced
    <2> QED
      BY <1>2, <2>1 DEF IsMember, Roles
  <1> QED
    BY <1>1, <1>3, <1>4, <1>5, StillThere, LivesOn

LEMMA CloseKeepsOwed ==
  ASSUME TypeInv, DutyInv, Remembered, NEW a \in Accounts, NEW r \in Rooms, ThreadClose(a, r)
  PROVE  OwedKept
  <1>1. /\ UNCHANGED <<entry, role, admin>> /\ receipt' = WithdrawAll(r)
        /\ room' = [room EXCEPT ![r] = Closed(room[r])]
    BY DEF ThreadClose
  <1>2. \A s \in Rooms : s # r => room'[s] = room[s]
    BY <1>1 DEF TypeInv, RoomsTyped
  <1>3. ASSUME NEW e \in EntryIds, NEW b \in Accounts, receipt'[e][b] = "pending"
        PROVE  receipt[e][b] = "pending" /\ entry[e].room # r
    BY <1>1, <1>3 DEF WithdrawAll, TypeInv, ReceiptsTyped
  <1>4. ASSUME NEW w \in AssignIds, assign'[w].state \in Undelivered
        PROVE  assign'[w] = assign[w] /\ RoomOf(w) # r
    <2>1. EndAssign(assign[w], "voided").state \notin Undelivered
      BY EndedRow DEF TypeInv, AssignsTyped, AssignStates, Undelivered
    <2> QED
      BY <1>4, <2>1 DEF ThreadClose
  <1>5. \A e \in EntryIds, b \in Accounts : receipt'[e][b] = "pending" =>
            room'[entry[e].room] = room[entry[e].room]
    BY <1>2, <1>3, PendingPlaced
  <1>6. \A w \in AssignIds : assign'[w].state \in Undelivered => room'[RoomOf(w)] = room[RoomOf(w)]
    BY <1>2, <1>4, OutPlaced
  <1>7. \A w \in AssignIds : StillOut(w)
    BY <1>4 DEF StillOut
  <1> QED
    BY <1>1, <1>3, <1>5, <1>6, <1>7, LivesOn DEF Speaks, IsMember

-----------------------------------------------------------------------------
(* Entries and assignments.                                                *)

\* Whoever an entry asks for a response may speak in its room.
LEMMA AskedSpeak ==
  ASSUME NEW a \in Accounts, NEW r \in Rooms, NEW e \in EntryIds, NEW ask \in SUBSET Speakers(r) \cup {None},
         NEW reply \in EntryIds \cup {None}, NEW to, ThreadPost(a, r, e, ask, reply, to)
  PROVE  Responders(r, a, ask, reply) \subseteq Speakers(r)
  <1>1. ask # None => ask \subseteq Speakers(r)
    BY DEF ThreadPost
  <1> QED
    BY <1>1 DEF Responders

LEMMA PostKeepsOwed ==
  ASSUME TypeInv, DutyInv, Remembered, NEW a \in Accounts, NEW r \in Rooms, NEW e \in NewEntries,
         NEW ask \in SUBSET Speakers(r) \cup {None}, NEW reply \in EntryIds \cup {None},
         NEW to \in Speakers(r) \cup {None}, ThreadPost(a, r, e, ask, reply, to)
  PROVE  OwedKept
  <1>1. e \in EntryIds /\ ~EntryUsed(e)
    BY DEF NewEntries, NextRow
  <1>2. /\ UNCHANGED <<role, room, admin>> /\ IsOpen(r)
        /\ entry' = [entry EXCEPT ![e] = [room |-> r, author |-> a]]
    BY DEF ThreadPost
  <1>3. entry'[e].room = r /\ \A f \in EntryIds : f # e => entry'[f] = entry[f]
    BY <1>1, <1>2 DEF TypeInv, EntriesTyped
  <1> DEFINE due == Responders(r, a, ask, reply)
             added == [receipt EXCEPT ![e] = [x \in Accounts |->
                          IF x \in due THEN "pending" ELSE "none"]]
  <1>4. receipt' = IF reply = None THEN added ELSE Fulfilled(added, reply, a)
    BY DEF ThreadPost
  <1>5. due \subseteq Speakers(r)
    BY <1>1, AskedSpeak
  <1> HIDE DEF due
  <1>6. added \in [EntryIds -> [Accounts -> ReceiptStates]]
    BY DEF TypeInv, ReceiptsTyped, ReceiptStates
  <1>7. /\ \A f \in EntryIds : f # e => added[f] = receipt[f]
        /\ \A x \in Accounts : added[e][x] = "pending" => x \in Speakers(r)
    BY <1>1, <1>5 DEF TypeInv, ReceiptsTyped
  <1> HIDE DEF added
  <1>8. \A f \in EntryIds, b \in Accounts : receipt'[f][b] = "pending" => added[f][b] = "pending"
    BY <1>4, <1>6 DEF Fulfilled
  <1>9. ASSUME NEW f \in EntryIds, NEW b \in Accounts, receipt'[f][b] = "pending"
        PROVE  /\ AskedInv /\ <<f, b>> \notin asked' => Speaks(entry[f].room, b)'
               /\ ClosedInv /\ <<f, b>> \notin unanswered' => PendingOpen(f, b)'
    <2>1. CASE f = e
      BY <1>2, <1>3, <1>7, <1>8, <1>9, <2>1 DEF Speakers, Speaks, IsOpen, PendingOpen
    <2>2. CASE f # e
      <3>1. receipt[f][b] = "pending" /\ entry'[f] = entry[f]
        BY <1>3, <1>7, <1>8, <1>9, <2>2
      <3> QED
        BY <1>2, <3>1 DEF AskedInv, ClosedInv, Speaks, PendingOpen, Remembered
    <2> QED
      BY <2>1, <2>2
  <1>10. ASSUME NEW w \in AssignIds
         PROVE  \/ assign'[w] = assign[w]
                \/ /\ assign'[w].entry = e /\ assign'[w].assignee = to /\ to \in Speakers(r)
                   /\ ~AssignUsed(w) /\ assign'[w].state = "open"
    <2>1. CASE UNCHANGED assign
      BY <2>1
    <2>2. CASE ~UNCHANGED assign
      <3>1. PICK v \in AssignIds : ~AssignUsed(v) /\ assign' = [assign EXCEPT ![v] = NewAssign(a, to, e)]
        BY <2>2 DEF ThreadPost, NextRow
      <3>2. /\ NewAssign(a, to, e).entry = e /\ NewAssign(a, to, e).assignee = to
            /\ NewAssign(a, to, e).state = "open"
        BY DEF NewAssign, NoAssign
      <3>3. to \in Speakers(r)
        BY <2>2 DEF ThreadPost
      <3> QED
        BY <3>1, <3>2, <3>3 DEF TypeInv, AssignsTyped
    <2> QED
      BY <2>1, <2>2
  <1>11. ASSUME NEW w \in AssignIds, assign'[w].state \in Undelivered
         PROVE  /\ HeldInv => \/ Stray(w)'
                              \/ assign'[w].assignee \in Accounts /\ IsMember(RoomOf(w), assign[w].assignee)'
                /\ ClosedInv /\ w \notin undelivered' => OutOpen(w)'
    <2>1. RoomOf(w)' = entry'[assign'[w].entry].room
      BY DEF RoomOf
    <2>2. CASE assign'[w] = assign[w]
      <3>1. assign[w].entry \in EntryIds /\ assign[w].entry # e
        BY <1>1, <1>11, <2>2, OutPlaced
      <3>2. RoomOf(w)' = RoomOf(w)
        BY <1>3, <2>1, <2>2, <3>1 DEF RoomOf
      <3> QED
        BY <1>2, <1>11, <2>2, <3>2 DEF HeldInv, ClosedInv, OutOpen, IsMember, Stray, Remembered
    <2>3. CASE assign'[w].entry = e /\ assign'[w].assignee = to /\ to \in Speakers(r)
      BY <1>2, <1>3, <2>1, <2>3 DEF Speakers, Speaks, IsOpen, IsMember, OutOpen
    <2> QED
      BY <1>10, <2>2, <2>3
  <1>12. AskedInv => AskedInv'
    BY <1>2, <1>9, NoneComesBack, AccountsPicked DEF AskedInv, Speaks
  <1>13. HeldInv => HeldInv'
    <2>1. \A w \in AssignIds : StillOut(w) \/ New(w)
      BY <1>10 DEF StillOut, New
    <2> QED
      BY <1>2, <1>11, <2>1, NoneComesBack DEF HeldInv
  <1>14. ClosedInv => ClosedInv'
    BY <1>9, <1>11 DEF ClosedInv
  <1> QED
    BY <1>12, <1>13, <1>14 DEF OwedKept

LEMMA HandleKeepsOwed ==
  ASSUME TypeInv, DutyInv, Remembered, NEW a \in Accounts, NEW e \in EntryIds,
         ThreadHandle(a, e) \/ ThreadRetract(a, e)
  PROVE  OwedKept
  <1>1. UNCHANGED <<entry, role, assign, room, admin>>
    BY DEF ThreadHandle, ThreadRetract
  <1>2. \A f \in EntryIds, b \in Accounts : ReceiptMoves(f, b)
    <2>1. CASE ThreadHandle(a, e)
      BY <2>1, FulfilledMoves DEF ThreadHandle, TypeInv
    <2>2. CASE ThreadRetract(a, e)
      BY <2>2 DEF ThreadRetract, ReceiptMoves, TypeInv, ReceiptsTyped
    <2> QED
      BY <2>1, <2>2
  <1> QED
    BY <1>1, <1>2, StillThere, QuietKeeps

LEMMA ActKeepsOwed ==
  ASSUME TypeInv, DutyInv, OwnerWaits, Remembered, NEW a \in Accounts, AssignAct(a)
  PROVE  OwedKept
  <1>1. PICK q \in ReqRow : q = req[a] /\ q.op \in AssignOps /\ q.id \in AssignIds
    BY DEF AssignAct, TypeInv, ReqsTyped
  <1>2. /\ UNCHANGED <<entry, role, room, admin>> /\ assign' = [assign EXCEPT ![q.id] = AssignTo(q)]
        /\ Permitted(a, q) /\ StillAsRead(q)
    BY <1>1 DEF AssignAct
  <1>3. \A e \in EntryIds, b \in Accounts : ReceiptMoves(e, b)
    <2>1. receipt' = receipt \/ receipt' = Fulfilled(receipt, assign[q.id].entry, a)
      BY <1>1 DEF AssignAct
    <2> QED
      BY <2>1, FulfilledMoves, Unmoved DEF TypeInv
  <1> DEFINE row == assign[q.id]
  <1>4. row \in AssignRow
    BY <1>1 DEF TypeInv, AssignsTyped
  <1>5. q.op = "take" => row.state = "open"
    BY <1>2 DEF Permitted, StillAsRead
  <1>6. q.op # "take" => AssignTo(q).state \notin Undelivered
    <2> HIDE DEF row
    <2>1. CASE q.op \in {"submit", "take_submit"}
      <3>1. AssignTo(q) = [row EXCEPT !.state = "delivered", !.due = Left(JudgeDue, q.age)]
        BY <2>1 DEF AssignTo, row
      <3> QED
        BY <1>4, <3>1 DEF AssignRow, Undelivered
    <2>2. CASE q.op \in {"adopt", "reject", "drop", "void"}
      <3>1. PICK st \in {"adopted", "rejected", "dropped", "voided"} : AssignTo(q) = EndAssign(row, st)
        BY <2>2 DEF AssignTo, row
      <3>2. EndAssign(row, st).state = st
        BY <1>4, EndedRow DEF AssignStates
      <3> QED
        BY <3>1, <3>2 DEF Undelivered
    <2> QED
      BY <1>1, <2>1, <2>2 DEF AssignOps
  <1>7. AssignTo(q).state \in Undelivered =>
          row.state = "open" /\ AssignTo(q).entry = row.entry /\ AssignTo(q).assignee = row.assignee
          /\ AssignTo(q).creator = row.creator
    <2> HIDE DEF row
    <2>1. CASE q.op = "take"
      <3>1. AssignTo(q) = [row EXCEPT !.state = "taken", !.due = Left(DeliverDue, q.age)]
        BY <2>1 DEF AssignTo, row
      <3> QED
        BY <1>4, <1>5, <2>1, <3>1 DEF AssignRow
    <2> QED
      BY <1>6, <2>1
  <1>8. \A w \in AssignIds : StillOut(w)
    <2>1. Took(q.id) \/ AssignTo(q).state \notin Undelivered
      <3>1. CASE q.op = "take"
        <4>1. row.assignee = a /\ IsMember(RoomOf(q.id), a)
          BY <1>2, <3>1 DEF Permitted
        <4>2. req[a] # NoReq
          BY <1>1 DEF NoReq, AssignOps
        <4> QED
          BY <4>1, <4>2 DEF Took, OwnerWaits
      <3>2. CASE q.op # "take"
        BY <1>6, <3>2
      <3> QED
        BY <3>1, <3>2
    <2>3. StillOut(q.id)
      BY <1>1, <1>2, <1>7, <2>1 DEF StillOut, TypeInv, AssignsTyped, Undelivered
    <2>2. \A w \in AssignIds : w # q.id => StillOut(w)
      BY <1>2 DEF StillOut, TypeInv, AssignsTyped
    <2> QED
      BY <2>2, <2>3
  <1> QED
    BY <1>2, <1>3, <1>8, StillThere, QuietKeeps

LEMMA RestKeepsOwed ==
  ASSUME TypeInv, DutyInv, Remembered,
         \/ \E a \in Accounts : AssignRefused(a) \/ \E w \in AssignIds, op \in AssignOps : AssignLookup(a, w, op)
         \/ \E w \in AssignIds : SweepStep(w)
         \/ Tick \/ UNCHANGED vars
  PROVE  OwedKept
  <1>1. UNCHANGED <<entry, role, room, receipt, admin>>
    BY DEF AssignRefused, AssignLookup, SweepStep, AssignTimedOut, AssignUndecided, Tick, vars
  <1>2. \A w \in AssignIds : StillOut(w)
    <2>1. ASSUME NEW v \in AssignIds, SweepStep(v) PROVE \A w \in AssignIds : StillOut(w)
      <3>1. PICK st \in {"timed_out", "undecided"} : assign' = [assign EXCEPT ![v] = EndAssign(assign[v], st)]
        BY <2>1 DEF SweepStep, AssignTimedOut, AssignUndecided
      <3>2. EndAssign(assign[v], st).state \notin Undelivered
        BY EndedRow DEF TypeInv, AssignsTyped, AssignStates, Undelivered
      <3> QED
        BY <3>1, <3>2 DEF StillOut, TypeInv, AssignsTyped
    <2>2. CASE Tick
      BY <2>2 DEF Tick, StillOut, TypeInv, AssignsTyped, AssignRow
    <2>3. CASE UNCHANGED assign
      BY <2>3, StillThere
    <2> QED
      BY <2>1, <2>2, <2>3 DEF AssignRefused, AssignLookup, vars
  <1> QED
    BY <1>1, <1>2, StillThere, Unmoved, QuietKeeps

-----------------------------------------------------------------------------
(* Disabling an account.                                                   *)

\* A transaction that has closed nothing yet, and ends nothing.
LEMMA BeginKeepsOwed ==
  ASSUME TypeInv, Remembered, NEW d \in Admins,
         DisableLock(d) \/ \E a \in Accounts : DisableBegin(d, a) \/ EnableAccount(d, a)
  PROVE  OwedKept
  <1> USE DEF TypeInv, AdminsTyped
  <1>1. UNCHANGED <<entry, role, room, receipt, assign>>
    BY DEF DisableLock, DisableBegin, EnableAccount
  <1>2. \A c \in Admins : \/ admin'[c] = admin[c]
                          \/ admin[c].pc \in {"idle", "lock"} /\ admin'[c].pc \in {"lock", "close"}
    BY DEF DisableLock, DisableBegin, EnableAccount, AdminRow
  <1>3. AskedInv => AskedInv'
    BY <1>1, <1>2 DEF AskedInv, Speaks, Remembered
  <1>4. HeldInv => HeldInv'
    BY <1>1, <1>2 DEF HeldInv, IsMember, RoomOf, Stray, Remembered
  <1>5. ASSUME ClosedInv PROVE ClosedInv'
    <2>1. \A e \in EntryIds, a \in Accounts : PendingOpen(e, a) => PendingOpen(e, a)'
      BY <1>1, <1>2 DEF PendingOpen
    <2>2. \A w \in AssignIds : OutOpen(w) => OutOpen(w)'
      BY <1>1, <1>2 DEF OutOpen, RoomOf
    <2> QED
      BY <1>1, <1>5, <2>1, <2>2 DEF ClosedInv, Remembered
  <1> QED
    BY <1>3, <1>4, <1>5 DEF OwedKept

\* Who owes something in a room that is closed is the account; what others owe is left over.
LEMMA CloseAloneKeepsOwed ==
  ASSUME TypeInv, DutyInv, Remembered, NEW d \in Admins, DisableClose(d)
  PROVE  OwedKept
  <1> USE DEF TypeInv, AdminsTyped
  <1> DEFINE alone == GovernedAlone(admin[d].account)
  <1>1. PICK x \in Accounts : x = admin[d].account
    BY DEF DisableClose
  <1>2. /\ UNCHANGED <<role, entry, receipt, assign>> /\ admin[d].pc = "close"
        /\ room' = [r \in Rooms |-> IF r \in alone THEN Closed(room[r]) ELSE room[r]]
    BY DEF DisableClose
  <1>3. /\ admin'[d].pc = "receipts" /\ admin'[d].account = x /\ alone \subseteq admin'[d].locks
        /\ \A c \in Admins : c # d => admin'[c] = admin[c]
    BY <1>1 DEF DisableClose, AdminRow
  <1>4. \A r \in Rooms : r \notin alone => room'[r] = room[r]
    BY <1>2
  <1>5. AskedInv => AskedInv'
    BY <1>2, <1>3 DEF AskedInv, Speaks, Remembered
  <1>6. HeldInv => HeldInv'
    BY <1>2, <1>3 DEF HeldInv, IsMember, RoomOf, Stray, Remembered
  <1>7. ASSUME ClosedInv PROVE ClosedInv'
    <2>1. /\ \A e \in EntryIds, a \in Accounts \ {x} :
               receipt[e][a] = "pending" /\ entry[e].room \in alone => <<e, a>> \in unanswered'
          /\ \A w \in AssignIds :
               assign[w].state \in Undelivered /\ RoomOf(w) \in alone =>
                 x \in {assign[w].creator, assign[w].assignee} \/ w \in undelivered'
      <3>1. \A r \in alone : ClosedBy(d, r)
        BY <1>2, <1>3 DEF ClosedBy
      <3>2. ASSUME NEW e \in EntryIds, NEW a \in Accounts \ {x}, receipt[e][a] = "pending", entry[e].room \in alone
            PROVE  LeftUnanswered(e, a)
        BY <1>1, <3>1, <3>2 DEF LeftUnanswered
      <3>3. ASSUME NEW w \in AssignIds, assign[w].state \in Undelivered, RoomOf(w) \in alone,
                   x \notin {assign[w].creator, assign[w].assignee}
            PROVE  LeftUndelivered(w)
        BY <1>1, <3>1, <3>3 DEF LeftUndelivered
      <3> HIDE DEF alone
      <3>4. \A w \in AssignIds : LeftUndelivered(w) => w \in undelivered'
        BY DEF Remembered
      <3>5. ASSUME NEW e \in EntryIds, NEW a \in Accounts \ {x}, receipt[e][a] = "pending", entry[e].room \in alone
            PROVE  <<e, a>> \in unanswered'
        BY <3>2, <3>5, Noted, Zenon
      <3> QED
        BY <3>3, <3>4, <3>5
    <2> HIDE DEF alone
    <2>2. ASSUME NEW e \in EntryIds, NEW a \in Accounts, receipt[e][a] = "pending", <<e, a>> \notin unanswered'
          PROVE  PendingOpen(e, a)'
      <3>1. entry[e].room \in Rooms
        BY <2>2, PendingPlaced
      <3>2. CASE entry[e].room \in alone
        BY <1>2, <1>3, <2>1, <2>2, <3>2 DEF PendingOpen
      <3>3. CASE entry[e].room \notin alone
        <4>1. PendingOpen(e, a) /\ room'[entry[e].room] = room[entry[e].room]
          BY <1>4, <1>7, <2>2, <3>1, <3>3 DEF ClosedInv, Remembered
        <4> QED
          BY <1>2, <1>3, <4>1 DEF PendingOpen
      <3> QED
        BY <3>2, <3>3
    <2>3. ASSUME NEW w \in AssignIds, assign[w].state \in Undelivered, w \notin undelivered'
          PROVE  OutOpen(w)'
      <3>1. AssignUsed(w) /\ RoomOf(w) \in Rooms /\ RoomOf(w)' = RoomOf(w)
        BY <1>2, <2>3, OutPlaced DEF RoomOf
      <3>2. CASE RoomOf(w) \in alone
        BY <1>2, <1>3, <2>1, <2>3, <3>1, <3>2 DEF OutOpen
      <3>3. CASE RoomOf(w) \notin alone
        <4>1. OutOpen(w) /\ room'[RoomOf(w)] = room[RoomOf(w)]
          BY <1>4, <1>7, <2>3, <3>1, <3>3 DEF ClosedInv, Remembered
        <4> QED
          BY <1>2, <1>3, <3>1, <4>1 DEF OutOpen
      <3> QED
        BY <3>2, <3>3
    <2> QED
      BY <1>2, <2>2, <2>3 DEF ClosedInv
  <1> QED
    BY <1>5, <1>6, <1>7 DEF OwedKept

\* The account's responses are withdrawn.
LEMMA WithdrawOwnKeepsOwed ==
  ASSUME TypeInv, DutyInv, Remembered, NEW d \in Admins, DisableReceipts(d)
  PROVE  OwedKept
  <1> USE DEF TypeInv, AdminsTyped
  <1>1. PICK x \in Accounts : x = admin[d].account
    BY DEF DisableReceipts
  <1>2. UNCHANGED <<role, entry, room, assign>> /\ admin[d].pc = "receipts"
    BY DEF DisableReceipts
  <1>3. /\ admin'[d].pc = "assigns" /\ admin'[d].account = x /\ admin'[d].locks = admin[d].locks
        /\ \A c \in Admins : c # d => admin'[c] = admin[c]
    BY <1>1 DEF DisableReceipts, AdminRow
  <1>4. \A e \in EntryIds, a \in Accounts : receipt'[e][a] = "pending" => receipt[e][a] = "pending" /\ a # x
    BY <1>1 DEF DisableReceipts, ReceiptsTyped
  <1>5. ASSUME AskedInv PROVE AskedInv'
    <2>1. \A e \in EntryIds, a \in Accounts :
            receipt'[e][a] = "pending" /\ <<e, a>> \notin asked' => Speaks(entry[e].room, a)'
      BY <1>2, <1>4, <1>5 DEF AskedInv, Speaks, Remembered
    <2>2. ASSUME NEW c \in Admins, admin'[c].pc \in {"assigns", "members"}, NEW e \in EntryIds,
                 receipt'[e][admin'[c].account] = "pending"
          PROVE  <<e, admin'[c].account>> \in asked'
      <3>1. CASE c = d
        BY <1>3, <1>4, <2>2, <3>1
      <3>2. CASE c # d
        BY <1>3, <1>4, <1>5, <2>2, <3>2, AccountsPicked DEF AskedInv, Remembered
      <3> QED
        BY <3>1, <3>2
    <2> QED
      BY <1>2, <2>1, <2>2 DEF AskedInv, Speaks
  <1>6. HeldInv => HeldInv'
    BY <1>2, <1>3 DEF HeldInv, IsMember, RoomOf, Stray, Remembered
  <1>7. ASSUME ClosedInv PROVE ClosedInv'
    <2>1. ASSUME NEW e \in EntryIds, NEW a \in Accounts, receipt'[e][a] = "pending", <<e, a>> \notin unanswered'
          PROVE  PendingOpen(e, a)'
      <3>1. PendingOpen(e, a) /\ a # x
        BY <1>4, <1>7, <2>1 DEF ClosedInv, Remembered
      <3> QED
        BY <1>1, <1>2, <1>3, <3>1 DEF PendingOpen
    <2>2. \A w \in AssignIds : OutOpen(w) => OutOpen(w)'
      BY <1>1, <1>2, <1>3 DEF OutOpen, RoomOf
    <2> QED
      BY <1>2, <1>7, <2>1, <2>2 DEF ClosedInv, Remembered
  <1> QED
    BY <1>5, <1>6, <1>7 DEF OwedKept

\* Its assignments are voided, on either side.
LEMMA VoidOwnKeepsOwed ==
  ASSUME TypeInv, DutyInv, Remembered, NEW d \in Admins, DisableAssigns(d)
  PROVE  OwedKept
  <1> USE DEF TypeInv, AdminsTyped
  <1>1. PICK x \in Accounts : x = admin[d].account
    BY DEF DisableAssigns
  <1>2. UNCHANGED <<role, entry, room, receipt>> /\ admin[d].pc = "assigns"
    BY DEF DisableAssigns
  <1>3. /\ admin'[d].pc = "members" /\ admin'[d].account = x /\ admin'[d].locks = admin[d].locks
        /\ \A c \in Admins : c # d => admin'[c] = admin[c]
    BY <1>1 DEF DisableAssigns, AdminRow
  <1>4. ASSUME NEW w \in AssignIds, assign'[w].state \in Undelivered
        PROVE  assign'[w] = assign[w] /\ x \notin {assign[w].creator, assign[w].assignee}
    <2>1. assign' = LeaveAssigns(Rooms, x) /\ assign[w] \in AssignRow
      BY <1>1 DEF DisableAssigns, AssignsTyped
    <2>2. CASE AssignUsed(w)
      <3>1. RoomOf(w) \in Rooms
        BY <2>2 DEF DutyInv, AssignsPlaced
      <3>2. assign'[w] = ForfeitedFor(VoidedFor(assign[w], x), x)
        BY <2>1, <2>2, <3>1 DEF LeaveAssigns
      <3> QED
        BY <1>4, <2>1, <3>2, LeftOut
    <2>3. CASE ~AssignUsed(w)
      <3>1. assign'[w] = assign[w]
        BY <2>1, <2>3 DEF LeaveAssigns
      <3> QED
        BY <1>4, <2>3, <3>1 DEF AssignUsed, Undelivered
    <2> QED
      BY <2>2, <2>3
  <1>5. ASSUME AskedInv PROVE AskedInv'
    <2>1. \A c \in Admins : admin'[c].pc \in {"assigns", "members"} =>
             admin[c].pc \in {"assigns", "members"} /\ admin'[c].account = admin[c].account
      BY <1>1, <1>2, <1>3
    <2> QED
      BY <1>2, <1>5, <2>1 DEF AskedInv, Speaks, Remembered
  <1>6. ASSUME HeldInv PROVE HeldInv'
    <2>1. ASSUME NEW w \in AssignIds, assign'[w].state \in Undelivered
          PROVE  \/ Stray(w)'
                 \/ assign'[w].assignee \in Accounts /\ IsMember(RoomOf(w), assign[w].assignee)'
      BY <1>2, <1>4, <1>6, <2>1 DEF HeldInv, IsMember, RoomOf, Stray, Remembered
    <2>2. ASSUME NEW c \in Admins, admin'[c].pc = "members", NEW w \in AssignIds,
                 assign'[w].assignee = admin'[c].account, assign'[w].state \in Undelivered
          PROVE  Stray(w)'
      <3>1. assign'[w] = assign[w] /\ assign[w].assignee # x
        BY <1>4, <2>2
      <3>2. c # d
        BY <1>3, <2>2, <3>1
      <3> QED
        BY <1>3, <1>6, <2>2, <3>1, <3>2 DEF HeldInv, Stray, Remembered
    <2> QED
      BY <2>1, <2>2 DEF HeldInv
  <1>7. ASSUME ClosedInv PROVE ClosedInv'
    <2>1. \A e \in EntryIds, a \in Accounts : PendingOpen(e, a) => PendingOpen(e, a)'
      BY <1>2, <1>3 DEF PendingOpen
    <2>2. ASSUME NEW w \in AssignIds, assign'[w].state \in Undelivered, w \notin undelivered'
          PROVE  OutOpen(w)'
      <3>1. /\ assign'[w] = assign[w] /\ RoomOf(w)' = RoomOf(w) /\ OutOpen(w)
            /\ x \notin {assign[w].creator, assign[w].assignee}
        BY <1>2, <1>4, <1>7, <2>2 DEF ClosedInv, RoomOf, Remembered
      <3> QED
        BY <1>1, <1>2, <1>3, <3>1 DEF OutOpen
    <2> QED
      BY <1>2, <1>7, <2>1, <2>2 DEF ClosedInv, Remembered
  <1> QED
    BY <1>5, <1>6, <1>7 DEF OwedKept

\* Its memberships end when it owes nothing any more and nobody else is touched.
LEMMA CommitKeepsOwed ==
  ASSUME TypeInv, DutyInv, Remembered, NEW d \in Admins, DisableCommit(d)
  PROVE  OwedKept
  <1> USE DEF TypeInv, AdminsTyped
  <1>1. PICK x \in Accounts : x = admin[d].account
    BY DEF DisableCommit
  <1>2. UNCHANGED <<entry, room, receipt, assign>> /\ admin[d].pc = "members"
    BY DEF DisableCommit
  <1>3. admin'[d].pc = "idle" /\ \A c \in Admins : c # d => admin'[c] = admin[c]
    BY DEF DisableCommit, NoAdmin
  <1>4. \A r \in Rooms, a \in Accounts : a # x => role'[r][a] = role[r][a]
    BY <1>1 DEF DisableCommit, RolesTyped
  <1>5. ASSUME AskedInv PROVE AskedInv'
    <2>1. ASSUME NEW e \in EntryIds, NEW a \in Accounts, receipt[e][a] = "pending", <<e, a>> \notin asked'
          PROVE  Speaks(entry[e].room, a)'
      <3>1. entry[e].room \in Rooms /\ a # x /\ Speaks(entry[e].room, a)
        BY <1>1, <1>2, <1>5, <2>1, PendingPlaced DEF AskedInv, Remembered
      <3> QED
        BY <1>2, <1>4, <3>1 DEF Speaks
    <2>2. \A c \in Admins : admin'[c].pc \in {"assigns", "members"} => admin'[c] = admin[c]
      BY <1>3
    <2> QED
      BY <1>2, <1>5, <2>1, <2>2 DEF AskedInv, Speaks, Remembered
  <1>6. ASSUME HeldInv PROVE HeldInv'
    <2>1. ASSUME NEW w \in AssignIds, assign[w].state \in Undelivered, ~Stray(w)'
          PROVE  assign[w].assignee \in Accounts /\ IsMember(RoomOf(w), assign[w].assignee)'
      <3>1. /\ RoomOf(w) \in Rooms /\ assign[w].assignee \in Accounts /\ assign[w].assignee # x
            /\ IsMember(RoomOf(w), assign[w].assignee)
        BY <1>1, <1>2, <1>6, <2>1, OutPlaced DEF HeldInv, Stray, Remembered
      <3> QED
        BY <1>2, <1>4, <3>1 DEF IsMember, RoomOf
    <2>2. \A c \in Admins : admin'[c].pc = "members" => admin'[c] = admin[c]
      BY <1>3
    <2> QED
      BY <1>2, <1>6, <2>1, <2>2 DEF HeldInv, Stray, Remembered
  <1>7. ASSUME ClosedInv PROVE ClosedInv'
    <2>1. \A e \in EntryIds, a \in Accounts : PendingOpen(e, a) => PendingOpen(e, a)'
      BY <1>2, <1>3 DEF PendingOpen
    <2>2. \A w \in AssignIds : OutOpen(w) => OutOpen(w)'
      BY <1>2, <1>3 DEF OutOpen, RoomOf
    <2> QED
      BY <1>2, <1>7, <2>1, <2>2 DEF ClosedInv, Remembered
  <1> QED
    BY <1>5, <1>6, <1>7 DEF OwedKept

-----------------------------------------------------------------------------
LEMMA OwedInit == Init => AskedInv /\ HeldInv /\ ClosedInv
  BY DEF Init, AskedInv, HeldInv, ClosedInv, NoAssign, NoAdmin, Undelivered

LEMMA OwedNext ==
  TypeInv /\ DutyInv /\ LimitInv /\ GovernInv /\ [OrderNext]_<<vars, history>> => OwedKept
  <1> SUFFICES ASSUME TypeInv, DutyInv, LimitInv, OwnerWaits, Remembered, [Next]_vars PROVE OwedKept
    BY StepRemembers DEF OrderNext, GovernInv
  <1>1. ASSUME NEW a \in Accounts, RoomStep(a) PROVE OwedKept
    <2>1. CASE ThreadJoin(a)
      <3>1. PICK r \in Rooms : r = req[a].room
        BY <2>1 DEF ThreadJoin, TypeInv, ReqsTyped
      <3> QED
        BY <2>1, KeysKeepOwed
    <2>2. CASE ~ThreadJoin(a)
      BY <1>1, <2>2, StartKeepsOwed, KeysKeepOwed, DepartKeepsOwed, SetRoleKeepsOwed, CloseKeepsOwed
      DEF RoomStep, ThreadLeave, ThreadRemoveMember
    <2> QED
      BY <2>1, <2>2
  <1>2. ASSUME NEW a \in Accounts, EntryStep(a) PROVE OwedKept
    BY <1>2, PostKeepsOwed, HandleKeepsOwed DEF EntryStep
  <1>3. ASSUME NEW a \in Accounts, AssignStep(a) PROVE OwedKept
    BY <1>3, ActKeepsOwed, RestKeepsOwed DEF AssignStep
  <1>4. ASSUME NEW d \in Admins, DisableStep(d) PROVE OwedKept
    BY <1>4, BeginKeepsOwed, CloseAloneKeepsOwed, WithdrawOwnKeepsOwed, VoidOwnKeepsOwed, CommitKeepsOwed
    DEF DisableStep
  <1> QED
    BY <1>1, <1>2, <1>3, <1>4, RestKeepsOwed DEF Next

LEMMA DutyInvHolds == Spec => []DutyInv
  BY DutyInit, DutyNext, TypesKept, PTL DEF Spec

LEMMA OwedInvHolds == OrderSpec => [](AskedInv /\ HeldInv /\ ClosedInv)
  BY OrderIsRooms, OwedInit, OwedNext, TypesKept, DutyInvHolds, LimitInvHolds, GovernInvHolds, PTL
  DEF OrderSpec, OrderInit, OwedKept

\* What is owed is owed by members who are there, but for what is left behind.
LEMMA OwedByMembers ==
  ASSUME TypeInv, DutyInv, AskedInv, HeldInv, ClosedInv
  PROVE  PendingButLate /\ OutButLate
  <1>1. PendingButLate
    BY DEF AskedInv, ClosedInv, PendingOpen, PendingButLate, RoomFree
  <1>2. ASSUME NEW w \in AssignIds, assign[w].state \in Undelivered
        PROVE  /\ IsMember(RoomOf(w), assign[w].creator)
               /\ (assign[w].state = "open" /\ w \in given) \/ IsMember(RoomOf(w), assign[w].assignee)
               /\ w \in undelivered \/ room[RoomOf(w)].status # "closed" \/ ~RoomFree(RoomOf(w))
    BY <1>2, OutPlaced DEF HeldInv, Stray, ClosedInv, OutOpen, RoomFree
  <1> QED
    BY <1>1, <1>2 DEF OutButLate

\* kungfu.md 6.2: an open room has a governor and keeps its limits, and only its members who
\* may speak owe it a response, however joins, role changes, departures and deactivations
\* interleave, while no account has been promoted or asked behind its own deactivation.
THEOREM RoomsStayInOrder == OrderSpec => [](promoted = {} /\ asked = {} => RoomsInOrder)
  <1>1. PendingButLate => (asked = {} => PendingOwedByMember)
    BY DEF PendingButLate, PendingOwedByMember
  <1> QED
    BY <1>1, OrderIsRooms, OwedByMembers, RoomTypeCorrect, GovernorStays, LimitsKept, OwedInvHolds, TypesKept,
       DutyInvHolds, PTL
    DEF RoomsInOrder

\* kungfu.md 6.2 and 6.5: an undelivered assignment is between two members, and a closed room
\* leaves no response pending and no assignment out, while no account has been assigned
\* anything behind its own deactivation and no deactivation has closed a room in which others
\* still owed something.
THEOREM DeparturesSettle ==
  OrderSpec => [](given = {} /\ unanswered = {} /\ undelivered = {} => DepartureSettles)
  <1>1. TypeInv /\ DutyInv /\ HeldInv /\ OutButLate =>
          (given = {} => UndeliveredBetweenMembers)
    BY OutPlaced DEF HeldInv, Stray, OutButLate, UndeliveredBetweenMembers, Members
  <1>2. PendingButLate /\ OutButLate => (unanswered = {} /\ undelivered = {} => ClosedRoomOwesNothing)
    BY DEF PendingButLate, OutButLate, ClosedRoomOwesNothing
  <1> QED
    BY <1>1, <1>2, OrderIsRooms, OwedByMembers, OwedInvHolds, TypesKept, DutyInvHolds, PTL DEF DepartureSettles

-----------------------------------------------------------------------------
(* What a member is shown.                                                 *)

LEMMA TurnsFollow ==
  TypeInv /\ DutyInv /\ LimitInv /\ AskedInv /\ HeldInv /\ ClosedInv => TurnsButLate
  <1> SUFFICES ASSUME TypeInv, DutyInv, LimitInv, AskedInv, HeldInv, ClosedInv, NEW a \in Accounts, MayRequest(a)
               PROVE  /\ \A e \in RepliesOwed(a) :
                            \/ <<e, a>> \in asked \cup unanswered
                            \/ IsOpen(entry[e].room) /\ Speaks(entry[e].room, a)
                      /\ \A w \in AssignIds : AssignUsed(w) =>
                           /\ w \in DeliveriesOwed(a) <=> Permitted(a, Asks(w, "submit"))
                           /\ w \in JudgmentsOwed(a) <=> Permitted(a, Asks(w, "adopt"))
                           /\ w \in Invites(a) <=> Permitted(a, Asks(w, "take"))
    BY DEF TurnsButLate
  <1>1. ASSUME NEW e \in RepliesOwed(a), <<e, a>> \notin asked \cup unanswered
        PROVE  IsOpen(entry[e].room) /\ Speaks(entry[e].room, a)
    <2> DEFINE r == entry[e].room
    <2>1. e \in EntryIds /\ receipt[e][a] = "pending"
      BY DEF RepliesOwed
    <2>2. Speaks(r, a) /\ room[r].status # "closed"
      BY <1>1, <2>1 DEF AskedInv, ClosedInv, PendingOpen, MayRequest, AccountFree
    <2>3. r \in Rooms
      BY <2>1, PendingPlaced
    <2>4. room[r].status # "none"
      BY <2>2, <2>3 DEF LimitInv, UnusedIsEmpty, Speaks
    <2>5. room[r].status \in {"none", "open", "closed"}
      BY <2>3 DEF TypeInv, RoomsTyped, RoomRow
    <2> QED
      BY <2>2, <2>4, <2>5 DEF IsOpen
  <1>2. ASSUME NEW w \in AssignIds, AssignUsed(w)
        PROVE  /\ w \in DeliveriesOwed(a) <=> Permitted(a, Asks(w, "submit"))
               /\ w \in JudgmentsOwed(a) <=> Permitted(a, Asks(w, "adopt"))
               /\ w \in Invites(a) <=> Permitted(a, Asks(w, "take"))
    <2>1. assign[w].due \in Nat
      <3>1. assign[w].due \in 0..LongestDue
        BY DEF TypeInv, AssignsTyped, AssignRow
      <3> QED
        BY <3>1, DueIsNumber
    <2>2. assign[w].due > 0 <=> assign[w].due # 0
      BY <2>1
    <2>3. \A op \in AssignOps :
            /\ Asks(w, op).op = op /\ Asks(w, op).id = w /\ Asks(w, op).state = assign[w].state
            /\ Asks(w, op).late = DeadlinePassed(assign[w])
            /\ Asks(w, op).forfeited = assign[w].forfeited
      BY DEF Asks, NoReq
    <2>4. Permitted(a, Asks(w, "submit")) <=>
            /\ IsMember(RoomOf(w), a) /\ a = assign[w].assignee
            /\ assign[w].state = "taken" /\ assign[w].due # 0
      BY <2>3 DEF Permitted, AssignOps, DeadlinePassed
    <2>5. Permitted(a, Asks(w, "adopt")) <=>
            /\ IsMember(RoomOf(w), a) /\ a = assign[w].creator
            /\ assign[w].state = "delivered" /\ assign[w].due # 0 /\ ~assign[w].forfeited
      BY <2>3 DEF Permitted, AssignOps, DeadlinePassed
    <2>6. Permitted(a, Asks(w, "take")) <=>
            IsMember(RoomOf(w), a) /\ a = assign[w].assignee /\ assign[w].state = "open"
      BY <2>3 DEF Permitted, AssignOps
    <2>7. assign[w].state = "taken" /\ assign[w].assignee = a => IsMember(RoomOf(w), a)
      BY DEF HeldInv, Stray, Undelivered
    <2> QED
      BY <2>2, <2>4, <2>5, <2>6, <2>7 DEF DeliveriesOwed, JudgmentsOwed, Invites
  <1> QED
    BY <1>1, <1>2

\* Without anything left behind a room that is not listed has no turns.
LEMMA TurnsAreOfMembers ==
  ASSUME TypeInv, DutyInv, AskedInv, HeldInv, asked = {}, NEW a \in Accounts, NEW r \in Rooms \ ListedRooms(a)
  PROVE  OpenItems(a, r) = 0
  <1>1. ~IsMember(r, a)
    BY DEF ListedRooms
  <1> DEFINE replies == {e \in RepliesOwed(a) : entry[e].room = r}
             works == {w \in DeliveriesOwed(a) \cup JudgmentsOwed(a) : RoomOf(w) = r}
  <1>2. replies = {}
    BY <1>1 DEF RepliesOwed, AskedInv, Speaks, IsMember
  <1>3. works = {}
    BY <1>1 DEF DeliveriesOwed, JudgmentsOwed, HeldInv, Stray, Undelivered
  <1>4. OpenItems(a, r) = Cardinality(replies) + Cardinality(works)
    BY DEF OpenItems
  <1>5. Cardinality({}) = 0
    BY FS_EmptySet
  <1> HIDE DEF replies, works
  <1> QED
    BY <1>2, <1>3, <1>4, <1>5

\* thread_get and thread_list: a turn is listed exactly when its tool would settle it, while no
\* account has been asked anything behind its own deactivation and no deactivation has closed a
\* room in which others still owed a response.
THEOREM TurnsServed == OrderSpec => [](asked = {} /\ unanswered = {} => TurnsAreServed)
  <1>1. ASSUME TypeInv, DutyInv, AskedInv, HeldInv, TurnsButLate, asked = {}, unanswered = {}
        PROVE  TurnsAreServed
    <2>1. ASSUME NEW a \in Accounts, MayRequest(a), NEW r \in ListedRooms(a), NEW e \in ThreadGet(a, r).reply
          PROVE  IsOpen(r) /\ Speaks(r, a)
      <3>1. e \in RepliesOwed(a) /\ entry[e].room = r
        BY DEF ThreadGet
      <3> QED
        BY <1>1, <2>1, <3>1 DEF TurnsButLate
    <2> QED
      BY <1>1, <2>1, TurnsAreOfMembers DEF TurnsButLate, TurnsAreServed
  <1> QED
    BY <1>1, OrderIsRooms, OwedInvHolds, TypesKept, DutyInvHolds, LimitInvHolds, TurnsFollow, PTL

\* kungfu.md 6.2 and 6.5, TerminateAccountThreadMemberships: any number of accounts are disabled
\* at once, one statement at a time against the room tools.  What that leaves behind is a room in
\* which the account was promoted behind the lock, what was asked of it or assigned to it behind
\* the statement that ends such things, and what others owed in a room that was closed with it;
\* every other open room has a governor, everything else is owed by a member in an open room, and
\* every other turn can be settled.
THEOREM DisablingKeepsOrder == OrderSpec => []DisabledInOrder
  BY OrderIsRooms, OwedByMembers, OwedInvHolds, GovernorStays, TypesKept, DutyInvHolds, LimitInvHolds, TurnsFollow,
     PTL DEF DisabledInOrder

\* Of a set with a member there is more than one exactly when there is another.
LEMMA MoreThanOne ==
  ASSUME NEW S, IsFiniteSet(S), NEW x \in S
  PROVE  Cardinality(S) > 1 <=> \E y \in S : y # x
  <1>1. CASE \E y \in S : y # x
    <2>1. PICK y \in S : y # x
      BY <1>1
    <2>2. IsFiniteSet({x}) /\ Cardinality({x}) = 1
      BY FS_Singleton
    <2>3. Cardinality({x} \cup {y}) = 2
      BY <2>1, <2>2, FS_AddElement
    <2>4. Cardinality({x} \cup {y}) <= Cardinality(S)
      BY FS_Subset
    <2>5. Cardinality(S) \in Nat
      BY FS_CardinalityType
    <2> QED
      BY <1>1, <2>3, <2>4, <2>5
  <1>2. CASE \A y \in S : y = x
    <2>1. S = {x}
      BY <1>2
    <2>2. Cardinality({x}) = 1
      BY FS_Singleton
    <2> QED
      BY <1>2, <2>1, <2>2
  <1> QED
    BY <1>1, <1>2

\* The tools threadNextActions may name, each at its place.
LEMMA ThreadToolsListed ==
  /\ {ThreadTools[i] : i \in DOMAIN ThreadTools}
       = {"thread_post", "thread_key", "thread_key_revoke", "thread_remove", "thread_set_role",
          "thread_close", "thread_leave"}
  /\ Place("thread_post") = 1
  /\ \A i \in DOMAIN ThreadTools : Place(ThreadTools[i]) = i
  <1>1. DOMAIN ThreadTools = 1..7
    BY DEF ThreadTools
  <1>2. /\ ThreadTools[1] = "thread_post" /\ ThreadTools[2] = "thread_key"
        /\ ThreadTools[3] = "thread_key_revoke" /\ ThreadTools[4] = "thread_remove"
        /\ ThreadTools[5] = "thread_set_role" /\ ThreadTools[6] = "thread_close"
        /\ ThreadTools[7] = "thread_leave"
    BY DEF ThreadTools
  <1>3. \A i \in 1..7 : i = 1 \/ i = 2 \/ i = 3 \/ i = 4 \/ i = 5 \/ i = 6 \/ i = 7
    OBVIOUS
  <1>4. \A i, j \in DOMAIN ThreadTools : ThreadTools[i] = ThreadTools[j] => i = j
    BY <1>1, <1>2, <1>3
  <1>5. ASSUME NEW i \in DOMAIN ThreadTools PROVE Place(ThreadTools[i]) = i
    <2> DEFINE j == CHOOSE k \in DOMAIN ThreadTools : ThreadTools[k] = ThreadTools[i]
    <2>1. j \in DOMAIN ThreadTools /\ ThreadTools[j] = ThreadTools[i]
      OBVIOUS
    <2> QED
      BY <1>4, <2>1 DEF Place
  <1>6. {ThreadTools[i] : i \in DOMAIN ThreadTools}
          = {"thread_post", "thread_key", "thread_key_revoke", "thread_remove", "thread_set_role",
             "thread_close", "thread_leave"}
    BY <1>1, <1>2, <1>3
  <1>7. Place("thread_post") = 1
    BY <1>1, <1>2, <1>5
  <1> QED
    BY <1>5, <1>6, <1>7

LEMMA ThreadToolsFinite == IsFiniteSet({ThreadTools[i] : i \in DOMAIN ThreadTools})
  <1> DEFINE T == {ThreadTools[i] : i \in DOMAIN ThreadTools}
             f == [i \in 1..7 |-> ThreadTools[i]]
  <1>1. IsFiniteSet(1..7)
    <2>1. 1 \in Int /\ 7 \in Int
      OBVIOUS
    <2>2. \A m, n \in Int : IsFiniteSet(m..n)
      BY FS_Interval
    <2> QED
      BY <2>1, <2>2
  <1>2. DOMAIN ThreadTools = 1..7
    BY DEF ThreadTools
  <1>3. f \in Surjection(1..7, T)
    <2>1. f \in [1..7 -> T]
      BY <1>2
    <2>2. ASSUME NEW u \in T PROVE \E i \in 1..7 : f[i] = u
      BY <1>2
    <2> HIDE DEF f, T
    <2> QED
      BY <2>1, <2>2 DEF Surjection
  <1> HIDE DEF f
  <1> QED
    BY <1>1, <1>3, FS_Surjection

\* threadNextActions names the tools that would be served.
LEMMA NextActionsAreServed ==
  ASSUME TypeInv, LimitInv, NEW r \in Rooms, NEW a \in Members(r), MayRequest(a), RoomFree(r)
  PROVE  /\ NextActions(a, r)
              = {ThreadTools[i] : i \in {j \in DOMAIN ThreadTools : Serves(a, r, ThreadTools[j])}}
         /\ \/ "thread_post" \in NextActions(a, r)
            \/ NextActions(a, r) = {"thread_leave"}
  <1> DEFINE next == NextActions(a, r)
             All == {ThreadTools[i] : i \in DOMAIN ThreadTools}
  <1>1. a \in Accounts /\ IsMember(r, a) /\ role[r][a] \in Roles
    BY DEF Members, IsMember, TypeInv, RolesTyped
  <1>2. room[r].status \in {"open", "closed"}
    BY <1>1 DEF TypeInv, RoomsTyped, RoomRow, LimitInv, UnusedIsEmpty, IsMember
  <1>3. Governs(a, r) <=> IsGovernor(r, a) /\ IsOpen(r)
    BY DEF Governs
  <1>4. ASSUME next \subseteq All, \A t \in All : t \in next <=> Serves(a, r, t),
               "thread_post" \in next \/ next = {"thread_leave"}
        PROVE  /\ next = {ThreadTools[i] : i \in {j \in DOMAIN ThreadTools : Serves(a, r, ThreadTools[j])}}
               /\ "thread_post" \in next \/ next = {"thread_leave"}
    <2>1. next = {t \in All : Serves(a, r, t)}
      BY <1>4
    <2> QED
      BY <1>4, <2>1
  <1> HIDE DEF All
  <1>10. \A t : t \in All <=> t \in {"thread_post", "thread_key", "thread_key_revoke", "thread_remove",
                                     "thread_set_role", "thread_close", "thread_leave"}
    BY ThreadToolsListed DEF All
  <1>5. IsFiniteSet(Governors(r)) /\ Governors(r) \subseteq Members(r)
    <2>1. Governors(r) \subseteq Members(r)
      BY DEF Governors, Members, IsGovernor, IsMember
    <2> QED
      BY <2>1, MembersFinite, FS_Subset
  \* A governor finds somebody to act on exactly when it is not alone.
  <1>6. ASSUME IsGovernor(r, a)
        PROVE  /\ Cardinality(Members(r)) > 1 <=> \E m \in Members(r) \ {a} : KeepsGovernor(r, m)
               /\ Cardinality(Members(r)) > 1 <=> \E m \in Members(r) : KeepsGovernor(r, m)
    <2>1. a \in Governors(r)
      BY <1>1, <1>6 DEF Governors
    <2>2. ASSUME NEW m \in Members(r), m # a PROVE KeepsGovernor(r, m)
      <3>1. SUFFICES ASSUME IsGovernor(r, m) PROVE Cardinality(Governors(r)) > 1
        BY DEF KeepsGovernor
      <3>2. m \in Governors(r)
        BY <3>1 DEF Governors, Members
      <3> QED
        BY <1>5, <2>1, <2>2, <3>2, MoreThanOne
    <2>3. KeepsGovernor(r, a) => \E m \in Members(r) : m # a
      BY <1>5, <1>6, <2>1, MoreThanOne DEF KeepsGovernor
    <2>4. Cardinality(Members(r)) > 1 <=> \E m \in Members(r) : m # a
      BY MembersFinite, MoreThanOne
    <2> QED
      BY <2>2, <2>3, <2>4
  <1>7. CASE room[r].status = "closed"
    <2>1. next = {"thread_leave"} /\ ~IsOpen(r) /\ ~Governs(a, r)
      BY <1>3, <1>7 DEF NextActions, IsOpen
    <2>2. \A t \in All : Serves(a, r, t) <=> t = "thread_leave"
      BY <1>10, <2>1 DEF Serves
    <2> QED
      BY <1>4, <1>10, <2>1, <2>2
  <1>8. CASE room[r].status = "open" /\ IsGovernor(r, a)
    <2>1. next =
            {"thread_post", "thread_key", "thread_close"} \cup Manages(r)
            \cup (IF room[r].key # 0 THEN {"thread_key_revoke"} ELSE {})
            \cup (IF Cardinality(Governors(r)) > 1 THEN {"thread_leave"} ELSE {})
      BY <1>8 DEF NextActions, IsGovernor
    <2>2. IsOpen(r) /\ Governs(a, r) /\ Speaks(r, a)
      BY <1>3, <1>8 DEF IsOpen, IsGovernor, Speaks
    <2>3. KeepsGovernor(r, a) <=> Cardinality(Governors(r)) > 1
      BY <1>8 DEF KeepsGovernor
    <2>4. /\ Serves(a, r, "thread_post") /\ Serves(a, r, "thread_key") /\ Serves(a, r, "thread_close")
          /\ Serves(a, r, "thread_leave") <=> Cardinality(Governors(r)) > 1
          /\ Serves(a, r, "thread_key_revoke") <=> room[r].key # 0
          /\ Serves(a, r, "thread_remove") <=> Cardinality(Members(r)) > 1
          /\ Serves(a, r, "thread_set_role") <=> Cardinality(Members(r)) > 1
      BY <1>6, <1>8, <2>2, <2>3 DEF Serves
    <2>5. /\ next \subseteq All /\ "thread_post" \in next /\ "thread_key" \in next /\ "thread_close" \in next
          /\ "thread_leave" \in next <=> Cardinality(Governors(r)) > 1
          /\ "thread_key_revoke" \in next <=> room[r].key # 0
          /\ "thread_remove" \in next <=> Cardinality(Members(r)) > 1
          /\ "thread_set_role" \in next <=> Cardinality(Members(r)) > 1
      BY <1>10, <2>1 DEF Manages
    <2> HIDE DEF next
    <2>6. \A t \in All : t \in next <=> Serves(a, r, t)
      BY <1>10, <2>4, <2>5
    <2> QED
      BY <1>4, <2>5, <2>6 DEF next
  <1>9. CASE room[r].status = "open" /\ ~IsGovernor(r, a)
    <2>1. role[r][a] = "speaker" \/ role[r][a] = "observer"
      BY <1>1, <1>9 DEF Roles, IsGovernor
    <2>2. /\ role[r][a] = "speaker" => next = {"thread_post", "thread_leave"}
          /\ role[r][a] = "observer" => next = {"thread_leave"}
      BY <1>9 DEF NextActions, IsGovernor
    <2>3. IsOpen(r) /\ ~Governs(a, r) /\ KeepsGovernor(r, a) /\ (Speaks(r, a) <=> role[r][a] = "speaker")
      BY <1>3, <1>9, <2>1 DEF IsOpen, KeepsGovernor, Speaks, IsGovernor
    <2>4. \A t \in All : Serves(a, r, t) <=>
             t = "thread_leave" \/ (t = "thread_post" /\ role[r][a] = "speaker")
      BY <1>10, <2>3 DEF Serves
    <2> HIDE DEF next
    <2>5. next \subseteq All /\ ("thread_post" \in next \/ next = {"thread_leave"})
      BY <1>10, <2>1, <2>2
    <2>6. \A t \in All : t \in next <=> Serves(a, r, t)
      BY <2>1, <2>2, <2>4
    <2> QED
      BY <1>4, <2>5, <2>6 DEF next
  <1> QED
    BY <1>2, <1>7, <1>8, <1>9

LEMMA NextActionsFollow == TypeInv /\ LimitInv => NextActionsServed
  <1> SUFFICES ASSUME TypeInv, LimitInv, NEW r \in Rooms, NEW a \in Members(r), MayRequest(a), RoomFree(r)
               PROVE  LET served == {ThreadTools[i] : i \in {j \in DOMAIN ThreadTools : Serves(a, r, ThreadTools[j])}}
                          shown == ThreadGet(a, r).next
                      IN  /\ NextActions(a, r) = served
                          /\ shown \subseteq served
                          /\ \A t \in served \ shown :
                                OpenItems(a, r) + Cardinality(Before(served, t)) >= MaxCalls
                          /\ OpenItems(a, r) = 0 => shown # {}
    BY DEF NextActionsServed
  <1> DEFINE next == NextActions(a, r)
  <1>1. next = {ThreadTools[i] : i \in {j \in DOMAIN ThreadTools : Serves(a, r, ThreadTools[j])}}
    BY NextActionsAreServed
  <1>2. "thread_post" \in next \/ next = {"thread_leave"}
    BY NextActionsAreServed
  <1>3. ThreadGet(a, r).next = {t \in next : OpenItems(a, r) + Cardinality(Before(next, t)) < MaxCalls}
    BY DEF ThreadGet
  <1> HIDE DEF next
  <1>4. OpenItems(a, r) \in Nat
    <2>1. /\ IsFiniteSet({e \in RepliesOwed(a) : entry[e].room = r})
          /\ IsFiniteSet({w \in DeliveriesOwed(a) \cup JudgmentsOwed(a) : RoomOf(w) = r})
      <3>1. /\ {e \in RepliesOwed(a) : entry[e].room = r} \subseteq EntryIds
            /\ {w \in DeliveriesOwed(a) \cup JudgmentsOwed(a) : RoomOf(w) = r} \subseteq AssignIds
        BY DEF RepliesOwed, DeliveriesOwed, JudgmentsOwed
      <3> QED
        BY <3>1, FS_Subset, RoomBoundAssumption
    <2> QED
      BY <2>1, FS_CardinalityType DEF OpenItems
  <1>5. ASSUME NEW t \in next PROVE Cardinality(Before(next, t)) \in Nat
    <2>1. IsFiniteSet({ThreadTools[i] : i \in DOMAIN ThreadTools})
      BY ThreadToolsFinite
    <2>2. Before(next, t) \subseteq {ThreadTools[i] : i \in DOMAIN ThreadTools}
      BY <1>1 DEF Before
    <2> QED
      BY <2>1, <2>2, FS_Subset, FS_CardinalityType
  <1>6. ASSUME OpenItems(a, r) = 0 PROVE ThreadGet(a, r).next # {}
    <2>1. PICK t \in next : Before(next, t) = {}
      <3>1. CASE "thread_post" \in next
        <4>1. \A u \in next : ~(Place(u) < Place("thread_post"))
          BY <1>1, ThreadToolsListed DEF ThreadTools
        <4> QED
          BY <3>1, <4>1 DEF Before
      <3>2. CASE next = {"thread_leave"}
        <4>1. ~(Place("thread_leave") < Place("thread_leave"))
          BY <1>1, <3>2, ThreadToolsListed DEF ThreadTools
        <4> QED
          BY <3>2, <4>1 DEF Before
      <3> QED
        BY <1>2, <3>1, <3>2
    <2>2. Cardinality(Before(next, t)) = 0
      BY <2>1, FS_EmptySet
    <2> QED
      BY <1>3, <1>6, <2>1, <2>2 DEF MaxCalls
  <1>7. ASSUME NEW t \in next, t \notin ThreadGet(a, r).next
        PROVE  OpenItems(a, r) + Cardinality(Before(next, t)) >= MaxCalls
    BY <1>3, <1>4, <1>5, <1>7 DEF MaxCalls
  <1> QED
    BY <1>1, <1>3, <1>6, <1>7 DEF next

\* threadNextActions: a member is pointed to exactly the tools that would be served, with
\* administrators at work too.
THEOREM NextActionsHonest == Spec => []NextActionsServed
  BY TypesKept, LimitInvHolds, NextActionsFollow, PTL
=============================================================================
