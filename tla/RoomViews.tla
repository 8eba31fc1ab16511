------------------------------ MODULE RoomViews ------------------------------
(***************************************************************************)
(* What a member is shown of its rooms: the working set of thread_get, the *)
(* turn list and the counts of thread_list.  Each is a query of its own    *)
(* over the rows the room tools decide about, in one snapshot.             *)
(***************************************************************************)
EXTENDS ThreadRoom

\* The turn list (TodoItemsForAccount): responses owed, whatever the room is now,
RepliesOwed(a) == {e \in EntryIds : receipt[e][a] = "pending"}

\* assignments taken and still deliverable,
DeliveriesOwed(a) ==
    {w \in AssignIds : assign[w].assignee = a /\ assign[w].state = "taken" /\ assign[w].due > 0}

\* Mutant: the judgment is asked of the creator for as long as the delivery stands.
JudgmentsOwedForever(a) ==
    {w \in AssignIds : assign[w].creator = a /\ assign[w].state = "delivered"}

\* and deliveries to judge.
JudgmentsOwed(a) ==
    {w \in AssignIds : /\ assign[w].creator = a /\ assign[w].state = "delivered"
                       /\ ~assign[w].forfeited /\ assign[w].due > 0
                       /\ IsMember(RoomOf(w), a)}

\* ThreadOpenItemsCounts: the same turns, counted by room.
OpenItems(a, r) ==
    Cardinality({e \in RepliesOwed(a) : entry[e].room = r})
    + Cardinality({w \in DeliveriesOwed(a) \cup JudgmentsOwed(a) : RoomOf(w) = r})

\* ListThreadsForMember.
ListedRooms(a) == {r \in Rooms : IsMember(r, a)}

\* ThreadOpenInviteCounts: assignments that may be taken, which nobody owes.
Invites(a) ==
    {w \in AssignIds : assign[w].assignee = a /\ assign[w].state = "open" /\ IsMember(RoomOf(w), a)}

\* Mutant: a room's governor is told to manage members whoever they are.
ManagesAnyone(r) == {"thread_remove", "thread_set_role"}

Manages(r) ==
    IF Cardinality(Members(r)) > 1 THEN {"thread_remove", "thread_set_role"} ELSE {}

\* threadNextActions, which the governance tools answer with as it is.
NextActions(a, r) ==
    IF room[r].status = "closed" THEN {"thread_leave"}
    ELSE CASE IsGovernor(r, a) ->
                {"thread_post", "thread_key", "thread_close"} \cup Manages(r)
                \cup (IF room[r].key # 0 THEN {"thread_key_revoke"} ELSE {})
                \cup (IF Cardinality(Governors(r)) > 1 THEN {"thread_leave"} ELSE {})
           [] role[r][a] = "speaker" -> {"thread_post", "thread_leave"}
           [] role[r][a] = "observer" -> {"thread_leave"}

\* The order in which threadNextActions lists them.
ThreadTools == <<"thread_post", "thread_key", "thread_key_revoke", "thread_remove",
                 "thread_set_role", "thread_close", "thread_leave">>

Place(tool) == CHOOSE i \in DOMAIN ThreadTools : ThreadTools[i] = tool

Before(tools, tool) == {t \in tools : Place(t) < Place(tool)}

\* thread_get names three calls, those that settle the caller's turns first.
MaxCalls == 3

\* ThreadGet, one snapshot: the room, its members and the caller's turns in it, and of the
\* tools it may use those for which its turns have left a place.
ThreadGet(a, r) ==
    [role |-> role[r][a], members |-> Members(r), key |-> room[r].krole,
     reply |-> {e \in RepliesOwed(a) : entry[e].room = r},
     deliver |-> {w \in DeliveriesOwed(a) : RoomOf(w) = r},
     judge |-> {w \in JudgmentsOwed(a) : RoomOf(w) = r},
     next |-> {t \in NextActions(a, r) :
                 OpenItems(a, r) + Cardinality(Before(NextActions(a, r), t)) < MaxCalls}]

-----------------------------------------------------------------------------
(* Properties.                                                             *)

\* The request that AssignLookup would make of the rows as they are.
Asks(w, op) == [NoReq EXCEPT !.op = op, !.id = w, !.state = assign[w].state,
                             !.late = DeadlinePassed(assign[w]), !.forfeited = assign[w].forfeited]

\* A turn is listed exactly when its tool would settle it: whoever is asked for a response
\* may give one, an assignment is to be delivered, judged or taken just when the transition
\* is permitted, and each is counted in a room that thread_list shows (thread_get: "a room with no obligations still tells the caller what they
\* CAN do").
TurnsAreServed ==
    \A a \in Accounts : MayRequest(a) =>
        /\ \A r \in ListedRooms(a) : \A e \in ThreadGet(a, r).reply : IsOpen(r) /\ Speaks(r, a)
        /\ \A r \in Rooms \ ListedRooms(a) : OpenItems(a, r) = 0
        /\ \A w \in AssignIds : AssignUsed(w) =>
             /\ w \in DeliveriesOwed(a) <=> Permitted(a, Asks(w, "submit"))
             /\ w \in JudgmentsOwed(a) <=> Permitted(a, Asks(w, "adopt"))
             /\ w \in Invites(a) <=> Permitted(a, Asks(w, "take"))

\* The tool would be served, and not refused for the caller's role, for want of somebody to act
\* on, or because it leaves the room without a governor.
Serves(a, r, tool) ==
    CASE tool = "thread_leave" -> IsOpen(r) => KeepsGovernor(r, a)
      [] tool = "thread_post" -> IsOpen(r) /\ Speaks(r, a)
      [] tool = "thread_remove" -> Governs(a, r) /\ \E m \in Members(r) \ {a} : KeepsGovernor(r, m)
      [] tool = "thread_set_role" -> Governs(a, r) /\ \E m \in Members(r) : KeepsGovernor(r, m)
      [] tool = "thread_key_revoke" -> Governs(a, r) /\ room[r].key # 0
      [] OTHER -> Governs(a, r)

\* The governance tools point a member to exactly the tools that would be served. thread_get
\* points it to no other, withholds one only for three turns and tools that come before it, and "a room with
\* no obligations still tells the caller what they CAN do here".
NextActionsServed ==
    \A r \in Rooms : \A a \in Members(r) : MayRequest(a) /\ RoomFree(r) =>
        LET served == {ThreadTools[i] : i \in {j \in DOMAIN ThreadTools : Serves(a, r, ThreadTools[j])}}
            shown == ThreadGet(a, r).next
        IN  /\ NextActions(a, r) = served
            /\ shown \subseteq served
            /\ \A t \in served \ shown :
                  OpenItems(a, r) + Cardinality(Before(served, t)) >= MaxCalls
            /\ OpenItems(a, r) = 0 => shown # {}

\* An open room has a governor and keeps its limits, and only its members who may speak owe it a response, however
\* joins, role changes and departures interleave.
RoomsInOrder == TypeOK /\ OpenRoomHasGovernor /\ WithinLimits /\ PendingOwedByMember

\* kungfu.md 6.2 and 6.5: leaving, removal and closing end in one fact what the departed owe and are owed.
DepartureSettles == UndeliveredBetweenMembers /\ ClosedRoomOwesNothing

\* Responses, deliveries and judgments end once; a creator that is gone has lost its judgment, also after joining
\* again or being enabled again.
ObligationsEndOnce == []JudgmentForfeited /\ EndsOnce
=============================================================================
