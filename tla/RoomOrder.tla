------------------------------ MODULE RoomOrder ------------------------------
(***************************************************************************)
(* Rooms while accounts are disabled.  The cascade looks once for the      *)
(* rooms that its account governs, once for what the account is asked and  *)
(* once for what it is assigned, and it closes the rooms that nobody else  *)
(* governs without ending what their other members owe.  What it thereby   *)
(* leaves behind is recorded in history variables, which the rooms never   *)
(* read, and everything else is shown to be in order.                      *)
(***************************************************************************)
EXTENDS RoomViews

VARIABLES
    promoted,     \* open rooms an account was made governor of behind the lock of its own rooms
    asked,        \* <<e, a>>: asked of a behind the withdrawal of its own responses
    given,        \* assignments given to an account behind the voiding of its own
    unanswered,   \* <<e, a>>: pending of another member when a cascade closed the room
    undelivered   \* assignments between others that were out when a cascade closed their room

history == <<promoted, asked, given, unanswered, undelivered>>

\* The cascades of account a that have passed to one of the statements pcs.
Behind(a, pcs) == \E d \in Admins : admin[d].account = a /\ admin[d].pc \in pcs

\* The account becomes a governor of an open room after the rooms it governs were locked.
PromotedLate(r) ==
    /\ IsOpen(r)
    /\ \E a \in Accounts : /\ Behind(a, {"close", "receipts", "assigns", "members"})
                           /\ ~IsGovernor(r, a) /\ role'[r][a] = "governor"

\* The account is asked for a response after its pending ones were withdrawn.
AskedLate(e, a) ==
    /\ Behind(a, {"assigns", "members"})
    /\ receipt[e][a] # "pending" /\ receipt'[e][a] = "pending"

\* The account is given an assignment after those it had were voided.
AssignedLate(w) ==
    /\ Behind(assign'[w].assignee, {"members"})
    /\ ~AssignUsed(w) /\ assign'[w].state = "open"

\* Cascade d closes the room, in which somebody else is involved in what is still owed.
ClosedBy(d, r) ==
    admin[d].pc = "close" /\ admin'[d].pc = "receipts" /\ r \in GovernedAlone(admin[d].account)

LeftUnanswered(e, a) ==
    /\ receipt[e][a] = "pending"
    /\ \E d \in Admins : ClosedBy(d, entry[e].room) /\ a # admin[d].account

LeftUndelivered(w) ==
    /\ assign[w].state \in Undelivered
    /\ \E d \in Admins : /\ ClosedBy(d, RoomOf(w))
                         /\ admin[d].account \notin {assign[w].creator, assign[w].assignee}

OrderInit ==
    /\ Init
    /\ promoted = {} /\ asked = {} /\ given = {} /\ unanswered = {} /\ undelivered = {}

Remember ==
    /\ promoted' = promoted \cup {r \in Rooms : PromotedLate(r)}
    /\ asked' = asked \cup {p \in EntryIds \X Accounts : AskedLate(p[1], p[2])}
    /\ given' = given \cup {w \in AssignIds : AssignedLate(w)}
    /\ unanswered' = unanswered \cup {p \in EntryIds \X Accounts : LeftUnanswered(p[1], p[2])}
    /\ undelivered' = undelivered \cup {w \in AssignIds : LeftUndelivered(w)}

OrderNext == Next /\ Remember

OrderSpec == OrderInit /\ [][OrderNext]_<<vars, history>>

-----------------------------------------------------------------------------
(* Properties.                                                             *)

\* A room loses its last governor only to a promotion behind its account's cascade.
GovernedButPromoted == \A r \in Rooms : IsOpen(r) => r \in promoted \/ Governors(r) # {}

\* A response is owed by a speaker, in a room that is open, unless it was asked behind the
\* cascade of whoever owes it or left over by that of the room's last governor.
PendingButLate ==
    \A e \in EntryIds, a \in Accounts : receipt[e][a] = "pending" =>
        /\ <<e, a>> \in asked \/ Speaks(entry[e].room, a)
        /\ <<e, a>> \in unanswered \/ room[entry[e].room].status # "closed" \/ ~RoomFree(entry[e].room)

\* An assignment that is out is between two members, in a room that is open.  Only one given
\* behind its assignee's cascade, and not taken since, has no member to take it; only one left
\* over by the cascade of the room's last governor is out in a closed room.
OutButLate ==
    \A w \in AssignIds : assign[w].state \in Undelivered =>
        /\ IsMember(RoomOf(w), assign[w].creator)
        /\ (assign[w].state = "open" /\ w \in given) \/ IsMember(RoomOf(w), assign[w].assignee)
        /\ w \in undelivered \/ room[RoomOf(w)].status # "closed" \/ ~RoomFree(RoomOf(w))

\* A turn that is listed can be settled, but for a response of those two kinds.
TurnsButLate ==
    \A a \in Accounts : MayRequest(a) =>
        /\ \A e \in RepliesOwed(a) :
              \/ <<e, a>> \in asked \cup unanswered
              \/ IsOpen(entry[e].room) /\ Speaks(entry[e].room, a)
        /\ \A w \in AssignIds : AssignUsed(w) =>
             /\ w \in DeliveriesOwed(a) <=> Permitted(a, Asks(w, "submit"))
             /\ w \in JudgmentsOwed(a) <=> Permitted(a, Asks(w, "adopt"))
             /\ w \in Invites(a) <=> Permitted(a, Asks(w, "take"))

\* However many accounts are disabled, one statement at a time against the room tools, what
\* TerminateAccountThreadMemberships leaves behind is a room whose only other governor it
\* promoted behind the lock, what was asked of the account or assigned to it behind the
\* statement that ends such things, and what others owed in a room it closed.  Nothing else.
DisabledInOrder == GovernedButPromoted /\ PendingButLate /\ OutButLate /\ TurnsButLate
=============================================================================
