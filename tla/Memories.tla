------------------------------ MODULE Memories ------------------------------
(***************************************************************************)
(* Memories ("kungfus"): a row with its current version, the archive of    *)
(* the versions before it, and the pins by which entries and deliveries    *)
(* of a room refer to a version.                                           *)
(*                                                                         *)
(* An update is one transaction under the row lock.  Sharing, unsharing    *)
(* and deleting read the row, decide, and then write by id alone; reads of *)
(* a version take one statement for the row and another for the archive.   *)
(***************************************************************************)
EXTENDS Owners

CONSTANTS
    MemoryCodes,     \* codes drawn (bound on memories)
    Contents,        \* contents
    MaxRevision,     \* bound on updates of a memory
    MaxPins,         \* bound on references from the room
    MemoryRequests,  \* requests served at once
    Absent           \* no such row

\* tb_kungfus.
MemoryRow == [author : Nat, status : {"active", "deleted"}, visibility : {"private", "public"},
              revision : Nat \ {0}, content : Contents]

ASSUME MemoriesAssumption == Absent \notin MemoryRow

VARIABLES
    memory,         \* tb_kungfus: author, status, visibility, revision, content
    archive,        \* memory_revisions: <<code, revision>> |-> content
    pins,           \* versions an entry or a delivery of the room refers to
    inRoom,         \* current members of the room
    memoryRequest,  \* where each request is
    answer,         \* what the last step answered a reader
    written,        \* what each version was written as
    entitled        \* remembered: the reads under way whose agent, when it asked, had the
                    \* right to read what it asked for

memoryVars == <<memory, archive, pins, inRoom, memoryRequest, answer, written, entitled>>

NoMemoryRequest == [step |-> "idle"]
NoAnswer == [how |-> "none"]
Exists(k) == memory[k] # Absent
IsActive(k) == Exists(k) /\ memory[k].status = "active"

\* Mutant: the author's memory, withdrawn or not.
OwnsAnyStatus(a, k) == Exists(k) /\ memory[k].author = a

Owns(a, k) == IsActive(k) /\ memory[k].author = a
Public(k) == IsActive(k) /\ memory[k].visibility = "public"

\* A request has authenticated an active account; its status is not read again.
Starts(q, a) == memoryRequest[q].step = "idle" /\ Active(a)

Becomes(q, r) == memoryRequest' = [memoryRequest EXCEPT ![q] = r]
Ends(q) == Becomes(q, NoMemoryRequest)

Answers(q, a, how, k, rev, content) ==
    /\ answer' = [agent |-> a, how |-> how, code |-> k, revision |-> rev, content |-> content]
    /\ Ends(q)

\* The read goes on with another statement.
Continues(q, r) == Becomes(q, r) /\ answer' = NoAnswer

-----------------------------------------------------------------------------
(* Writing.                                                                *)

\* Push without a code: storage is free, so no ledger row (consumption.Apply).
PushCreate(q, a, k, content) ==
    /\ Starts(q, a)
    /\ ~Exists(k)
    /\ memory' = [memory EXCEPT ![k] = [author |-> a, status |-> "active", visibility |-> "private",
                                        revision |-> 1, content |-> content]]
    /\ written' = [x \in DOMAIN written \cup {<<k, 1>>} |->
                      IF x = <<k, 1>> THEN content ELSE written[x]]
    /\ Ends(q)
    /\ UNCHANGED <<archive, pins, inRoom>>

\* FindOwnedActiveKungfuByCode, for an update or a change of sharing; sharing what is
\* public and unsharing what is private ends here.
OwnedRead(q, a, k, op) ==
    /\ Starts(q, a)
    /\ Owns(a, k)
    /\ op = "share" => memory[k].visibility = "private"
    /\ op = "unshare" => memory[k].visibility = "public"
    /\ Becomes(q, [step |-> op, agent |-> a, code |-> k])
    /\ UNCHANGED <<memory, archive, pins, inRoom, written>>

\* Mutant: the row is locked by its id and owner alone.
LockedAnyStatus(a, k) == Exists(k) /\ memory[k].author = a

\* LockOwnedActiveKungfuByID.
Locked(a, k) == Owns(a, k)

Overwritten(k, content) ==
    [memory EXCEPT ![k].content = content, ![k].revision = @ + 1]

\* Mutant: the row is archived after it was overwritten.
ArchivedAfter(k, content) ==
    [x \in DOMAIN archive \cup {<<k, memory[k].revision>>} |->
        IF x = <<k, memory[k].revision>> THEN content ELSE archive[x]]

\* ArchiveKungfuRevision: the row as it stands before this update.
Archived(k, content) ==
    [x \in DOMAIN archive \cup {<<k, memory[k].revision>>} |->
        IF x = <<k, memory[k].revision>> THEN memory[k].content ELSE archive[x]]

PushUpdate(q, content) ==
    LET r == memoryRequest[q]
        v == memory[r.code].revision + 1
    IN  /\ r.step = "update"
        /\ Locked(r.agent, r.code) /\ v <= MaxRevision
        /\ archive' = Archived(r.code, content)
        /\ memory' = Overwritten(r.code, content)
        /\ written' = [x \in DOMAIN written \cup {<<r.code, v>>} |->
                          IF x = <<r.code, v>> THEN content ELSE written[x]]
        /\ Ends(q)
        /\ UNCHANGED <<pins, inRoom>>

\* The memory was withdrawn meanwhile, or the request failed.
MemoryRequestEnds(q) ==
    /\ memoryRequest[q].step # "idle"
    /\ Ends(q)
    /\ UNCHANGED <<memory, archive, pins, inRoom, written>>

\* UpdateKungfuVisibilityByID.
SetVisibility(q) ==
    LET r == memoryRequest[q]
    IN  /\ r.step \in {"share", "unshare"}
        /\ memory' = [memory EXCEPT ![r.code].visibility =
                         IF r.step = "share" THEN "public" ELSE "private"]
        /\ Ends(q)
        /\ UNCHANGED <<archive, pins, inRoom, written>>

\* SoftDeleteKungfuByID.
SoftDelete(q) ==
    LET r == memoryRequest[q]
    IN  /\ r.step = "delete"
        /\ memory' = [memory EXCEPT ![r.code].status = "deleted"]
        /\ Ends(q)
        /\ UNCHANGED <<archive, pins, inRoom, written>>

\* The administrator's two operations, under the row lock and in one transaction.
UnshareMemory(k) ==
    /\ Exists(k) /\ memory[k].visibility = "public"
    /\ memory' = [memory EXCEPT ![k].visibility = "private"]
    /\ UNCHANGED <<archive, pins, inRoom, memoryRequest, written>>

RemoveMemory(k) ==
    /\ Exists(k) /\ <<memory[k].status, memory[k].visibility>> # <<"deleted", "private">>
    /\ memory' = [memory EXCEPT ![k].visibility = "private", ![k].status = "deleted"]
    /\ UNCHANGED <<archive, pins, inRoom, memoryRequest, written>>

-----------------------------------------------------------------------------
(* The room.                                                               *)

\* Mutant: whoever was a member once.
EverMember(a) == a \in Bots

\* FindThreadMember: a membership that has not ended.
IsMember(a) == a \in inRoom

\* An entry pins the version its transaction read, its author's own or a public one;
\* a delivery pins the taker's own.  The room is locked, the memory is not.
PinRead(q, a, k, kind) ==
    /\ Starts(q, a) /\ IsMember(a)
    /\ Owns(a, k) \/ (kind = "entry" /\ Public(k))
    /\ Becomes(q, [step |-> "pin", agent |-> a, code |-> k, kind |-> kind,
                 revision |-> memory[k].revision])
    /\ UNCHANGED <<memory, archive, pins, inRoom, written>>

Pin(q) ==
    LET r == memoryRequest[q]
    IN  /\ r.step = "pin"
        /\ Cardinality(pins) < MaxPins
        /\ pins' = pins \cup {[kind |-> r.kind, code |-> r.code, revision |-> r.revision,
                               author |-> r.agent]}
        /\ Ends(q)
        /\ UNCHANGED <<memory, archive, inRoom, written>>

Leave(a) ==
    /\ a \in inRoom
    /\ inRoom' = inRoom \ {a}
    /\ UNCHANGED <<memory, archive, pins, memoryRequest, written>>

-----------------------------------------------------------------------------
(* Reading.                                                                *)

\* GetKungfuForBot: the current version.
GetKungfuForBot(q, a, k) ==
    /\ Starts(q, a)
    /\ Owns(a, k) \/ Public(k)
    /\ Answers(q, a, "current", k, memory[k].revision, memory[k].content)
    /\ UNCHANGED <<memory, archive, pins, inRoom, written>>

\* Mutant: any version of a public memory may be asked for.
MayReadRevisionOfPublic(a, k, rev) == memory[k].author = a \/ Public(k)

\* Its author any version at any time; others the present one of a public memory.
MayReadRevision(a, k, rev) ==
    memory[k].author = a \/ (Public(k) /\ rev = memory[k].revision)

\* The version is the row's, or to be read from the archive next.
ServeOrLookUp(q, a, how, k, rev) ==
    IF rev = memory[k].revision
    THEN Answers(q, a, how, k, rev, memory[k].content)
    ELSE Continues(q, [step |-> "archive", agent |-> a, how |-> how, code |-> k,
                       revision |-> rev, present |-> rev < memory[k].revision])

GetKungfuRevisionForBot(q, a, k, rev) ==
    /\ Starts(q, a)
    /\ Exists(k) /\ MayReadRevision(a, k, rev)
    /\ ServeOrLookUp(q, a, "revision", k, rev)
    /\ UNCHANGED <<memory, archive, pins, inRoom, written>>

\* GetDeliveredMemoryForBot: membership and binding first, the memory later.
DeliveryRead(q, a, p) ==
    /\ Starts(q, a) /\ IsMember(a)
    /\ p.kind = "delivery"
    /\ Continues(q, [step |-> "delivered", agent |-> a, code |-> p.code, revision |-> p.revision])
    /\ UNCHANGED <<memory, archive, pins, inRoom, written>>

DeliveredMemory(q) ==
    LET r == memoryRequest[q]
    IN  /\ r.step = "delivered"
        /\ ServeOrLookUp(q, r.agent, "delivered", r.code, r.revision)
        /\ UNCHANGED <<memory, archive, pins, inRoom, written>>

\* Mutant: the content is taken from the row that was read first.
ArchiveReadOfRow(q) ==
    LET r == memoryRequest[q]
    IN  /\ r.step = "archive"
        /\ Answers(q, r.agent, r.how, r.code, r.revision, memory[r.code].content)
        /\ UNCHANGED <<memory, archive, pins, inRoom, written>>

\* FindKungfuRevision.
ArchiveRead(q) ==
    LET r == memoryRequest[q]
        x == <<r.code, r.revision>>
    IN  /\ r.step = "archive"
        /\ IF x \in DOMAIN archive
           THEN Answers(q, r.agent, r.how, r.code, r.revision, archive[x])
           ELSE Ends(q) /\ answer' = [how |-> "missing", was |-> r.present]
        /\ UNCHANGED <<memory, archive, pins, inRoom, written>>

\* ExpandThreadEntries, one statement: the pinned version, for good if the memory is the
\* entry's author's own and while it is public if it is not.
ExpandThreadEntries(q, a, p) ==
    LET x == <<p.code, p.revision>>
        content == IF p.revision = memory[p.code].revision THEN memory[p.code].content
                   ELSE archive[x]
    IN  /\ Starts(q, a) /\ IsMember(a)
        /\ p.kind = "entry"
        /\ memory[p.code].author = p.author \/ Public(p.code)
        /\ Answers(q, a, "entry", p.code, p.revision, content)
        /\ UNCHANGED <<memory, archive, pins, inRoom, written>>

-----------------------------------------------------------------------------
MemoriesInit(members) ==
    /\ memory = [k \in MemoryCodes |-> Absent]
    /\ archive = <<>> /\ written = <<>>
    /\ pins = {} /\ entitled = {} /\ inRoom = members
    /\ answer = NoAnswer
    /\ memoryRequest = [q \in MemoryRequests |-> NoMemoryRequest]

MemoryWrites ==
    \/ \E q \in MemoryRequests :
        \/ \E a \in Bots, k \in MemoryCodes :
            \/ \E content \in Contents : PushCreate(q, a, k, content)
            \/ \E op \in {"update", "share", "unshare", "delete"} : OwnedRead(q, a, k, op)
            \/ \E kind \in {"entry", "delivery"} : PinRead(q, a, k, kind)
        \/ \E content \in Contents : PushUpdate(q, content)
        \/ SetVisibility(q) \/ SoftDelete(q) \/ Pin(q)
        \/ MemoryRequestEnds(q)
    \/ \E k \in MemoryCodes : UnshareMemory(k) \/ RemoveMemory(k)
    \/ \E a \in Bots : Leave(a)

MemoryReads ==
    \E q \in MemoryRequests :
        \/ \E a \in Bots, k \in MemoryCodes :
            \/ GetKungfuForBot(q, a, k)
            \/ \E rev \in 1 .. MaxRevision : GetKungfuRevisionForBot(q, a, k, rev)
        \/ \E a \in Bots, p \in pins : DeliveryRead(q, a, p) \/ ExpandThreadEntries(q, a, p)
        \/ DeliveredMemory(q) \/ ArchiveRead(q)

\* Who may read a version: its author; everybody the present one of a public memory; a
\* member of the room what is delivered there, and what an entry refers to while that is
\* the entry's author's own or public.
MayRead(a, k, rev) ==
    \/ memory[k].author = a
    \/ Public(k) /\ rev = memory[k].revision
    \/ /\ a \in inRoom
       /\ \E p \in pins :
            /\ p.code = k /\ p.revision = rev
            /\ p.kind = "delivery" \/ memory[k].author = p.author \/ Public(k)

\* A read that takes several statements is entitled, or is not, by what it found at first.
Remember ==
    entitled' = {q \in MemoryRequests :
        LET r == memoryRequest'[q]
        IN  /\ r.step \in {"delivered", "archive"}
            /\ IF memoryRequest[q].step = "idle" THEN MayRead(r.agent, r.code, r.revision)
               ELSE q \in entitled}

MemoriesNext ==
    /\ (MemoryWrites /\ answer' = NoAnswer) \/ MemoryReads
    /\ Remember

-----------------------------------------------------------------------------
(* Properties.                                                             *)

\* However updates, withdrawals and pins interleave, every version of a memory is kept,
\* once and as it was written: the present one in the row, those before it in the archive,
\* with no gap and none to come; what a room refers to is one of them.
EveryVersionKept ==
    /\ DOMAIN written = UNION {{k} \X (1 .. memory[k].revision) : k \in {k \in MemoryCodes : Exists(k)}}
    /\ \A x \in DOMAIN written :
         IF x[2] = memory[x[1]].revision
         THEN memory[x[1]].content = written[x] /\ x \notin DOMAIN archive
         ELSE x \in DOMAIN archive /\ archive[x] = written[x]
    /\ DOMAIN archive \subseteq DOMAIN written
    /\ \A p \in pins : <<p.code, p.revision>> \in DOMAIN written

\* A read of a version gives that version although the row is read before the archive,
\* and finds every version there was when it began (kungfu_read.go: "the author reads ANY
\* existing revision of their memory").
AnswersAsWritten ==
    /\ answer.how = "missing" => ~answer.was
    /\ answer.how \notin {"none", "missing"} =>
         /\ <<answer.code, answer.revision>> \in DOMAIN written
         /\ answer.content = written[<<answer.code, answer.revision>>]

\* A version is answered to an agent that has the right to read it; where the read takes
\* several statements, that had it at the first.  Between two of them the memory may be
\* unshared or removed and the reader may leave the room: it gets that one version all the
\* same, and is judged anew when it asks again.
PrivateVersionsStayPrivate ==
    [][answer'.how \in {"current", "revision", "delivered", "entry"} =>
         \/ /\ UNCHANGED memoryRequest
            /\ MayRead(answer'.agent, answer'.code, answer'.revision)
         \/ \E q \in entitled :
              LET r == memoryRequest[q]
              IN  /\ r.agent = answer'.agent /\ r.code = answer'.code /\ r.revision = answer'.revision
                  /\ memoryRequest'[q] = NoMemoryRequest]_memoryVars

Removed(k) == Exists(k) /\ memory[k].status = "deleted"

\* Shares of k that have found it active and their agent's own.
Sharing(k) == {q \in MemoryRequests : memoryRequest[q].step = "share" /\ memoryRequest[q].code = k}

\* A removed memory is neither updated nor revived by a request that read it before
\* (kungfu_manage.go: "a withdrawn memory can never be updated again").  It is marked
\* public again only by a share that was under way when it was removed, by each of them
\* once, and when they are through it stays private.
RemovedForGood ==
    [][\A k \in MemoryCodes :
         Removed(k) =>
           /\ Removed(k)'
           /\ memory'[k].revision = memory[k].revision
           /\ memory'[k].content = memory[k].content
           /\ Sharing(k)' \subseteq Sharing(k)
           /\ memory[k].visibility = "private" /\ memory'[k].visibility = "public" =>
                Sharing(k)' # Sharing(k)]_memoryVars

\* Although requests decide on a row they have read before, versions are kept and served as
\* written, to those who had the right to read them when they asked; and a removed memory
\* stays as it is, but for its mark of sharing, which a share under way may still set.
VersionsAreKept ==
    [](EveryVersionKept /\ AnswersAsWritten) /\ PrivateVersionsStayPrivate /\ RemovedForGood
=============================================================================
