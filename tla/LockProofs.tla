----------------------------- MODULE LockProofs -----------------------------
(***************************************************************************)
(* Transactions that take their row locks in a common order never wait for *)
(* each other in a circle, for any number of connections, accounts, tasks  *)
(* and rooms; those that leave it do so in four ways, and every circle has *)
(* one of them.                                                            *)
(*                                                                         *)
(* The order is task, payment, redemption; claim, submission, report,      *)
(* product; account; room; what is in a room; and last the rows that are   *)
(* only referred to.  A reference to an account comes after an update of   *)
(* it, since it waits for updates only and keeps only updates waiting.     *)
(***************************************************************************)
EXTENDS RowLocks, SequenceTheorems, FiniteSetTheorems, TLAPS

-----------------------------------------------------------------------------
(* Rows and requests.                                                      *)

Kind(row) == row[1]

MiddleKinds == {"tb_task_claim", "tb_task_submission", "tb_task_report", "tb_rewards_products"}

Rows ==
    {Bot(a) : a \in Accounts} \cup {Task(k) : k \in Tasks} \cup {Report(k) : k \in Tasks}
    \cup {Claim(k, a) : k \in Tasks, a \in Accounts}
    \cup {Submission(k, a) : k \in Tasks, a \in Accounts}
    \cup {Redemption(a) : a \in Accounts} \cup {Payment(a) : a \in Accounts}
    \cup {Memory, Product, Admin} \cup {Room(r) : r \in Rooms} \cup {Assigns(r) : r \in Rooms}
    \cup {Member(r, a) : r \in Rooms, a \in Accounts}
    \cup {Receipts(r, a) : r \in Rooms, a \in Accounts}

Requests ==
    {l \in [row : Rows, mode : {"update", "write", "refer"}] : Kind(l.row) = "tb_admins" => l.mode = "refer"}

OfRooms(l) == Kind(l.row) \in InsideRoom \cup {"threads"}
OwnsMemory(l) == Kind(l.row) = "tb_kungfus" /\ l.mode # "refer"

\* The place of a request in the order, and that of the last request that has to wait
\* while l is held.
Rank(w) ==
    CASE Kind(w.row) \in LedgerKinds -> 1
      [] Kind(w.row) \in MiddleKinds -> 2
      [] Kind(w.row) = "tb_bots" -> IF w.mode = "refer" THEN 4 ELSE 3
      [] Kind(w.row) = "threads" -> 5
      [] Kind(w.row) \in InsideRoom -> 6
      [] Kind(w.row) = "tb_kungfus" -> IF w.mode = "refer" THEN 7 ELSE 0
      [] OTHER -> 7

Reach(l) ==
    CASE Kind(l.row) \in LedgerKinds -> 1
      [] Kind(l.row) \in MiddleKinds -> 2
      [] Kind(l.row) = "tb_bots" -> IF l.mode = "refer" THEN 3 ELSE 4
      [] Kind(l.row) = "threads" -> 5
      [] Kind(l.row) \in InsideRoom -> 6
      [] Kind(l.row) = "tb_kungfus" -> IF l.mode = "refer" THEN 0 ELSE 7
      [] OTHER -> 7

\* A later request keeps the order, or leaves it in one of the ways of the source.
Follows(l, w) == Kind(l.row) \in InsideRoom \/ Reach(l) < Rank(w)

Leap(l, w) ==
    \/ \E x \in Accounts : l = Refer(Bot(x)) /\ w = Update(Bot(x))
    \/ \E x \in Accounts, r \in Rooms : l = Update(Room(r)) /\ w = Refer(Bot(x))
    \/ \E r, q \in Rooms : l = Update(Room(r)) /\ w = Update(Room(q))

\* What a transaction with the locks H asks for next.
MayAsk(H, w) ==
    /\ (\A l \in H : Follows(l, w)) \/ (\E l \in H : Leap(l, w))
    /\ Kind(w.row) \in LedgerKinds \/ OwnsMemory(w) => H = {}
    /\ Kind(w.row) \in MiddleKinds => \A l \in H : Kind(l.row) \in LedgerKinds
    /\ \A l \in H : ~OwnsMemory(l)
    /\ (\E l \in H : Kind(l.row) \in LedgerKinds) =>
         \A l \in H : ~OfRooms(l) /\ (Kind(l.row) = "tb_bots" => Kind(w.row) \in {"tb_kungfus", "tb_admins"})

Upto(plan, n) == {plan[i] : i \in 1 .. n}

GoodPlan(plan) ==
    /\ plan \in Seq(Requests)
    /\ \A j \in 1 .. Len(plan) : MayAsk(Upto(plan, j - 1), plan[j])

LEMMA RowFacts ==
  /\ \A a \in Accounts : /\ Bot(a) \in Rows /\ Kind(Bot(a)) = "tb_bots"
                         /\ Redemption(a) \in Rows /\ Kind(Redemption(a)) = "tb_redemptions"
                         /\ Payment(a) \in Rows /\ Kind(Payment(a)) = "tb_payments"
  /\ \A k \in Tasks : /\ Task(k) \in Rows /\ Kind(Task(k)) = "tb_task"
                      /\ Report(k) \in Rows /\ Kind(Report(k)) = "tb_task_report"
  /\ \A k \in Tasks, a \in Accounts :
       /\ Claim(k, a) \in Rows /\ Kind(Claim(k, a)) = "tb_task_claim"
       /\ Submission(k, a) \in Rows /\ Kind(Submission(k, a)) = "tb_task_submission"
  /\ Memory \in Rows /\ Kind(Memory) = "tb_kungfus"
  /\ Product \in Rows /\ Kind(Product) = "tb_rewards_products"
  /\ Admin \in Rows /\ Kind(Admin) = "tb_admins"
  /\ \A r \in Rooms : /\ Room(r) \in Rows /\ Kind(Room(r)) = "threads"
                      /\ Assigns(r) \in Rows /\ Kind(Assigns(r)) = "assigns" /\ Assigns(r)[2] = r
  /\ \A r \in Rooms, a \in Accounts :
       /\ Member(r, a) \in Rows /\ Kind(Member(r, a)) = "thread_members" /\ Member(r, a)[2] = r
       /\ Receipts(r, a) \in Rows /\ Kind(Receipts(r, a)) = "thread_receipts" /\ Receipts(r, a)[2] = r
  BY DEF Rows, Kind, Bot, Redemption, Payment, Task, Report, Claim, Submission, Memory, Product,
         Admin, Room, Assigns, Member, Receipts

LEMMA KindsOfRows ==
  ASSUME NEW row \in Rows
  PROVE  Kind(row) \in LedgerKinds \cup MiddleKinds \cup InsideRoom \cup {"tb_bots", "threads", "tb_kungfus", "tb_admins"}
  BY DEF Rows, Kind, InsideRoom, LedgerKinds, MiddleKinds, Bot, Redemption, Payment, Task, Report, Claim, Submission,
         Memory, Product, Admin, Room, Assigns, Member, Receipts

LEMMA RequestFacts ==
  ASSUME NEW row \in Rows
  PROVE  /\ Update(row).row = row /\ Update(row).mode = "update"
         /\ Write(row).row = row /\ Write(row).mode = "write"
         /\ Refer(row).row = row /\ Refer(row).mode = "refer"
         /\ Refer(row) \in Requests
         /\ Kind(row) # "tb_admins" => Update(row) \in Requests /\ Write(row) \in Requests
  BY DEF Update, Write, Refer, Requests

LEMMA Ranks ==
  ASSUME NEW l
  PROVE  /\ Kind(l.row) \in LedgerKinds => Rank(l) = 1 /\ Reach(l) = 1
         /\ Kind(l.row) \in MiddleKinds => Rank(l) = 2 /\ Reach(l) = 2
         /\ Kind(l.row) = "tb_bots" /\ l.mode = "refer" => Rank(l) = 4 /\ Reach(l) = 3
         /\ Kind(l.row) = "tb_bots" /\ l.mode # "refer" => Rank(l) = 3 /\ Reach(l) = 4
         /\ Kind(l.row) = "threads" => Rank(l) = 5 /\ Reach(l) = 5
         /\ Kind(l.row) \in InsideRoom => Rank(l) = 6 /\ Reach(l) = 6
         /\ Kind(l.row) = "tb_kungfus" /\ l.mode = "refer" => Rank(l) = 7 /\ Reach(l) = 0
         /\ Kind(l.row) = "tb_kungfus" /\ l.mode # "refer" => Rank(l) = 0 /\ Reach(l) = 7
         /\ Kind(l.row) = "tb_admins" => Rank(l) = 7 /\ Reach(l) = 7
         /\ Rank(l) \in 0 .. 7 /\ Reach(l) \in 0 .. 7
  BY DEF Rank, Reach, LedgerKinds, MiddleKinds, InsideRoom

\* Who has to wait for l comes no later than l allows.
LEMMA WaitersComeFirst ==
  ASSUME NEW l \in Requests, NEW w \in Requests, l.row = w.row, Conflict(l.mode, w.mode)
  PROVE  Rank(w) <= Reach(l)
  BY DEF Rank, Reach, Conflict, Requests, LedgerKinds, MiddleKinds, InsideRoom

\* The rows of one statement, in whatever order.
LEMMA OrdersAreSeqs ==
  ASSUME NEW S, IsFiniteSet(S), NEW s \in Orders(S)
  PROVE  s \in Seq(S)
  <1>1. Cardinality(S) \in Nat
    BY FS_CardinalityType
  <1>2. s \in [1 .. Cardinality(S) -> S]
    BY DEF Orders, SetToSeqs
  <1> QED
    BY <1>1, <1>2, SeqDef

LEMMA StatementRows ==
  ASSUME NEW X, IsFiniteSet(X), NEW A, NEW f \in [X -> A], NEW s \in Orders({f[x] : x \in X})
  PROVE  s \in Seq(A)
  <1>1. f \in Surjection(X, {f[x] : x \in X})
    BY DEF Surjection
  <1>2. IsFiniteSet({f[x] : x \in X})
    BY <1>1, FS_Surjection
  <1>3. s \in Seq({f[x] : x \in X})
    BY <1>2, OrdersAreSeqs
  <1> QED
    BY <1>3, SeqMonotonic

-----------------------------------------------------------------------------
(* Plans of few requests.                                                  *)

LEMMA FirstRequest ==
  ASSUME NEW w
  PROVE  MayAsk({}, w)
  BY DEF MayAsk

LEMMA OneRequest ==
  ASSUME NEW x \in Requests
  PROVE  GoodPlan(<<x>>)
  <1>1. Upto(<<x>>, 0) = {}
    BY DEF Upto
  <1> QED
    BY <1>1, FirstRequest DEF GoodPlan

LEMMA TwoRequests ==
  ASSUME NEW x \in Requests, NEW y \in Requests, MayAsk({x}, y)
  PROVE  GoodPlan(<<x, y>>)
  <1>1. Upto(<<x, y>>, 0) = {} /\ Upto(<<x, y>>, 1) = {x}
    BY DEF Upto
  <1> QED
    BY <1>1, FirstRequest DEF GoodPlan

LEMMA ThreeRequests ==
  ASSUME NEW x \in Requests, NEW y \in Requests, NEW z \in Requests, MayAsk({x}, y), MayAsk({x, y}, z)
  PROVE  GoodPlan(<<x, y, z>>)
  <1>1. Upto(<<x, y, z>>, 0) = {} /\ Upto(<<x, y, z>>, 1) = {x} /\ Upto(<<x, y, z>>, 2) = {x, y}
    BY DEF Upto
  <1> QED
    BY <1>1, FirstRequest DEF GoodPlan

LEMMA FourRequests ==
  ASSUME NEW x \in Requests, NEW y \in Requests, NEW z \in Requests, NEW w \in Requests,
         MayAsk({x}, y), MayAsk({x, y}, z), MayAsk({x, y, z}, w)
  PROVE  GoodPlan(<<x, y, z, w>>)
  <1> DEFINE plan == <<x, y, z, w>>
  <1>1. Upto(plan, 0) = {} /\ Upto(plan, 1) = {x} /\ Upto(plan, 2) = {x, y} /\ Upto(plan, 3) = {x, y, z}
    BY DEF Upto
  <1> QED
    BY <1>1, FirstRequest DEF GoodPlan

-----------------------------------------------------------------------------
(* The task engine and the ledger.                                         *)

\* The requests of one place in the order.
First == {l \in Requests : Kind(l.row) \in LedgerKinds}
Second == {l \in Requests : Kind(l.row) \in MiddleKinds}
Account == {l \in Requests : Kind(l.row) = "tb_bots"}
Referred == {l \in Requests : Kind(l.row) \in {"tb_kungfus", "tb_admins"} /\ l.mode = "refer"}

LEMMA LedgerRequests ==
  /\ \A a \in Accounts : /\ Update(Bot(a)) \in Account /\ Refer(Bot(a)) \in Account
                         /\ Update(Redemption(a)) \in First /\ Update(Payment(a)) \in First
  /\ \A k \in Tasks : Update(Task(k)) \in First /\ Update(Report(k)) \in Second /\ Write(Report(k)) \in Second
  /\ \A k \in Tasks, a \in Accounts : /\ Update(Claim(k, a)) \in Second /\ Write(Claim(k, a)) \in Second
                                      /\ Update(Submission(k, a)) \in Second
  /\ Refer(Memory) \in Referred /\ Refer(Admin) \in Referred /\ Update(Product) \in Second
  BY RowFacts, RequestFacts DEF First, Second, Account, Referred, LedgerKinds, MiddleKinds

LEMMA LedgerOrder ==
  ASSUME NEW x \in First
  PROVE  /\ \A y \in Second \cup Account \cup Referred : MayAsk({x}, y)
         /\ \A y \in Second, z \in Account \cup Referred : MayAsk({x, y}, z)
         /\ \A y \in Account, z \in Referred : MayAsk({x, y}, z)
         /\ \A y \in Second, z \in Account, w \in Referred : MayAsk({x, y, z}, w)
  <1>1. \A l \in First \cup Second \cup Account \cup Referred : ~OfRooms(l) /\ ~OwnsMemory(l)
    BY DEF First, Second, Account, Referred, OfRooms, OwnsMemory, InsideRoom, LedgerKinds, MiddleKinds
  <1>2. /\ \A l \in First : Reach(l) = 1 /\ Kind(l.row) # "tb_bots"
        /\ \A l \in Second : Rank(l) = 2 /\ Reach(l) = 2 /\ Kind(l.row) \notin LedgerKinds \cup {"tb_bots"}
        /\ \A l \in Account : Rank(l) >= 3 /\ Reach(l) <= 4 /\ Kind(l.row) \notin LedgerKinds \cup MiddleKinds
        /\ \A l \in Referred : Rank(l) = 7 /\ Kind(l.row) \notin LedgerKinds \cup MiddleKinds
    BY Ranks DEF First, Second, Account, Referred, LedgerKinds, MiddleKinds
  <1>3. /\ \A l \in First : Kind(l.row) \in LedgerKinds
        /\ \A l \in Referred : Kind(l.row) \in {"tb_kungfus", "tb_admins"}
    BY DEF First, Referred
  <1>4. ASSUME NEW y \in Second \cup Account \cup Referred
        PROVE  MayAsk({x}, y)
    <2>1. Reach(x) = 1 /\ Rank(y) \in Nat /\ Rank(y) > 1
      BY <1>2, Ranks
    <2> QED
      BY <1>1, <1>2, <1>3, <2>1 DEF MayAsk, Follows
  <1>5. ASSUME NEW y \in Second, NEW z \in Account \cup Referred
        PROVE  MayAsk({x, y}, z)
    <2>1. Reach(x) = 1 /\ Reach(y) = 2 /\ Rank(z) \in Nat /\ Rank(z) > 2
      BY <1>2, Ranks
    <2> QED
      BY <1>1, <1>2, <1>3, <2>1 DEF MayAsk, Follows
  <1>6. ASSUME NEW y \in Account, NEW z \in Referred
        PROVE  MayAsk({x, y}, z)
    <2>1. Reach(x) = 1 /\ Reach(y) \in Nat /\ Reach(y) < 7 /\ Rank(z) = 7
      BY <1>2, Ranks
    <2> QED
      BY <1>1, <1>2, <1>3, <2>1 DEF MayAsk, Follows
  <1>7. ASSUME NEW y \in Second, NEW z \in Account, NEW w \in Referred
        PROVE  MayAsk({x, y, z}, w)
    <2>1. Reach(x) = 1 /\ Reach(y) = 2 /\ Reach(z) \in Nat /\ Reach(z) < 7 /\ Rank(w) = 7
      BY <1>2, Ranks
    <2> QED
      BY <1>1, <1>2, <1>3, <2>1 DEF MayAsk, Follows
  <1> QED
    BY <1>4, <1>5, <1>6, <1>7

LEMMA SecondThenReferred ==
  ASSUME NEW x \in Second, NEW y \in Referred
  PROVE  MayAsk({x}, y)
  <1>1. Reach(x) = 2 /\ Rank(y) = 7 /\ ~OwnsMemory(x) /\ ~OwnsMemory(y)
        /\ Kind(x.row) \notin LedgerKinds /\ Kind(y.row) \notin LedgerKinds \cup MiddleKinds
    BY Ranks DEF Second, Referred, OwnsMemory, MiddleKinds, LedgerKinds
  <1> QED
    BY <1>1 DEF MayAsk, Follows

LEMMA TaskPlans ==
  ASSUME NEW a \in Accounts, NEW k \in Tasks
  PROVE  /\ \A plan \in ChangeTask(k) \cup MoveBudget(k, a) \cup ClaimTask(k, a) \cup EndClaim(k, a) : GoodPlan(plan)
         /\ \A plan \in SubmitWork(k, a) \cup WriteOutcome(k, a) \cup PlatformClose(k) \cup ResolveReport(k) :
              GoodPlan(plan)
  <1>0. First \subseteq Requests /\ Second \subseteq Requests /\ Account \subseteq Requests /\ Referred \subseteq Requests
    BY DEF First, Second, Account, Referred
  <1>1. \A plan \in ChangeTask(k) : GoodPlan(plan)
    BY <1>0, LedgerRequests, OneRequest DEF ChangeTask
  <1>2. \A plan \in MoveBudget(k, a) \cup EndClaim(k, a) : GoodPlan(plan)
    <2>1. GoodPlan(<<Update(Task(k)), Update(Bot(a))>>)
      BY <1>0, LedgerRequests, LedgerOrder, TwoRequests
    <2>2. GoodPlan(<<Update(Task(k)), Update(Claim(k, a))>>)
      BY <1>0, LedgerRequests, LedgerOrder, TwoRequests
    <2> QED
      BY <2>1, <2>2 DEF MoveBudget, EndClaim
  <1>3. \A plan \in ResolveReport(k) : GoodPlan(plan)
    <2>1. MayAsk({Update(Report(k))}, Refer(Admin))
      BY LedgerRequests, SecondThenReferred
    <2> QED
      BY <1>0, <2>1, LedgerRequests, TwoRequests DEF ResolveReport
  <1>4. \A plan \in SubmitWork(k, a) : GoodPlan(plan)
    <2>1. GoodPlan(<<Update(Task(k)), Refer(Bot(a)), Refer(Memory)>>)
      BY <1>0, LedgerRequests, LedgerOrder, ThreeRequests
    <2>2. GoodPlan(<<Update(Task(k)), Update(Claim(k, a)), Refer(Bot(a))>>)
      BY <1>0, LedgerRequests, LedgerOrder, ThreeRequests
    <2> QED
      BY <2>1, <2>2 DEF SubmitWork
  <1>5. \A plan \in WriteOutcome(k, a) \cup PlatformClose(k) : GoodPlan(plan)
    <2>1. GoodPlan(<<Update(Task(k)), Update(Submission(k, a)), Update(Bot(a))>>)
      BY <1>0, LedgerRequests, LedgerOrder, ThreeRequests
    <2>2. GoodPlan(<<Update(Task(k)), Write(Report(k)), Refer(Admin)>>)
      BY <1>0, LedgerRequests, LedgerOrder, ThreeRequests
    <2> QED
      BY <2>1, <2>2 DEF WriteOutcome, PlatformClose
  <1>6. \A plan \in ClaimTask(k, a) : GoodPlan(plan)
    <2>1. GoodPlan(<<Update(Task(k)), Write(Claim(k, a)), Refer(Bot(a)), Refer(Memory)>>)
      BY <1>0, LedgerRequests, LedgerOrder, FourRequests
    <2> QED
      BY <2>1 DEF ClaimTask
  <1> QED
    BY <1>1, <1>2, <1>3, <1>4, <1>5, <1>6

LEMMA MoneyPlans ==
  ASSUME NEW a \in Accounts
  PROVE  /\ \A plan \in MovePayment(a) \cup Redeem(a) \cup RefundRedemption(a) : GoodPlan(plan)
         /\ \A plan \in ChangeProduct \cup UpdateMemory : GoodPlan(plan)
  <1>0. First \subseteq Requests /\ Second \subseteq Requests /\ Account \subseteq Requests /\ Referred \subseteq Requests
    BY DEF First, Second, Account, Referred
  <1>1. \A plan \in MovePayment(a) : GoodPlan(plan)
    BY <1>0, LedgerRequests, LedgerOrder, TwoRequests DEF MovePayment
  <1>2. \A plan \in RefundRedemption(a) : GoodPlan(plan)
    <2>1. GoodPlan(<<Update(Redemption(a)), Update(Bot(a)), Refer(Admin)>>)
      BY <1>0, LedgerRequests, LedgerOrder, ThreeRequests
    <2>2. GoodPlan(<<Update(Redemption(a)), Refer(Admin)>>)
      BY <1>0, LedgerRequests, LedgerOrder, TwoRequests
    <2> QED
      BY <2>1, <2>2 DEF RefundRedemption
  <1>3. \A plan \in ChangeProduct : GoodPlan(plan)
    <2> DEFINE x == Update(Product) y == Refer(Admin)
    <2>1. x \in Second /\ y \in Referred
      BY LedgerRequests
    <2> HIDE DEF x, y
    <2>2. MayAsk({x}, y)
      BY <2>1, SecondThenReferred
    <2> QED
      BY <1>0, <2>1, <2>2, TwoRequests DEF ChangeProduct, x, y
  <1>4. \A plan \in UpdateMemory : GoodPlan(plan)
    <2>1. Update(Memory) \in Requests
      BY RowFacts, RequestFacts
    <2> QED
      BY <2>1, OneRequest DEF UpdateMemory
  <1>5. \A plan \in Redeem(a) : GoodPlan(plan)
    <2> DEFINE x == Update(Product) y == Refer(Bot(a)) z == Update(Bot(a))
    <2>1. x \in Second /\ y \in Account /\ z \in Account /\ Leap(y, z)
      BY LedgerRequests DEF Leap
    <2> HIDE DEF x, y, z
    <2>2. /\ Reach(x) = 2 /\ Rank(y) \in Nat /\ Rank(y) >= 3 /\ ~OwnsMemory(x) /\ ~OwnsMemory(y) /\ ~OwnsMemory(z)
          /\ Kind(x.row) \notin LedgerKinds /\ Kind(y.row) \notin LedgerKinds \cup MiddleKinds
          /\ Kind(z.row) \notin LedgerKinds \cup MiddleKinds
      BY <2>1, Ranks DEF Second, Account, OwnsMemory, MiddleKinds, LedgerKinds
    <2>3. MayAsk({x}, y)
      BY <2>2 DEF MayAsk, Follows
    <2>4. MayAsk({x, y}, z)
      BY <2>1, <2>2 DEF MayAsk
    <2> QED
      BY <1>0, <2>1, <2>3, <2>4, ThreeRequests DEF Redeem, x, y, z
  <1> QED
    BY <1>1, <1>2, <1>3, <1>4, <1>5

-----------------------------------------------------------------------------
(* Plans of many requests.                                                 *)

Locks(plan) == {plan[i] : i \in 1 .. Len(plan)}

\* A plan goes on with requests of B, each of which may follow any of them.
LEMMA Continues ==
  ASSUME NEW p, GoodPlan(p), NEW B \in SUBSET Requests, NEW q \in Seq(B),
         \A H \in SUBSET Requests, w \in B :
           Locks(p) \subseteq H /\ H \subseteq Locks(p) \cup B => MayAsk(H, w)
  PROVE  /\ GoodPlan(p \o q)
         /\ Locks(p) \subseteq Locks(p \o q) /\ Locks(p \o q) \subseteq Locks(p) \cup B
  <1>1. /\ p \in Seq(Requests) /\ Len(p) \in Nat
        /\ q \in Seq(Requests) /\ Len(q) \in Nat /\ \A i \in 1 .. Len(q) : q[i] \in B
    BY LenProperties, SeqMonotonic, ElementOfSeq DEF GoodPlan
  <1>2. /\ p \o q \in Seq(Requests) /\ Len(p \o q) = Len(p) + Len(q)
        /\ \A i \in 1 .. Len(p) + Len(q) : (p \o q)[i] = IF i <= Len(p) THEN p[i] ELSE q[i - Len(p)]
    BY <1>1, ConcatProperties
  <1> DEFINE s == p \o q
  <1>3. /\ \A i \in 1 .. Len(p) : s[i] = p[i]
        /\ \A i \in Len(p) + 1 .. Len(p) + Len(q) : s[i] \in B
    BY <1>1, <1>2
  <1>4. s \in Seq(Requests) /\ Len(s) = Len(p) + Len(q) /\ \A i \in 1 .. Len(s) : s[i] \in Requests
    BY <1>1, <1>2, ElementOfSeq
  <1> HIDE DEF s
  <1>5. ASSUME NEW j \in 1 .. Len(s)
        PROVE  MayAsk(Upto(s, j - 1), s[j])
    <2>1. CASE j <= Len(p)
      <3>1. Upto(s, j - 1) = Upto(p, j - 1) /\ s[j] = p[j] /\ j \in 1 .. Len(p)
        <4>1. \A i \in 1 .. j - 1 : s[i] = p[i]
          BY <1>1, <1>3, <1>4, <2>1
        <4>2. Upto(s, j - 1) = Upto(p, j - 1)
          BY <4>1 DEF Upto
        <4> QED
          BY <1>1, <1>3, <1>4, <2>1, <4>2
      <3> QED
        BY <3>1 DEF GoodPlan
    <2>2. CASE j > Len(p)
      <3>1. s[j] \in B /\ Upto(s, j - 1) \subseteq Requests
        BY <1>1, <1>3, <1>4, <2>2 DEF Upto
      <3>2. Locks(p) \subseteq Upto(s, j - 1)
        <4> SUFFICES ASSUME NEW i \in 1 .. Len(p) PROVE p[i] \in Upto(s, j - 1)
          BY DEF Locks
        <4>1. i \in 1 .. j - 1 /\ s[i] = p[i]
          BY <1>1, <1>3, <1>4, <2>2
        <4> QED
          BY <4>1 DEF Upto
      <3>3. Upto(s, j - 1) \subseteq Locks(p) \cup B
        <4> SUFFICES ASSUME NEW i \in 1 .. j - 1 PROVE s[i] \in Locks(p) \cup B
          BY DEF Upto
        <4>1. CASE i <= Len(p)
          BY <1>1, <1>3, <4>1 DEF Locks
        <4>2. CASE i > Len(p)
          BY <1>1, <1>3, <1>4, <4>2
        <4> QED
          BY <1>1, <4>1, <4>2
      <3> QED
        BY <3>1, <3>2, <3>3
    <2> QED
      BY <1>1, <2>1, <2>2
  <1>6. GoodPlan(s)
    BY <1>4, <1>5 DEF GoodPlan
  <1>7. Locks(p) \subseteq Locks(s)
    <2> SUFFICES ASSUME NEW i \in 1 .. Len(p) PROVE p[i] \in Locks(s)
      BY DEF Locks
    <2>1. i \in 1 .. Len(s) /\ s[i] = p[i]
      BY <1>1, <1>3, <1>4
    <2> QED
      BY <2>1 DEF Locks
  <1>8. Locks(s) \subseteq Locks(p) \cup B
    <2> SUFFICES ASSUME NEW i \in 1 .. Len(s) PROVE s[i] \in Locks(p) \cup B
      BY DEF Locks
    <2>1. CASE i <= Len(p)
      BY <1>1, <1>3, <2>1 DEF Locks
    <2>2. CASE i > Len(p)
      BY <1>1, <1>3, <1>4, <2>2
    <2> QED
      BY <1>1, <2>1, <2>2
  <1> QED
    BY <1>6, <1>7, <1>8 DEF s

LEMMA EndsWith ==
  ASSUME NEW p, GoodPlan(p), NEW z \in Requests, MayAsk(Locks(p), z)
  PROVE  GoodPlan(p \o <<z>>)
  <1> DEFINE s == p \o <<z>>
  <1>1. p \in Seq(Requests) /\ Len(p) \in Nat /\ <<z>> \in Seq(Requests) /\ Len(<<z>>) = 1 /\ <<z>>[1] = z
    BY LenProperties DEF GoodPlan
  <1>2. /\ s \in Seq(Requests) /\ Len(s) = Len(p) + 1
        /\ \A i \in 1 .. Len(p) : s[i] = p[i]
        /\ s[Len(p) + 1] = z
    BY <1>1, ConcatProperties
  <1> HIDE DEF s
  <1>3. \A n \in 0 .. Len(p) : Upto(s, n) = Upto(p, n)
    <2> SUFFICES ASSUME NEW n \in 0 .. Len(p) PROVE Upto(s, n) = Upto(p, n)
      OBVIOUS
    <2>1. \A i \in 1 .. n : s[i] = p[i]
      BY <1>1, <1>2
    <2> QED
      BY <2>1 DEF Upto
  <1>4. ASSUME NEW j \in 1 .. Len(s)
        PROVE  MayAsk(Upto(s, j - 1), s[j])
    <2>1. CASE j \in 1 .. Len(p)
      BY <1>1, <1>2, <1>3, <2>1 DEF GoodPlan
    <2>2. CASE j = Len(p) + 1
      <3>1. Upto(s, j - 1) = Locks(p) /\ s[j] = z
        BY <1>1, <1>2, <1>3, <2>2 DEF Upto, Locks
      <3> QED
        BY <3>1
    <2> QED
      BY <1>1, <1>2, <2>1, <2>2
  <1> QED
    BY <1>2, <1>4 DEF GoodPlan, s

-----------------------------------------------------------------------------
(* The room tools, the creation of a task and the cascade.                 *)

Inside == {l \in Requests : Kind(l.row) \in InsideRoom}
RoomLock == {Update(Room(r)) : r \in Rooms}
Reference == {Refer(Bot(x)) : x \in Accounts}

LEMMA RoomRequests ==
  /\ \A r \in Rooms : Write(Assigns(r)) \in Inside
  /\ \A r \in Rooms, a \in Accounts : /\ Write(Receipts(r, a)) \in Inside /\ Update(Member(r, a)) \in Inside
                                      /\ Write(Member(r, a)) \in Inside
  /\ Inside \subseteq Requests /\ RoomLock \subseteq Requests /\ Reference \subseteq Requests
  /\ \A a \in Accounts : Update(Bot(a)) \in Requests
  /\ Refer(Memory) \in Requests /\ Refer(Admin) \in Requests
  BY RowFacts, RequestFacts DEF Inside, RoomLock, Reference, InsideRoom

LEMMA RoomRanks ==
  /\ \A l \in Inside : Rank(l) = 6 /\ Kind(l.row) \in InsideRoom
  /\ \A l \in RoomLock : Rank(l) = 5 /\ Reach(l) = 5
  /\ \A l \in Reference : Rank(l) = 4 /\ Reach(l) = 3
  /\ \A a \in Accounts : Rank(Update(Bot(a))) = 3 /\ Reach(Update(Bot(a))) = 4
  /\ Rank(Refer(Memory)) = 7 /\ Reach(Refer(Memory)) = 0 /\ Rank(Refer(Admin)) = 7
  BY RowFacts, RequestFacts, Ranks DEF Inside, RoomLock, Reference

\* None of them is of the ledger or of a middle row, or owns a memory.
Apart(l) == Kind(l.row) \notin LedgerKinds \cup MiddleKinds /\ ~OwnsMemory(l)

LEMMA RoomsApart ==
  /\ \A l \in Inside \cup RoomLock \cup Reference : Apart(l)
  /\ \A a \in Accounts : Apart(Update(Bot(a)))
  /\ Apart(Refer(Memory)) /\ Apart(Refer(Admin))
  BY RowFacts, RequestFacts DEF Apart, Inside, RoomLock, Reference, InsideRoom, LedgerKinds, MiddleKinds, OwnsMemory

LEMMA ApartMayAsk ==
  ASSUME NEW H, NEW w, Apart(w), \A l \in H : Apart(l),
         (\A l \in H : Follows(l, w)) \/ (\E l \in H : Leap(l, w))
  PROVE  MayAsk(H, w)
  BY DEF MayAsk, Apart

\* A tool that has its room goes on with what is inside, a memory and accounts.
AfterRoom == Inside \cup {Refer(Memory)} \cup Reference

LEMMA EnterThen ==
  ASSUME NEW a \in Accounts, NEW r \in Rooms, NEW q \in Seq(AfterRoom)
  PROVE  GoodPlan(Enter(a, r) \o q)
  <1> DEFINE x == Update(Bot(a)) y == Update(Room(r))
  <1>1. /\ x \in Requests /\ y \in Requests /\ Apart(x) /\ Apart(y)
        /\ Reach(x) = 4 /\ Rank(y) = 5 /\ Reach(y) = 5 /\ AfterRoom \in SUBSET Requests
    BY RoomRequests, RoomRanks, RoomsApart DEF RoomLock, AfterRoom
  <1>2. \A w \in Reference : Leap(y, w)
    BY DEF Leap, Reference
  <1>3. Enter(a, r) = <<x, y>>
    BY DEF Enter
  <1> HIDE DEF x, y
  <1>4. MayAsk({x}, y)
    BY <1>1, ApartMayAsk DEF Follows
  <1>5. GoodPlan(<<x, y>>) /\ Locks(<<x, y>>) = {x, y}
    BY <1>1, <1>4, TwoRequests DEF Locks
  <1>6. ASSUME NEW H \in SUBSET Requests, NEW w \in AfterRoom, {x, y} \subseteq H, H \subseteq {x, y} \cup AfterRoom
        PROVE  MayAsk(H, w)
    <2>1. Apart(w) /\ \A l \in H : Apart(l)
      BY <1>1, <1>6, RoomsApart DEF AfterRoom
    <2>2. CASE w \in Reference
      BY <1>2, <1>6, <2>1, <2>2, ApartMayAsk
    <2>3. CASE w \notin Reference
      <3>1. Rank(w) \in {6, 7}
        BY <2>3, RoomRanks DEF AfterRoom
      <3>2. \A l \in H : Kind(l.row) \in InsideRoom \/ Reach(l) \in {0, 3, 4, 5}
        BY <1>1, <1>6, RoomRanks DEF AfterRoom
      <3> QED
        BY <2>1, <3>1, <3>2, ApartMayAsk DEF Follows
    <2> QED
      BY <2>2, <2>3
  <1> QED
    BY <1>1, <1>3, <1>5, <1>6, Continues

\* The rows of one statement, one for each of some accounts or rooms.
LEMMA Statements ==
  ASSUME NEW X, X \in SUBSET Accounts \/ X \in SUBSET Rooms, NEW A,
         NEW f \in [X -> A], NEW s \in Orders({f[x] : x \in X})
  PROVE  s \in Seq(A)
  <1>1. IsFiniteSet(X)
    BY LocksAssumption, FS_Subset
  <1> QED
    BY <1>1, StatementRows

LEMMA AccountsInOrder ==
  ASSUME NEW X \in SUBSET Accounts
  PROVE  /\ \A s \in Orders({Refer(Bot(x)) : x \in X}) : s \in Seq(Reference)
         /\ \A r \in Rooms : \A s \in Orders({Write(Receipts(r, x)) : x \in X}) : s \in Seq(Inside)
  <1>1. ASSUME NEW s \in Orders({Refer(Bot(x)) : x \in X})
        PROVE  s \in Seq(Reference)
    <2> DEFINE f == [x \in X |-> Refer(Bot(x))]
    <2>1. f \in [X -> Reference] /\ {f[x] : x \in X} = {Refer(Bot(x)) : x \in X}
      BY DEF Reference
    <2> HIDE DEF f
    <2> QED
      BY <1>1, <2>1, Statements
  <1>2. ASSUME NEW r \in Rooms, NEW s \in Orders({Write(Receipts(r, x)) : x \in X})
        PROVE  s \in Seq(Inside)
    <2> DEFINE f == [x \in X |-> Write(Receipts(r, x))]
    <2>1. f \in [X -> Inside] /\ {f[x] : x \in X} = {Write(Receipts(r, x)) : x \in X}
      BY RoomRequests
    <2> HIDE DEF f
    <2> QED
      BY <1>2, <2>1, Statements
  <1> QED
    BY <1>1, <1>2

LEMMA RoomsInOrder ==
  ASSUME NEW X \in SUBSET Rooms, NEW a \in Accounts
  PROVE  /\ \A s \in Orders({Update(Room(r)) : r \in X}) : s \in Seq(RoomLock)
         /\ \A s \in Orders({Write(Receipts(r, a)) : r \in X}) : s \in Seq(Inside)
         /\ \A s \in Orders({Write(Assigns(r)) : r \in X}) : s \in Seq(Inside)
         /\ \A s \in Orders({Update(Member(r, a)) : r \in X}) : s \in Seq(Inside)
  <1>1. ASSUME NEW s \in Orders({Update(Room(r)) : r \in X})
        PROVE  s \in Seq(RoomLock)
    <2> DEFINE f == [r \in X |-> Update(Room(r))]
    <2>1. f \in [X -> RoomLock] /\ {f[r] : r \in X} = {Update(Room(r)) : r \in X}
      BY DEF RoomLock
    <2> HIDE DEF f
    <2> QED
      BY <1>1, <2>1, Statements
  <1>2. ASSUME NEW s \in Orders({Write(Receipts(r, a)) : r \in X})
        PROVE  s \in Seq(Inside)
    <2> DEFINE f == [r \in X |-> Write(Receipts(r, a))]
    <2>1. f \in [X -> Inside] /\ {f[r] : r \in X} = {Write(Receipts(r, a)) : r \in X}
      BY RoomRequests
    <2> HIDE DEF f
    <2> QED
      BY <1>2, <2>1, Statements
  <1>3. ASSUME NEW s \in Orders({Write(Assigns(r)) : r \in X})
        PROVE  s \in Seq(Inside)
    <2> DEFINE f == [r \in X |-> Write(Assigns(r))]
    <2>1. f \in [X -> Inside] /\ {f[r] : r \in X} = {Write(Assigns(r)) : r \in X}
      BY RoomRequests
    <2> HIDE DEF f
    <2> QED
      BY <1>3, <2>1, Statements
  <1>4. ASSUME NEW s \in Orders({Update(Member(r, a)) : r \in X})
        PROVE  s \in Seq(Inside)
    <2> DEFINE f == [r \in X |-> Update(Member(r, a))]
    <2>1. f \in [X -> Inside] /\ {f[r] : r \in X} = {Update(Member(r, a)) : r \in X}
      BY RoomRequests
    <2> HIDE DEF f
    <2> QED
      BY <1>4, <2>1, Statements
  <1> QED
    BY <1>1, <1>2, <1>3, <1>4

LEMMA JoinedSeqs ==
  ASSUME NEW A, NEW s \in Seq(A), NEW t \in Seq(A)
  PROVE  s \o t \in Seq(A)
  BY ConcatProperties

LEMMA RoomPlans ==
  ASSUME NEW a \in Accounts, NEW r \in Rooms
  PROVE  /\ \A plan \in EnterRoom(a, r) \cup HandleEntry(a, r) \cup RetractEntry(a, r) \cup CloseRoom(a, r) :
              GoodPlan(plan)
         /\ \A m \in Accounts : \A plan \in SetRole(a, r, m) \cup EndMembership(a, r, m) : GoodPlan(plan)
         /\ \A plan \in PostEntry(a, r) \cup AssignTool(a, r) : GoodPlan(plan)
  <1>0. Enter(a, r) \in Seq(Requests) /\ Inside \subseteq AfterRoom /\ Reference \subseteq AfterRoom
        /\ Refer(Memory) \in AfterRoom
    BY RoomRequests DEF Enter, AfterRoom, RoomLock
  <1>1. \A plan \in EnterRoom(a, r) : GoodPlan(plan)
    <2>1. <<>> \in Seq(AfterRoom) /\ Enter(a, r) \o <<>> = Enter(a, r)
      BY <1>0, EmptySeq, ConcatEmptySeq
    <2> QED
      BY <2>1, EnterThen DEF EnterRoom
  <1>2. \A plan \in HandleEntry(a, r) : GoodPlan(plan)
    <2>1. <<Write(Receipts(r, a))>> \in Seq(AfterRoom)
      BY <1>0, RoomRequests
    <2> QED
      BY <2>1, EnterThen DEF HandleEntry
  <1>3. \A plan \in RetractEntry(a, r) : GoodPlan(plan)
    <2>1. \A s \in Orders({Write(Receipts(r, x)) : x \in Accounts \ {a}}) : s \in Seq(AfterRoom)
      BY <1>0, AccountsInOrder, SeqMonotonic
    <2> QED
      BY <2>1, EnterThen DEF RetractEntry
  <1>4. \A plan \in CloseRoom(a, r) : GoodPlan(plan)
    <2> SUFFICES ASSUME NEW s \in Orders({Write(Receipts(r, x)) : x \in Accounts})
                 PROVE  GoodPlan(Enter(a, r) \o <<Write(Assigns(r))>> \o s)
      BY DEF CloseRoom
    <2>1. s \in Seq(AfterRoom) /\ <<Write(Assigns(r))>> \in Seq(AfterRoom)
      BY <1>0, AccountsInOrder, RoomRequests, SeqMonotonic
    <2>2. s \in Seq(Requests) /\ <<Write(Assigns(r))>> \in Seq(Requests)
      BY <2>1, RoomRequests, SeqMonotonic DEF AfterRoom
    <2>3. /\ <<Write(Assigns(r))>> \o s \in Seq(AfterRoom)
          /\ Enter(a, r) \o <<Write(Assigns(r))>> \o s = Enter(a, r) \o (<<Write(Assigns(r))>> \o s)
      BY <1>0, <2>1, <2>2, JoinedSeqs, ConcatAssociative
    <2> QED
      BY <2>3, EnterThen
  <1>5. ASSUME NEW m \in Accounts
        PROVE  \A plan \in SetRole(a, r, m) \cup EndMembership(a, r, m) : GoodPlan(plan)
    <2>1. /\ <<Write(Receipts(r, m)), Write(Member(r, m))>> \in Seq(AfterRoom)
          /\ <<Write(Assigns(r)), Write(Receipts(r, m)), Update(Member(r, m))>> \in Seq(AfterRoom)
      BY <1>0, RoomRequests
    <2> QED
      BY <2>1, EnterThen DEF SetRole, EndMembership
  <1>6. \A plan \in AssignTool(a, r) : GoodPlan(plan)
    <2>1. \A x \in Accounts : <<Write(Assigns(r)), Write(Receipts(r, a)), Refer(Bot(x))>> \in Seq(AfterRoom)
      BY <1>0, RoomRequests DEF Reference
    <2> QED
      BY <2>1, EnterThen DEF AssignTool
  <1>7. \A plan \in PostEntry(a, r) : GoodPlan(plan)
    <2> SUFFICES ASSUME NEW plan \in PostEntry(a, r)
                 PROVE  GoodPlan(plan)
      OBVIOUS
    <2> DEFINE bots(X) == {Refer(Bot(x)) : x \in X} t == <<Write(Receipts(r, a))>> h == <<Refer(Memory)>>
    <2>1. PICK X \in SUBSET (Accounts \ {a}) : plan \in {Enter(a, r) \o h \o s \o t : s \in Orders(bots(X))}
      BY DEF PostEntry
    <2> HIDE DEF bots, t, h
    <2>2. PICK s \in Orders(bots(X)) : plan = Enter(a, r) \o h \o s \o t
      BY <2>1
    <2>3. s \in Seq(AfterRoom) /\ t \in Seq(AfterRoom) /\ h \in Seq(AfterRoom)
      BY <1>0, <2>2, AccountsInOrder, RoomRequests, SeqMonotonic DEF bots, t, h
    <2>4. s \in Seq(Requests) /\ t \in Seq(Requests) /\ h \in Seq(Requests)
      BY <2>3, RoomRequests, SeqMonotonic DEF AfterRoom
    <2>5. /\ h \o s \o t \in Seq(AfterRoom) /\ h \o s \in Seq(Requests) /\ Enter(a, r) \o h \in Seq(Requests)
      BY <1>0, <2>3, <2>4, JoinedSeqs
    <2>6. Enter(a, r) \o h \o s = Enter(a, r) \o (h \o s)
      BY <1>0, <2>4, ConcatAssociative
    <2>7. (Enter(a, r) \o (h \o s)) \o t = Enter(a, r) \o ((h \o s) \o t)
      <3> DEFINE e == Enter(a, r) m == h \o s
      <3>1. e \in Seq(Requests) /\ m \in Seq(Requests)
        BY <1>0, <2>5
      <3> HIDE DEF e, m
      <3>2. (e \o m) \o t = e \o (m \o t)
        BY <2>4, <3>1, ConcatAssociative
      <3> QED
        BY <3>2 DEF e, m
    <2> QED
      BY <2>2, <2>5, <2>6, <2>7, EnterThen
  <1> QED
    BY <1>1, <1>2, <1>3, <1>4, <1>5, <1>6, <1>7

LEMMA CreatePlans ==
  ASSUME NEW a \in Accounts
  PROVE  \A plan \in CreateTask(a) : GoodPlan(plan)
  <1> DEFINE x == Refer(Bot(a)) z == Update(Bot(a)) bots(X) == {Refer(Bot(y)) : y \in X}
  <1> SUFFICES ASSUME NEW plan \in CreateTask(a)
               PROVE  GoodPlan(plan)
    OBVIOUS
  <1>1. PICK X \in SUBSET (Accounts \ {a}) : plan \in {<<x>> \o s \o <<z>> : s \in Orders(bots(X))}
    BY DEF CreateTask
  <1>2. /\ x \in Reference /\ z \in Requests /\ Apart(z) /\ Leap(x, z)
        /\ \A s \in Orders(bots(X)) : s \in Seq(Reference)
    BY RoomRequests, RoomsApart, AccountsInOrder DEF Reference, Leap
  <1> HIDE DEF x, z, bots
  <1>3. PICK s \in Orders(bots(X)) : plan = <<x>> \o s \o <<z>>
    BY <1>1
  <1>4. x \in Requests /\ GoodPlan(<<x>>) /\ Locks(<<x>>) = {x}
    BY <1>2, RoomRequests, OneRequest DEF Locks
  <1>5. ASSUME NEW H \in SUBSET Requests, NEW w \in Reference, H \subseteq {x} \cup Reference
        PROVE  MayAsk(H, w)
    <2>1. Apart(w) /\ \A l \in H : Apart(l) /\ Reach(l) = 3 /\ Rank(w) = 4
      BY <1>2, <1>5, RoomRanks, RoomsApart
    <2> QED
      BY <2>1, ApartMayAsk DEF Follows
  <1>6. /\ GoodPlan(<<x>> \o s) /\ x \in Locks(<<x>> \o s) /\ Locks(<<x>> \o s) \subseteq Reference
    <2>1. Reference \in SUBSET Requests /\ s \in Seq(Reference)
      BY <1>2, <1>3, RoomRequests
    <2>2. \A H \in SUBSET Requests, w \in Reference :
            Locks(<<x>>) \subseteq H /\ H \subseteq Locks(<<x>>) \cup Reference => MayAsk(H, w)
      BY <1>4, <1>5
    <2>3. /\ GoodPlan(<<x>> \o s)
          /\ Locks(<<x>>) \subseteq Locks(<<x>> \o s) /\ Locks(<<x>> \o s) \subseteq Locks(<<x>>) \cup Reference
      BY <1>4, <2>1, <2>2, Continues
    <2> QED
      BY <1>2, <1>4, <2>3
  <1>7. MayAsk(Locks(<<x>> \o s), z)
    BY <1>2, <1>6, RoomsApart, ApartMayAsk
  <1> QED
    BY <1>2, <1>3, <1>6, <1>7, EndsWith

LEMMA CascadePlans ==
  ASSUME NEW a \in Accounts
  PROVE  \A plan \in Deactivate(a) : GoodPlan(plan)
  <1> SUFFICES ASSUME NEW g \in SUBSET Rooms, NEW s \in SUBSET Rooms, NEW plan \in Cascade(a, g, s)
               PROVE  GoodPlan(plan)
    BY DEF Deactivate
  <1> DEFINE x == Update(Bot(a)) z == Refer(Admin)
             R == Orders({Update(Room(r)) : r \in g})
             P == Orders({Write(Receipts(r, a)) : r \in s})
             W == Orders({Write(Assigns(r)) : r \in s})
             M == Orders({Update(Member(r, a)) : r \in s})
  <1>1. PICK rooms \in R, receipts \in P, assigns \in W, members \in M :
          plan = <<x>> \o rooms \o receipts \o assigns \o members \o <<z>>
    <2> DEFINE steps(rooms, receipts, assigns, members) ==
                 <<x>> \o rooms \o receipts \o assigns \o members \o <<z>>
    <2>1. Cascade(a, g, s) = {steps(rooms, receipts, assigns, members) :
                                rooms \in R, receipts \in P, assigns \in W, members \in M}
      BY DEF Cascade
    <2> HIDE DEF x, z, R, P, W, M, steps
    <2>2. \E rooms \in R, receipts \in P, assigns \in W, members \in M :
            plan = steps(rooms, receipts, assigns, members)
      BY <2>1
    <2> QED
      BY <2>2 DEF steps
  <1>2. rooms \in Seq(RoomLock) /\ receipts \in Seq(Inside) /\ assigns \in Seq(Inside) /\ members \in Seq(Inside)
    BY RoomsInOrder
  <1>3. /\ x \in Requests /\ z \in Requests /\ Apart(x) /\ Apart(z) /\ Reach(x) = 4 /\ Rank(z) = 7
        /\ RoomLock \in SUBSET Requests /\ Inside \in SUBSET Requests
    BY RoomRequests, RoomRanks, RoomsApart
  <1> HIDE DEF x, z, R, P, W, M
  <1>4. GoodPlan(<<x>>) /\ Locks(<<x>>) = {x}
    BY <1>3, OneRequest DEF Locks
  <1> DEFINE A == {x} \cup RoomLock \cup Inside
  <1>5. ASSUME NEW H \in SUBSET Requests, NEW w \in RoomLock, H \subseteq {x} \cup RoomLock
        PROVE  MayAsk(H, w)
    <2>1. Apart(w) /\ \A l \in H : Apart(l)
      BY <1>3, <1>5, RoomsApart
    <2>2. CASE \E l \in H : l \in RoomLock
      <3>1. \E l \in H : Leap(l, w)
        BY <2>2, <1>5 DEF RoomLock, Leap
      <3> QED
        BY <2>1, <3>1, ApartMayAsk
    <2>3. CASE ~(\E l \in H : l \in RoomLock)
      <3>1. \A l \in H : Follows(l, w)
        BY <1>3, <1>5, <2>3, RoomRanks DEF Follows
      <3> QED
        BY <2>1, <3>1, ApartMayAsk
    <2> QED
      BY <2>2, <2>3
  <1>6. ASSUME NEW H \in SUBSET Requests, NEW w \in Inside, H \subseteq A
        PROVE  MayAsk(H, w)
    <2>1. Apart(w) /\ \A l \in H : Apart(l) /\ Follows(l, w)
      BY <1>3, <1>6, RoomsApart, RoomRanks DEF Follows
    <2> QED
      BY <2>1, ApartMayAsk
  <1>7. ASSUME NEW H \in SUBSET Requests, H \subseteq A
        PROVE  MayAsk(H, z)
    <2>1. \A l \in H : Apart(l) /\ Follows(l, z)
      BY <1>3, <1>7, RoomsApart, RoomRanks DEF Follows
    <2> QED
      BY <1>3, <2>1, ApartMayAsk
  <1>8. GoodPlan(<<x>> \o rooms) /\ Locks(<<x>> \o rooms) \subseteq {x} \cup RoomLock
    <2>1. \A H \in SUBSET Requests, w \in RoomLock :
            Locks(<<x>>) \subseteq H /\ H \subseteq Locks(<<x>>) \cup RoomLock => MayAsk(H, w)
      BY <1>4, <1>5
    <2> QED
      BY <1>2, <1>3, <1>4, <2>1, Continues
  <1>9. ASSUME NEW p, GoodPlan(p), Locks(p) \subseteq A, NEW q \in Seq(Inside)
        PROVE  GoodPlan(p \o q) /\ Locks(p \o q) \subseteq A
    <2>1. \A H \in SUBSET Requests, w \in Inside :
            Locks(p) \subseteq H /\ H \subseteq Locks(p) \cup Inside => MayAsk(H, w)
      BY <1>6, <1>9
    <2> QED
      BY <1>3, <1>9, <2>1, Continues
  <1> DEFINE body == <<x>> \o rooms \o receipts \o assigns \o members
  <1>10. GoodPlan(body) /\ Locks(body) \subseteq A
    <2>1. Locks(<<x>> \o rooms) \subseteq A
      BY <1>8
    <2> HIDE DEF A
    <2>2. GoodPlan(<<x>> \o rooms \o receipts) /\ Locks(<<x>> \o rooms \o receipts) \subseteq A
      BY <1>2, <1>8, <1>9, <2>1
    <2>3. GoodPlan(<<x>> \o rooms \o receipts \o assigns) /\ Locks(<<x>> \o rooms \o receipts \o assigns) \subseteq A
      BY <1>2, <1>9, <2>2
    <2> QED
      BY <1>2, <1>9, <2>3
  <1> HIDE DEF body
  <1>11. GoodPlan(body \o <<z>>)
    <2>1. Locks(body) \subseteq Requests
      BY <1>3, <1>10
    <2> QED
      BY <1>3, <1>7, <1>10, <2>1, EndsWith
  <1> QED
    BY <1>1, <1>11 DEF body

-----------------------------------------------------------------------------
(* Transactions.                                                           *)

\* A transaction has the first n locks of its plan.
Running(t, plan, n) ==
    /\ GoodPlan(plan)
    /\ n \in 0 .. Len(plan)
    /\ todo[t] = SubSeq(plan, n + 1, Len(plan))
    /\ held[t] = Upto(plan, n)

Compatible ==
    \A t, u \in Txns : \A l \in held[t], m \in held[u] :
        t # u /\ l.row = m.row => ~Conflict(l.mode, m.mode)

LocksInv ==
    /\ todo \in [Txns -> Seq(Requests)]
    /\ held \in [Txns -> SUBSET Requests]
    /\ \A t \in Txns : Idle(t) \/ \E plan, n : Running(t, plan, n)
    /\ Compatible

Starts(t) ==
    \E plan \in Seq(Requests) :
        /\ GoodPlan(plan)
        /\ Idle(t)
        /\ todo' = [todo EXCEPT ![t] = plan]
        /\ UNCHANGED held

LEMMA Begins ==
  ASSUME NEW t \in Txns, NEW plans, Begin(t, plans), \A plan \in plans : GoodPlan(plan)
  PROVE  Starts(t)
  BY DEF Begin, Starts, GoodPlan

LEMMA AllBegin ==
  ASSUME NEW t \in Txns, BeginTask(t) \/ BeginMoney(t) \/ BeginRoom(t)
  PROVE  Starts(t)
  <1>1. CASE BeginTask(t)
    <2>1. PICK k \in Tasks, a \in Accounts :
            \/ Begin(t, ChangeTask(k)) \/ Begin(t, MoveBudget(k, a)) \/ Begin(t, ClaimTask(k, a))
            \/ Begin(t, EndClaim(k, a)) \/ Begin(t, SubmitWork(k, a)) \/ Begin(t, WriteOutcome(k, a))
            \/ Begin(t, PlatformClose(k)) \/ Begin(t, ResolveReport(k))
      BY <1>1 DEF BeginTask
    <2> QED
      BY <2>1, TaskPlans, Begins
  <1>2. CASE BeginMoney(t)
    <2>1. PICK a \in Accounts :
            \/ Begin(t, CreateTask(a)) \/ Begin(t, MovePayment(a)) \/ Begin(t, Redeem(a))
            \/ Begin(t, RefundRedemption(a)) \/ Begin(t, ChangeProduct) \/ Begin(t, UpdateMemory)
      BY <1>2 DEF BeginMoney
    <2> QED
      BY <2>1, MoneyPlans, CreatePlans, Begins
  <1>3. CASE BeginRoom(t)
    <2>1. PICK a \in Accounts, r \in Rooms :
            \/ Begin(t, EnterRoom(a, r)) \/ Begin(t, HandleEntry(a, r)) \/ Begin(t, RetractEntry(a, r))
            \/ \E m \in Accounts : Begin(t, SetRole(a, r, m))
            \/ \E m \in Accounts : Begin(t, EndMembership(a, r, m))
            \/ Begin(t, CloseRoom(a, r)) \/ Begin(t, PostEntry(a, r)) \/ Begin(t, AssignTool(a, r))
            \/ Begin(t, Deactivate(a))
      BY <1>3 DEF BeginRoom
    <2> QED
      BY <2>1, RoomPlans, CascadePlans, Begins
  <1> QED
    BY <1>1, <1>2, <1>3

LEMMA ConflictsAreMutual ==
  ASSUME NEW m, NEW n
  PROVE  Conflict(m, n) <=> Conflict(n, m)
  BY DEF Conflict

\* A step leaves the other transactions where they are.
LEMMA OthersRun ==
  ASSUME LocksInv, NEW u \in Txns, todo'[u] = todo[u], held'[u] = held[u]
  PROVE  Idle(u)' \/ \E plan, n : Running(u, plan, n)'
  <1>1. CASE Idle(u)
    BY <1>1 DEF Idle
  <1>2. CASE ~Idle(u)
    <2>1. PICK plan, n : Running(u, plan, n)
      BY <1>2 DEF LocksInv
    <2>2. Running(u, plan, n)'
      BY <2>1 DEF Running
    <2> QED
      BY <2>2
  <1> QED
    BY <1>1, <1>2

LEMMA StartKeeps ==
  ASSUME LocksInv, NEW t \in Txns, Starts(t)
  PROVE  LocksInv'
  <1>1. PICK plan \in Seq(Requests) :
          GoodPlan(plan) /\ Idle(t) /\ todo' = [todo EXCEPT ![t] = plan] /\ UNCHANGED held
    BY DEF Starts
  <1>2. SubSeq(plan, 1, Len(plan)) = plan /\ Len(plan) \in Nat
    BY SubSeqFull, LenProperties
  <1>3. Running(t, plan, 0)'
    <2>1. todo'[t] = plan /\ held'[t] = {}
      BY <1>1 DEF LocksInv, Idle
    <2>2. Upto(plan, 0) = {}
      BY DEF Upto
    <2> QED
      BY <1>1, <1>2, <2>1, <2>2 DEF Running
  <1>4. ASSUME NEW u \in Txns
        PROVE  Idle(u)' \/ \E p, n : Running(u, p, n)'
    <2>1. CASE u = t
      BY <1>3, <2>1
    <2>2. CASE u # t
      <3>1. todo'[u] = todo[u] /\ held'[u] = held[u]
        BY <1>1, <2>2 DEF LocksInv
      <3> QED
        BY <3>1, OthersRun
    <2> QED
      BY <2>1, <2>2
  <1> QED
    BY <1>1, <1>4 DEF LocksInv, Compatible

\* The next request of a transaction that waits, and where its plan has it.
LEMMA NextRequest ==
  ASSUME LocksInv, NEW t \in Txns, Waits(t)
  PROVE  \E plan, n : /\ Running(t, plan, n)
                      /\ plan \in Seq(Requests) /\ Len(plan) \in Nat /\ n \in Nat /\ n + 1 \in 1 .. Len(plan)
                      /\ Wanted(t) = plan[n + 1] /\ Tail(todo[t]) = SubSeq(plan, n + 2, Len(plan))
  <1>1. PICK plan, n : Running(t, plan, n)
    BY DEF LocksInv, Idle, Waits
  <1>2. plan \in Seq(Requests) /\ Len(plan) \in Nat /\ n \in 0 .. Len(plan)
    BY <1>1, LenProperties DEF Running, GoodPlan
  <1>3. n + 1 \in 1 .. Len(plan)
    <2> SUFFICES ASSUME ~(n < Len(plan)) PROVE FALSE
      BY <1>2
    <2>1. SubSeq(plan, n + 1, Len(plan)) = <<>>
      BY <1>2, SubSeqEmpty
    <2> QED
      BY <1>1, <2>1 DEF Running, Waits
  <1>4. Wanted(t) = plan[n + 1] /\ Tail(todo[t]) = SubSeq(plan, n + 2, Len(plan))
    <2>1. Len(plan) \in (n + 1) .. Len(plan) /\ (n + 1) + 1 = n + 2
      BY <1>2, <1>3
    <2> QED
      BY <1>1, <1>2, <1>3, <2>1, HeadTailOfSubSeq DEF Running, Wanted
  <1>5. n \in Nat
    BY <1>2
  <1> QED
    BY <1>1, <1>2, <1>3, <1>4, <1>5

LEMMA AcquireKeeps ==
  ASSUME LocksInv, NEW t \in Txns, Acquire(t)
  PROVE  LocksInv'
  <1> DEFINE m == Wanted(t)
  <1>1. Waits(t) /\ todo[t] \in Seq(Requests) /\ todo[t] # <<>>
    BY DEF LocksInv, Acquire, Waits
  <1>2. m \in Requests /\ Tail(todo[t]) \in Seq(Requests)
    BY <1>1, HeadTailProperties DEF Wanted
  <1>3. PICK plan, n :
          /\ Running(t, plan, n)
          /\ plan \in Seq(Requests) /\ Len(plan) \in Nat /\ n \in Nat /\ n + 1 \in 1 .. Len(plan)
          /\ m = plan[n + 1] /\ Tail(todo[t]) = SubSeq(plan, n + 2, Len(plan))
    BY <1>1, NextRequest
  <1>4. /\ todo' = [todo EXCEPT ![t] = Tail(todo[t])]
        /\ held' = [held EXCEPT ![t] = held[t] \cup {m}]
        /\ \A u \in Txns : ~Blocks(u, t)
    BY DEF Acquire, Blocked
  <1>5. ASSUME NEW u \in Txns, u # t, NEW l \in held[u], l.row = m.row
        PROVE  ~Conflict(l.mode, m.mode)
    BY <1>1, <1>4, <1>5 DEF Blocks, m
  <1> HIDE DEF m
  <1>6. Running(t, plan, n + 1)'
    <2>1. todo'[t] = SubSeq(plan, (n + 1) + 1, Len(plan))
      BY <1>3, <1>4 DEF LocksInv
    <2>2. held'[t] = Upto(plan, n) \cup {plan[n + 1]}
      BY <1>3, <1>4 DEF LocksInv, Running
    <2>3. held'[t] = Upto(plan, n + 1)
      BY <1>3, <2>2 DEF Upto
    <2>4. n + 1 \in 0 .. Len(plan)
      BY <1>3
    <2> QED
      BY <1>3, <2>1, <2>3, <2>4 DEF Running
  <1>7. ASSUME NEW u \in Txns
        PROVE  Idle(u)' \/ \E p, k : Running(u, p, k)'
    <2>1. CASE u = t
      BY <1>6, <2>1
    <2>2. CASE u # t
      <3>1. todo'[u] = todo[u] /\ held'[u] = held[u]
        BY <1>4, <2>2 DEF LocksInv
      <3> QED
        BY <3>1, OthersRun
    <2> QED
      BY <2>1, <2>2
  <1>8. Compatible'
    <2> SUFFICES ASSUME NEW u \in Txns, NEW v \in Txns, NEW k \in held'[u], NEW l \in held'[v],
                        u # v, k.row = l.row
                 PROVE  ~Conflict(k.mode, l.mode)
      BY DEF Compatible
    <2>1. CASE k \in held[u] /\ l \in held[v]
      BY <2>1 DEF LocksInv, Compatible
    <2>2. CASE k \notin held[u]
      <3>1. u = t /\ k = m /\ l \in held[v]
        BY <1>4, <2>2 DEF LocksInv
      <3> QED
        BY <3>1, <1>5, ConflictsAreMutual
    <2>3. CASE l \notin held[v]
      <3>1. v = t /\ l = m /\ k \in held[u]
        BY <1>4, <2>3 DEF LocksInv
      <3> QED
        BY <3>1, <1>5, ConflictsAreMutual
    <2> QED
      BY <2>1, <2>2, <2>3
  <1>9. todo' \in [Txns -> Seq(Requests)] /\ held' \in [Txns -> SUBSET Requests]
    BY <1>2, <1>4 DEF LocksInv
  <1> QED
    BY <1>7, <1>8, <1>9 DEF LocksInv

LEMMA LeaveKeeps ==
  ASSUME LocksInv, NEW t \in Txns, Leave(t)
  PROVE  LocksInv'
  <1>1. todo' = [todo EXCEPT ![t] = <<>>] /\ held' = [held EXCEPT ![t] = {}]
    BY DEF Leave
  <1>2. todo' \in [Txns -> Seq(Requests)] /\ held' \in [Txns -> SUBSET Requests]
    BY <1>1, EmptySeq DEF LocksInv
  <1>3. ASSUME NEW u \in Txns
        PROVE  Idle(u)' \/ \E p, k : Running(u, p, k)'
    <2>1. CASE u = t
      BY <1>1, <2>1 DEF LocksInv, Idle
    <2>2. CASE u # t
      <3>1. todo'[u] = todo[u] /\ held'[u] = held[u]
        BY <1>1, <2>2 DEF LocksInv
      <3> QED
        BY <3>1, OthersRun
    <2> QED
      BY <2>1, <2>2
  <1>4. \A u \in Txns : held'[u] \subseteq held[u]
    BY <1>1 DEF LocksInv
  <1>5. Compatible'
    BY <1>4 DEF LocksInv, Compatible
  <1> QED
    BY <1>2, <1>3, <1>5 DEF LocksInv

LEMMA LocksInvHolds == Spec => []LocksInv
  <1>1. Init => LocksInv
    <2> SUFFICES ASSUME Init PROVE LocksInv
      OBVIOUS
    <2>1. todo \in [Txns -> Seq(Requests)] /\ held \in [Txns -> SUBSET Requests]
      BY EmptySeq DEF Init
    <2> QED
      BY <2>1 DEF Init, LocksInv, Idle, Compatible
  <1>2. LocksInv /\ [Next]_vars => LocksInv'
    <2> SUFFICES ASSUME LocksInv, [Next]_vars PROVE LocksInv'
      OBVIOUS
    <2>1. CASE Next
      BY <2>1, AllBegin, StartKeeps, AcquireKeeps, LeaveKeeps DEF Next, End, Fail
    <2>2. CASE UNCHANGED vars
      BY <2>2 DEF vars, LocksInv, Idle, Running, Compatible
    <2> QED
      BY <2>1, <2>2
  <1> QED
    BY <1>1, <1>2, PTL DEF Spec

-----------------------------------------------------------------------------
(* Waiting in a circle.                                                    *)

LEMMA WaitingAsks ==
  ASSUME LocksInv, NEW t \in Txns, Waits(t)
  PROVE  /\ MayAsk(held[t], Wanted(t))
         /\ Wanted(t) \in Requests /\ held[t] \in SUBSET Requests
  <1>1. PICK plan, n :
          /\ Running(t, plan, n)
          /\ plan \in Seq(Requests) /\ Len(plan) \in Nat /\ n \in Nat /\ n + 1 \in 1 .. Len(plan)
          /\ Wanted(t) = plan[n + 1]
    BY NextRequest
  <1>2. MayAsk(Upto(plan, n), plan[n + 1]) /\ plan[n + 1] \in Requests
    <2>1. (n + 1) - 1 = n
      BY <1>1
    <2> QED
      BY <1>1, <2>1, ElementOfSeq DEF Running, GoodPlan
  <1> QED
    BY <1>1, <1>2 DEF Running, LocksInv

LEMMA LeapsAreKnown ==
  ASSUME NEW t \in Txns, NEW l \in held[t], Leap(l, Wanted(t))
  PROVE  OutOfOrder(t)
  BY DEF Leap, OutOfOrder, Upgrades, CallsOut, SpansRooms

\* In order, whom a transaction keeps waiting waits at an earlier place than it does.
LEMMA WaitingRises ==
  ASSUME LocksInv, NEW t \in Txns, NEW u \in Txns, Blocks(u, t), Waits(u), ~OutOfOrder(t), ~OutOfOrder(u)
  PROVE  Rank(Wanted(t)) < Rank(Wanted(u))
  <1>1. PICK l \in held[u] : l.row = Wanted(t).row /\ Conflict(l.mode, Wanted(t).mode)
    BY DEF Blocks
  <1>2. t # u /\ Waits(t)
    BY DEF Blocks
  <1>3. /\ MayAsk(held[u], Wanted(u)) /\ l \in Requests
        /\ Wanted(t) \in Requests /\ held[t] \in SUBSET Requests
    BY <1>1, <1>2, WaitingAsks
  <1>4. Rank(Wanted(t)) <= Reach(l)
    BY <1>1, <1>3, WaitersComeFirst
  <1>5. Follows(l, Wanted(u))
    BY <1>1, <1>3, LeapsAreKnown DEF MayAsk
  <1>6. Kind(l.row) \notin InsideRoom
    <2> SUFFICES ASSUME Kind(l.row) \in InsideRoom PROVE FALSE
      OBVIOUS
    <2>1. Update(Room(l.row[2])) \in held[u] /\ Update(Room(l.row[2])) \in held[t]
      BY <1>1 DEF OutOfOrder, Trespasses, Kind
    <2>2. Update(Room(l.row[2])).mode = "update"
      BY DEF Update
    <2> QED
      BY <1>2, <2>1, <2>2 DEF LocksInv, Compatible, Conflict
  <1> QED
    BY <1>4, <1>5, <1>6, Ranks DEF Follows

LEMMA EveryCircleIsKnown ==
  ASSUME LocksInv, NEW S \in SUBSET Txns, Circle(S)
  PROVE  \E t \in S : OutOfOrder(t)
  <1> SUFFICES ASSUME \A t \in S : ~OutOfOrder(t) PROVE FALSE
    OBVIOUS
  <1> DEFINE R(t) == Rank(Wanted(t))
  <1>1. \A t \in S : R(t) \in 0 .. 7
    BY Ranks
  <1>2. S # {} /\ \A t \in S : \E u \in S : Blocks(u, t)
    BY DEF Circle
  <1>3. \A t \in S : Waits(t)
    BY <1>2 DEF Blocks
  <1>4. \A t, u \in S : Blocks(u, t) => R(t) < R(u)
    BY <1>3, WaitingRises
  <1> HIDE DEF R
  <1>5. \A t \in S : \E u \in S : R(t) < R(u)
    BY <1>2, <1>4
  <1>6. \A t \in S : R(t) # 7
    BY <1>1, <1>5
  <1>7. \A t \in S : R(t) # 6
    BY <1>1, <1>5, <1>6
  <1>8. \A t \in S : R(t) # 5
    BY <1>1, <1>5, <1>6, <1>7
  <1>9. \A t \in S : R(t) # 4
    BY <1>1, <1>5, <1>6, <1>7, <1>8
  <1>10. \A t \in S : R(t) # 3
    BY <1>1, <1>5, <1>6, <1>7, <1>8, <1>9
  <1>11. \A t \in S : R(t) # 2
    BY <1>1, <1>5, <1>6, <1>7, <1>8, <1>9, <1>10
  <1>12. \A t \in S : R(t) # 1
    BY <1>1, <1>5, <1>6, <1>7, <1>8, <1>9, <1>10, <1>11
  <1> QED
    BY <1>1, <1>2, <1>5, <1>6, <1>7, <1>8, <1>9, <1>10, <1>11, <1>12

\* Whoever asks for a row of the ledger first, or for a memory to change it, keeps nobody
\* waiting; whoever asks for a middle row keeps only those waiting.
LEMMA LedgerStaysOut ==
  ASSUME LocksInv, NEW S \in SUBSET Txns, Circle(S), NEW t \in S, NEW l \in held[t]
  PROVE  Kind(l.row) \notin LedgerKinds
  <1>1. \A v \in S : (\E u \in S : Blocks(u, v)) /\ (\E u \in S : Blocks(v, u))
    BY DEF Circle
  <1>2. \A v \in S : /\ Waits(v) /\ held[v] # {} /\ MayAsk(held[v], Wanted(v))
                     /\ Wanted(v) \in Requests /\ held[v] \in SUBSET Requests
    <2>1. \A v \in S : Waits(v) /\ held[v] # {}
      BY <1>1 DEF Blocks
    <2> QED
      BY <2>1, WaitingAsks
  <1>3. \A v \in S : Kind(Wanted(v).row) \notin LedgerKinds /\ ~OwnsMemory(Wanted(v))
    BY <1>2 DEF MayAsk
  <1>4. \A v \in S : Kind(Wanted(v).row) \notin MiddleKinds
    <2> SUFFICES ASSUME NEW v \in S, Kind(Wanted(v).row) \in MiddleKinds PROVE FALSE
      OBVIOUS
    <2>1. \A m \in held[v] : Kind(m.row) \in LedgerKinds
      BY <1>2 DEF MayAsk
    <2>2. PICK u \in S : Blocks(v, u)
      BY <1>1
    <2>3. Kind(Wanted(u).row) \in LedgerKinds
      BY <2>1, <2>2 DEF Blocks
    <2> QED
      BY <1>3, <2>3
  <1> SUFFICES ASSUME Kind(l.row) \in LedgerKinds PROVE FALSE
    OBVIOUS
  <1>5. \A m \in held[t] : /\ ~OfRooms(m) /\ ~OwnsMemory(m)
                           /\ Kind(m.row) = "tb_bots" => Kind(Wanted(t).row) \in {"tb_kungfus", "tb_admins"}
    BY <1>2 DEF MayAsk
  <1>6. PICK v \in S : Blocks(t, v)
    BY <1>1
  <1>7. PICK m \in held[t] : m.row = Wanted(v).row /\ Conflict(m.mode, Wanted(v).mode)
    BY <1>6 DEF Blocks
  <1>8. Kind(m.row) = "tb_bots"
    <2>1. m \in Requests /\ Kind(m.row) \notin LedgerKinds \cup MiddleKinds
      BY <1>2, <1>3, <1>4, <1>7
    <2>2. Kind(m.row) \notin {"tb_kungfus", "tb_admins"}
      <3>1. /\ m \in Requests /\ Wanted(v) \in Requests /\ m.row = Wanted(v).row /\ Conflict(m.mode, Wanted(v).mode)
            /\ ~OwnsMemory(m) /\ ~OwnsMemory(Wanted(v))
        BY <1>2, <1>3, <1>5, <1>7
      <3> QED
        BY <3>1 DEF OwnsMemory, Conflict, Requests
    <2>3. ~OfRooms(m)
      BY <1>5
    <2>4. Kind(m.row) \notin InsideRoom \cup {"threads"}
      BY <2>3 DEF OfRooms
    <2>5. m.row \in Rows
      BY <2>1 DEF Requests
    <2> QED
      BY <2>1, <2>2, <2>4, <2>5, KindsOfRows
  <1>9. Kind(Wanted(t).row) \in {"tb_kungfus", "tb_admins"}
    BY <1>5, <1>8
  <1>10. PICK u \in S : Blocks(u, t)
    BY <1>1
  <1>11. PICK h \in held[u] : h.row = Wanted(t).row /\ Conflict(h.mode, Wanted(t).mode)
    BY <1>10 DEF Blocks
  <1>12. h \in Requests /\ ~OwnsMemory(h) /\ ~OwnsMemory(Wanted(t)) /\ Wanted(t) \in Requests
    BY <1>2, <1>3, <1>11 DEF MayAsk
  <1> QED
    BY <1>9, <1>11, <1>12 DEF OwnsMemory, Conflict, Requests

\* Whatever operations run beside each other, on any number of connections: every circle
\* of waiting transactions has one that left the lock order in a way the source has it, and
\* none that has a task, a payment or a redemption.
THEOREM NobodyWaitsInACircle == Spec => []OnlyKnownCircles
  <1>1. LocksInv => OnlyKnownCircles
    BY EveryCircleIsKnown, LedgerStaysOut DEF OnlyKnownCircles, Kind
  <1> QED
    BY <1>1, LocksInvHolds, PTL
=============================================================================
