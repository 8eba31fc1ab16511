-------------------------- MODULE BackgroundProofs --------------------------
(***************************************************************************)
(* What the background never does: find the pool closed under a pass, and  *)
(* close a signal as posted that nobody has received.                      *)
(***************************************************************************)
EXTENDS Background, SequenceTheorems, TLAPS

-----------------------------------------------------------------------------
(* The process.                                                            *)

\* The pool is closed after every worker has ended, and an ended worker never starts again.
ClosedAfterAll ==
    /\ DOMAIN worker = BackgroundWorkers
    /\ poolOpen \/ \A w \in BackgroundWorkers : worker[w] = "exited"

\* Whatever a worker does, it has not ended before, and no other worker moves.
LEMMA EndedStaysEnded ==
  ASSUME ClosedAfterAll, NEW w \in BackgroundWorkers, worker[w] # "exited", UNCHANGED poolOpen,
         NEW to, worker' = [worker EXCEPT ![w] = to]
  PROVE  ClosedAfterAll'
  BY DEF ClosedAfterAll

LEMMA WorkersKeepOrder ==
  ASSUME ClosedAfterAll, NEW w \in BackgroundWorkers,
         \/ WorkerRuns(w) \/ TickPassesGate(w) \/ Panic(w)
         \/ AcquireFirst(w) \/ SecondWanted(w) \/ AcquireSecond(w)
  PROVE  ClosedAfterAll'
  <1>1. ASSUME NEW from \in {"wait", "gated", "first", "one", "second", "two"}, NEW to, Moves(w, from, to)
        PROVE  ClosedAfterAll'
    BY <1>1, EndedStaysEnded DEF Moves, keepProcess
  <1>2. CASE WorkerStops(w) \/ BeginPass(w) \/ CollectGarbage(w) \/ TickPassesGate(w)
    BY <1>1, <1>2 DEF WorkerStops, BeginPass, CollectGarbage, TickPassesGate
  <1>3. CASE EndPass(w) \/ Announced(w) \/ PassBudget(w)
    BY <1>1, <1>3 DEF EndPass, Announced, PassBudget
  <1>4. CASE AcquireFirst(w) \/ SecondWanted(w) \/ AcquireSecond(w)
    BY <1>1, <1>4 DEF AcquireFirst, SecondWanted, AcquireSecond
  <1>5. CASE Panic(w)
    BY <1>5, EndedStaysEnded DEF Panic, keepProcess
  <1>6. CASE ReportFailure(w)
    BY <1>6, EndedStaysEnded DEF ReportFailure, keepProcess
  <1> QED
    BY <1>2, <1>3, <1>4, <1>5, <1>6 DEF WorkerRuns

LEMMA ProcessKeepsOrder ==
  ASSUME ClosedAfterAll, ProcessNext
  PROVE  ClosedAfterAll'
  <1>1. ASSUME NEW w \in BackgroundWorkers,
               \/ WorkerRuns(w) \/ TickPassesGate(w) \/ Panic(w)
               \/ AcquireFirst(w) \/ SecondWanted(w) \/ AcquireSecond(w)
        PROVE  ClosedAfterAll'
    BY <1>1, WorkersKeepOrder
  <1>2. ASSUME NEW r \in HttpRequests, BeginRequest(r) \/ RequestStep(r) \/ RequestBudget(r)
        PROVE  ClosedAfterAll'
    BY <1>2 DEF ClosedAfterAll, BeginRequest, RequestStep, RequestBudget, Serves, keepProcess
  <1>3. CASE ClosePool
    BY <1>3 DEF ClosePool, Joined, Shuts, ClosedAfterAll
  <1>4. CASE BackgroundError \/ StopWorkers \/ Drained \/ Exit \/ Signal \/ DatabaseHangs
    BY <1>4 DEF BackgroundError, StopWorkers, Drained, Exit, Signal, DatabaseHangs, Shuts, ClosedAfterAll
  <1> QED
    BY <1>1, <1>2, <1>3, <1>4 DEF ProcessNext, ShutdownStep

\* No worker in the middle of a pass, nor about to begin one, finds the pool closed, for any
\* number of workers, requests and connections and wherever a panic or the stop finds them
\* (lifecycle.go: the workers are joined before the pool is closed).
THEOREM PassesFindThePoolOpen == BackgroundSpec => []PoolOutlivesPasses
  <1>1. BackgroundInit => ClosedAfterAll
    BY DEF BackgroundInit, ProcessInit, ClosedAfterAll
  <1>2. ClosedAfterAll /\ [BackgroundNext]_backgroundVars => ClosedAfterAll'
    <2>1. ASSUME ClosedAfterAll, UNCHANGED processVars
          PROVE  ClosedAfterAll'
      BY <2>1 DEF processVars, ClosedAfterAll
    <2> QED
      BY <2>1, ProcessKeepsOrder DEF BackgroundNext, SignalsStep, backgroundVars
  <1>3. ClosedAfterAll => PoolOutlivesPasses
    BY DEF ClosedAfterAll, PoolOutlivesPasses, Passing
  <1> QED
    BY <1>1, <1>2, <1>3, PTL DEF BackgroundSpec

-----------------------------------------------------------------------------
(* The outbox.                                                             *)

OutboxRows == [account : Recipients, attempts : Nat,
               end : {"none", "posted", "deleted", "unwanted"}]

IsPass(p) == p = [targets |-> p.targets, answer |-> p.answer, budget |-> p.budget]

\* An answer that a pass has and not written yet is about the first of its targets.
PostInv ==
    /\ outbox \in Seq(OutboxRows)
    /\ DOMAIN pass = Dispatchers
    /\ pass = [d \in Dispatchers |-> pass[d]]
    /\ \A d \in Dispatchers :
         IsPass(pass[d]) /\ (pass[d].answer = "2xx" => Head(pass[d].targets) \in received)
    /\ PostedWasReceived

LEMMA SameRows ==
  ASSUME outbox \in Seq(OutboxRows), NEW f, f = [i \in DOMAIN outbox |-> f[i]],
         \A i \in DOMAIN outbox : f[i] \in OutboxRows
  PROVE  f \in Seq(OutboxRows)
  <1>1. PICK n \in Nat : outbox \in [1 .. n -> OutboxRows]
    BY SeqDef
  <1>2. DOMAIN outbox = 1 .. n
    BY <1>1
  <1>3. f \in [1 .. n -> OutboxRows]
    BY <1>2
  <1> QED
    BY <1>3, SeqDef

\* A row that a statement closes, in whatever way but as posted.
LEMMA OtherEnds ==
  ASSUME PostInv, UNCHANGED received, NEW S, NEW how \in {"none", "deleted", "unwanted"},
         outbox' = [i \in DOMAIN outbox |-> IF i \in S THEN [outbox[i] EXCEPT !.end = how] ELSE outbox[i]]
  PROVE  outbox' \in Seq(OutboxRows) /\ PostedWasReceived'
  <1>1. \A i \in DOMAIN outbox : outbox[i] \in OutboxRows
    BY ElementOfSeq DEF PostInv
  <1>2. \A i \in DOMAIN outbox : outbox'[i] \in OutboxRows
    BY <1>1 DEF OutboxRows
  <1>3. outbox' \in Seq(OutboxRows)
    BY <1>2 DEF PostInv
  <1>4. \A i \in DOMAIN outbox' : outbox'[i].end = "posted" => outbox[i].end = "posted" /\ i \in DOMAIN outbox
    BY <1>1 DEF OutboxRows
  <1> QED
    BY <1>3, <1>4 DEF PostInv, PostedWasReceived

LEMMA InsertKeeps ==
  ASSUME PostInv, NEW a \in Recipients, InsertNotifyOutbox(a)
  PROVE  PostInv'
  <1> DEFINE row == [account |-> a, attempts |-> 0, end |-> "none"]
  <1>1. row \in OutboxRows
    BY DEF OutboxRows
  <1>2. outbox' = Append(outbox, row) /\ UNCHANGED <<pass, received>>
    BY DEF InsertNotifyOutbox
  <1>3. outbox' \in Seq(OutboxRows)
    BY <1>1, <1>2 DEF PostInv
  <1>4. PostedWasReceived'
    BY <1>2, <1>1 DEF PostInv, PostedWasReceived
  <1> QED
    BY <1>2, <1>3, <1>4 DEF PostInv

LEMMA DropKeeps ==
  ASSUME PostInv, NEW a \in Recipients, DropQueue(a)
  PROVE  PostInv'
  <1> DEFINE S == {i \in DOMAIN outbox : outbox[i].account = a /\ outbox[i].end = "none"}
  <1>1. outbox' = [i \in DOMAIN outbox |-> IF i \in S THEN [outbox[i] EXCEPT !.end = "deleted"] ELSE outbox[i]]
    BY DEF DropQueue
  <1>2. UNCHANGED <<pass, received>>
    BY DEF DropQueue
  <1> HIDE DEF S
  <1>3. outbox' \in Seq(OutboxRows) /\ PostedWasReceived'
    BY <1>1, <1>2, OtherEnds
  <1> QED
    BY <1>2, <1>3 DEF PostInv

\* Only the pass of d changes, and what it knows of an answer is true.
LEMMA PassKeeps ==
  ASSUME PostInv, NEW d \in Dispatchers, NEW p, pass' = [pass EXCEPT ![d] = p], IsPass(p),
         received \subseteq received', p.answer = "2xx" => Head(p.targets) \in received',
         outbox' \in Seq(OutboxRows), PostedWasReceived'
  PROVE  PostInv'
  BY DEF PostInv

LEMMA PassBeginsEmpty ==
  /\ IsPass(NoPass) /\ NoPass.answer # "2xx"
  /\ \A targets, budget : LET p == [targets |-> targets, answer |-> "none", budget |-> budget]
                          IN  IsPass(p) /\ p.answer # "2xx"
  BY DEF IsPass, NoPass

LEMMA DispatchKeeps ==
  ASSUME PostInv, NEW d \in Dispatchers, DispatchNotifyOutbox(d)
  PROVE  PostInv'
  <1> DEFINE posts == {i \in Batch : endpoint[outbox[i].account] # "none"}
             S == Batch \ posts
             P(left) == IF posts = {} THEN NoPass
                        ELSE [targets |-> InOrder(posts), answer |-> "none", budget |-> left]
  <1>1. outbox' = [i \in DOMAIN outbox |-> IF i \in S THEN [outbox[i] EXCEPT !.end = "unwanted"] ELSE outbox[i]]
    BY DEF DispatchNotifyOutbox
  <1>2. UNCHANGED received
    BY DEF DispatchNotifyOutbox
  <1>3. PICK left \in 0 .. SlowPosts : pass' = [pass EXCEPT ![d] = P(left)]
    BY DEF DispatchNotifyOutbox
  <1>4. IsPass(P(left)) /\ P(left).answer # "2xx"
    BY PassBeginsEmpty
  <1> HIDE DEF S, P
  <1>5. outbox' \in Seq(OutboxRows) /\ PostedWasReceived'
    BY <1>1, <1>2, OtherEnds
  <1> QED
    BY <1>2, <1>3, <1>4, <1>5, PassKeeps

LEMMA PostKeeps ==
  ASSUME PostInv, NEW d \in Dispatchers, Post(d)
  PROVE  PostInv'
  <1> DEFINE i == Head(pass[d].targets)
             P(answer, left) == [targets |-> pass[d].targets, answer |-> answer, budget |-> left]
  <1>1. PICK answer :
          /\ pass' = [pass EXCEPT ![d].answer = answer,
                                  ![d].budget = IF answer = "slow" THEN @ - 1 ELSE @]
          /\ received' = IF answer = "2xx" THEN received \cup {i} ELSE received
    BY DEF Post
  <1>2. pass[d] = P(pass[d].answer, pass[d].budget)
    BY DEF PostInv, IsPass
  <1>3. PICK left : pass' = [pass EXCEPT ![d] = P(answer, left)]
    <2> DEFINE left == IF answer = "slow" THEN pass[d].budget - 1 ELSE pass[d].budget
               f == [pass EXCEPT ![d] = P(answer, left)]
    <2>1. DOMAIN pass = Dispatchers
      BY DEF PostInv
    <2>2. pass' = [e \in Dispatchers |-> pass'[e]] /\ f = [e \in Dispatchers |-> f[e]]
      BY <1>1, <2>1
    <2>3. pass'[d] = P(answer, left)
      <3>1. pass[d] = P(pass[d].answer, pass[d].budget) /\ d \in DOMAIN pass
        BY <1>2, <2>1
      <3> QED
        BY <1>1, <3>1
    <2>4. \A e \in Dispatchers : e # d => pass'[e] = pass[e]
      BY <1>1, <2>1
    <2>5. \A e \in Dispatchers : pass'[e] = f[e]
      BY <2>1, <2>3, <2>4
    <2> QED
      BY <2>2, <2>5
  <1>4. IsPass(P(answer, left)) /\ P(answer, left).answer = answer /\ Head(P(answer, left).targets) = i
    BY DEF IsPass
  <1>5. UNCHANGED outbox /\ received \subseteq received' /\ (answer = "2xx" => i \in received')
    BY <1>1 DEF Post
  <1>6. outbox' \in Seq(OutboxRows) /\ PostedWasReceived'
    BY <1>5 DEF PostInv, PostedWasReceived
  <1> HIDE DEF P, i
  <1> QED
    BY <1>3, <1>4, <1>5, <1>6, PassKeeps

LEMMA MarkKeeps ==
  ASSUME PostInv, NEW d \in Dispatchers, MarkOutboxSent(d)
  PROVE  PostInv'
  <1> DEFINE i == Head(pass[d].targets)
             rest == Tail(pass[d].targets)
             P == IF rest = <<>> THEN NoPass
                  ELSE [pass[d] EXCEPT !.targets = rest, !.answer = "none"]
  <1>1. UNCHANGED received /\ pass' = [pass EXCEPT ![d] = P]
    BY DEF MarkOutboxSent
  <1>2. \A j \in DOMAIN outbox : outbox[j] \in OutboxRows
    BY ElementOfSeq DEF PostInv
  <1>3. IsPass(P) /\ P.answer # "2xx"
    <2>1. IsPass(pass[d])
      BY DEF PostInv
    <2> QED
      BY <2>1, PassBeginsEmpty DEF IsPass
  <1>4. outbox' \in Seq(OutboxRows) /\ PostedWasReceived'
    <2>1. CASE outbox' = outbox
      BY <1>1, <2>1 DEF PostInv, PostedWasReceived
    <2>2. CASE outbox' = [outbox EXCEPT ![i].end = "posted"] /\ pass[d].answer = "2xx"
      <3>1. i \in received
        BY <2>2 DEF PostInv
      <3>2. \A j \in DOMAIN outbox : outbox'[j] \in OutboxRows /\ (j # i => outbox'[j] = outbox[j])
        BY <1>2, <2>2 DEF OutboxRows
      <3>3. outbox' = [j \in DOMAIN outbox |-> outbox'[j]]
        BY <2>2
      <3>4. outbox' \in Seq(OutboxRows)
        BY <3>2, <3>3, SameRows DEF PostInv
      <3> QED
        BY <1>1, <2>2, <3>1, <3>2, <3>4 DEF PostInv, PostedWasReceived
    <2>3. CASE outbox' = [outbox EXCEPT ![i].attempts = After(@)]
      <3>1. \A j \in DOMAIN outbox : outbox'[j] \in OutboxRows /\ outbox'[j].end = outbox[j].end
        BY <1>2, <2>3 DEF OutboxRows, After
      <3>2. outbox' = [j \in DOMAIN outbox |-> outbox'[j]]
        BY <2>3
      <3>3. outbox' \in Seq(OutboxRows)
        BY <3>1, <3>2, SameRows DEF PostInv
      <3> QED
        BY <1>1, <2>3, <3>1, <3>3 DEF PostInv, PostedWasReceived
    <2> QED
      BY <2>1, <2>2, <2>3 DEF MarkOutboxSent, Sent
  <1> HIDE DEF P
  <1> QED
    BY <1>1, <1>3, <1>4, PassKeeps

LEMMA OutboxKeeps ==
  ASSUME PostInv, OutboxNext \/ \E a \in Recipients : DropQueue(a)
  PROVE  PostInv'
  <1>1. ASSUME NEW a \in Recipients, NotifyRegister(a) \/ NotifyDelete(a) \/ EndpointFails(a)
        PROVE  PostInv'
    <2>1. UNCHANGED <<outbox, pass, received>>
      BY <1>1 DEF NotifyRegister, NotifyDelete, EndpointFails, EndpointBecomes
    <2> QED
      BY <2>1 DEF PostInv, PostedWasReceived
  <1>2. ASSUME NEW d \in Dispatchers, PassLost(d)
        PROVE  PostInv'
    <2>1. pass' = [pass EXCEPT ![d] = NoPass] /\ UNCHANGED <<outbox, received>>
      BY <1>2 DEF PassLost
    <2>2. outbox' \in Seq(OutboxRows) /\ PostedWasReceived'
      BY <2>1 DEF PostInv, PostedWasReceived
    <2> QED
      BY <2>1, <2>2, PassBeginsEmpty, PassKeeps
  <1> QED
    BY <1>1, <1>2, InsertKeeps, DropKeeps, DispatchKeeps, PostKeeps, MarkKeeps DEF OutboxNext, PassStep

\* A signal is closed as posted only if an endpoint has answered 2xx to it, for any number of
\* accounts and passes at once, whatever endpoints do between the batch, the post and the
\* statement that writes its result, and whoever is deactivated meanwhile (notify.go: each
\* pass writes the answer of its own post).
THEOREM PostedMeansReceived == BackgroundSpec => []PostedWasReceived
  <1>1. BackgroundInit => PostInv
    <2>1. SUFFICES ASSUME BackgroundInit
                   PROVE  PostInv
      OBVIOUS
    <2>2. outbox = <<>> /\ pass = [d \in Dispatchers |-> NoPass]
      BY <2>1 DEF BackgroundInit, OutboxInit
    <2> QED
      BY <2>2, PassBeginsEmpty DEF PostInv, PostedWasReceived
  <1>2. PostInv /\ [BackgroundNext]_backgroundVars => PostInv'
    <2>1. ASSUME PostInv, UNCHANGED outboxVars
          PROVE  PostInv'
      BY <2>1 DEF outboxVars, PostInv, PostedWasReceived
    <2> QED
      BY <2>1, OutboxKeeps DEF BackgroundNext, SignalsStep, backgroundVars
  <1>3. PostInv => PostedWasReceived
    BY DEF PostInv
  <1> QED
    BY <1>1, <1>2, <1>3, PTL DEF BackgroundSpec
=============================================================================
