----------------------------- MODULE RateLimiter -----------------------------
(***************************************************************************)
(* The in-memory sliding-window limiter, for one key (an address or an     *)
(* agent and an action).                                                   *)
(*                                                                         *)
(* A caller reads the clock before it takes the mutex, so its second may   *)
(* be older than that of a caller who comes after it but locks first.      *)
(* A refused agent asks a second time for the seconds to wait.             *)
(***************************************************************************)
EXTENDS Naturals, Sequences, FiniteSets

CONSTANTS
    Callers,   \* concurrent requests under the key
    Limit,     \* cfg.Limit
    Window,    \* cfg.Window, seconds
    GCWindow,  \* the window of the garbage collector, 30 days
    MaxStall,  \* seconds a request may lose between its clock and the mutex
    MaxTime    \* bound on the clock

ASSUME LimiterAssumption ==
    /\ Limit \in Nat \ {0} /\ Window \in Nat \ {0} /\ MaxTime \in Nat
    /\ GCWindow \in Nat /\ GCWindow >= Window
    /\ MaxStall \in Nat /\ MaxStall < Window

VARIABLES
    clock,     \* Unix seconds
    store,     \* stores[key]: the seconds that admitted requests had read, by the number of
               \* their admission; of the slice only its length and its least are read
    call,      \* where each caller is, and the second it read
    told,      \* what a refused caller was told: when to return, and what was admitted until then
    admitted   \* the seconds at which requests were admitted

limiterVars == <<clock, store, call, told, admitted>>

NotCalling == [step |-> "idle"]
NotTold == [at |-> MaxTime + 1, after |-> 0]

\* Mutant: a request expires one second early.
filterWindowEarly(timestamps, now, window) ==
    [i \in {i \in DOMAIN timestamps : timestamps[i] + window > now + 1} |-> timestamps[i]]

\* Mutant: a request expires one second late.
filterWindowLate(timestamps, now, window) ==
    [i \in {i \in DOMAIN timestamps : timestamps[i] + window >= now} |-> timestamps[i]]

filterWindow(timestamps, now, window) ==
    [i \in {i \in DOMAIN timestamps : timestamps[i] + window > now} |-> timestamps[i]]

Used(timestamps) == Cardinality(DOMAIN timestamps)

\* formatResult: seconds until the oldest of the admitted requests leaves the window.
RetryAfter(timestamps, now) ==
    LET oldest == CHOOSE t \in {timestamps[i] : i \in DOMAIN timestamps} :
                     \A i \in DOMAIN timestamps : t <= timestamps[i]
    IN  IF DOMAIN timestamps = {} \/ oldest + Window < now THEN 0 ELSE oldest + Window - now

\* A client that was told to wait may come back at once or later.
ReadClock(c) ==
    /\ call[c].step = "idle"
    /\ call' = [call EXCEPT ![c] = [step |-> "check", now |-> clock, waited |-> clock >= told[c].at]]
    /\ UNCHANGED <<clock, store, told, admitted>>

\* check, under the mutex.
Admit(c) ==
    LET live == filterWindow(store, call[c].now, Window)
        n == Len(admitted) + 1
    IN  /\ call[c].step = "check"
        /\ Used(live) < Limit
        /\ store' = [i \in DOMAIN live \cup {n} |-> IF i = n THEN call[c].now ELSE live[i]]
        /\ admitted' = Append(admitted, clock)
        /\ call' = [call EXCEPT ![c] = NotCalling]
        /\ told' = [told EXCEPT ![c] = NotTold]
        /\ UNCHANGED clock

Tell(c, seconds) ==
    /\ told' = [told EXCEPT ![c] = [at |-> clock + seconds, after |-> Len(admitted)]]
    /\ call' = [call EXCEPT ![c] = NotCalling]

\* The checks by address answer at once (CheckRegister, CheckOwnerLogin, CheckAdminLogin).
Refuse(c) ==
    LET live == filterWindow(store, call[c].now, Window)
    IN  /\ call[c].step = "check"
        /\ Used(live) >= Limit
        /\ store' = live
        /\ Tell(c, RetryAfter(live, call[c].now))
        /\ UNCHANGED <<clock, admitted>>

\* CheckAgent only says no; the agent's handler asks CheckAgentWithDetails next.
RefuseAgent(c) ==
    LET live == filterWindow(store, call[c].now, Window)
    IN  /\ call[c].step = "check"
        /\ Used(live) >= Limit
        /\ store' = live
        /\ call' = [call EXCEPT ![c] = [step |-> "details"]]
        /\ UNCHANGED <<clock, told, admitted>>

ReadClockAgain(c) ==
    /\ call[c].step = "details"
    /\ call' = [call EXCEPT ![c] = [step |-> "inspect", now |-> clock]]
    /\ UNCHANGED <<clock, store, told, admitted>>

\* inspect: a place may have become free meanwhile.
CheckAgentWithDetails(c) ==
    LET live == filterWindow(store, call[c].now, Window)
    IN  /\ call[c].step = "inspect"
        /\ store' = live
        /\ Tell(c, IF Used(live) < Limit THEN 0 ELSE RetryAfter(live, call[c].now))
        /\ UNCHANGED <<clock, admitted>>

\* Every five minutes.
GC ==
    /\ store' = filterWindow(store, clock, GCWindow)
    /\ UNCHANGED <<clock, call, told, admitted>>

\* No request loses more than MaxStall seconds before the mutex.
TimePasses ==
    /\ clock < MaxTime
    /\ \A c \in Callers : call[c].step \in {"check", "inspect"} => clock < call[c].now + MaxStall
    /\ clock' = clock + 1
    /\ UNCHANGED <<store, call, told, admitted>>

-----------------------------------------------------------------------------
LimiterInit ==
    /\ clock = 0 /\ store = <<>> /\ admitted = <<>>
    /\ call = [c \in Callers |-> NotCalling]
    /\ told = [c \in Callers |-> NotTold]

LimiterNext ==
    \/ \E c \in Callers :
        \/ ReadClock(c) \/ Admit(c) \/ Refuse(c)
        \/ RefuseAgent(c) \/ ReadClockAgain(c) \/ CheckAgentWithDetails(c)
    \/ GC
    \/ TimePasses

LimiterSpec == LimiterInit /\ [][LimiterNext]_limiterVars

-----------------------------------------------------------------------------
(* Properties.                                                             *)

\* However requests overtake each other between clock and mutex, no more than Limit are
\* admitted within the window, less the seconds a request may lose on the way.
WithinLimit ==
    Cardinality({i \in DOMAIN admitted : admitted[i] + Window > clock + MaxStall}) <= Limit

\* A refused caller who waits as long as it was told, with nobody admitted since, is not
\* refused again.
RetryAfterIsHonest ==
    [][\A c \in Callers :
         call[c].step = "check" /\ call'[c].step # "check" /\ call[c].waited
           => Len(admitted') > told[c].after]_limiterVars

\* The window admits no more than it promises, and refuses nobody for longer than it says.
WindowIsKept == []WithinLimit /\ RetryAfterIsHonest
=============================================================================
