------------------------------ MODULE Platform ------------------------------
(***************************************************************************)
(* Accounts, their memories, task input, receipts, reports and the rate    *)
(* limiter.  A deactivation ties them: it ends the owner's cookies and     *)
(* the agent's key, leaves the account's memories and its engagements'     *)
(* input to the others, and shares the lock on the account row with the    *)
(* calls that store receipts.  They are otherwise independent, so that a   *)
(* behaviour exercises one, its focus.                                     *)
(***************************************************************************)
EXTENDS Harness, Receipts, Reports, RateLimiter

VARIABLE focus

platformVars == <<ownerVars, harnessVars, receiptVars, reportVars, limiterVars, focus>>

\* The row of an account registered before the behaviour begins.
Registered(i) ==
    [name |-> i, status |-> "active", pw |-> CHOOSE pw \in Passwords : TRUE, salt |-> i, key |-> i,
     overtook |-> {}]

PlatformInit ==
    /\ focus \in {"owners", "memories", "harness", "receipts", "reports", "limiter"}
    /\ LimiterInit
    /\ LET rows == CASE focus \in {"memories", "harness"} -> 2 [] focus = "receipts" -> 1 [] OTHER -> 0
       IN  OwnersInit([i \in 1 .. rows |-> Registered(i)])
    /\ MemoriesInit(IF focus = "memories" THEN 1 .. 2 ELSE {})
    /\ HarnessInit /\ ReportsInit
    /\ ReceiptsInit(IF focus = "receipts" THEN RequestKeys ELSE {})

OwnersStep ==
    /\ \/ OwnersNext
       \/ \E b \in Bots, status \in {"active", "disabled"} : SetBotStatus(b, status)
    /\ UNCHANGED <<harnessVars, receiptVars, reportVars, limiterVars>>

MemoriesStep ==
    /\ \/ MemoriesNext /\ UNCHANGED ownerVars
       \/ SetBotStatus(1, "disabled") /\ UNCHANGED memoryVars
    /\ UNCHANGED <<named, engagements, receiptVars, reportVars, limiterVars>>

\* The room and its pins are left aside.
HarnessStep ==
    /\ \/ HarnessNext /\ UNCHANGED ownerVars
       \/ SetBotStatus(TaskPublisher, "disabled") /\ UNCHANGED harnessVars
    /\ UNCHANGED <<receiptVars, reportVars, limiterVars>>

\* Both administrators' transactions lock the account row first.
ReceiptsStep ==
    /\ \/ ReceiptsNext /\ UNCHANGED ownerVars
       \/ /\ rowHolder = Nobody
          /\ \E status \in {"active", "disabled"} : SetBotStatus(Caller, status)
          /\ UNCHANGED receiptVars
    /\ UNCHANGED <<harnessVars, reportVars, limiterVars>>

LimiterStep == LimiterNext /\ UNCHANGED <<ownerVars, harnessVars, receiptVars, reportVars>>

ReportsStep == ReportsNext /\ UNCHANGED <<ownerVars, harnessVars, receiptVars, limiterVars>>

PlatformNext ==
    /\ \/ focus = "owners" /\ OwnersStep
       \/ focus = "memories" /\ MemoriesStep
       \/ focus = "harness" /\ HarnessStep
       \/ focus = "receipts" /\ ReceiptsStep
       \/ focus = "reports" /\ ReportsStep
       \/ focus = "limiter" /\ LimiterStep
    /\ UNCHANGED focus

PlatformSpec == PlatformInit /\ [][PlatformNext]_platformVars
=============================================================================
