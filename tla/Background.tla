----------------------------- MODULE Background -----------------------------
(***************************************************************************)
(* What runs behind the requests: the process with its workers, and the    *)
(* queue its recovery worker serves.  The worker looks at the queue only   *)
(* in a pass, and the queue does not touch the life of the process, so     *)
(* that a behaviour exercises one of them, its focus.                      *)
(***************************************************************************)
EXTENDS Outbox, Process

VARIABLE focus

backgroundVars == <<outboxVars, processVars, focus>>

BackgroundInit == focus \in {"signals", "process"} /\ OutboxInit /\ ProcessInit

\* An account is deactivated at any time.
SignalsStep ==
    /\ OutboxNext \/ \E a \in Recipients : DropQueue(a)
    /\ UNCHANGED processVars

BackgroundNext ==
    /\ \/ focus = "signals" /\ SignalsStep
       \/ focus = "process" /\ ProcessNext /\ UNCHANGED outboxVars
    /\ UNCHANGED focus

\* Workers, passes and requests are scheduled; out of focus there is nothing to schedule.
BackgroundSpec ==
    BackgroundInit /\ [][BackgroundNext]_backgroundVars /\ ProcessFairness /\ OutboxFairness
=============================================================================
