------------------------------- MODULE Reports -------------------------------
(***************************************************************************)
(* Reports against one task and what administrators make of them.  Filing  *)
(* a report probes and inserts in two statements and locks nothing.  A     *)
(* dismissal decides one report under its lock; a platform close decides   *)
(* all that are open, under the lock of the task; each leaves its record.  *)
(***************************************************************************)
EXTENDS Integers, Sequences, FiniteSets

CONSTANTS
    Reporters,   \* agents that may report
    Filings,     \* work_report calls served at once
    Resolvers,   \* administrators' requests served at once
    MaxReports   \* bound on reports

VARIABLES
    taskClosed,  \* the reported task
    reports,     \* tb_task_report, by id
    filing,      \* where each call is
    resolving,   \* the report whose row each request has read, 0 if none
    trail        \* the rows of the audit log about the reports and the close

reportVars == <<taskClosed, reports, filing, resolving, trail>>

\* Mutant: a report is decided whatever its state.
StillOpenUnchecked(i) == TRUE

StillOpen(i) == reports[i].status = "open"

OpenReports == {i \in DOMAIN reports : StillOpen(i)}

\* FindOpenReportByReporterTask: a report still open is the answer.
FileProbe(f, a) ==
    /\ filing[f].step = "idle"
    /\ filing' = [filing EXCEPT ![f] =
           IF \E i \in OpenReports : reports[i].by = a
           THEN [step |-> "idle"] ELSE [step |-> "insert", by |-> a]]
    /\ UNCHANGED <<taskClosed, reports, resolving, trail>>

InsertTaskReport(f) ==
    /\ filing[f].step = "insert"
    /\ Len(reports) < MaxReports
    /\ reports' = Append(reports, [by |-> filing[f].by, status |-> "open"])
    /\ filing' = [filing EXCEPT ![f] = [step |-> "idle"]]
    /\ UNCHANGED <<taskClosed, resolving, trail>>

\* ResolveReport: the row is found, without a lock.
ResolveRead(v, i) ==
    /\ resolving[v] = 0
    /\ resolving' = [resolving EXCEPT ![v] = i]
    /\ UNCHANGED <<taskClosed, reports, filing, trail>>

Resolved(v) == resolving' = [resolving EXCEPT ![v] = 0]

\* "dismiss": the row is locked and must be open, and the audit row commits with it.
Dismiss(v) ==
    LET i == resolving[v]
    IN  /\ i # 0
        /\ StillOpen(i)
        /\ reports' = [reports EXCEPT ![i].status = "dismissed"]
        /\ trail' = Append(trail, [about |-> i, to |-> "dismissed", moved |-> 1])
        /\ Resolved(v)
        /\ UNCHANGED <<taskClosed, filing>>

\* Mutant: the close actions every report of the task.
ActionEveryReport ==
    [i \in DOMAIN reports |-> [reports[i] EXCEPT !.status = "actioned"]]

ActionOpenReports ==
    [i \in DOMAIN reports |->
        IF i \in OpenReports THEN [reports[i] EXCEPT !.status = "actioned"] ELSE reports[i]]

\* platformClose, by itself (0) or out of a report, whose state it does not look at: the
\* row about the report says "open" to "actioned" whatever it was.
PlatformClose(i) ==
    /\ ~taskClosed
    /\ taskClosed' = TRUE
    /\ reports' = ActionOpenReports
    /\ trail' = trail \o <<[about |-> 0, to |-> "closed", moved |-> Cardinality(OpenReports)]>>
                      \o IF i = 0 THEN <<>> ELSE <<[about |-> i, to |-> "actioned", moved |-> 1]>>
    /\ UNCHANGED filing

\* "close".
ResolveByClose(v) ==
    /\ resolving[v] # 0
    /\ PlatformClose(resolving[v])
    /\ Resolved(v)

\* The report was decided, or the task closed, meanwhile: INVALID_STATE.
ResolveRefused(v) ==
    /\ resolving[v] # 0
    /\ ~StillOpen(resolving[v]) \/ taskClosed
    /\ Resolved(v)
    /\ UNCHANGED <<taskClosed, reports, filing, trail>>

ReportsInit ==
    /\ taskClosed = FALSE /\ reports = <<>> /\ trail = <<>>
    /\ filing = [f \in Filings |-> [step |-> "idle"]]
    /\ resolving = [v \in Resolvers |-> 0]

ReportsNext ==
    \/ \E f \in Filings : (\E a \in Reporters : FileProbe(f, a)) \/ InsertTaskReport(f)
    \/ \E v \in Resolvers :
        \/ \E i \in DOMAIN reports : ResolveRead(v, i)
        \/ Dismiss(v) \/ ResolveByClose(v) \/ ResolveRefused(v)
    \/ PlatformClose(0) /\ UNCHANGED resolving

-----------------------------------------------------------------------------
(* Properties.                                                             *)

\* Where the log says of a report that it was dismissed.
Dismissals(i) == {j \in DOMAIN trail : trail[j].about = i /\ trail[j].to = "dismissed"}

\* Row j, next to a close's, is about report i, which the close decided or an earlier row
\* had told to be dismissed.
CameBy(j, i) ==
    /\ i \in DOMAIN reports
    /\ reports[i].status = "actioned" \/ \E h \in Dismissals(i) : h < j
    /\ j - 1 \in DOMAIN trail /\ trail[j - 1].to = "closed"

\* Administrators who read the same report decide it once between them, and the audit log
\* tells it (task_governance.go: "in one transaction with its audit row"): one dismissal
\* for each report dismissed, none for another; a close that moved as many as stand
\* actioned; and next to a close out of a report that this one was actioned, which is so
\* unless the report had been dismissed by then, as a row before it in the log tells.
TrailAgreesWithReports ==
    /\ \A i \in DOMAIN reports :
         Cardinality(Dismissals(i)) = IF reports[i].status = "dismissed" THEN 1 ELSE 0
    /\ \A j \in DOMAIN trail :
         /\ trail[j].to = "closed" =>
              trail[j].moved = Cardinality({i \in DOMAIN reports : reports[i].status = "actioned"})
         /\ trail[j].to = "actioned" => CameBy(j, trail[j].about)

\* A decision on a report is never taken back, by a later close of its task included.
DecidedForGood == \A i \in DOMAIN reports : ~StillOpen(i) => reports'[i] = reports[i]

\* Reports are decided once, for good, and every step that decides one leaves the audit log
\* telling it, and of another at most what the log itself has contradicted before (nothing is reported and nothing logged at first).
DecisionsStand == [][DecidedForGood /\ TrailAgreesWithReports']_reportVars
=============================================================================
