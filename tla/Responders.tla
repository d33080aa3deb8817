------------------------------ MODULE Responders ------------------------------
(***************************************************************************)
(* The playbooks of playbooks/examples at work on an alert, next to the    *)
(* analysts.  A task runs its playbooks one after the other on one         *)
(* session, which each run commits at its end.  A run starts with a SELECT *)
(* of the alert: it finds the row, or, where the identity map still holds  *)
(* the alert of the run before (expire_on_commit is off, and the map lets  *)
(* go of it when the interpreter does), the attributes that run has left.  *)
(*                                                                         *)
(* The helpers of runtime.py work on that session: their SELECT finds the  *)
(* alert in its identity map and leaves the attributes as they are; their  *)
(* UPDATE is flushed at once, so that the row is locked until the end of   *)
(* the run.  The other actions open a session of their own, which reads    *)
(* the row as it is and commits at once.                                   *)
(***************************************************************************)
EXTENDS AlertApi

CONSTANTS
    Scripts,     \* the playbooks that tasks run, in order, one choice for all tasks
    Subject,     \* the alert of a task
    TaskRetries  \* max_retries of the tasks

ASSUME SubjectAssumption == Subject \in [Jobs -> Alerts]

VARIABLES
    script,      \* the playbooks of a task
    job          \* where a task is

jobVars == <<script, job>>

\* mine is the session of the task; verdict, what the language model
\* said; who, the analyst on duty; tries, retries of the current action;
\* again, retries of the task.
Queued == [pc |-> "idle", at |-> 1, mine |-> Session, verdict |-> "unknown", who |-> NoOne,
           tries |-> 0, again |-> 0]

RespondersInit == script \in Scripts /\ job = [j \in Jobs |-> Queued]

Playbook(j) == script[j][job[j].at]
Body(j, playbook) == job[j].pc = "body" /\ Playbook(j) = playbook
On(j, pc) == job[j].pc = pc /\ call[j].pc = "idle"

(***************************************************************************)
(* Locks.  An open run has inserted a row that refers to the alert, so a   *)
(* DELETE of the alert waits for its end; so does an UPDATE of the alert   *)
(* once the run has flushed one.                                           *)
(***************************************************************************)
Underway(j) == job[j].pc \notin {"idle", "finished", "failed"}
Flushed(j) == job[j].mine.want # job[j].mine.snap
Updates(s, a) == a \in DOMAIN s.want /\ s.want[a] # s.snap[a]

Waits(s) ==
    \E j \in Jobs : \/ Underway(j) /\ Subject[j] \in s.drop
                    \/ Flushed(j) /\ Updates(s, Subject[j])

\* Another run has flushed an UPDATE of the alert.
Contended(j) == \E k \in Jobs \ {j} : Flushed(k) /\ Subject[k] = Subject[j]

(***************************************************************************)
(* The run.                                                                *)
(***************************************************************************)
\* A session that has an alert and nothing to write.
Holding(loaded) == [Session EXCEPT !.snap = loaded, !.want = loaded]

\* execute: load the alert, unless the session has it, and insert the run.
StartRun(j) ==
    /\ job[j].pc = "idle" /\ Found(Subject[j])
    /\ \/ job' = [job EXCEPT ![j].pc = "body", ![j].mine = Holding([id \in {Subject[j]} |-> rows[id]])]
       \/ Subject[j] \in DOMAIN job[j].mine.snap /\ job' = [job EXCEPT ![j].pc = "body"]
    /\ UNCHANGED caseVars

\* An exception that execute does not record: Celery runs the task again,
\* from its first playbook.
TaskFails(j) ==
    /\ job' = [job EXCEPT ![j] = IF job[j].again < TaskRetries
                                 THEN [Queued EXCEPT !.again = job[j].again + 1]
                                 ELSE [job[j] EXCEPT !.pc = "failed", !.mine = Session]]
    /\ UNCHANGED caseVars

\* The alert is gone: the INSERT of the run violates its foreign key.
StartFails(j) == job[j].pc = "idle" /\ ~Found(Subject[j]) /\ TaskFails(j)

\* The commit in the finally block of execute; then the next playbook, on the
\* session as it is left.
EndRun(j) ==
    /\ job[j].pc = "end"
    /\ Apply(job[j].mine)
    /\ runs' = runs \cup {Subject[j]}
    /\ LET over == [Queued EXCEPT !.at = job[j].at, !.again = job[j].again]
       IN  job' = [job EXCEPT ![j] =
                      IF over.at < Len(script[j])
                      THEN [over EXCEPT !.at = @ + 1, !.mine = Holding(job[j].mine.want)]
                      ELSE [over EXCEPT !.pc = "finished"]]
    /\ UNCHANGED <<call, now>>

\* The body goes on to its next action, or to the end.
Proceed(j, pc) == job' = [job EXCEPT ![j].pc = pc] /\ UNCHANGED caseVars

\* An action raises after its last attempt: the run fails, and is committed.
BodyRaises(j) == job[j].pc = "body" /\ Playbook(j) # "auto_enrich_iocs" /\ Proceed(j, "end")

\* Lookups, a score and messages: nothing is written to the alert.
AutoEnrichIocs(j) == Body(j, "auto_enrich_iocs") /\ Proceed(j, "end")
TriageHighSeverity(j) == Body(j, "triage_high_severity") /\ Proceed(j, "end")

(***************************************************************************)
(* Actions on the session of the run (runtime.py).                         *)
(***************************************************************************)
\* Mutant: no activity is added.
UpdateUnsaid(j, want, log) ==
    /\ ~Contended(j)
    /\ job' = [job EXCEPT ![j].pc = "end", ![j].mine.want = [id \in {Subject[j]} |-> want]]
    /\ UNCHANGED caseVars

\* What the helpers set on the loaded alert, flushed.
Update(j, want, log) ==
    /\ ~Contended(j)
    /\ job' = [job EXCEPT ![j].pc = "end", ![j].mine.want = [id \in {Subject[j]} |-> want],
                          ![j].mine.log = log]
    /\ UNCHANGED caseVars

\* Mutant: only an alert that was new is resolved.
ResolveCurrentAlertNew(j, determination, kind) ==
    LET a == Subject[j]
        seen == job[j].mine.snap[a]
        patch == [status |-> IF seen.status = "new" THEN "resolved" ELSE seen.status,
                  determination |-> determination]
    IN  Update(j, [Set(seen, patch) EXCEPT !.stamp = ResolveStamp(seen, patch)],
               ChangeLog(a, NoRow, seen, patch, "status", "status_change")
                 \o ChangeLog(a, NoRow, seen, patch, "determination", "determination_set")
                 \o <<Entry(a, NoRow, kind, "none", determination)>>)

\* resolve_current_alert: resolved_at is kept if it is set.
ResolveCurrentAlert(j, determination, kind) ==
    LET a == Subject[j]
        seen == job[j].mine.snap[a]
        patch == [status |-> "resolved", determination |-> determination]
    IN  Update(j, [Set(seen, patch) EXCEPT !.stamp = ResolveStamp(seen, patch)],
               ChangeLog(a, NoRow, seen, patch, "status", "status_change")
                 \o ChangeLog(a, NoRow, seen, patch, "determination", "determination_set")
                 \o <<Entry(a, NoRow, kind, "none", determination)>>)

\* auto_resolve_benign.
AutoResolveBenign(j) == On(j, "resolve") /\ ResolveCurrentAlert(j, "benign", "ai_auto_resolved")

Started(row) == [row EXCEPT !.status = IF @ = "new" THEN "in_progress" ELSE @]

\* assign_current_alert: the entry says nothing of the status.
AssignCurrentAlert(j, who) ==
    Update(j, [Started(job[j].mine.snap[Subject[j]]) EXCEPT !.assigned = who],
           <<Entry(Subject[j], NoRow, "assigned", "none", "playbook")>>)

\* assign_alert: the analyst may have been deactivated since.
AssignAlert(j) == On(j, "assign") /\ (AssignCurrentAlert(j, job[j].who) \/ Proceed(j, "end"))

\* The flush waits for another run until the action times out; the session
\* cannot commit any more.
FlushTimesOut(j) == job[j].pc \in {"resolve", "assign"} /\ Contended(j) /\ TaskFails(j)

(***************************************************************************)
(* Actions with a session of their own.                                    *)
(***************************************************************************)
OwnSession(j, want, kind, said) ==
    /\ Load(j, [Session EXCEPT !.snap = [id \in {Subject[j]} |-> rows[id]],
                               !.want = [id \in {Subject[j]} |-> want],
                               !.log = <<Entry(Subject[j], NoRow, kind, "none", said)>>])
    /\ UNCHANGED job

\* Mutant: the entry does not say the verdict.
EscalatePhishingUnsaid(j) ==
    On(j, "escalate") /\ OwnSession(j, [Started(rows[Subject[j]]) EXCEPT !.determination = job[j].verdict],
                                    "ai_escalated", "none")

EscalatePhishing(j) ==
    On(j, "escalate") /\ OwnSession(j, [Started(rows[Subject[j]]) EXCEPT !.determination = job[j].verdict],
                                    "ai_escalated", job[j].verdict)

IsolateEndpoint(j) ==
    On(j, "isolate") /\ OwnSession(j, [rows[Subject[j]] EXCEPT !.status = "in_progress",
                                                              !.determination = "malicious"],
                                   "endpoint_isolated", "malicious")

LogEndpointAssessment(j) ==
    On(j, "log") /\ OwnSession(j, Started(rows[Subject[j]]), "ai_endpoint_assessment", "none")

SaveHuntReport(j) ==
    On(j, "report") /\ OwnSession(j, Started(rows[Subject[j]]), "ai_threat_hunt_report", "none")

OwnCommit(j) == ~Waits(call[j]) /\ Commit(j) /\ UNCHANGED job

ActionReturns(j) ==
    /\ call[j].pc = "done"
    /\ call' = [call EXCEPT ![j] = IdleCall]
    /\ job' = [job EXCEPT ![j].pc = "end"]
    /\ UNCHANGED <<rows, links, acts, comments, runs, now>>

\* The timeout of the action, before or after its COMMIT.  escalate_phishing
\* has one retry; a second timeout, or another action's, fails the run.
ActionTimesOut(j) ==
    /\ call[j].pc \in {"loaded", "done"}
    /\ call' = [call EXCEPT ![j] = IdleCall]
    /\ job' = [job EXCEPT ![j] = IF @.pc = "escalate" /\ @.tries = 0
                                 THEN [@ EXCEPT !.tries = 1] ELSE [@ EXCEPT !.pc = "end"]]
    /\ UNCHANGED <<rows, links, acts, comments, runs, now>>

(***************************************************************************)
(* The bodies: what the language model says decides about the action.      *)
(***************************************************************************)
\* ai_analyze_phishing: any verdict, above the threshold of the body or not;
\* "unknown" where no model is configured or the answer names no verdict.
AnalyzePhishing == [verdict : Determinations, confident : BOOLEAN]

\* ai_assess_endpoint_threat: isolate with confidence, or anything else.
AssessEndpoint == {"isolate", "log"}

AiPhishingTriage(j) ==
    /\ Body(j, "ai_phishing_triage")
    /\ \E answer \in AnalyzePhishing :
          job' = [job EXCEPT ![j].verdict = answer.verdict,
                             ![j].pc = IF answer.verdict = "benign" /\ answer.confident
                                       THEN "resolve" ELSE "escalate"]
    /\ UNCHANGED caseVars

AiEndpointContainment(j) ==
    Body(j, "ai_endpoint_containment") /\ \E pc \in AssessEndpoint : Proceed(j, pc)

\* An alert without indicators is not hunted for.
AiThreatHunt(j) ==
    Body(j, "ai_threat_hunt") /\ \E pc \in {"report", "end"} : Proceed(j, pc)

\* find_duty_analyst: the first active admin, if there is one.
EscalationWorkflow(j) ==
    /\ Body(j, "escalation_workflow")
    /\ \/ Proceed(j, "end")
       \/ /\ \E who \in Analysts : job' = [job EXCEPT ![j].pc = "assign", ![j].who = who]
          /\ UNCHANGED caseVars

JobStep(j) ==
    /\ UNCHANGED script
    /\ \/ StartRun(j) \/ StartFails(j) \/ EndRun(j) \/ BodyRaises(j)
       \/ AutoEnrichIocs(j) \/ TriageHighSeverity(j)
       \/ AiPhishingTriage(j) \/ AutoResolveBenign(j) \/ EscalatePhishing(j)
       \/ AiEndpointContainment(j) \/ IsolateEndpoint(j) \/ LogEndpointAssessment(j)
       \/ AiThreatHunt(j) \/ SaveHuntReport(j)
       \/ EscalationWorkflow(j) \/ AssignAlert(j) \/ FlushTimesOut(j)
       \/ OwnCommit(j) \/ ActionReturns(j) \/ ActionTimesOut(j)
=============================================================================
