------------------------------- MODULE Retention -------------------------------
(***************************************************************************)
(* The retention purge (retention/service.py), run by Celery beat once a   *)
(* day with two retries (worker/retention.py) and by an admin at any time  *)
(* (api/admin_retention.py).  Time is counted in days.                     *)
(***************************************************************************)
EXTENDS CaseRows

CONSTANTS
    AlertDays, IncidentDays, ActivityDays, GraceDays,  \* settings, in days
    PurgeRetries,                                      \* max_retries of the task
    MaxDay                                             \* bound: the last day

ASSUME RetentionAssumption ==
    /\ {AlertDays, IncidentDays, ActivityDays, GraceDays} \subseteq Nat
    /\ {PurgeRetries, MaxDay} \subseteq Nat

VARIABLES
    due,      \* the task of beat is waiting to run
    tries,    \* its failed attempts
    last,     \* how the last purge ended
    audit     \* the day of the newest audit row

purgeVars == <<due, tries, last, audit>>

PurgeInit == due = FALSE /\ tries = 0 /\ last = "none" /\ audit = 0

Days(id) == IF id \in Alerts THEN AlertDays ELSE IncidentDays

\* at lies before the cutoff of so many days.  With none of them the cutoff is
\* the time of its own statement, which is later than any stamp.
Older(at, days) == at < now - days \/ days = 0

\* Resolved or closed, and older than the retention since its stamp, or since
\* its creation where there is none.
Expired(id) ==
    LET row == rows[id]
    IN  /\ row.archived = 0
        /\ row.status \in {"resolved", "closed"}
        /\ Older(IF row.stamp # 0 THEN row.stamp ELSE row.created, Days(id))

\* Mutant: the grace period is not waited for.
PastGraceAtOnce(x) == x.archived # 0 /\ x.archived < now

PastGrace(x) == x.archived # 0 /\ Older(x.archived, GraceDays)

Archive(x) == [x EXCEPT !.archived = now]

\* What the soft deletes make of a row, and of an entry or a comment.
Swept(id) == IF Expired(id) THEN Archive(rows[id]) ELSE rows[id]
SweptEntry(e) ==
    IF e.archived = 0 /\ Older(e.at, ActivityDays) THEN Archive(e) ELSE e

\* Rows the two DELETE statements remove, those included that this purge has
\* archived if there is no grace period.
Overdue == {id \in DOMAIN rows : PastGrace(Swept(id))}

\* run_retention_purge(dry_run=False): soft deletes, hard deletes, audit row,
\* one COMMIT.  Both statements on activities leave the audit rows out.
PurgeCommits ==
    LET gone == Overdue
        rest == ActsWithout(acts, gone)
        kept == Kept(rest, {n \in DOMAIN rest : ~PastGrace(SweptEntry(rest[n]))})
        quiet == {w \in DOMAIN CommentsWithout(gone) : ~PastGrace(SweptEntry(comments[w]))}
    IN  /\ ~Blocked(gone)
        /\ rows' = [id \in DOMAIN rows \ gone |-> Swept(id)]
        /\ links' = LinksWithout(links, gone)
        /\ acts' = [i \in DOMAIN kept |-> SweptEntry(kept[i])]
        /\ audit' = now
        /\ comments' = [w \in quiet |-> SweptEntry(comments[w])]
        /\ UNCHANGED <<runs, call, now>>

\* One alert past its grace period has a run: the foreign key refuses the
\* DELETE and the whole transaction is rolled back.
PurgeBlocked == Blocked(Overdue) /\ UNCHANGED <<caseVars, audit>>

\* The task succeeds.
TaskPurges ==
    /\ due /\ PurgeCommits
    /\ due' = FALSE /\ tries' = 0 /\ last' = "ok"

\* The task raises, because of the foreign key or of the database: it is
\* retried, and given up for the day after the last retry.
TaskRaises ==
    /\ due
    /\ \/ PurgeBlocked /\ last' = "blocked"
       \/ UNCHANGED <<caseVars, audit>> /\ last' = "error"
    /\ IF tries < PurgeRetries
       THEN tries' = tries + 1 /\ UNCHANGED due
       ELSE tries' = 0 /\ due' = FALSE

\* POST /admin/retention/purge?dry_run=false.
AdminPurges ==
    /\ \/ PurgeCommits /\ last' = "ok"
       \/ PurgeBlocked /\ last' = "blocked"
    /\ UNCHANGED <<due, tries>>

\* A day passes; beat sends the task at 03:15.
NextDay ==
    /\ now < MaxDay
    /\ now' = now + 1 /\ due' = TRUE
    /\ UNCHANGED <<rows, links, acts, comments, runs, call, tries, last, audit>>

PurgeStep == TaskPurges \/ TaskRaises \/ AdminPurges \/ NextDay
=============================================================================
