------------------------------- MODULE CaseRows -------------------------------
(***************************************************************************)
(* The tables behind the analysts' work: alerts, incidents, the links      *)
(* between them, their activities and comments, and what a SQLAlchemy      *)
(* session does to them.                                                   *)
(*                                                                         *)
(* Every handler of api/alerts.py and api/incidents.py has one shape:      *)
(* SELECT what it needs, check, set attributes on the loaded objects, add  *)
(* rows, COMMIT.  The SELECT and the COMMIT are two steps, with any number *)
(* of other calls in between (READ COMMITTED, no version column), and the  *)
(* COMMIT writes the attributes whose value differs from the loaded one,   *)
(* and only those.                                                         *)
(***************************************************************************)
EXTENDS Integers, Sequences, FiniteSets

CONSTANTS
    Alerts,        \* ids of alerts
    Incidents,     \* ids of the incidents that exist from the start
    Calls,         \* calls of the alert and incident endpoints
    Writers,       \* calls of the comment endpoints
    Jobs,          \* tasks that run playbooks for an alert
    Analysts,
    NoOne,         \* assigned_to = None
    NoRow          \* alert_id or incident_id = None

\* An incident created by call c has the id c, a link and a comment too.
RowIds == Alerts \cup Incidents \cup Calls

\* Keys are UUIDs: no two rows have the same, and none is None.
ASSUME IdAssumption ==
    /\ Alerts \cap Incidents = {} /\ (Alerts \cup Incidents \cup Jobs) \cap Calls = {}
    /\ NoRow \notin RowIds
    /\ IsFiniteSet(Alerts)

VARIABLES
    rows,      \* committed alerts and incidents
    links,     \* committed rows of incident_alerts
    acts,      \* committed activities other than comments, in commit order
    comments,  \* committed activities with action "comment", by their writer
    runs,      \* alerts some row of playbook_runs refers to
    call,      \* where a call of the alert and incident endpoints is, and the
               \* session that an action of a playbook opens for itself
    now        \* the day

caseVars == <<rows, links, acts, comments, runs, call, now>>

(***************************************************************************)
(* A row of alerts or incidents.  stamp is resolved_at of an alert and     *)
(* closed_at of an incident; a date that is NULL is 0.                     *)
(***************************************************************************)
Statuses == {"new", "in_progress", "resolved", "open", "closed"}
Determinations == {"unknown", "malicious", "benign"}
Severities == {"medium", "high"}

NewAlert == [status |-> "new", determination |-> "unknown", severity |-> "medium",
             assigned |-> NoOne, stamp |-> 0, archived |-> 0, created |-> 1]

NewIncident(severity, day) ==
    [status |-> "open", determination |-> "unknown", severity |-> severity,
     assigned |-> NoOne, stamp |-> 0, archived |-> 0, created |-> day]

\* An entry of the activity stream; old and new are in metadata_json.
Entry(alert, incident, kind, old, new) ==
    [alert |-> alert, incident |-> incident, kind |-> kind, old |-> old,
     new |-> new, at |-> 0, archived |-> 0]

Refers(e) == {e.alert, e.incident} \ {NoRow}

(***************************************************************************)
(* The session of a call: snap, the columns as they were loaded; want, as  *)
(* the handler has set them; fresh, rows to insert; log, activities to     *)
(* insert; link and unlink, links to insert and delete; drop, alerts to    *)
(* delete; then, what is left to do after the COMMIT.                      *)
(***************************************************************************)
Nothing == [id \in {} |-> NewAlert]

Session == [pc |-> "loaded", snap |-> Nothing, want |-> Nothing, fresh |-> Nothing,
            log |-> <<>>, link |-> {}, unlink |-> {}, drop |-> {}, then |-> <<>>]

IdleCall == [Session EXCEPT !.pc = "idle"]

Found(id) == id \in DOMAIN rows

\* SELECT one row: 404 if there is none.  Nothing was written so far.
Refuse(c) ==
    /\ call' = [call EXCEPT ![c].pc = "refused"]
    /\ UNCHANGED <<rows, links, acts, comments, runs, now>>

\* The handler has run up to its COMMIT.
Load(c, session) ==
    /\ call[c].pc = "idle"
    /\ call' = [call EXCEPT ![c] = session]
    /\ UNCHANGED <<rows, links, acts, comments, runs, now>>

\* Mutant: the UPDATE writes every column of the loaded object.
MergeAll(cur, snap, want) ==
    IF want = snap THEN cur ELSE [want EXCEPT !.archived = cur.archived]

\* The columns of an UPDATE: those whose value is not the loaded one.
Merge(cur, snap, want) ==
    [f \in DOMAIN cur |-> IF want[f] # snap[f] THEN want[f] ELSE cur[f]]

\* An UPDATE that finds no row raises StaleDataError.
Stale(s) == \E id \in DOMAIN s.want : s.want[id] # s.snap[id] /\ ~Found(id)

\* A new activity or link must refer to rows that exist.
Dangling(s) ==
    LET present == DOMAIN rows \cup DOMAIN s.fresh
    IN  \/ \E i \in DOMAIN s.log : ~(Refers(s.log[i]) \subseteq present)
        \/ \E l \in s.link : ~({l.incident, l.alert} \subseteq present)

\* playbook_runs.alert_id has no ON DELETE: the DELETE of the alert fails.
Blocked(ids) == ids \cap runs # {}

\* Mutant: deleting an alert takes its runs along.
CommitFailsUnblocked(s) == Stale(s) \/ Dangling(s)

CommitFails(s) == Stale(s) \/ Dangling(s) \/ Blocked(s.drop)

\* The elements of s at the positions in keep, in their order.
Kept(s, keep) ==
    [k \in 1 .. Cardinality(keep) |->
       s[CHOOSE n \in keep : Cardinality({m \in keep : m <= n}) = k]]

\* ON DELETE CASCADE of incident_alerts and activities.
LinksWithout(ls, gone) == {l \in ls : {l.incident, l.alert} \cap gone = {}}
ActsWithout(es, gone) == Kept(es, {n \in DOMAIN es : Refers(es[n]) \cap gone = {}})
CommentsWithout(gone) ==
    [w \in {v \in DOMAIN comments : comments[v].on \notin gone} |-> comments[w]]

Stamped(log) == [i \in DOMAIN log |-> [log[i] EXCEPT !.at = now]]

\* What a COMMIT does: UPDATEs, INSERTs and DELETEs of the session in one
\* transaction.  A DELETE that finds no row is only warned about.
Apply(s) ==
    /\ rows' = [id \in (DOMAIN rows \ s.drop) \cup DOMAIN s.fresh |->
                   IF id \in DOMAIN s.fresh THEN s.fresh[id]
                   ELSE IF id \in DOMAIN s.want
                        THEN Merge(rows[id], s.snap[id], s.want[id])
                        ELSE rows[id]]
    /\ links' = LinksWithout((links \cup s.link) \ s.unlink, s.drop)
    /\ acts' = ActsWithout(acts \o Stamped(s.log), s.drop)
    /\ comments' = CommentsWithout(s.drop)

Commit(c) ==
    LET s == call[c]
    IN  /\ s.pc = "loaded" /\ ~CommitFails(s)
        /\ Apply(s)
        /\ call' = [call EXCEPT ![c] = [Session EXCEPT
                       !.pc = IF s.then = <<>> THEN "done" ELSE "after",
                       !.then = s.then]]
        /\ UNCHANGED <<runs, now>>

\* The transaction is rolled back and the call answers 500.
Rollback(c) ==
    /\ call[c].pc = "loaded" /\ CommitFails(call[c])
    /\ call' = [call EXCEPT ![c] = [Session EXCEPT !.pc = "failed"]]
    /\ UNCHANGED <<rows, links, acts, comments, runs, now>>

\* A worker commits a playbook run for an alert.
RunInserted(a) ==
    /\ a \in DOMAIN rows \ runs
    /\ runs' = runs \cup {a}
    /\ UNCHANGED <<rows, links, acts, comments, call, now>>

CaseInit ==
    /\ rows = [id \in Alerts \cup Incidents |->
                 IF id \in Alerts THEN NewAlert ELSE NewIncident("medium", 1)]
    /\ links = {} /\ acts = <<>> /\ runs = {}
    /\ comments = [w \in {} |-> NoRow]
    /\ call = [c \in Calls \cup Jobs |-> IdleCall]
    /\ now = 1
=============================================================================
