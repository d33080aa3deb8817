------------------------------ MODULE IncidentApi ------------------------------
(***************************************************************************)
(* The handlers of api/incidents.py and api/incident_templates.py that     *)
(* write, up to the COMMIT of CaseRows, and the playbooks a template       *)
(* dispatches after it.                                                    *)
(***************************************************************************)
EXTENDS AlertApi

CONSTANTS
    IncidentPatches,  \* bodies of PATCH /incidents/{}
    Versions,         \* contents a template can be given
    Templates,        \* ids of the templates that exist from the start
    Defined           \* playbooks with a definition in the database

ASSUME IncidentPatchAssumption ==
    \A p \in IncidentPatches : DOMAIN p \subseteq {"status", "severity", "assigned"}

\* A template: its name, default severity and playbook_ids in order, a
\* sequence.  The name stands for the version.
ASSUME TemplateAssumption ==
    /\ \A v \in Versions : DOMAIN v = {"name", "severity", "playbooks"} /\ v.name # "none"
    /\ \A v \in Versions : Len(v.playbooks) \in Nat /\ DOMAIN v.playbooks = 1 .. Len(v.playbooks)
    /\ \A v, w \in Versions : v.name = w.name => v = w

VARIABLES
    templates,    \* committed rows of incident_templates
    dispatched    \* dispatched[c]: playbooks sent to the worker for incident c

incidentVars == <<templates, dispatched>>

IncidentInit ==
    /\ templates \in [Templates -> Versions]
    /\ dispatched = [c \in Calls |-> <<>>]

\* POST /incidents without a template.
CreateIncident(c) ==
    /\ \E severity \in Severities :
          Load(c, [Session EXCEPT
             !.fresh = [id \in {c} |-> NewIncident(severity, now)],
             !.log = <<Entry(NoRow, c, "incident_created", "none", "none")>>])
    /\ UNCHANGED incidentVars

\* With a template: its severity unless one is sent, and its playbooks later.
CreateFromTemplate(c, t) ==
    /\ t \in DOMAIN templates
    /\ \E severity \in Severities \cup {"none"} :
          Load(c, [Session EXCEPT
             !.fresh = [id \in {c} |->
                NewIncident(IF severity = "none" THEN templates[t].severity ELSE severity, now)],
             !.log = <<Entry(NoRow, c, "incident_created", t, templates[t].name)>>,
             !.then = templates[t].playbooks])
    /\ UNCHANGED incidentVars

\* One task per playbook_id with a definition, in order.
Tasks(playbooks) == Kept(playbooks, {n \in DOMAIN playbooks : playbooks[n] \in Defined})

\* The next of the tasks is sent, or all of them have been.
SendNext(c, tasks) ==
    LET sent == Len(dispatched[c])
    IN  /\ IF sent < Len(tasks)
           THEN dispatched' = [dispatched EXCEPT ![c] = Append(@, tasks[sent + 1])] /\ UNCHANGED call
           ELSE call' = [call EXCEPT ![c].pc = "done"] /\ UNCHANGED dispatched
        /\ UNCHANGED <<rows, links, acts, comments, runs, now, templates>>

\* Mutant: the template is loaded again for every playbook.
TriggerTemplatePlaybooksAnew(c) ==
    LET created == SelectSeq(acts, LAMBDA e : e.incident = c /\ e.kind = "incident_created")
    IN  /\ call[c].pc = "after" /\ created # <<>>
        /\ created[1].old \in DOMAIN templates
        /\ SendNext(c, Tasks(templates[created[1].old].playbooks))

\* _trigger_template_playbooks, playbook by playbook.
TriggerTemplatePlaybooks(c) == call[c].pc = "after" /\ SendNext(c, Tasks(call[c].then))

\* A playbook cannot be sent (the broker refuses, or the process dies): the
\* ones before it have been, the incident stays, and the client sees an error.
TriggerFails(c) ==
    /\ call[c].pc = "after"
    /\ call' = [call EXCEPT ![c].pc = "failed"]
    /\ UNCHANGED <<rows, links, acts, comments, runs, now, incidentVars>>

\* closed_at is set on closing and cleared by any other status.
CloseStamp(row, patch) ==
    IF "status" \notin DOMAIN patch THEN row.stamp
    ELSE IF patch.status # "closed" THEN 0
    ELSE IF row.stamp = 0 THEN now ELSE row.stamp

\* Mutant: the entry is written whenever the field is sent.
IncidentLogAlways(i, row, patch) ==
    IF "status" \in DOMAIN patch
    THEN <<Entry(NoRow, i, "status_change", row.status, patch.status)>> ELSE <<>>

\* One entry for each of status, severity and assignment that changes.
IncidentLog(i, row, patch) ==
    ChangeLog(NoRow, i, row, patch, "status", "status_change")
      \o ChangeLog(NoRow, i, row, patch, "severity", "severity_change")
      \o ChangeLog(NoRow, i, row, patch, "assigned", "assigned")

\* PATCH /incidents/{}.
UpdateIncident(c, i) ==
    /\ Found(i)
    /\ \E patch \in IncidentPatches :
          Load(c, [Session EXCEPT
             !.snap = [id \in {i} |-> rows[i]],
             !.want = [id \in {i} |->
                [Set(rows[i], patch) EXCEPT !.stamp = CloseStamp(rows[i], patch)]],
             !.log = IncidentLog(i, rows[i], patch)])
    /\ UNCHANGED incidentVars

\* POST /incidents/{}/alerts: 409 if a link exists, 500 if several do.
LinkAlert(c, i, a) ==
    /\ Found(i) /\ Found(a)
    /\ IF LinksOf(i, a) # {}
       THEN call[c].pc = "idle" /\ Refuse(c)
       ELSE Load(c, [Session EXCEPT
              !.link = {[by |-> c, incident |-> i, alert |-> a]},
              !.log = <<Entry(a, i, "alert_linked", "none", "none")>>])
    /\ UNCHANGED incidentVars

\* Mutant: the unlinking is not logged.
UnlinkAlertSilent(c, i, a) ==
    /\ Cardinality(LinksOf(i, a)) = 1
    /\ Load(c, [Session EXCEPT !.unlink = LinksOf(i, a)])
    /\ UNCHANGED incidentVars

\* DELETE /incidents/{}/alerts/{}: 404 without a link, 500 if several exist.
UnlinkAlert(c, i, a) ==
    /\ IF Cardinality(LinksOf(i, a)) = 1
       THEN Load(c, [Session EXCEPT
              !.unlink = LinksOf(i, a),
              !.log = <<Entry(a, i, "alert_unlinked", "none", "none")>>])
       ELSE call[c].pc = "idle" /\ Refuse(c)
    /\ UNCHANGED incidentVars

\* POST, PATCH and DELETE /incident-templates: a template row is replaced,
\* added or removed; nothing refers to it.
SaveTemplate(c, t) ==
    /\ call[c].pc = "idle"
    /\ \E v \in Versions :
          templates' = [u \in DOMAIN templates \cup {t} |-> IF u = t THEN v ELSE templates[u]]
    /\ call' = [call EXCEPT ![c].pc = "done"]
    /\ UNCHANGED <<rows, links, acts, comments, runs, now, dispatched>>

DeleteTemplate(c, t) ==
    /\ call[c].pc = "idle" /\ t \in DOMAIN templates
    /\ templates' = [u \in DOMAIN templates \ {t} |-> templates[u]]
    /\ call' = [call EXCEPT ![c].pc = "done"]
    /\ UNCHANGED <<rows, links, acts, comments, runs, now, dispatched>>
=============================================================================
