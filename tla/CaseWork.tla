------------------------------- MODULE CaseWork -------------------------------
(***************************************************************************)
(* Analysts at work: concurrent calls of the alert, incident, template and *)
(* comment endpoints, playbook runs that refer to the alerts, and the      *)
(* retention purge, on the tables of CaseRows.                             *)
(***************************************************************************)
EXTENDS IncidentApi, Comments, Retention, Responders

CONSTANT Desks    \* which kinds of work go on at the same time

Kinds == {"alert", "claim", "bulk", "delete", "link", "incident", "template", "talk", "run", "respond", "purge"}

\* The locks of an open run are not modelled against the purge.
ASSUME DeskAssumption == \A d \in Desks : d \subseteq Kinds /\ ~({"respond", "purge"} \subseteq d)

VARIABLE desk     \* the kinds of work of this behaviour

vars == <<caseVars, incidentVars, talkVars, purgeVars, jobVars, desk>>

Init ==
    /\ CaseInit /\ IncidentInit /\ TalkInit /\ PurgeInit /\ RespondersInit
    /\ desk \in Desks
    /\ "respond" \notin desk => script = CHOOSE s \in Scripts : TRUE    \* nothing runs

(***************************************************************************)
(* Requests.                                                               *)
(***************************************************************************)
AlertRequest(c) ==
    /\ \/ "alert" \in desk /\ \E a \in Alerts : UpdateAlert(c, a)
       \/ "claim" \in desk /\ \E a \in Alerts : ClaimAlert(c, a)
       \/ "bulk" \in desk /\ BulkUpdate(c)
       \/ "delete" \in desk /\ \E a \in Alerts : DeleteAlert(c, a)
       \/ "link" \in desk /\ \E a \in Alerts :
             CreateIncidentFor(c, a) \/ \E i \in Incidents \cup Calls : LinkIncidentFor(c, a, i)
    /\ UNCHANGED <<incidentVars, talkVars, purgeVars, jobVars, desk>>

IncidentRequest(c) ==
    /\ \/ "incident" \in desk /\ (CreateIncident(c) \/ \E i \in Incidents \cup Calls : UpdateIncident(c, i))
       \/ "link" \in desk /\ \E i \in Incidents \cup Calls, a \in Alerts :
             LinkAlert(c, i, a) \/ UnlinkAlert(c, i, a)
       \/ "template" \in desk /\ \E t \in Templates :
             CreateFromTemplate(c, t) \/ SaveTemplate(c, t) \/ DeleteTemplate(c, t)
    /\ UNCHANGED <<talkVars, purgeVars, jobVars, desk>>

EndRequest(c) ==
    /\ \/ ~Waits(call[c]) /\ (Commit(c) \/ Rollback(c)) /\ UNCHANGED incidentVars
       \/ TriggerTemplatePlaybooks(c) \/ TriggerFails(c)
    /\ UNCHANGED <<talkVars, purgeVars, jobVars, desk>>

Talk ==
    /\ "talk" \in desk
    /\ (\E w \in Writers : WriterStep(w)) \/ (\E u \in Analysts : SetActive(u))
    /\ UNCHANGED <<incidentVars, purgeVars, jobVars, desk>>

Purge == "purge" \in desk /\ PurgeStep /\ UNCHANGED <<incidentVars, talkVars, jobVars, desk>>

RunOf == "run" \in desk /\ (\E a \in Alerts : RunInserted(a))
         /\ UNCHANGED <<incidentVars, talkVars, purgeVars, jobVars, desk>>

Respond == "respond" \in desk /\ (\E j \in Jobs : JobStep(j))
           /\ UNCHANGED <<incidentVars, talkVars, purgeVars, desk>>

Next ==
    \/ \E c \in Calls : AlertRequest(c) \/ IncidentRequest(c) \/ EndRequest(c)
    \/ Talk \/ Purge \/ RunOf \/ Respond

Spec == Init /\ [][Next]_vars

(***************************************************************************)
(* Properties.                                                             *)
(***************************************************************************)
\* Positions of the entries of one kind about an alert or an incident.
Told(id, kinds) ==
    {n \in DOMAIN acts : acts[n].kind \in kinds /\ acts[n][IF id \in Alerts THEN "alert" ELSE "incident"] = id}

Latest(S) == CHOOSE n \in S : \A m \in S : m <= n

\* Entries that come with "in_progress" and do not say so: bulk assign, and
\* the actions of playbooks that write the alert themselves.
Quiet(n) ==
    \/ acts[n].kind \in {"claimed", "ai_escalated", "endpoint_isolated", "ai_endpoint_assessment",
                         "ai_threat_hunt_report"}
    \/ acts[n].kind = "assigned" /\ acts[n].new = "playbook"

\* The status of an alert is the one its trail ends with, whatever calls and
\* runs overlapped: update_alert, claim_alert, bulk resolve and
\* resolve_current_alert write the status exactly when they log it.  The
\* exceptions only ever turn it into "in_progress", and leave their own entry.
\* (Entries of some age are deleted where the purge runs.)
AlertTrail ==
    "purge" \notin desk => \A a \in Alerts \cap DOMAIN rows :
        LET said == Told(a, {"status_change"})
            end == IF said = {} THEN 0 ELSE Latest(said)
        IN  \/ rows[a].status = IF said = {} THEN "new" ELSE acts[end].new
            \/ rows[a].status = "in_progress" /\ \E n \in DOMAIN acts : n > end /\ acts[n].alert = a /\ Quiet(n)

\* update_alert and the helpers of playbooks refuse to resolve an alert whose
\* determination is unknown, but check the row as they have loaded it.  A
\* resolved alert of unknown determination is still one that somebody has set
\* back to unknown, or that a triage escalated without a verdict.
ResolvedDetermined ==
    "purge" \notin desk => \A a \in Alerts \cap DOMAIN rows :
        rows[a].status = "resolved" /\ rows[a].determination = "unknown"
          => \E n \in Told(a, {"determination_set", "ai_escalated"}) : acts[n].new = "unknown"

\* The trail of an incident ends with its status, severity and assignee,
\* whatever updates overlapped (update_incident).
IncidentTrail ==
    \A i \in (DOMAIN rows) \ Alerts :
        \A fk \in {<<"status", "status_change">>, <<"severity", "severity_change">>,
                   <<"assigned", "assigned">>} :
            LET said == Told(i, {fk[2]})
            IN  said # {} => rows[i][fk[1]] = acts[Latest(said)].new

\* Links of an alert and an incident against the entries of both endpoints
\* that create one and of the one that deletes it: no link appears or
\* vanishes without an entry, even when two calls link or unlink the pair at
\* once; a link is counted as often as it was linked, less the unlinkings.
\* (Entries of some age are deleted where the purge runs.)
LinksAccounted ==
    "purge" \notin desk => \A i \in Incidents \cup Calls, a \in Alerts :
        LET count(kinds) == Cardinality(Told(a, kinds) \cap Told(i, kinds))
            linked == count({"incident_linked", "alert_linked"})
        IN  /\ Cardinality(LinksOf(i, a)) <= linked
            /\ Cardinality(LinksOf(i, a)) >= linked - count({"alert_unlinked"})

\* The playbooks sent for an incident are the first ones of the version of
\* the template it was created from, and all of them once the call is done,
\* though the template is changed or deleted between the SELECT, the COMMIT
\* and any of the dispatches, one of which may fail (create_incident,
\* _trigger_template_playbooks).
TemplateConsistent ==
    \A c \in Calls : \A n \in Told(c, {"incident_created"}) : \A v \in Versions : acts[n].new = v.name =>
        LET tasks == Tasks(v.playbooks)
            sent == dispatched[c]
        IN  /\ Len(sent) <= Len(tasks) /\ \A k \in 1 .. Len(sent) : sent[k] = tasks[k]
            /\ call[c].pc = "done" => Len(sent) = Len(tasks)

\* However often and by how many calls at once a comment is edited, the text
\* it was posted with is the first entry of its history (edit_comment).  Of two
\* edits that overlap, one may lose the text of the other.
OriginalTextKept ==
    \A w \in DOMAIN comments : comments[w].text # comments[w].first
        => comments[w].history # <<>> /\ comments[w].history[1] = comments[w].first

\* Everyone a committed comment mentions has been notified, or is still to
\* be by the call that added the mention, or was left out by its death.
MentionsNotified ==
    \A v \in DOMAIN comments : \A u \in comments[v].mentions :
        \/ <<v, u>> \in notified
        \/ \E w \in Writers : /\ talk[w].pc \in {"notify", "died"}
                              /\ talk[w].target = v /\ u \in talk[w].left

\* Days until something is Older than a number of days.
Wait(days) == IF days = 0 THEN 0 ELSE days + 1

\* The purge removes no alert and no incident before its retention and the
\* grace period have passed since its creation, in whatever order purges by
\* hand, the task and its retries come.
NotPurgedYoung ==
    [][\A id \in DOMAIN rows \ DOMAIN rows' :
          call' = call => now >= rows[id].created + Wait(Days(id)) + Wait(GraceDays)]_vars

\* With a grace period, one alert that a playbook ran for stops the purge for
\* good: a purge that the foreign key has refused never succeeds again, through
\* retries, later days, purges by hand, reopened alerts and deletions through
\* the API.
BlockedForGood == [][GraceDays # 0 /\ last = "blocked" => last' # "ok"]_vars

\* A run that resolves its alert leaves it resolved, whatever analysts did to
\* it meanwhile; unless it was resolved already when the run loaded it, or in
\* the object that the playbook before it left in the session: then
\* resolve_current_alert writes no status, and a reopening stands.
ResolutionLands ==
    [][\A j \in Jobs :
          LET s == job[j].mine
              a == Subject[j]
          IN  /\ job[j].pc = "end" /\ job'[j].pc # "end"
              /\ \E n \in DOMAIN s.log : s.log[n].kind = "ai_auto_resolved"
              => rows'[a].status = "resolved" \/ s.snap[a].status = "resolved"]_vars
=============================================================================
