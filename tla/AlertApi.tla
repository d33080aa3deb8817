------------------------------- MODULE AlertApi -------------------------------
(***************************************************************************)
(* The handlers of api/alerts.py that write: update, claim, bulk, delete,  *)
(* and creating or linking an incident from an alert.  Each is the step    *)
(* up to the COMMIT of CaseRows.                                           *)
(***************************************************************************)
EXTENDS CaseRows

CONSTANTS
    Patches,     \* bodies of PATCH /alerts/{}: functions on some of the fields
    Bulks        \* bodies of POST /alerts/bulk

\* What is None in a request or an entry is "none" here.
BulkBodies == [action : {"resolve", "assign", "change_severity", "other"}, ids : SUBSET Alerts,
               determination : Determinations \cup {"none"}, severity : Severities \cup {"none"}]

ASSUME BodiesAssumption ==
    /\ Bulks \subseteq BulkBodies
    /\ \A p \in Patches : /\ DOMAIN p \subseteq {"status", "determination", "severity", "assigned"}
                          /\ "status" \in DOMAIN p => p.status \in Statuses

\* The loaded object after setattr(alert, field, value) for every field sent.
Set(row, patch) == [f \in DOMAIN row |-> IF f \in DOMAIN patch THEN patch[f] ELSE row[f]]

\* Mutant: only the determination sent with the request is looked at.
MayResolveSent(row, determination) == determination \notin {"unknown"}

\* Resolving requires a determination other than "unknown", sent or loaded.
MayResolve(row, determination) ==
    (IF determination = "none" THEN row.determination ELSE determination) # "unknown"

Sent(patch, f) == IF f \in DOMAIN patch THEN patch[f] ELSE "none"

\* resolved_at is set when an alert is first resolved, and kept afterwards.
ResolveStamp(row, patch) ==
    IF Sent(patch, "status") = "resolved" /\ row.stamp = 0 THEN now ELSE row.stamp

\* One entry per logged field whose new value is not the loaded one.
ChangeLog(alert, incident, row, patch, f, kind) ==
    IF f \in DOMAIN patch /\ patch[f] # row[f]
    THEN <<Entry(alert, incident, kind, row[f], patch[f])>> ELSE <<>>

\* PATCH /alerts/{}.
UpdateAlert(c, a) ==
    /\ Found(a)
    /\ \E patch \in Patches :
          LET row == rows[a]
              want == [Set(row, patch) EXCEPT !.stamp = ResolveStamp(row, patch)]
              assigned == IF Sent(patch, "assigned") \in Analysts
                          THEN <<Entry(a, NoRow, "assigned", "none", "none")>> ELSE <<>>
          IN  IF Sent(patch, "status") = "resolved" /\ ~MayResolve(row, Sent(patch, "determination"))
              THEN call[c].pc = "idle" /\ Refuse(c)
              ELSE Load(c, [Session EXCEPT
                     !.snap = [id \in {a} |-> row], !.want = [id \in {a} |-> want],
                     !.log = assigned
                        \o ChangeLog(a, NoRow, row, patch, "status", "status_change")
                        \o ChangeLog(a, NoRow, row, patch, "determination", "determination_set")
                        \o ChangeLog(a, NoRow, row, patch, "severity", "severity_change")])

\* POST /alerts/{}/claim.
ClaimAlert(c, a) ==
    /\ Found(a)
    /\ \E who \in Analysts :
          LET row == rows[a]
              taken == [row EXCEPT !.assigned = who]
              claimed == Entry(a, NoRow, "claimed", "none", "none")
          IN  IF row.status = "new"
              THEN Load(c, [Session EXCEPT
                     !.snap = [id \in {a} |-> row],
                     !.want = [id \in {a} |-> [taken EXCEPT !.status = "in_progress"]],
                     !.log = <<claimed, Entry(a, NoRow, "status_change", "new", "in_progress")>>])
              ELSE Load(c, [Session EXCEPT
                     !.snap = [id \in {a} |-> row], !.want = [id \in {a} |-> taken],
                     !.log = <<claimed>>])

\* Which of the loaded alerts the loop of a bulk call changes.
BulkAccepts(body, row) ==
    CASE body.action = "resolve" -> row.status # "resolved" /\ MayResolve(row, body.determination)
      [] body.action = "assign" -> TRUE
      [] body.action = "change_severity" -> body.severity # "none"
      [] OTHER -> FALSE

\* What the loop sets on it.  Resolving renews resolved_at.
BulkSet(body, row, who) ==
    CASE body.action = "resolve" ->
           [row EXCEPT !.status = "resolved", !.stamp = now,
                       !.determination = IF body.determination = "none" THEN @ ELSE body.determination]
      [] body.action = "assign" ->
           [row EXCEPT !.assigned = who, !.status = IF @ = "new" THEN "in_progress" ELSE @]
      [] OTHER -> [row EXCEPT !.severity = body.severity]

\* The one entry it adds: bulk assign has none about the status.
BulkEntry(body, a, row) ==
    CASE body.action = "resolve" -> Entry(a, NoRow, "status_change", row.status, "resolved")
      [] body.action = "assign" -> Entry(a, NoRow, "claimed", "none", "none")
      [] OTHER -> Entry(a, NoRow, "severity_change", row.severity, body.severity)

SeqOf(S) == CHOOSE s \in [1 .. Cardinality(S) -> S] : {s[i] : i \in DOMAIN s} = S

\* POST /alerts/bulk: one SELECT, one loop, one COMMIT for all alerts.
BulkUpdate(c) ==
    \E body \in Bulks, who \in Analysts :
       LET ids == {a \in body.ids : Found(a) /\ BulkAccepts(body, rows[a])}
           todo == SeqOf(ids)
       IN  Load(c, [Session EXCEPT
              !.snap = [a \in ids |-> rows[a]],
              !.want = [a \in ids |-> BulkSet(body, rows[a], who)],
              !.log = [i \in DOMAIN todo |-> BulkEntry(body, todo[i], rows[todo[i]])]])

\* DELETE /alerts/{}.
DeleteAlert(c, a) == Found(a) /\ Load(c, [Session EXCEPT !.drop = {a}])

LinksOf(i, a) == {l \in links : l.incident = i /\ l.alert = a}

\* POST /alerts/{}/incidents with a title: a new incident, linked at once.
CreateIncidentFor(c, a) ==
    /\ Found(a)
    /\ \E severity \in Severities :
          Load(c, [Session EXCEPT
             !.fresh = [id \in {c} |-> NewIncident(severity, now)],
             !.link = {[by |-> c, incident |-> c, alert |-> a]},
             !.log = <<Entry(NoRow, c, "incident_created", "none", "none"),
                       Entry(a, c, "incident_linked", "none", "none")>>])

\* The same with an incident_id: 409 if a link exists, and 500 if two do.
LinkIncidentFor(c, a, i) ==
    /\ Found(a) /\ Found(i)
    /\ IF LinksOf(i, a) # {}
       THEN call[c].pc = "idle" /\ Refuse(c)
       ELSE Load(c, [Session EXCEPT
              !.link = {[by |-> c, incident |-> i, alert |-> a]},
              !.log = <<Entry(a, i, "incident_linked", "none", "none")>>])
=============================================================================
