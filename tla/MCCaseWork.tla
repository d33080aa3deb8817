------------------------------ MODULE MCCaseWork ------------------------------
(***************************************************************************)
(* Instances of CaseWork for TLC: the bodies of the requests, two versions *)
(* of a template and two texts.                                            *)
(***************************************************************************)
EXTENDS CaseWork, TLC

CONSTANTS ann, bob, a1, a2, i1, c1, c2, c3, w1, w2, w3, t1, p1, p2, plain, at, j1, j2

\* One field, and two fields, of a request body.
One(f, v) == [g \in {f} |-> v]
Two(f, v, g, u) == [h \in {f, g} |-> IF h = f THEN v ELSE u]

AlertBodies ==
    {One("status", "resolved"), Two("status", "resolved", "determination", "malicious"),
     One("status", "in_progress"), One("determination", "unknown"),
     One("determination", "malicious"), One("assigned", ann)}

BulkWith(action, determination, severity) ==
    [action |-> action, ids |-> Alerts, determination |-> determination, severity |-> severity]

BulkRequests ==
    {BulkWith("resolve", "none", "none"), BulkWith("resolve", "malicious", "none"), BulkWith("assign", "none", "none"),
     BulkWith("change_severity", "none", "high"), BulkWith("change_severity", "none", "none"), BulkWith("other", "none", "none")}

\* Resolving and reopening only.
StatusBodies == {Two("status", "resolved", "determination", "malicious"), One("status", "in_progress")}
BulkResolve == {BulkWith("resolve", "malicious", "none")}
ClosingBodies == {One("status", "closed"), One("status", "open")}

IncidentBodies ==
    {One("status", "closed"), One("status", "open"), Two("status", "closed", "severity", "high"),
     One("assigned", ann), One("assigned", NoOne)}

OldVersion == [name |-> "old", severity |-> "high", playbooks |-> <<p1, p2>>]
NewVersion == [name |-> "new", severity |-> "medium", playbooks |-> <<p1>>]
OneVersion == {OldVersion}
TwoVersions == {OldVersion, NewVersion}

Mentions == [t \in Texts |-> IF t = at THEN {ann} ELSE {}]

\* Calls on one alert; calls that link it; calls on an incident; calls that
\* use a template; comments.
CaseDesks == {{"alert", "claim", "bulk"}, {"bulk", "delete"}, {"alert", "claim", "delete"}, {"link"}, {"link", "delete"},
              {"incident"}, {"incident", "link"}, {"template"}, {"talk"}}

\* The purge, next to calls on alerts and runs of playbooks, to calls on
\* incidents, and to comments; comments on what is deleted.
PurgeDesks == {{"alert", "bulk", "purge"}, {"alert", "delete", "run", "purge"},
               {"incident", "purge"}, {"talk", "purge"}, {"talk", "delete"}}

\* Two tasks for one alert (a repeated delivery): playbooks that write it on
\* the session of the run, afresh or after another playbook, on a session of
\* their own, or not at all.
Pair(x, y) == [j \in Jobs |-> IF j = j1 THEN x ELSE y]
ResponseScripts ==
    {Pair(<<"auto_enrich_iocs", "ai_phishing_triage">>, <<"escalation_workflow">>),
     Pair(<<"ai_phishing_triage">>, <<"ai_endpoint_containment">>),
     Pair(<<"ai_threat_hunt">>, <<"triage_high_severity">>)}
ResponseSubject == [j \in Jobs |-> a1]
LifeDesks == PurgeDesks \cup {{"alert", "respond"}, {"delete", "respond"}}

CallSymmetry == Permutations(Calls) \cup Permutations(Writers)
=============================================================================
