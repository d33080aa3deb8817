----------------------------- MODULE TriggerMatch -----------------------------
(***************************************************************************)
(* Which playbooks an alert triggers, in which order, and on which queue   *)
(* their task is sent: core/triggers.py TriggerEngine.match,               *)
(* core/registry.py get_playbooks_for_trigger, and worker/routing.py with  *)
(* the delay() of worker/tasks.py.  All of it runs without an await, in    *)
(* the API process; every iteration of a loop is one step here, so that    *)
(* what a loop computes is an invariant.                                   *)
(*                                                                         *)
(* PlaybookMeta.enabled is not represented: the @playbook decorator never  *)
(* sets it, so it is True for every registered playbook.                   *)
(***************************************************************************)
EXTENDS Integers, Sequences

CONSTANTS
    Playbooks,   \* playbook names, as integers in their lexical order
    Sources,     \* alert sources
    AlertOf,     \* AlertOf[s]: the trigger type f"{s}.alert"
    Webhook,     \* the trigger type "webhook" (a source may have this name)
    Metas,       \* what @playbook may declare
    Payloads     \* normalised alerts: field name -> value

\* A field of an alert or of a condition: a list, or a scalar.
IsValue(v) == v.list \in BOOLEAN /\ (v.list \/ \E x \in v.items : v.items = {x})

ASSUME MatchAssumption ==
    /\ Playbooks \subseteq Int
    /\ \A m \in Metas : /\ m.order \in Int
                        /\ m.priority \in {"high", "default", "low"}
                        /\ \A k \in DOMAIN m.conditions : IsValue(m.conditions[k])
    /\ \A d \in Payloads : \A k \in DOMAIN d : IsValue(d[k])

VARIABLES
    registry,  \* _PLAYBOOK_REGISTRY: the playbooks loaded, with their metas
    source,    \* source of the alert
    data,      \* alert.normalized
    pc,
    i,         \* position in trigger_types
    visited,   \* playbooks of trigger_types[i] the inner loop has been through
    matches,   \* the list match() builds
    seen,      \* the names in it
    j,         \* position of highest_priority_queue in that list
    best,      \* the most urgent queue so far
    queue      \* queues a task was sent to

vars == <<registry, source, data, pc, i, visited, matches, seen, j, best, queue>>
input == <<registry, source, data>>

Queues == {"high", "default", "low"}
Rank(q) == CASE q = "high" -> 0 [] q = "default" -> 1 [] q = "low" -> 2

\* trigger_types: the source itself may be "webhook", and is then in it twice.
Types == <<source, AlertOf[source], Webhook>>

\* _condition_value_matches.
ValueMatches(expected, actual) ==
    \/ actual.list /\ expected.list /\ \E x \in actual.items : x \in expected.items
    \/ actual.list /\ ~ expected.list /\ expected.items \subseteq actual.items
    \/ ~ actual.list /\ expected.list /\ actual.items \subseteq expected.items
    \/ ~ actual.list /\ ~ expected.list /\ actual.items = expected.items

\* _conditions_match: a field the alert lacks (None) matches nothing.
ConditionsMatch(conditions) ==
    \A k \in DOMAIN conditions :
       k \in DOMAIN data /\ ValueMatches(conditions[k], data[k])

\* get_playbooks_for_trigger, before it is sorted ...
Candidates(type) ==
    {p \in DOMAIN registry : /\ registry[p].trigger = type
                             /\ ConditionsMatch(registry[p].conditions)}

\* ... by (order, name).
Before(p, q) ==
    \/ registry[p].order < registry[q].order
    \/ registry[p].order = registry[q].order /\ p < q

Init ==
    /\ registry \in UNION {[S -> Metas] : S \in SUBSET Playbooks}
    /\ source \in Sources
    /\ data \in Payloads
    /\ pc = "start"
    /\ i = 1 /\ visited = {}
    /\ matches = <<>> /\ seen = {}
    /\ j = 1 /\ best = "default"
    /\ queue = {}

\* match() is called for an alert.
Match ==
    /\ pc = "start"
    /\ pc' = "match"
    /\ UNCHANGED <<input, i, visited, matches, seen, j, best, queue>>

\* The next playbook in sorted order.
IsNext(p) ==
    /\ p \in Candidates(Types[i]) \ visited
    /\ \A q \in Candidates(Types[i]) \ visited : q = p \/ Before(p, q)

\* Mutant: the check of seen is missing.
VisitAgain(p) ==
    /\ pc = "match" /\ i <= 3
    /\ IsNext(p)
    /\ visited' = visited \cup {p}
    /\ matches' = Append(matches, p)
    /\ seen' = seen \cup {p}
    /\ UNCHANGED <<input, pc, i, j, best, queue>>

\* for pb in get_playbooks_for_trigger(...): append it unless it is seen.
Visit(p) ==
    /\ pc = "match" /\ i <= 3
    /\ IsNext(p)
    /\ visited' = visited \cup {p}
    /\ IF p \in seen
         THEN UNCHANGED <<matches, seen>>
         ELSE matches' = Append(matches, p) /\ seen' = seen \cup {p}
    /\ UNCHANGED <<input, pc, i, j, best, queue>>

\* for trigger_type in trigger_types.
NextType ==
    /\ pc = "match" /\ i <= 3
    /\ Candidates(Types[i]) \subseteq visited
    /\ i' = i + 1
    /\ visited' = {}
    /\ UNCHANGED <<input, pc, matches, seen, j, best, queue>>

\* if matches: execute_playbook_sequence_task.delay(names, alert_id).
Delay ==
    /\ pc = "match" /\ i > 3
    /\ pc' = IF matches = <<>> THEN "done" ELSE "route"
    /\ UNCHANGED <<input, i, visited, matches, seen, j, best, queue>>

\* queue_for_playbook: the declared priority is the name of a queue; a playbook
\* this process has not loaded goes to "default".
QueueFor(p) == IF p \in DOMAIN registry THEN registry[p].priority ELSE "default"

\* Mutant: the last playbook of the list decides.
RouteLast ==
    /\ pc = "route" /\ j <= Len(matches)
    /\ best' = QueueFor(matches[j])
    /\ j' = j + 1
    /\ UNCHANGED <<input, pc, i, visited, matches, seen, queue>>

\* highest_priority_queue: keep the queue with the lower rank.
Route ==
    /\ pc = "route" /\ j <= Len(matches)
    /\ best' = IF Rank(QueueFor(matches[j])) < Rank(best)
                 THEN QueueFor(matches[j]) ELSE best
    /\ j' = j + 1
    /\ UNCHANGED <<input, pc, i, visited, matches, seen, queue>>

\* apply_async(queue=...).
Send ==
    /\ pc = "route" /\ j > Len(matches)
    /\ queue' = {best}
    /\ pc' = "done"
    /\ UNCHANGED <<input, i, visited, matches, seen, j, best>>

\* execute_playbook_task.delay(name, alert_id) of a manual run, or of an
\* incident template, which may name a playbook that is not loaded.
SendOne(p) ==
    /\ pc = "start"
    /\ queue' = {QueueFor(p)}
    /\ pc' = "manual"
    /\ UNCHANGED <<input, i, visited, matches, seen, j, best>>

Next ==
    \/ Match
    \/ \E p \in Playbooks : Visit(p) \/ SendOne(p)
    \/ NextType
    \/ Delay
    \/ Route
    \/ Send

Spec == Init /\ [][Next]_vars

-----------------------------------------------------------------------------
(* What match() and highest_priority_queue() promise.                      *)

Listed == {matches[n] : n \in 1 .. Len(matches)}

\* overview.md: "different condition keys are combined with logical AND", a
\* scalar matches "by exact equality", lists "match on overlap".
Overlap(p) ==
    \A k \in DOMAIN registry[p].conditions :
       k \in DOMAIN data /\ registry[p].conditions[k].items \cap data[k].items # {}

\* The playbooks an alert is meant to trigger.
Triggered ==
    {p \in DOMAIN registry : /\ \E n \in 1 .. 3 : registry[p].trigger = Types[n]
                             /\ Overlap(p)}

Matched == pc \in {"route", "done"}

\* The sequence dispatched for an alert has every playbook that it triggers,
\* no other, and each exactly once, although "webhook" can be two of the three
\* trigger types.
MatchExact ==
    Matched => /\ Listed = Triggered
               /\ \A m, n \in 1 .. Len(matches) : m # n => matches[m] # matches[n]

\* _PRIORITY_RANK: "the most urgent wins so nothing lingers behind a
\* low-priority peer in the same batch": a sequence never waits in a queue that
\* is less urgent than the queue of any of its playbooks.
NothingLingers ==
    pc = "done" =>
       \A p \in Listed : \A q \in queue : Rank(q) <= Rank(registry[p].priority)

-----------------------------------------------------------------------------
(* What a document says, and the code does only within a trigger type:     *)
(* violated in the run execution_order.                                    *)

\* docs/docs/playbooks/overview.md: "When multiple playbooks match the same
\* alert, OpenSOAR executes them in ascending order".
AscendingOrder ==
    Matched => \A m, n \in 1 .. Len(matches) :
       m < n => registry[matches[m]].order <= registry[matches[n]].order

-----------------------------------------------------------------------------
(* The loop invariants.                                                    *)

TypeOK ==
    /\ DOMAIN registry \subseteq Playbooks
    /\ \A p \in DOMAIN registry : registry[p] \in Metas
    /\ source \in Sources
    /\ data \in Payloads
    /\ pc \in {"start", "match", "route", "done", "manual"}
    /\ i \in 1 .. 4
    /\ visited \subseteq Playbooks
    /\ matches \in Seq(DOMAIN registry)
    /\ seen \subseteq Playbooks
    /\ j \in Nat \ {0}
    /\ best \in Queues
    /\ queue \subseteq Queues

\* The outer loop: what is listed comes from the trigger types gone through,
\* and from the part of the current one that the inner loop has visited.
OuterLoop ==
    /\ seen = Listed
    /\ \A p \in DOMAIN registry :
          p \in seen <=> p \in visited \/ \E n \in 1 .. i - 1 : p \in Candidates(Types[n])
    /\ Matched => i = 4

\* The inner loop goes through the candidates in their order.
InnerLoop ==
    /\ i = 4 => visited = {}
    /\ i < 4 => /\ visited \subseteq Candidates(Types[i])
                /\ \A p \in visited, q \in Candidates(Types[i]) \ visited : Before(p, q)

\* No name is listed twice.
NoRepeats ==
    \A m, n \in 1 .. Len(matches) : m # n => matches[m] # matches[n]

\* The first of trigger_types that is p's trigger.
TypeRank(p) ==
    IF registry[p].trigger = Types[1] THEN 1
    ELSE IF registry[p].trigger = Types[2] THEN 2 ELSE 3

\* A sequence is sorted by trigger type first, then by order and name.
ByTypeThenOrder ==
    \A m, n \in 1 .. Len(matches) : m < n =>
       \/ TypeRank(matches[m]) < TypeRank(matches[n])
       \/ /\ TypeRank(matches[m]) = TypeRank(matches[n])
          /\ Before(matches[m], matches[n])

\* The routing loop: best is "high" once a high playbook was met.
RouteLoop ==
    /\ j <= Len(matches) + 1
    /\ best = IF \E n \in 1 .. j - 1 : registry[matches[n]].priority = "high"
                THEN "high" ELSE "default"
    /\ pc \in {"start", "match", "manual"} => j = 1
    /\ pc = "done" /\ matches # <<>> => j = Len(matches) + 1 /\ queue = {best}

\* The inductive invariant of the two loops.
IInv == TypeOK /\ OuterLoop /\ InnerLoop /\ NoRepeats /\ ByTypeThenOrder /\ RouteLoop
=============================================================================
