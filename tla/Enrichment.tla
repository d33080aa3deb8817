------------------------------ MODULE Enrichment ------------------------------
(***************************************************************************)
(* Automatic enrichment of observables: worker/enrichment.py, called by    *)
(* ingestion/webhook.py _auto_enrich for every new alert, its Celery task, *)
(* the result cache (integrations/cache.py) and the endpoints of           *)
(* api/observables.py that write the same rows.                            *)
(*                                                                         *)
(* Three stores are shared: the observables table, the broker, and Redis   *)
(* with the in-flight claims and the cached lookups.  A webhook request    *)
(* writes its observables in the transaction of the alert, but claims and  *)
(* dispatches before that transaction commits.                             *)
(***************************************************************************)
EXTENDS Integers, FiniteSets

CONSTANTS
    Requests,    \* webhook requests that insert an alert
    Values,      \* (type, value) of an IOC
    Iocs,        \* Iocs[r]: what iter_observable_candidates yields for r
    Partners,
    PartnerOf,   \* PartnerOf[r]: tenant of r's alert
    Posts,       \* calls of POST /observables and POST /incidents/{}/observables
    PostValue,   \* PostValue[p]: the value posted
    InIncident,  \* the Posts to an incident (to one and the same)
    Edits,       \* calls of POST and DELETE /observables/{}/enrichments
    Workers,
    Sources,     \* sources of enrichment entries
    LookedUp,    \* LookedUp[v]: sources _dispatch_enrichments finds configured
    Cached,      \* sources with a cache: these, and those only playbooks use
    Consulted,   \* Consulted[v]: sources whose cache should_enrich consults
    Redis,       \* where a claim is kept: in Redis, or in an API process
    ProcOf,      \* ProcOf[r]: the process that serves r
    NoAlert, NoSource, NoMsg,
    Scenes,      \* the calls and workers of a behaviour, and the values
                 \* whose cached lookups come and go
    MaxCopies,   \* bound: deliveries of one task
    MaxSlips     \* bound: claims of a key lost or bypassed, for each value

Keys == Partners \X Values
KeyOf(r, v) == <<PartnerOf[r], v>>

\* An observable row is named by the call that inserts it.
NewRow(r, v) == [by |-> r, value |-> v]
RowIds == [by : Requests \cup Posts, value : Values]

ASSUME EnrichmentAssumption ==
    /\ Iocs \in [Requests -> SUBSET Values]
    /\ PartnerOf \in [Requests -> Partners]
    /\ PostValue \in [Posts -> Values]
    /\ InIncident \subseteq Posts
    /\ Sources \subseteq Cached
    /\ LookedUp \in [Values -> SUBSET Sources]
    /\ Consulted \in [Values -> SUBSET Cached]
    /\ Requests \cap Posts = {}
    /\ Redis \notin {ProcOf[r] : r \in Requests}
    /\ NoAlert \notin Requests
    /\ NoSource \notin Cached \cup Values
    /\ MaxCopies \in Nat /\ MaxSlips \in [Values -> Nat]
    /\ \A s \in Scenes : s \subseteq Requests \cup Posts \cup Edits \cup Workers \cup Values
    /\ IsFiniteSet(Requests) /\ IsFiniteSet(Values)

VARIABLES
    rows,     \* committed rows of the observables table
    req,      \* where a webhook request is
    post,     \* where a call that creates an observable is
    edit,     \* where a call that adds or drops an enrichment is
    wk,       \* where a worker is
    claims,   \* in-flight keys, with the place they are kept in
    fresh,    \* cached lookups that have not expired
    tasks,    \* deliveries the broker has not seen acknowledged
    copies,   \* copies[i]: deliveries of the task for row i so far
    results,  \* what the acknowledged deliveries returned
    slips,    \* slips[k]: claims of k that expired early or were bypassed
    scene     \* what this behaviour is about

vars == <<rows, req, post, edit, wk, claims, fresh, tasks, copies, results, slips, scene>>

\* entries: the sources with an entry in the list of enrichments.
Fresh == [alert |-> NoAlert, status |-> "pending", entries |-> {}]

\* snap: the columns of the row as the session has loaded them; left: sources
\* still to be looked up; cur: the one being looked up.
ColumnsOf(row) == [status |-> row.status, entries |-> row.entries]
NoColumns == [status |-> "pending", entries |-> {}]

IdleWorker == [pc |-> "idle", msg |-> NoMsg, snap |-> NoColumns, left |-> {},
               cur |-> NoSource, found |-> {}, how |-> "none"]

\* todo: values the current loop still has to go through; new: rows added to
\* the session; links: rows to be linked to the alert; skipped: new rows no
\* task was sent for; cur: the observable being scheduled; left: the sources
\* should_enrich has still to consult.
IdleRequest == [pc |-> "idle", todo |-> {}, new |-> {}, links |-> {},
                skipped |-> {}, cur |-> NoSource, left |-> {}]

Init ==
    /\ rows = [i \in {} |-> Fresh]
    /\ req = [r \in Requests |-> IdleRequest]
    /\ post = [p \in Posts |-> "idle"]
    /\ edit = [e \in Edits |-> [pc |-> "idle", row |-> NoMsg, snap |-> NoColumns,
                                source |-> NoSource]]
    /\ wk = [w \in Workers |-> IdleWorker]
    /\ claims = {} /\ fresh = {} /\ tasks = {}
    /\ copies = [i \in RowIds |-> 0]
    /\ results = {}
    /\ slips = [k \in Keys |-> 0]
    /\ scene \in Scenes

\* Rows the SELECT by (type, value) finds.
RowsOf(v) == {i \in DOMAIN rows : i.value = v}

-----------------------------------------------------------------------------
(* The webhook request: _auto_enrich, then the COMMIT of the alert.        *)

ReqUnchanged == UNCHANGED <<rows, post, edit, wk, fresh, copies, results>>

\* materialise_observables_for_alert is called for the new alert.
Begin(r) ==
    /\ req[r].pc = "idle"
    /\ req' = [req EXCEPT ![r].pc = "select", ![r].todo = Iocs[r]]
    /\ ReqUnchanged /\ UNCHANGED <<claims, tasks, slips>>

\* No row: session.add(Observable(...)), flushed later.
SelectNew(r, v) ==
    /\ req[r].pc = "select" /\ v \in req[r].todo
    /\ RowsOf(v) = {}
    /\ req' = [req EXCEPT ![r].todo = @ \ {v}, ![r].new = @ \cup {v}]
    /\ ReqUnchanged /\ UNCHANGED <<claims, tasks, slips>>

\* One row, of whichever tenant: linked to the alert if it has none.
SelectKnown(r, v) ==
    /\ req[r].pc = "select" /\ v \in req[r].todo
    /\ \E i \in RowIds :
          /\ RowsOf(v) = {i}
          /\ req' = [req EXCEPT ![r].todo = @ \ {v},
                        ![r].links = IF rows[i].alert = NoAlert THEN @ \cup {i} ELSE @]
    /\ ReqUnchanged /\ UNCHANGED <<claims, tasks, slips>>

\* Several rows: scalar_one_or_none() raises and _auto_enrich swallows it.  The
\* rows added so far stay in the session, but nothing is scheduled.
SelectMany(r, v) ==
    /\ req[r].pc = "select" /\ v \in req[r].todo
    /\ \E i, j \in RowsOf(v) : i # j
    /\ req' = [req EXCEPT ![r].pc = "commit", ![r].todo = {},
                          ![r].skipped = req[r].new]
    /\ ReqUnchanged /\ UNCHANGED <<claims, tasks, slips>>

\* flush(), and schedule_enrichment_for_alert begins its loop over the new rows.
Flush(r) ==
    /\ req[r].pc = "select" /\ req[r].todo = {}
    /\ req' = [req EXCEPT ![r].pc = "schedule", ![r].todo = req[r].new]
    /\ ReqUnchanged /\ UNCHANGED <<claims, tasks, slips>>

\* enqueue_enrichment: should_enrich has its list of configured sources.
Enqueue(r, v) ==
    /\ req[r].pc = "schedule" /\ v \in req[r].todo
    /\ req' = [req EXCEPT ![r].cur = v, ![r].left = Consulted[v],
                          ![r].pc = IF Consulted[v] = {} THEN "mark" ELSE "consult"]
    /\ ReqUnchanged /\ UNCHANGED <<claims, tasks, slips>>

\* The observable in hand is not enqueued: on to the next.
Suppress(r) ==
    [req EXCEPT ![r].pc = "schedule", ![r].todo = @ \ {req[r].cur},
                ![r].skipped = @ \cup {req[r].cur}, ![r].left = {},
                ![r].cur = NoSource]

\* cache.get(source, ...): one source without a fresh entry is enough to go on.
Consult(r, s) ==
    /\ req[r].pc = "consult" /\ s \in req[r].left
    /\ IF <<s, req[r].cur>> \in fresh
         THEN req' = IF req[r].left = {s} THEN Suppress(r)
                                          ELSE [req EXCEPT ![r].left = @ \ {s}]
         ELSE req' = [req EXCEPT ![r].pc = "mark", ![r].left = {}]
    /\ ReqUnchanged /\ UNCHANGED <<claims, tasks, slips>>

CurKey(r) == KeyOf(r, req[r].cur)

\* Mutant: the claim is set whether it is free or not (SET without NX).
MarkAlways(r) ==
    /\ req[r].pc = "mark"
    /\ claims' = claims \cup {<<Redis, CurKey(r)>>}
    /\ req' = [req EXCEPT ![r].pc = "delay"]
    /\ ReqUnchanged /\ UNCHANGED <<tasks, slips>>

\* _mark_inflight: SET key NX EX.
Mark(r) ==
    /\ req[r].pc = "mark"
    /\ IF <<Redis, CurKey(r)>> \in claims
         THEN req' = Suppress(r) /\ UNCHANGED claims
         ELSE /\ req' = [req EXCEPT ![r].pc = "delay"]
              /\ claims' = claims \cup {<<Redis, CurKey(r)>>}
    /\ ReqUnchanged /\ UNCHANGED <<tasks, slips>>

\* _mark_inflight while Redis does not answer: the process's own dictionary.
MarkInMemory(r) ==
    /\ req[r].pc = "mark"
    /\ IF <<ProcOf[r], CurKey(r)>> \in claims
         THEN req' = Suppress(r) /\ UNCHANGED <<claims, slips>>
         ELSE /\ slips[CurKey(r)] < MaxSlips[req[r].cur]
              /\ req' = [req EXCEPT ![r].pc = "delay"]
              /\ claims' = claims \cup {<<ProcOf[r], CurKey(r)>>}
              /\ slips' = [slips EXCEPT ![CurKey(r)] = @ + 1]
    /\ ReqUnchanged /\ UNCHANGED tasks

\* enrich_observable_task.delay(...): before the row is committed.
Delay(r) ==
    /\ req[r].pc = "delay"
    /\ LET i == NewRow(r, req[r].cur)
       IN /\ tasks' = tasks \cup {[row |-> i, key |-> CurKey(r), copy |-> 1]}
          /\ copies' = [copies EXCEPT ![i] = 1]
    /\ req' = [req EXCEPT ![r].pc = "schedule", ![r].todo = @ \ {req[r].cur},
                          ![r].cur = NoSource]
    /\ UNCHANGED <<rows, post, edit, wk, claims, fresh, results, slips>>

\* delay() raises.  An OSError clears the claim, in Redis and in this process;
\* any other error (kombu's OperationalError) is caught one level up only.
DelayFails(r) ==
    /\ req[r].pc = "delay"
    /\ \/ claims' = claims \ {<<Redis, CurKey(r)>>, <<ProcOf[r], CurKey(r)>>}
       \/ UNCHANGED claims
    /\ req' = Suppress(r)
    /\ ReqUnchanged /\ UNCHANGED <<tasks, slips>>

\* All observables are scheduled: back in process_webhook.
Scheduled(r) ==
    /\ req[r].pc = "schedule" /\ req[r].todo = {}
    /\ req' = [req EXCEPT ![r].pc = "commit"]
    /\ ReqUnchanged /\ UNCHANGED <<claims, tasks, slips>>

\* The request is over; what remains of it is the list of rows not scheduled.
Over(r, pc) ==
    req' = [req EXCEPT ![r] = [IdleRequest EXCEPT !.pc = pc, !.skipped = req[r].skipped]]

\* session.commit(): the new rows and the links become visible.
Commit(r) ==
    /\ req[r].pc = "commit"
    /\ rows' = [i \in DOMAIN rows \cup {NewRow(r, v) : v \in req[r].new} |->
                  IF i \in DOMAIN rows
                    THEN [rows[i] EXCEPT !.alert = IF i \in req[r].links THEN r ELSE @]
                    ELSE [Fresh EXCEPT !.alert = r]]
    /\ Over(r, "done")
    /\ UNCHANGED <<post, edit, wk, claims, fresh, tasks, copies, results, slips>>

\* The request ends early; claims and tasks stay behind.
Abort(r) ==
    /\ req[r].pc \notin {"idle", "done", "deleted", "aborted"}
    /\ Over(r, "aborted")
    /\ ReqUnchanged /\ UNCHANGED <<claims, tasks, slips>>

\* DELETE /alerts/{id}: observables.alert_id is ON DELETE SET NULL.
DeleteAlert(r) ==
    /\ req[r].pc = "done"
    /\ req' = [req EXCEPT ![r].pc = "deleted"]
    /\ rows' = [i \in DOMAIN rows |->
                  IF rows[i].alert = r THEN [rows[i] EXCEPT !.alert = NoAlert]
                                       ELSE rows[i]]
    /\ UNCHANGED <<post, edit, wk, claims, fresh, tasks, copies, results, slips>>

RequestStep(r) ==
    \/ Begin(r) \/ Flush(r) \/ Mark(r) \/ MarkInMemory(r) \/ Delay(r) \/ DelayFails(r)
    \/ Scheduled(r) \/ Commit(r) \/ Abort(r) \/ DeleteAlert(r)
    \/ \E v \in Values : SelectNew(r, v) \/ SelectKnown(r, v) \/ SelectMany(r, v)
                         \/ Enqueue(r, v)
    \/ \E s \in Cached : Consult(r, s)

-----------------------------------------------------------------------------
(* The calls of api/observables.py and api/incidents.py.                   *)

PostUnchanged == UNCHANGED <<req, edit, wk, claims, fresh, tasks, copies, results, slips>>

\* The rows the call's SELECT finds; an incident looks among its own only.
RowsFor(p) == {i \in RowsOf(PostValue[p]) : p \in InIncident => i.by \in InIncident}

\* create_observable, add_incident_observable: a row is returned, or several
\* rows raise, or there is none and one is added to the session.
PostSelect(p) ==
    /\ post[p] = "idle"
    /\ post' = [post EXCEPT ![p] = IF RowsFor(p) = {} THEN "insert" ELSE "done"]
    /\ PostUnchanged /\ UNCHANGED rows

\* commit(): no enrichment is scheduled for it.
PostCommit(p) ==
    /\ post[p] = "insert"
    /\ \E a \in {NoAlert} \cup {r \in Requests : req[r].pc = "done" /\ p \notin InIncident} :
          rows' = [i \in DOMAIN rows \cup {NewRow(p, PostValue[p])} |->
                     IF i \in DOMAIN rows THEN rows[i] ELSE [Fresh EXCEPT !.alert = a]]
    /\ post' = [post EXCEPT ![p] = "done"]
    /\ PostUnchanged

(***************************************************************************)
(* What an UPDATE leaves in a column that was loaded as old and set to     *)
(* new: the ORM writes a column only if that makes a difference to what    *)
(* was loaded.  A list that entries were added to, or removed from, always *)
(* differs from the one that was loaded, and replaces the stored one.      *)
(***************************************************************************)
Column(stored, old, new) == IF new = old THEN stored ELSE new

EditUnchanged == UNCHANGED <<req, post, wk, claims, tasks, copies, results, slips>>

\* add_enrichment and invalidate_observable_enrichment load the row.
EditLoad(e) ==
    /\ edit[e].pc = "idle"
    /\ \E i \in DOMAIN rows, s \in Sources, op \in {"add", "drop"} :
          edit' = [edit EXCEPT ![e] = [pc |-> op, row |-> i, snap |-> ColumnsOf(rows[i]),
                                       source |-> s]]
    /\ EditUnchanged /\ UNCHANGED <<rows, fresh>>

\* add_enrichment: append, status "enriched", commit().
EditAdd(e) ==
    /\ edit[e].pc = "add"
    /\ rows' = [rows EXCEPT
                  ![edit[e].row].status = Column(@, edit[e].snap.status, "enriched"),
                  ![edit[e].row].entries = edit[e].snap.entries \cup {edit[e].source}]
    /\ edit' = [edit EXCEPT ![e].pc = "done"]
    /\ EditUnchanged /\ UNCHANGED fresh

\* invalidate_observable_enrichment: first the cache ...
EditUncache(e) ==
    /\ edit[e].pc = "drop"
    /\ fresh' = fresh \ {<<edit[e].source, edit[e].row.value>>}
    /\ edit' = [edit EXCEPT ![e].pc = "dropped"]
    /\ EditUnchanged /\ UNCHANGED rows

\* ... then the stored entries of the source; without any left, "pending".
EditDrop(e) ==
    /\ edit[e].pc = "dropped"
    /\ LET old == edit[e].snap
           remaining == old.entries \ {edit[e].source}
           status == IF remaining = {} THEN "pending" ELSE old.status
       IN rows' = [rows EXCEPT
                     ![edit[e].row].status = Column(@, old.status, status),
                     ![edit[e].row].entries = Column(@, old.entries, remaining)]
    /\ edit' = [edit EXCEPT ![e].pc = "done"]
    /\ EditUnchanged /\ UNCHANGED fresh

ApiStep ==
    \/ \E p \in Posts \cap scene : PostSelect(p) \/ PostCommit(p)
    \/ \E e \in Edits \cap scene : EditLoad(e) \/ EditAdd(e) \/ EditUncache(e) \/ EditDrop(e)

-----------------------------------------------------------------------------
(* The task enrich_observable_task in a worker.                            *)

WorkUnchanged == UNCHANGED <<req, post, edit, copies, slips>>
Go(w, pc) == wk' = [wk EXCEPT ![w].pc = pc]
\* The session is closed; the claim is still to be cleared.
End(w, how) ==
    wk' = [wk EXCEPT ![w] = [IdleWorker EXCEPT !.pc = "clear", !.msg = wk[w].msg, !.how = how]]

Held(m) == \E w \in Workers : wk[w].pc # "idle" /\ wk[w].msg = m

\* The broker hands an unacknowledged delivery to a worker.
Receive(w, m) ==
    /\ wk[w].pc = "idle"
    /\ m \in tasks /\ ~ Held(m)
    /\ wk' = [wk EXCEPT ![w] = [IdleWorker EXCEPT !.pc = "get", !.msg = m]]
    /\ WorkUnchanged /\ UNCHANGED <<rows, claims, fresh, tasks, results>>

\* _run_enrichment: session.get(Observable, id).
Get(w) ==
    /\ wk[w].pc = "get"
    /\ IF wk[w].msg.row \in DOMAIN rows
         THEN wk' = [wk EXCEPT ![w].pc = "lookup", ![w].left = LookedUp[wk[w].msg.row.value],
                               ![w].snap = ColumnsOf(rows[wk[w].msg.row])]
         ELSE End(w, "missing")
    /\ WorkUnchanged /\ UNCHANGED <<rows, claims, fresh, tasks, results>>

\* _dispatch_enrichments: get_or_fetch finds a cached result ...
Hit(w, s) ==
    /\ wk[w].pc = "lookup" /\ s \in wk[w].left
    /\ <<s, wk[w].msg.row.value>> \in fresh
    /\ wk' = [wk EXCEPT ![w].left = @ \ {s}, ![w].found = @ \cup {s}]
    /\ WorkUnchanged /\ UNCHANGED <<rows, claims, fresh, tasks, results>>

\* ... or none, and asks the source.
Miss(w, s) ==
    /\ wk[w].pc = "lookup" /\ s \in wk[w].left
    /\ <<s, wk[w].msg.row.value>> \notin fresh
    /\ wk' = [wk EXCEPT ![w].pc = "fetch", ![w].left = @ \ {s}, ![w].cur = s]
    /\ WorkUnchanged /\ UNCHANGED <<rows, claims, fresh, tasks, results>>

\* The answer is stored in the cache, whatever happened to it meanwhile.
Fetched(w) ==
    /\ wk[w].pc = "fetch"
    /\ fresh' = fresh \cup {<<wk[w].cur, wk[w].msg.row.value>>}
    /\ wk' = [wk EXCEPT ![w].pc = "lookup", ![w].found = @ \cup {wk[w].cur},
                        ![w].cur = NoSource]
    /\ WorkUnchanged /\ UNCHANGED <<rows, claims, tasks, results>>

\* _lookup_with_instance returns None: the lookup failed and was logged.
LookupFails(w) ==
    /\ wk[w].pc = "fetch"
    /\ wk' = [wk EXCEPT ![w].pc = "lookup", ![w].cur = NoSource]
    /\ WorkUnchanged /\ UNCHANGED <<rows, claims, fresh, tasks, results>>

\* _lookup_with_instance returns None before any lookup: bad configuration, no
\* connection, or no lookup for this type.
SkipSource(w, s) ==
    /\ wk[w].pc = "lookup" /\ s \in wk[w].left
    /\ wk' = [wk EXCEPT ![w].left = @ \ {s}]
    /\ WorkUnchanged /\ UNCHANGED <<rows, claims, fresh, tasks, results>>

\* _dispatch_enrichments raises what _run_enrichment catches.
Raise(w) ==
    /\ wk[w].pc \in {"lookup", "fetch"}
    /\ Go(w, "fail")
    /\ WorkUnchanged /\ UNCHANGED <<rows, claims, fresh, tasks, results>>

\* Mutant: the failure is reported and not committed.
FailUncommitted(w) ==
    /\ wk[w].pc = "fail"
    /\ End(w, "failed")
    /\ WorkUnchanged /\ UNCHANGED <<rows, claims, fresh, tasks, results>>

\* enrichment_status = "failed"; commit().
Fail(w) ==
    /\ wk[w].pc = "fail"
    /\ rows' = [rows EXCEPT ![wk[w].msg.row].status =
                               Column(@, wk[w].snap.status, "failed")]
    /\ End(w, "failed")
    /\ WorkUnchanged /\ UNCHANGED <<claims, fresh, tasks, results>>

\* The loaded list extended by the new entries, "complete"; commit().
Complete(w) ==
    /\ wk[w].pc = "lookup" /\ wk[w].left = {}
    /\ rows' = [rows EXCEPT
                  ![wk[w].msg.row].status = Column(@, wk[w].snap.status, "complete"),
                  ![wk[w].msg.row].entries =
                     IF wk[w].found = {} THEN @ ELSE wk[w].snap.entries \cup wk[w].found]
    /\ End(w, "complete")
    /\ WorkUnchanged /\ UNCHANGED <<claims, fresh, tasks, results>>

\* An exception nobody expects, or a failing commit: the task swallows it and
\* leaves the row as it is.
Swallow(w) ==
    /\ wk[w].pc \in {"get", "lookup", "fetch", "fail"}
    /\ End(w, "swallowed")
    /\ WorkUnchanged /\ UNCHANGED <<rows, claims, fresh, tasks, results>>

\* _clear_inflight, which Redis may not answer.
Clear(w) ==
    /\ wk[w].pc = "clear"
    /\ \/ claims' = claims \ {<<Redis, wk[w].msg.key>>}
       \/ UNCHANGED claims
    /\ Go(w, "ack")
    /\ WorkUnchanged /\ UNCHANGED <<rows, fresh, tasks, results>>

\* The task has returned; task_acks_late acknowledges it now.
Ack(w) ==
    /\ wk[w].pc = "ack"
    /\ tasks' = tasks \ {wk[w].msg}
    /\ results' = results \cup {[row |-> wk[w].msg.row, how |-> wk[w].how]}
    /\ wk' = [wk EXCEPT ![w] = IdleWorker]
    /\ WorkUnchanged /\ UNCHANGED <<rows, claims, fresh>>

WorkerStep(w) ==
    \/ Get(w) \/ Fetched(w) \/ LookupFails(w) \/ Raise(w) \/ Fail(w) \/ Complete(w)
    \/ Swallow(w) \/ Clear(w) \/ Ack(w)
    \/ \E m \in tasks : Receive(w, m)
    \/ \E s \in Sources : Hit(w, s) \/ Miss(w, s) \/ SkipSource(w, s)

-----------------------------------------------------------------------------
(* Faults of the workers and of the broker, and the passing of time.       *)

Uncleared(m) == ~ \E w \in Workers : wk[w].pc = "ack" /\ wk[w].msg = m

\* The enrichments in progress for a key: dispatched, or about to be, and with
\* their claim not yet given back.
Live(k) == {r \in Requests : req[r].pc = "delay" /\ CurKey(r) = k}
             \cup {m \in tasks : m.key = k /\ Uncleared(m)}

NextCopy(m) == [m EXCEPT !.copy = copies[m.row] + 1]

FaultUnchanged == UNCHANGED <<rows, req, post, edit, fresh>>

\* The node dies: the delivery is given to another worker.
Crash(w) ==
    /\ wk[w].pc # "idle"
    /\ LET m == wk[w].msg
           late == wk[w].pc = "ack"
       IN /\ copies[m.row] < MaxCopies
          /\ late => slips[m.key] < MaxSlips[m.key[2]]
          /\ tasks' = (tasks \ {m}) \cup {NextCopy(m)}
          /\ copies' = [copies EXCEPT ![m.row] = @ + 1]
          /\ slips' = IF late THEN [slips EXCEPT ![m.key] = @ + 1] ELSE slips
    /\ wk' = [wk EXCEPT ![w] = IdleWorker]
    /\ FaultUnchanged /\ UNCHANGED <<claims, results>>

\* One pool process is lost: Celery acknowledges the delivery for it.
ProcessLost(w) ==
    /\ wk[w].pc # "idle"
    /\ tasks' = tasks \ {wk[w].msg}
    /\ results' = results \cup {[row |-> wk[w].msg.row, how |-> "lost"]}
    /\ wk' = [wk EXCEPT ![w] = IdleWorker]
    /\ FaultUnchanged /\ UNCHANGED <<claims, copies, slips>>

\* The visibility timeout delivers a message a second time.
Redeliver(m) ==
    /\ m \in tasks /\ Held(m)
    /\ copies[m.row] < MaxCopies /\ slips[m.key] < MaxSlips[m.key[2]]
    /\ tasks' = tasks \cup {NextCopy(m)}
    /\ copies' = [copies EXCEPT ![m.row] = @ + 1]
    /\ slips' = [slips EXCEPT ![m.key] = @ + 1]
    /\ FaultUnchanged /\ UNCHANGED <<wk, claims, results>>

\* INFLIGHT_TTL_SECONDS have passed.
ExpireClaim(c) ==
    /\ c \in claims
    /\ claims' = claims \ {c}
    /\ IF Live(c[2]) = {}
         THEN UNCHANGED slips
         ELSE /\ slips[c[2]] < MaxSlips[c[2][2]]
              /\ slips' = [slips EXCEPT ![c[2]] = @ + 1]
    /\ FaultUnchanged /\ UNCHANGED <<wk, tasks, copies, results>>

\* A cached lookup expires; a playbook's own lookup is cached.
CacheStep ==
    /\ \E s \in Cached, v \in Values \cap scene :
          \/ <<s, v>> \in fresh /\ fresh' = fresh \ {<<s, v>>}
          \/ <<s, v>> \notin fresh /\ fresh' = fresh \cup {<<s, v>>}
    /\ UNCHANGED <<rows, req, post, edit, wk, claims, tasks, copies, results, slips>>

FaultStep ==
    \/ \E w \in Workers \cap scene : Crash(w) \/ ProcessLost(w)
    \/ \E m \in tasks : Redeliver(m)
    \/ \E c \in claims : ExpireClaim(c)
    \/ CacheStep

Next ==
    /\ \/ \E r \in Requests \cap scene : RequestStep(r)
       \/ ApiStep
       \/ \E w \in Workers \cap scene : WorkerStep(w)
       \/ FaultStep
    /\ UNCHANGED scene

Spec == Init /\ [][Next]_vars

-----------------------------------------------------------------------------
\* The comment on the in-flight set: it "prevents the same observable from
\* being enriched twice while a previous task is still running".  Each
\* enrichment beyond the first has its own cause: a claim that expired under
\* a running task, one taken in memory while Redis was away, or a delivery
\* that the broker repeated.
InflightBound == \A k \in Keys : Cardinality(Live(k)) <= 1 + slips[k]

\* An observable is pending for a reason: it was never scheduled, its task is
\* still to come or under way, its task ended without an outcome, or its
\* enrichments were dropped.  No task is forgotten in any other way.
PendingExplained ==
    \A i \in DOMAIN rows : rows[i].status = "pending" =>
       \/ i.by \in Posts
       \/ i.by \in Requests /\ i.value \in req[i.by].skipped
       \/ \E m \in tasks : m.row = i
       \/ \E x \in results : x.row = i /\ x.how \in {"missing", "swallowed", "lost"}
       \/ \E e \in Edits : edit[e].row = i /\ edit[e].pc = "done"
=============================================================================
