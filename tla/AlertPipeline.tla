---------------------------- MODULE AlertPipeline ----------------------------
(***************************************************************************)
(* From a webhook to the committed run rows of the playbooks it triggers:  *)
(* the API process (AlertIngest) and the playbook workers (PlaybookWorker) *)
(* meet in the alerts table and in the broker (SoarState).  This module    *)
(* adds the API operations that touch both sides: deleting an alert, and   *)
(* running one playbook by hand or from an incident template.              *)
(***************************************************************************)
EXTENDS AlertIngest, PlaybookWorker

vars == <<storeVars, req, workerVars>>

Init == StoreInit /\ IngestInit /\ WorkerInit

\* Deliveries whose run row is flushed and not yet committed: the foreign key
\* check holds a key-share lock on the alert they reference.
OpenRun(w) == wk[w].pc \in {"body", "commit"}

\* DELETE /alerts/{id}.  A flushed UPDATE of the row or an open run row makes
\* the statement wait; a committed run row makes the commit fail, since
\* playbook_runs.alert_id has no ON DELETE rule, and nothing changes.
DeleteAlert(a) ==
    /\ a \in alerts
    /\ ~ Locked(a)
    /\ ~ \E w \in Workers : OpenRun(w) /\ wk[w].msg.alert = a
    /\ ~ \E x \in runs : x.seq.alert = a
    /\ alerts' = alerts \ {a}
    /\ UNCHANGED <<dup, queue, copies, req, workerVars>>

\* POST /playbooks/{id}/run: the playbook has a definition row and is loaded
\* in the API process; the alert, when one is named, exists.
ManualRun(m) ==
    /\ copies[m] = 0
    /\ Names[m][1] \in defs \cap ApiRegistry
    /\ \E a \in alerts \cup {NoAlert} : Publish(m, a)
    /\ UNCHANGED <<alerts, dup, req, workerVars>>

\* POST /incidents from a template: each of its playbooks that has a
\* definition row is dispatched without an alert, loaded here or not.
TemplateRun(m) ==
    /\ copies[m] = 0
    /\ Names[m][1] \in defs
    /\ Publish(m, NoAlert)
    /\ UNCHANGED <<alerts, dup, req, workerVars>>

Next ==
    \/ \E r \in Requests : RequestStep(r) /\ UNCHANGED workerVars
    \/ \E w \in Workers : (WorkerStep(w) \/ FaultStep(w)) /\ UNCHANGED req
    \/ \E a \in Requests : DeleteAlert(a)
    \/ \E m \in Manuals : ManualRun(m) \/ TemplateRun(m)

Spec == Init /\ [][Next]_vars

(***************************************************************************)
(* The event loop runs every request to its end, and a worker keeps        *)
(* working on the message it holds and takes the next one when it is idle. *)
(* Nothing makes a fault, a deletion, a manual run or an abort happen.     *)
(***************************************************************************)
Fairness ==
    /\ \A r \in Requests : WF_vars(RequestStep(r) /\ UNCHANGED workerVars)
    /\ \A w \in Workers : WF_vars(WorkerStep(w) /\ UNCHANGED req)

FairSpec == Spec /\ Fairness

TypeOK == StoreTypeOK /\ IngestTypeOK /\ WorkerTypeOK

-----------------------------------------------------------------------------
(* Executions of a sequence.                                               *)

\* Playbook i of delivery m has its run row committed.
Committed(m, i) == \E x \in runs : x.seq = m /\ x.pos = i

\* Whatever fails, is retried, crashes or is delivered twice: the committed
\* runs of one delivery (one sequence_id) are one run for each of the first
\* n matched playbooks, in the order they were dispatched in.
SequencePrefix ==
    \A x \in runs :
       /\ x.pos <= Len(Names[x.seq.task])
       /\ x.name = Names[x.seq.task][x.pos]
       /\ \A i \in 1 .. x.pos - 1 : Committed(x.seq, i)
       /\ \A y \in runs : y.seq = x.seq /\ y.pos = x.pos => y = x

\* A committed run never outlives its alert: the foreign key, the order of
\* flush and commit in the executor and DELETE /alerts together keep every
\* run row's alert in place, although the task is dispatched before the
\* alert is committed and although alerts can be deleted.
RunsKeepTheirAlert ==
    \A x \in runs : x.seq.alert # NoAlert => x.seq.alert \in alerts

\* The executor reads the alert before it inserts the run, and a dispatch
\* precedes the commit of the alert: a playbook may run without its alert.
\* Only the delivery that inserted the alert can come too early like that;
\* a run by hand or for a repeated delivery always has the alert it names.
UnseenOnlyAtArrival ==
    \A x \in runs : x.seq.alert # NoAlert /\ ~x.saw => x.seq.task = x.seq.alert

\* An acknowledged message that settles its task: every playbook of it has a
\* committed run, or the retries are used up, or the process was lost.
Final(x) ==
    \/ x.how = "returned" /\ \A i \in 1 .. Len(Names[x.msg.task]) :
                                 Committed(x.msg, i)
    \/ x.how = "failed" /\ x.msg.retries = MaxRetries
    \/ x.how = "lost"

\* No dispatched task vanishes: late acknowledgement and publish-then-ack of
\* a retry leave it, at any moment, with a live message or a final result.
TaskAccounted ==
    \A t \in Tasks : copies[t] > 0 =>
       \/ \E m \in queue : m.task = t
       \/ \E w \in Workers : Busy(w) /\ wk[w].msg.task = t
       \/ \E x \in results : x.msg.task = t /\ Final(x)

\* A second committed run of the same playbook for the same task always has
\* its cause on record: another delivery ended in a retry, or a fault.
RepeatsExplained ==
    \A x, y \in runs :
       (x # y /\ x.seq.task = y.seq.task /\ x.pos = y.pos) =>
          \/ faults > 0
          \/ \E z \in results : z.msg.task = x.seq.task /\ z.how = "retried"
          \/ \E w \in Workers : wk[w].pc = "ack" /\ wk[w].how = "retried"
                                /\ wk[w].msg.task = x.seq.task

\* A dispatched task comes to rest: in the end no message of it is left,
\* whatever faults occurred.
TasksSettle ==
    \A t \in Tasks :
       copies[t] > 0 ~> ~ \E m \in queue \cup
                             {wk[w].msg : w \in {v \in Workers : Busy(v)}} :
                                m.task = t

-----------------------------------------------------------------------------
(* Deduplication.                                                          *)

\* Two requests were never in progress at the same time, from the SELECT of the
\* earlier one to its COMMIT.
Separate(r, q) == q \notin req[r].beside /\ r \notin req[q].beside

\* process_webhook looks for an alert with the key before it inserts one: two
\* alerts of one key were inserted by deliveries that overlapped, whatever was
\* merged, deleted or rolled back between them.
TwinsOverlapped ==
    \A a, b \in alerts :
       KeyOf[a] = KeyOf[b] /\ KeyOf[a] # NoKey /\ Separate(a, b) => a = b

\* The deliveries committed on alert a, its own among them.
MergedInto(a) == {r \in Requests : req[r].pc = "done" /\ req[r].target = a}

\* "existing.duplicate_count += 1" writes the count that was read plus one: the
\* count never exceeds the deliveries committed on the alert, and it is exact
\* unless two of them overlapped; requests that failed leave no trace in it.
DuplicatesCounted ==
    \A a \in alerts :
       /\ dup[a] \in 1 .. Cardinality(MergedInto(a))
       /\ (\A r, q \in MergedInto(a) : Separate(r, q)) =>
             dup[a] = Cardinality(MergedInto(a))

-----------------------------------------------------------------------------
(* What a comment and a test say, and the code does not do in every        *)
(* interleaving: violated in the run dedup_race.                           *)

\* webhook.py: "check if an alert with the same source + source_id exists":
\* there is one alert for every (source, source_id).
OneAlertPerKey ==
    \A a, b \in alerts : KeyOf[a] = KeyOf[b] /\ KeyOf[a] # NoKey => a = b

-----------------------------------------------------------------------------
(***************************************************************************)
(* The inductive strengthening of SequencePrefix, RunsKeepTheirAlert and   *)
(* TaskAccounted.  A delivery is active from its receipt until its task    *)
(* has returned or raised; a delivery that is only waiting to be           *)
(* acknowledged commits no more runs.                                      *)
(***************************************************************************)
Active(w) == wk[w].pc \notin {"idle", "ack"}

SameChain(m, n) == m.task = n.task /\ m.copy = n.copy

\* A busy worker holds a message; no message is from a copy still to come.
MessagesKnown ==
    /\ \A w \in Workers : Busy(w) => /\ wk[w].msg \in Message
                                     /\ wk[w].msg.copy <= copies[wk[w].msg.task]
    /\ \A m \in queue : m.copy <= copies[m.task]
    /\ \A x \in runs : x.seq.copy <= copies[x.seq.task]

\* Until a request has dispatched its task the broker knows none of it.
Undispatched ==
    \A r \in Requests :
       req[r].pc \in {"idle", "insert", "update", "flushed"} => copies[r] = 0

\* Of one copy of a task at most one message is queued or being executed.
OneActiveDelivery ==
    /\ \A m, n \in queue : SameChain(m, n) => m = n
    /\ \A w \in Workers : Active(w) =>
          /\ \A m \in queue : ~ SameChain(m, wk[w].msg)
          /\ \A v \in Workers \ {w} : Active(v) => ~ SameChain(wk[v].msg, wk[w].msg)

\* Runs of the same copy come from deliveries before the queued one, and
\* from positions before the one being executed.
RunsBehind ==
    /\ \A m \in queue : \A x \in runs :
          SameChain(x.seq, m) => x.seq.retries < m.retries
    /\ \A w \in Workers : Active(w) =>
          \A x \in runs : SameChain(x.seq, wk[w].msg) =>
             /\ x.seq.retries <= wk[w].msg.retries
             /\ x.seq = wk[w].msg => x.pos < wk[w].pos

\* What an executing delivery has behind it, and what its next step relies on.
Progress ==
    \A w \in Workers :
       /\ Active(w) => \A i \in 1 .. wk[w].pos - 1 : Committed(wk[w].msg, i)
       /\ wk[w].pc \in {"sync", "upsert"} => wk[w].pos = 1
       /\ wk[w].pc \in {"insert", "body", "commit"} =>
             wk[w].pos <= Len(PlaybooksOf(w))
       /\ OpenRun(w) => wk[w].msg.alert \in alerts \cup {NoAlert}
       /\ wk[w].pc = "ack" /\ wk[w].how = "returned" =>
             \A i \in 1 .. Len(PlaybooksOf(w)) : Committed(wk[w].msg, i)
       /\ wk[w].pc = "ack" /\ wk[w].how = "failed" =>
             wk[w].msg.retries = MaxRetries

\* Task t is accounted for by a message, or by a result, with at least k retries.
Witness(t, k) ==
    \/ \E m \in queue : m.task = t /\ m.retries >= k
    \/ \E w \in Workers : Busy(w) /\ wk[w].msg.task = t /\ wk[w].msg.retries >= k
    \/ \E x \in results : x.msg.task = t /\ x.msg.retries >= k /\ Final(x)

\* A published retry is not yet acknowledged: its task is accounted for by
\* something later than the message in hand, so the acknowledgement is safe.
RetryCovered ==
    /\ \A t \in Tasks : copies[t] > 0 => Witness(t, 0)
    /\ \A w \in Workers : wk[w].pc = "ack" /\ wk[w].how = "retried" =>
          Witness(wk[w].msg.task, wk[w].msg.retries + 1)

\* The inductive invariant: what every step of the pipeline preserves.
IInv ==
    /\ TypeOK
    /\ MessagesKnown
    /\ Undispatched
    /\ OneActiveDelivery
    /\ RunsBehind
    /\ Progress
    /\ SequencePrefix
    /\ RunsKeepTheirAlert
    /\ RetryCovered
=============================================================================
