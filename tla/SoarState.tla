------------------------------ MODULE SoarState ------------------------------
(***************************************************************************)
(* What the API process and the playbook workers of OpenSOAR share: the    *)
(* committed rows of the alerts table (PostgreSQL, READ COMMITTED) and the *)
(* Celery broker.  AlertIngest and PlaybookWorker extend this module, and  *)
(* AlertPipeline composes the two.                                         *)
(*                                                                         *)
(* An alert is identified by the webhook request that inserted it: one     *)
(* request inserts at most one row and Alert.id is a fresh uuid4.  Its     *)
(* deduplication key (source, source_id) is that request's key.            *)
(***************************************************************************)
EXTENDS Integers, Sequences, FiniteSets

CONSTANTS
    Requests,      \* deliveries to POST /webhooks/alerts and /alerts/elastic
    Manuals,       \* single playbooks dispatched by hand or from a template
    Playbooks,     \* playbook names
    Names,         \* Names[t]: playbook names task t is dispatched with
    KeyOf,         \* KeyOf[r]: (source, source_id) of r's normalised payload
    NoKey,         \* the payload carries no source_id
    NoAlert,       \* alert_id = None
    MaxRetries     \* max_retries of the two playbook tasks (3 in the code)

\* A webhook request dispatches at most one task and so does a manual run:
\* a task is identified by the request that dispatched it.
Tasks == Requests \cup Manuals

ASSUME ConstantsAssumption ==
    /\ Requests \cap Manuals = {}
    /\ NoAlert \notin Requests
    /\ MaxRetries \in Nat
    /\ Names \in [Tasks -> Seq(Playbooks)]
    /\ \A m \in Manuals : Len(Names[m]) = 1

VARIABLES
    alerts,     \* ids of the committed rows of the alerts table
    dup,        \* dup[a]: committed duplicate_count of alert a
    queue,      \* messages the broker holds ready for delivery
    copies      \* copies[t]: deliveries of task t the broker has created anew

storeVars == <<alerts, dup, queue, copies>>

(***************************************************************************)
(* A Celery message.  self.retry() publishes the same task again with      *)
(* retries + 1; the broker delivers an unacknowledged message again after  *)
(* a crash or a visibility timeout, which makes a further copy of it.      *)
(* <<task, retries, copy>> thus names one delivery, and with it the        *)
(* sequence_id that _execute_sequence draws anew for every delivery.       *)
(***************************************************************************)
Message == [task    : Tasks,
            alert   : Requests \cup {NoAlert},
            retries : 0 .. MaxRetries,
            copy    : Nat \ {0}]

\* execute_playbook_sequence_task.delay(names, alert_id), and
\* execute_playbook_task.delay(name, alert_id) for a manual run.
Publish(t, a) ==
    /\ copies' = [copies EXCEPT ![t] = 1]
    /\ queue' = queue \cup
                  {[task |-> t, alert |-> a, retries |-> 0, copy |-> 1]}

\* Mutant: the sequence_id travels with the message, so that a redelivery
\* continues to write under the same one.
RequeueSameSequence(m) ==
    /\ copies' = [copies EXCEPT ![m.task] = @ + 1]
    /\ queue' = queue \cup {m}

\* The broker puts an unacknowledged message back: a new delivery of it.
Requeue(m) ==
    /\ copies' = [copies EXCEPT ![m.task] = @ + 1]
    /\ queue' = queue \cup {[m EXCEPT !.copy = copies[m.task] + 1]}

StoreInit ==
    /\ alerts = {}
    /\ dup = [a \in Requests |-> 0]
    /\ queue = {}
    /\ copies = [t \in Tasks |-> 0]

StoreTypeOK ==
    /\ alerts \subseteq Requests
    /\ dup \in [Requests -> Nat]
    /\ queue \subseteq Message
    /\ copies \in [Tasks -> Nat]
=============================================================================
