--------------------------- MODULE PlaybookWorker ---------------------------
(***************************************************************************)
(* The Celery workers that execute playbooks: worker/tasks.py (the tasks,  *)
(* _execute, _execute_sequence), core/executor.py PlaybookExecutor.execute *)
(* and core/registry.py sync_to_db.  A worker is one pool process; it      *)
(* works on one message at a time (prefetch 1), has one database session   *)
(* per delivery and acknowledges late (task_acks_late).                    *)
(*                                                                         *)
(* A run row is flushed with status "running" but committed only in the    *)
(* executor's finally block, together with its final status.               *)
(***************************************************************************)
EXTENDS SoarState

CONSTANTS
    Workers,       \* Celery pool processes
    Registered,    \* Registered[w]: playbooks w has discovered on its disk
    ApiRegistry,   \* playbooks the API process had loaded at start-up
    NoMsg,         \* a worker that is not working on a message
    Outcomes,      \* ways a playbook body may end (see RunBody)
    MaxFaults      \* bound: crashes, lost processes and redeliveries

ASSUME WorkerAssumption ==
    /\ Registered \in [Workers -> SUBSET Playbooks]
    /\ ApiRegistry \subseteq Playbooks
    /\ NoMsg \notin Message
    /\ Outcomes \subseteq
          {"success", "failed", "cancelled", "running", "poisoned"}
    /\ MaxFaults \in Nat

VARIABLES
    wk,        \* wk[w]: the delivery worker w is processing
    defs,      \* names in the playbook_definitions table
    runs,      \* committed rows of playbook_runs
    results,   \* acknowledged messages, with the state Celery stores for them
    faults     \* faults so far

workerVars == <<wk, defs, runs, results, faults>>

RunStatus == {"success", "failed", "cancelled", "running"}

\* saw: the executor's SELECT found the alert, so the playbook received it
\* (and the run its correlation id) instead of an empty dict.
Run == [seq : Message, pos : Nat \ {0}, name : Playbooks,
        status : RunStatus, saw : BOOLEAN]

\* Celery's SUCCESS, RETRY and FAILURE, and a task whose process was lost.
Verdict == {"returned", "retried", "failed", "lost"}

Result == [msg : Message, how : Verdict]

WorkerState ==
    [pc      : {"idle", "sync", "upsert", "select", "insert", "body",
                "commit", "raise", "ack"},
     msg     : Message \cup {NoMsg},
     pos     : Nat \ {0},           \* len(results) + 1
     missing : SUBSET Playbooks,    \* definitions sync_to_db will insert
     saw     : BOOLEAN,
     outcome : RunStatus \cup {"poisoned"},
     how     : Verdict]

Idle == [pc |-> "idle", msg |-> NoMsg, pos |-> 1, missing |-> {},
         saw |-> FALSE, outcome |-> "running", how |-> "returned"]

WorkerInit ==
    /\ wk = [w \in Workers |-> Idle]
    /\ defs = ApiRegistry       \* main.py lifespan: sync_to_db at start-up
    /\ runs = {}
    /\ results = {}
    /\ faults = 0

\* Worker w moves to state s; the other workers stay where they are.
Becomes(w, s) == wk' = [wk EXCEPT ![w] = s]

Busy(w) == wk[w].pc # "idle"
PlaybooksOf(w) == Names[wk[w].msg.task]

\* Mutant: the message stays visible to the other workers while it is processed.
ReceiveAndKeep(w) ==
    /\ ~ Busy(w)
    /\ \E m \in queue : Becomes(w, [Idle EXCEPT !.pc = "sync", !.msg = m])
    /\ UNCHANGED <<storeVars, defs, runs, results, faults>>

\* The worker process takes a message; registry.discover(), a fresh
\* sequence_id, a fresh session.
Receive(w) ==
    /\ ~ Busy(w)
    /\ \E m \in queue :
          /\ queue' = queue \ {m}
          /\ Becomes(w, [Idle EXCEPT !.pc = "sync", !.msg = m])
    /\ UNCHANGED <<alerts, dup, copies, defs, runs, results, faults>>

\* _execute looks its playbook up in the registry before it opens a session.
UnknownPlaybook(w) ==
    /\ wk[w].pc = "sync"
    /\ wk[w].msg.task \in Manuals
    /\ PlaybooksOf(w)[1] \notin Registered[w]
    /\ Becomes(w, [wk[w] EXCEPT !.pc = "raise"])
    /\ UNCHANGED <<storeVars, defs, runs, results, faults>>

\* sync_to_db: SELECT every registered playbook's definition ...
SyncSelect(w) ==
    /\ wk[w].pc = "sync"
    /\ wk[w].msg.task \in Manuals => PlaybooksOf(w)[1] \in Registered[w]
    /\ Becomes(w, [wk[w] EXCEPT !.pc = "upsert",
                               !.missing = Registered[w] \ defs])
    /\ UNCHANGED <<storeVars, defs, runs, results, faults>>

\* ... and insert the missing ones.  The name column is unique: a definition
\* another session inserted since the SELECT makes the commit raise.
SyncCommit(w) ==
    /\ wk[w].pc = "upsert"
    /\ IF wk[w].missing \cap defs = {}
         THEN /\ defs' = defs \cup wk[w].missing
              /\ Becomes(w, [wk[w] EXCEPT !.pc = "select"])
         ELSE /\ Becomes(w, [wk[w] EXCEPT !.pc = "raise"])
              /\ UNCHANGED defs
    /\ UNCHANGED <<storeVars, runs, results, faults>>

\* execute(): registry and definition lookup (ValueError when either is
\* missing), then SELECT the alert.
SelectAlert(w) ==
    /\ wk[w].pc = "select"
    /\ wk[w].pos <= Len(PlaybooksOf(w))
    /\ Becomes(w, [wk[w] EXCEPT
                     !.pc = IF PlaybooksOf(w)[wk[w].pos] \in Registered[w] \cap defs
                              THEN "insert" ELSE "raise",
                     !.saw = wk[w].msg.alert \in alerts])
    /\ UNCHANGED <<storeVars, defs, runs, results, faults>>

\* Mutant: the loop ends one playbook early.
FinishEarly(w) ==
    /\ wk[w].pc = "select"
    /\ wk[w].pos >= Len(PlaybooksOf(w))
    /\ Becomes(w, [wk[w] EXCEPT !.pc = "ack", !.how = "returned"])
    /\ UNCHANGED <<storeVars, defs, runs, results, faults>>

\* The loop over playbook_names is over: the task returns.
Finish(w) ==
    /\ wk[w].pc = "select"
    /\ wk[w].pos > Len(PlaybooksOf(w))
    /\ Becomes(w, [wk[w] EXCEPT !.pc = "ack", !.how = "returned"])
    /\ UNCHANGED <<storeVars, defs, runs, results, faults>>

\* Mutant: playbook_runs.alert_id without its foreign key.
FlushRunUnchecked(w) ==
    /\ wk[w].pc = "insert"
    /\ Becomes(w, [wk[w] EXCEPT !.pc = "body"])
    /\ UNCHANGED <<storeVars, defs, runs, results, faults>>

\* INSERT the run row and flush.  playbook_runs.alert_id references
\* alerts.id: an alert that is not committed (or was deleted) raises.
FlushRun(w) ==
    /\ wk[w].pc = "insert"
    /\ Becomes(w, [wk[w] EXCEPT
                     !.pc = IF wk[w].msg.alert \in alerts \cup {NoAlert}
                              THEN "body" ELSE "raise"])
    /\ UNCHANGED <<storeVars, defs, runs, results, faults>>

\* await playbook.func(input_data): it returns, raises an Exception, raises
\* CancelledError, raises with the session unusable after a failed flush of
\* record_action ("poisoned"), or raises SystemExit / KeyboardInterrupt,
\* which no except clause catches: run.status stays "running".
RunBody(w) ==
    /\ wk[w].pc = "body"
    /\ \E o \in Outcomes :
          Becomes(w, [wk[w] EXCEPT !.pc = "commit", !.outcome = o])
    /\ UNCHANGED <<storeVars, defs, runs, results, faults>>

\* The run row wk[w] is about to commit.
RunRow(w) == [seq |-> wk[w].msg, pos |-> wk[w].pos,
              name |-> PlaybooksOf(w)[wk[w].pos],
              status |-> wk[w].outcome, saw |-> wk[w].saw]

\* finally: finished_at is set and the run committed; a failed or cancelled
\* run does not stop the sequence.  After SystemExit the process ends.
CommitRun(w) ==
    /\ wk[w].pc = "commit"
    /\ wk[w].outcome # "poisoned"
    /\ runs' = runs \cup {RunRow(w)}
    /\ Becomes(w, IF wk[w].outcome = "running"
                     THEN [wk[w] EXCEPT !.pc = "ack", !.how = "lost"]
                     ELSE [wk[w] EXCEPT !.pc = "select", !.pos = @ + 1])
    /\ UNCHANGED <<storeVars, defs, results, faults>>

\* The commit in the finally block raises because the session needs a
\* rollback: the run row is lost and execute() raises.
CommitPoisoned(w) ==
    /\ wk[w].pc = "commit"
    /\ wk[w].outcome = "poisoned"
    /\ Becomes(w, [wk[w] EXCEPT !.pc = "raise"])
    /\ UNCHANGED <<storeVars, defs, runs, results, faults>>

\* A statement or a commit fails because of the database or the connection.
DbError(w) ==
    /\ wk[w].pc \in {"sync", "upsert", "select", "insert", "commit"}
    /\ wk[w].pc = "select" => wk[w].pos <= Len(PlaybooksOf(w))
    /\ Becomes(w, [wk[w] EXCEPT !.pc = "raise"])
    /\ UNCHANGED <<storeVars, defs, runs, results, faults>>

\* Mutant: the retried message forgets how often it was retried.
RetryUncounted(w) ==
    /\ wk[w].pc = "raise"
    /\ queue' = queue \cup {wk[w].msg}
    /\ Becomes(w, [wk[w] EXCEPT !.pc = "ack", !.how = "retried"])
    /\ UNCHANGED <<alerts, dup, copies, defs, runs, results, faults>>

\* raise self.retry(exc=e): publish the task again, from its first playbook.
Retry(w) ==
    /\ wk[w].pc = "raise"
    /\ wk[w].msg.retries < MaxRetries
    /\ queue' = queue \cup {[wk[w].msg EXCEPT !.retries = @ + 1]}
    /\ Becomes(w, [wk[w] EXCEPT !.pc = "ack", !.how = "retried"])
    /\ UNCHANGED <<alerts, dup, copies, defs, runs, results, faults>>

\* max_retries is exceeded: retry() raises the exception itself.
GiveUp(w) ==
    /\ wk[w].pc = "raise"
    /\ wk[w].msg.retries >= MaxRetries
    /\ Becomes(w, [wk[w] EXCEPT !.pc = "ack", !.how = "failed"])
    /\ UNCHANGED <<storeVars, defs, runs, results, faults>>

\* Late acknowledgement: the message leaves the broker for good.
Ack(w) ==
    /\ wk[w].pc = "ack"
    /\ results' = results \cup {[msg |-> wk[w].msg, how |-> wk[w].how]}
    /\ Becomes(w, Idle)
    /\ UNCHANGED <<storeVars, defs, runs, faults>>

-----------------------------------------------------------------------------
(* Faults the broker and the pool turn into redeliveries and losses.       *)

\* Mutant: messages are acknowledged on receipt, so a dying node takes its
\* message with it.
CrashEarlyAck(w) ==
    /\ Busy(w)
    /\ faults < MaxFaults
    /\ faults' = faults + 1
    /\ Becomes(w, Idle)
    /\ UNCHANGED <<storeVars, defs, runs, results>>

\* The whole worker node dies before the acknowledgement: its connection is
\* gone, uncommitted work is rolled back, the message is delivered again.
Crash(w) ==
    /\ Busy(w)
    /\ faults < MaxFaults
    /\ faults' = faults + 1
    /\ Requeue(wk[w].msg)
    /\ Becomes(w, Idle)
    /\ UNCHANGED <<alerts, dup, defs, runs, results>>

\* The pool process alone dies: without task_reject_on_worker_lost the main
\* process acknowledges the message, and nobody runs the task again.
ProcessLost(w) ==
    /\ Busy(w)
    /\ wk[w].pc # "ack"
    /\ faults < MaxFaults
    /\ faults' = faults + 1
    /\ Becomes(w, [wk[w] EXCEPT !.pc = "ack", !.how = "lost"])
    /\ UNCHANGED <<storeVars, defs, runs, results>>

\* The broker's visibility timeout expires while the worker is still busy:
\* the message is delivered a second time.
VisibilityTimeout(w) ==
    /\ Busy(w)
    /\ faults < MaxFaults
    /\ faults' = faults + 1
    /\ Requeue(wk[w].msg)
    /\ UNCHANGED <<alerts, dup, wk, defs, runs, results>>

\* What a worker does by itself, and always does sooner or later.
WorkerStep(w) ==
    \/ Receive(w)
    \/ UnknownPlaybook(w)
    \/ SyncSelect(w)
    \/ SyncCommit(w)
    \/ SelectAlert(w)
    \/ Finish(w)
    \/ FlushRun(w)
    \/ RunBody(w)
    \/ CommitRun(w)
    \/ CommitPoisoned(w)
    \/ Retry(w)
    \/ GiveUp(w)
    \/ Ack(w)

FaultStep(w) ==
    \/ DbError(w)
    \/ Crash(w)
    \/ ProcessLost(w)
    \/ VisibilityTimeout(w)

WorkerTypeOK ==
    /\ wk \in [Workers -> WorkerState]
    /\ defs \subseteq Playbooks
    /\ runs \subseteq Run
    /\ results \subseteq Result
    /\ faults \in 0 .. MaxFaults
=============================================================================
