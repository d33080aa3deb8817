----------------------------- MODULE AlertIngest -----------------------------
(***************************************************************************)
(* The webhook side of the API process: api/webhooks.py receive_alert and  *)
(* receive_elastic_alert, and ingestion/webhook.py process_webhook.  Every *)
(* request is a coroutine with a database session of its own, so requests  *)
(* interleave at every await: the deduplication SELECT, the flush, the     *)
(* dispatch and the COMMIT are separate steps.                             *)
(*                                                                         *)
(* Flushed writes are invisible to other sessions until COMMIT.  A flushed *)
(* UPDATE also holds the row's lock until the transaction ends.            *)
(***************************************************************************)
EXTENDS SoarState

VARIABLE req    \* req[r]: where request r is, and what it has read

\* target: the alert the request writes (itself, when it inserts one);
\* seen: the duplicate_count its SELECT returned; beside (history): the requests
\* that were between their SELECT and their COMMIT when it ran its own.
ReqState == [pc     : {"idle", "insert", "update", "flushed", "dispatched",
                       "done", "aborted"},
             target : Requests \cup {NoAlert},
             seen   : Nat,
             beside : SUBSET Requests]

IngestInit ==
    req = [r \in Requests |->
              [pc |-> "idle", target |-> NoAlert, seen |-> 0, beside |-> {}]]

Goto(r, pc) == req' = [req EXCEPT ![r].pc = pc]

\* Requests with an open transaction.
InProgress ==
    {r \in Requests : req[r].pc \in {"insert", "update", "flushed", "dispatched"}}

\* Mutant: a row that was deduplicated before is not found again.
RowsOfOnce(k) == {a \in alerts : KeyOf[a] = k /\ dup[a] = 1}

\* Rows the deduplication query matches.
RowsOf(k) == {a \in alerts : KeyOf[a] = k}

\* Alert row a is locked by a transaction that has flushed an UPDATE of it.
Locked(a) == \E r \in Requests :
                /\ req[r].pc \in {"flushed", "dispatched"}
                /\ req[r].target = a

\* process_webhook up to scalar_one_or_none(): no row, or no source_id.
SelectNone(r) ==
    /\ req[r].pc = "idle"
    /\ KeyOf[r] = NoKey \/ RowsOf(KeyOf[r]) = {}
    /\ req' = [req EXCEPT ![r] =
                  [pc |-> "insert", target |-> r, seen |-> 0, beside |-> InProgress]]
    /\ UNCHANGED storeVars

\* One row: the ORM object holds the duplicate_count that was read.
SelectOne(r) ==
    /\ req[r].pc = "idle"
    /\ KeyOf[r] # NoKey
    /\ \E a \in Requests :
          /\ RowsOf(KeyOf[r]) = {a}
          /\ req' = [req EXCEPT ![r] =
                       [pc |-> "update", target |-> a, seen |-> dup[a],
                        beside |-> InProgress]]
    /\ UNCHANGED storeVars

\* Two rows or more: scalar_one_or_none() raises MultipleResultsFound.
SelectMany(r) ==
    /\ req[r].pc = "idle"
    /\ KeyOf[r] # NoKey
    /\ \E a, b \in RowsOf(KeyOf[r]) : a # b
    /\ Goto(r, "aborted")
    /\ UNCHANGED storeVars

\* session.add(alert); flush().
FlushInsert(r) ==
    /\ req[r].pc = "insert"
    /\ Goto(r, "flushed")
    /\ UNCHANGED storeVars

\* existing.duplicate_count += 1; flush(): an UPDATE to seen + 1, which waits
\* for the row's lock; a row deleted meanwhile raises StaleDataError.
FlushUpdate(r) ==
    /\ req[r].pc = "update"
    /\ ~ Locked(req[r].target)
    /\ Goto(r, IF req[r].target \in alerts THEN "flushed" ELSE "aborted")
    /\ UNCHANGED storeVars

\* engine.match(...) and execute_playbook_sequence_task.delay(...): the task
\* leaves for the broker while the transaction is still open, and for a
\* deduplicated alert just as for a new one.
Dispatch(r) ==
    /\ req[r].pc = "flushed"
    /\ IF Names[r] = <<>> THEN UNCHANGED <<queue, copies>>
                          ELSE Publish(r, req[r].target)
    /\ Goto(r, "dispatched")
    /\ UNCHANGED <<alerts, dup>>

\* session.commit().
Commit(r) ==
    /\ req[r].pc = "dispatched"
    /\ IF req[r].target = r
         THEN /\ alerts' = alerts \cup {r}
              /\ dup' = [dup EXCEPT ![r] = 1]
         ELSE /\ dup' = [dup EXCEPT ![req[r].target] = req[r].seen + 1]
              /\ UNCHANGED alerts
    /\ Goto(r, "done")
    /\ UNCHANGED <<queue, copies>>

\* Mutant: the count is committed with the flush (autocommit), whatever becomes
\* of the request.
AbortAfterCount(r) ==
    /\ req[r].pc \in {"insert", "update", "flushed", "dispatched"}
    /\ Goto(r, "aborted")
    /\ dup' = IF req[r].pc \in {"flushed", "dispatched"} /\ req[r].target # r
                THEN [dup EXCEPT ![req[r].target] = req[r].seen + 1] ELSE dup
    /\ UNCHANGED <<alerts, queue, copies>>

\* The request ends early (broker or database error, the process dies): the
\* transaction is rolled back, a task already dispatched is not recalled.
Abort(r) ==
    /\ req[r].pc \in {"insert", "update", "flushed", "dispatched"}
    /\ Goto(r, "aborted")
    /\ UNCHANGED storeVars

RequestStep(r) ==
    \/ SelectNone(r)
    \/ SelectOne(r)
    \/ SelectMany(r)
    \/ FlushInsert(r)
    \/ FlushUpdate(r)
    \/ Dispatch(r)
    \/ Commit(r)
    \/ Abort(r)

IngestTypeOK == req \in [Requests -> ReqState]
=============================================================================
