---------------------------- MODULE PipelineLedger ----------------------------
(***************************************************************************)
(* AlertPipeline implements TaskLedger: a task is accepted when its first  *)
(* message is published; an attempt is one delivery, which has a           *)
(* sequence_id of its own; it has executed what it has committed runs for, *)
(* and is closed once its message is acknowledged.                         *)
(***************************************************************************)
EXTENDS AlertPipeline

\* Every fault makes at most one further copy of a task.
Deliveries ==
    [task : Tasks, alert : Requests \cup {NoAlert}, retries : 0 .. MaxRetries, copy : 1 .. MaxFaults + 1]

Ledger == INSTANCE TaskLedger WITH
    Attempts <- Deliveries,
    accepted <- {t \in Tasks : copies[t] > 0},
    done <- {<<x.seq, x.pos>> : x \in runs},
    closed <- {x.msg : x \in results},
    outcome <- {<<x.msg.task, x.how>> : x \in {y \in results : y.how # "retried"}}

\* Whatever workers do and lose, the pipeline behaves like the ledger: no run
\* is committed for a task nobody dispatched, none out of order, none by a
\* delivery that was acknowledged, and a task only returns when one delivery
\* has executed the whole sequence.
ImplementsLedger == Ledger!Spec
=============================================================================
