------------------------- MODULE AlertPipelineProofs -------------------------
(***************************************************************************)
(* Proofs, for any number of requests, workers, playbooks, retries and     *)
(* faults, that the pipeline of AlertPipeline keeps its invariants and     *)
(* implements TaskLedger.  IInv is inductive; SequencePrefix,              *)
(* RunsKeepTheirAlert and TaskAccounted follow from it.  LedgerInv, of the *)
(* deliveries that are over, is what the refinement needs besides;         *)
(* OriginInv, of the alerts messages name, and DedupInv, of the requests    *)
(* that were open together, carry the rest.                                *)
(***************************************************************************)
EXTENDS PipelineLedger, FiniteSetTheorems, TLAPS

USE DEF storeVars, workerVars

-----------------------------------------------------------------------------
(* What the assumptions on the constants say, in the form the steps use.   *)

\* max_retries is a number and the alert ids do not clash with None.
LEMMA MaxRetriesNat == MaxRetries \in Nat /\ NoAlert \notin Requests
BY ConstantsAssumption

\* The playbook at a position of a dispatched list is a playbook name.
LEMMA NamesTyped ==
    ASSUME NEW t \in Tasks
    PROVE  /\ Len(Names[t]) \in Nat
           /\ \A i \in 1 .. Len(Names[t]) : Names[t][i] \in Playbooks
BY ConstantsAssumption

-----------------------------------------------------------------------------
(* Type correctness of a step, one lemma per side of the system.           *)

\* A step of a webhook request keeps the types (api/webhooks.py).
LEMMA RequestTypes ==
    ASSUME TypeOK, NEW r \in Requests, RequestStep(r), UNCHANGED workerVars
    PROVE  TypeOK'
<1> USE DEF TypeOK, StoreTypeOK, IngestTypeOK, WorkerTypeOK, ReqState, Goto
<1>w. WorkerTypeOK'
  OBVIOUS
<1>p. InProgress \in SUBSET Requests
  BY DEF InProgress
<1>1. CASE SelectNone(r)
  BY <1>w, <1>p, <1>1 DEF SelectNone
<1>2. CASE SelectOne(r)
  BY <1>w, <1>p, <1>2 DEF SelectOne
<1>3. CASE SelectMany(r)
  BY <1>w, <1>3 DEF SelectMany
<1>4. CASE FlushInsert(r)
  BY <1>w, <1>4 DEF FlushInsert
<1>5. CASE FlushUpdate(r)
  BY <1>w, <1>5 DEF FlushUpdate
<1>6. CASE Dispatch(r)
  <2>1. req[r].target \in Requests \cup {NoAlert}
    OBVIOUS
  <2>2. [task |-> r, alert |-> req[r].target, retries |-> 0, copy |-> 1]
           \in Message
    BY <2>1, MaxRetriesNat DEF Message, Tasks
  <2>3. req' \in [Requests -> ReqState]
    <3>1. req[r] \in ReqState
      OBVIOUS
    <3>2. [req[r] EXCEPT !.pc = "dispatched"] \in ReqState
      BY <3>1
    <3> QED
      BY <1>6, <3>2 DEF Dispatch
  <2> QED
    <3>1. CASE Names[r] = <<>>
      BY <1>w, <1>6, <2>3, <3>1 DEF Dispatch
    <3>2. CASE Names[r] # <<>>
      <4>0. Publish(r, req[r].target)
        BY <1>6, <3>2 DEF Dispatch
      <4>1. copies' \in [Tasks -> Nat] /\ queue' \subseteq Message
        BY <2>2, <4>0 DEF Publish
      <4>2. UNCHANGED <<alerts, dup>>
        BY <1>6 DEF Dispatch
      <4> QED
        BY <1>w, <2>3, <4>1, <4>2
    <3> QED
      BY <3>1, <3>2
<1>7. CASE Commit(r)
  BY <1>w, <1>7 DEF Commit
<1>8. CASE Abort(r)
  BY <1>w, <1>8 DEF Abort
<1> QED
  BY <1>1, <1>2, <1>3, <1>4, <1>5, <1>6, <1>7, <1>8 DEF RequestStep

\* What a worker's move does to wk.
LEMMA BecomesTyped ==
    ASSUME wk \in [Workers -> WorkerState], NEW w \in Workers, NEW s,
           Becomes(w, s)
    PROVE  /\ s \in WorkerState => wk' \in [Workers -> WorkerState]
           /\ wk'[w] = s
           /\ \A v \in Workers \ {w} : wk'[v] = wk[v]
BY DEF Becomes

\* A step of a worker, or a fault of it, keeps the types; the run row it
\* commits is well typed because its position is one of the sequence.
LEMMA WorkerTypes ==
    ASSUME TypeOK, MessagesKnown, Progress, NEW w \in Workers,
           WorkerStep(w) \/ FaultStep(w), UNCHANGED req
    PROVE  TypeOK'
<1>i. Idle \in WorkerState
  BY DEF Idle, RunStatus, WorkerState, Verdict
<1>v. /\ "returned" \in Verdict /\ "retried" \in Verdict
      /\ "failed" \in Verdict /\ "lost" \in Verdict
  BY DEF Verdict
<1>w. wk[w] \in WorkerState
  BY DEF TypeOK, WorkerTypeOK
<1>1. CASE Receive(w)
  <2>1. PICK m \in queue : /\ queue' = queue \ {m}
                           /\ Becomes(w, [Idle EXCEPT !.pc = "sync", !.msg = m])
    BY <1>1 DEF Receive
  <2>2. m \in Message
    BY <2>1 DEF TypeOK, StoreTypeOK
  <2>3. [Idle EXCEPT !.pc = "sync", !.msg = m] \in WorkerState
    BY <1>i, <2>2 DEF WorkerState
  <2>4. wk' \in [Workers -> WorkerState]
    BY <2>1, <2>3, BecomesTyped DEF TypeOK, WorkerTypeOK
  <2> QED
    BY <1>1, <2>1, <2>4 DEF TypeOK, WorkerTypeOK, IngestTypeOK, StoreTypeOK, Receive
<1>2. CASE UnknownPlaybook(w)
  <2>1. [wk[w] EXCEPT !.pc = "raise"] \in WorkerState
    BY <1>w DEF WorkerState
  <2>2. wk' \in [Workers -> WorkerState]
    BY <1>2, <2>1, BecomesTyped DEF TypeOK, WorkerTypeOK, UnknownPlaybook
  <2> QED
    BY <1>2, <2>2 DEF TypeOK, WorkerTypeOK, IngestTypeOK, StoreTypeOK, UnknownPlaybook
<1>3. CASE SyncSelect(w)
  <2>1. [wk[w] EXCEPT !.pc = "upsert", !.missing = Registered[w] \ defs] \in WorkerState
    BY <1>w, WorkerAssumption DEF WorkerState
  <2>2. wk' \in [Workers -> WorkerState]
    BY <1>3, <2>1, BecomesTyped DEF TypeOK, WorkerTypeOK, SyncSelect
  <2> QED
    BY <1>3, <2>2 DEF TypeOK, WorkerTypeOK, IngestTypeOK, StoreTypeOK, SyncSelect
<1>4. CASE SyncCommit(w)
  <2>1. [wk[w] EXCEPT !.pc = "select"] \in WorkerState
    BY <1>w DEF WorkerState
  <2>2. [wk[w] EXCEPT !.pc = "raise"] \in WorkerState
    BY <1>w DEF WorkerState
  <2>3. wk' \in [Workers -> WorkerState]
    BY <1>4, <2>1, <2>2, BecomesTyped DEF TypeOK, WorkerTypeOK, SyncCommit
  <2>4. wk[w].missing \subseteq Playbooks
    BY <1>w DEF WorkerState
  <2> QED
    BY <1>4, <2>3, <2>4 DEF TypeOK, WorkerTypeOK, IngestTypeOK, StoreTypeOK, SyncCommit
<1>5. CASE SelectAlert(w)
  <2> DEFINE pc == IF PlaybooksOf(w)[wk[w].pos] \in Registered[w] \cap defs
                     THEN "insert" ELSE "raise"
             saw == wk[w].msg.alert \in alerts
  <2>1. /\ pc \in {"insert", "raise"} /\ saw \in BOOLEAN
        /\ Becomes(w, [wk[w] EXCEPT !.pc = pc, !.saw = saw])
    BY <1>5 DEF SelectAlert
  <2> HIDE DEF pc, saw
  <2>2. [wk[w] EXCEPT !.pc = pc, !.saw = saw] \in WorkerState
    BY <1>w, <2>1 DEF WorkerState
  <2>3. wk' \in [Workers -> WorkerState]
    BY <2>1, <2>2, BecomesTyped DEF TypeOK, WorkerTypeOK
  <2> QED
    BY <1>5, <2>3 DEF TypeOK, WorkerTypeOK, IngestTypeOK, StoreTypeOK, SelectAlert
<1>6. CASE Finish(w)
  <2>1. [wk[w] EXCEPT !.pc = "ack", !.how = "returned"] \in WorkerState
    BY <1>w, <1>v DEF WorkerState
  <2>2. wk' \in [Workers -> WorkerState]
    BY <1>6, <2>1, BecomesTyped DEF TypeOK, WorkerTypeOK, Finish
  <2> QED
    BY <1>6, <2>2 DEF TypeOK, WorkerTypeOK, IngestTypeOK, StoreTypeOK, Finish
<1>7. CASE FlushRun(w)
  <2>1. \A pc \in {"body", "raise"} : [wk[w] EXCEPT !.pc = pc] \in WorkerState
    BY <1>w DEF WorkerState
  <2>2. wk' \in [Workers -> WorkerState]
    BY <1>7, <2>1, BecomesTyped DEF TypeOK, WorkerTypeOK, FlushRun
  <2> QED
    BY <1>7, <2>2 DEF TypeOK, WorkerTypeOK, IngestTypeOK, StoreTypeOK, FlushRun
<1>8. CASE RunBody(w)
  <2>1. PICK o \in Outcomes :
           Becomes(w, [wk[w] EXCEPT !.pc = "commit", !.outcome = o])
    BY <1>8 DEF RunBody
  <2>2. o \in RunStatus \cup {"poisoned"}
    BY WorkerAssumption DEF RunStatus
  <2>3. [wk[w] EXCEPT !.pc = "commit", !.outcome = o] \in WorkerState
    BY <1>w, <2>2 DEF WorkerState
  <2>4. wk' \in [Workers -> WorkerState]
    BY <2>1, <2>3, BecomesTyped DEF TypeOK, WorkerTypeOK
  <2> QED
    BY <1>8, <2>4 DEF TypeOK, WorkerTypeOK, IngestTypeOK, StoreTypeOK, RunBody
<1>9. CASE CommitRun(w)
  <2>1. wk[w].msg \in Message /\ wk[w].msg.task \in Tasks
    BY <1>9 DEF CommitRun, MessagesKnown, Busy, Message
  <2>2. wk[w].pos \in Nat \ {0} /\ wk[w].pos <= Len(Names[wk[w].msg.task])
    BY <1>9, <1>w DEF CommitRun, Progress, PlaybooksOf, WorkerState
  <2>3. Names[wk[w].msg.task][wk[w].pos] \in Playbooks
    BY <2>1, <2>2, NamesTyped
  <2>4. wk[w].outcome \in RunStatus /\ wk[w].saw \in BOOLEAN
    BY <1>9, <1>w DEF CommitRun, WorkerState
  <2>5. RunRow(w) \in Run
    BY <2>1, <2>2, <2>3, <2>4 DEF RunRow, Run, PlaybooksOf
  <2>6. wk' \in [Workers -> WorkerState]
    <3>1. [wk[w] EXCEPT !.pc = "ack", !.how = "lost"] \in WorkerState
      BY <1>v, <1>w DEF WorkerState
    <3>2. wk[w].pos + 1 \in Nat \ {0}
      BY <2>2
    <3>3. [wk[w] EXCEPT !.pc = "select", !.pos = wk[w].pos + 1] \in WorkerState
      BY <1>w, <3>2 DEF WorkerState
    <3> QED
      BY <1>9, <3>1, <3>3, BecomesTyped DEF TypeOK, WorkerTypeOK, CommitRun
  <2> QED
    BY <1>9, <2>5, <2>6 DEF TypeOK, WorkerTypeOK, IngestTypeOK, StoreTypeOK, CommitRun
<1>10. CASE CommitPoisoned(w)
  <2>1. [wk[w] EXCEPT !.pc = "raise"] \in WorkerState
    BY <1>w DEF WorkerState
  <2>2. wk' \in [Workers -> WorkerState]
    BY <1>10, <2>1, BecomesTyped DEF TypeOK, WorkerTypeOK, CommitPoisoned
  <2> QED
    BY <1>10, <2>2 DEF TypeOK, WorkerTypeOK, IngestTypeOK, StoreTypeOK, CommitPoisoned
<1>11. CASE Retry(w)
  <2>1. wk[w].msg \in Message
    BY <1>11 DEF Retry, MessagesKnown, Busy
  <2>2. [wk[w].msg EXCEPT !.retries = @ + 1] \in Message
    BY <1>11, <2>1, MaxRetriesNat DEF Retry, Message
  <2>3. [wk[w] EXCEPT !.pc = "ack", !.how = "retried"] \in WorkerState
    BY <1>v, <1>w DEF WorkerState
  <2>4. wk' \in [Workers -> WorkerState]
    BY <1>11, <2>3, BecomesTyped DEF TypeOK, WorkerTypeOK, Retry
  <2> QED
    BY <1>11, <2>2, <2>4 DEF TypeOK, WorkerTypeOK, IngestTypeOK, StoreTypeOK, Retry
<1>12. CASE GiveUp(w)
  <2>1. [wk[w] EXCEPT !.pc = "ack", !.how = "failed"] \in WorkerState
    BY <1>w, <1>v DEF WorkerState
  <2>2. wk' \in [Workers -> WorkerState]
    BY <1>12, <2>1, BecomesTyped DEF TypeOK, WorkerTypeOK, GiveUp
  <2> QED
    BY <1>12, <2>2 DEF TypeOK, WorkerTypeOK, IngestTypeOK, StoreTypeOK, GiveUp
<1>13. CASE Ack(w)
  <2>1. wk[w].msg \in Message
    BY <1>13 DEF Ack, MessagesKnown, Busy
  <2>2. wk[w].how \in Verdict
    BY <1>w DEF WorkerState
  <2>3. [msg |-> wk[w].msg, how |-> wk[w].how] \in Result
    BY <2>1, <2>2 DEF Result
  <2>4. wk' \in [Workers -> WorkerState]
    BY <1>13, <1>i, BecomesTyped DEF TypeOK, WorkerTypeOK, Ack
  <2> QED
    BY <1>13, <2>3, <2>4 DEF TypeOK, WorkerTypeOK, IngestTypeOK, StoreTypeOK, Ack
<1>14. CASE DbError(w)
  <2>1. [wk[w] EXCEPT !.pc = "raise"] \in WorkerState
    BY <1>w DEF WorkerState
  <2>2. wk' \in [Workers -> WorkerState]
    BY <1>14, <2>1, BecomesTyped DEF TypeOK, WorkerTypeOK, DbError
  <2> QED
    BY <1>14, <2>2 DEF TypeOK, WorkerTypeOK, IngestTypeOK, StoreTypeOK, DbError
<1>15. ASSUME Busy(w), Requeue(wk[w].msg), UNCHANGED <<alerts, dup>>
       PROVE  StoreTypeOK'
  <2>1. wk[w].msg \in Message
    BY <1>15 DEF MessagesKnown
  <2>2. wk[w].msg.task \in Tasks /\ copies[wk[w].msg.task] \in Nat
    BY <2>1 DEF Message, TypeOK, StoreTypeOK
  <2>3. [wk[w].msg EXCEPT !.copy = copies[wk[w].msg.task] + 1] \in Message
    BY <2>1, <2>2 DEF Message
  <2> QED
    BY <1>15, <2>2, <2>3 DEF Requeue, TypeOK, StoreTypeOK
<1>16. CASE Crash(w)
  <2>1. faults' \in 0 .. MaxFaults
    BY <1>16, WorkerAssumption DEF Crash, TypeOK, WorkerTypeOK
  <2>2. wk' \in [Workers -> WorkerState]
    BY <1>16, <1>i, BecomesTyped DEF Crash, TypeOK, WorkerTypeOK
  <2>3. StoreTypeOK'
    BY <1>15, <1>16 DEF Crash
  <2> QED
    BY <1>16, <2>1, <2>2, <2>3 DEF TypeOK, WorkerTypeOK, IngestTypeOK, Crash
<1>17. CASE ProcessLost(w)
  <2>1. [wk[w] EXCEPT !.pc = "ack", !.how = "lost"] \in WorkerState
    BY <1>v, <1>w DEF WorkerState
  <2>2. wk' \in [Workers -> WorkerState]
    BY <1>17, <2>1, BecomesTyped DEF ProcessLost, TypeOK, WorkerTypeOK
  <2>3. faults' \in 0 .. MaxFaults
    BY <1>17, WorkerAssumption DEF ProcessLost, TypeOK, WorkerTypeOK
  <2> QED
    BY <1>17, <2>2, <2>3 DEF TypeOK, WorkerTypeOK, IngestTypeOK, StoreTypeOK, ProcessLost
<1>18. CASE VisibilityTimeout(w)
  <2>1. faults' \in 0 .. MaxFaults
    BY <1>18, WorkerAssumption DEF VisibilityTimeout, TypeOK, WorkerTypeOK
  <2>2. StoreTypeOK'
    BY <1>15, <1>18 DEF VisibilityTimeout
  <2> QED
    BY <1>18, <2>1, <2>2 DEF TypeOK, WorkerTypeOK, IngestTypeOK, VisibilityTimeout
<1> QED
  BY <1>1, <1>2, <1>3, <1>4, <1>5, <1>6, <1>7, <1>8, <1>9, <1>10, <1>11,
     <1>12, <1>13, <1>14, <1>16, <1>17, <1>18 DEF WorkerStep, FaultStep

-----------------------------------------------------------------------------
(* What the steps do to the messages, workers and runs.                    *)

\* A busy worker goes on with its message, or stops working on it; nothing
\* is published, received, committed or acknowledged.
Stays(w) ==
    /\ UNCHANGED <<alerts, queue, copies, runs, results>>
    /\ Active(w)
    /\ wk'[w].pc # "idle"
    /\ wk'[w].msg = wk[w].msg
    /\ wk'[w].pos = wk[w].pos
    /\ wk'[w].pc = "ack" => wk'[w].how # "retried"
    /\ \A v \in Workers \ {w} : wk'[v] = wk[v]

\* The steps of a worker other than those that receive, commit, publish or
\* acknowledge.
StayStep(w) ==
    \/ UnknownPlaybook(w) \/ SyncSelect(w) \/ SyncCommit(w) \/ SelectAlert(w)
    \/ Finish(w) \/ FlushRun(w) \/ RunBody(w) \/ CommitPoisoned(w)
    \/ GiveUp(w) \/ DbError(w) \/ ProcessLost(w)

\* Every step of a worker that has not yet returned or raised leaves its delivery
\* in hand, and the broker's queue and the other workers alone.
LEMMA StaysLemma ==
    ASSUME TypeOK, NEW w \in Workers, StayStep(w)
    PROVE  Stays(w)
<1>w. wk \in [Workers -> WorkerState] /\ wk[w] \in WorkerState
  BY DEF TypeOK, WorkerTypeOK
<1> DEFINE Kept(s) == /\ s.pc # "idle" /\ s.msg = wk[w].msg /\ s.pos = wk[w].pos
                      /\ s.pc = "ack" => s.how # "retried"
<1>k. ASSUME Active(w), NEW s, Becomes(w, s), Kept(s),
             UNCHANGED <<alerts, queue, copies, runs, results>>
      PROVE  Stays(w)
  BY <1>w, <1>k, BecomesTyped DEF Stays
<1>r. Kept([wk[w] EXCEPT !.pc = "raise"])
  BY <1>w DEF WorkerState
<1>1. CASE UnknownPlaybook(w)
  BY <1>1, <1>k, <1>r DEF UnknownPlaybook, Active
<1>2. CASE SyncSelect(w)
  <2>1. Kept([wk[w] EXCEPT !.pc = "upsert", !.missing = Registered[w] \ defs])
    BY <1>w DEF WorkerState
  <2> QED
    BY <1>2, <1>k, <2>1 DEF SyncSelect, Active
<1>3. CASE SyncCommit(w)
  <2>1. Kept([wk[w] EXCEPT !.pc = "select"])
    BY <1>w DEF WorkerState
  <2> QED
    BY <1>3, <1>k, <1>r, <2>1 DEF SyncCommit, Active
<1>4. CASE SelectAlert(w)
  <2> DEFINE pc == IF PlaybooksOf(w)[wk[w].pos] \in Registered[w] \cap defs
                     THEN "insert" ELSE "raise"
             saw == wk[w].msg.alert \in alerts
  <2>1. /\ pc \in {"insert", "raise"}
        /\ Becomes(w, [wk[w] EXCEPT !.pc = pc, !.saw = saw])
    BY <1>4 DEF SelectAlert
  <2> HIDE DEF pc, saw
  <2>2. Kept([wk[w] EXCEPT !.pc = pc, !.saw = saw])
    BY <1>w, <2>1 DEF WorkerState
  <2> QED
    BY <1>4, <1>k, <2>1, <2>2 DEF SelectAlert, Active
<1>5. CASE Finish(w)
  <2>1. Kept([wk[w] EXCEPT !.pc = "ack", !.how = "returned"])
    BY <1>w DEF WorkerState
  <2> QED
    BY <1>5, <1>k, <2>1 DEF Finish, Active
<1>6. CASE FlushRun(w)
  <2>1. Kept([wk[w] EXCEPT !.pc = "body"])
    BY <1>w DEF WorkerState
  <2> QED
    BY <1>6, <1>k, <1>r, <2>1 DEF FlushRun, Active
<1>7. CASE RunBody(w)
  <2>1. \A o \in Outcomes : Kept([wk[w] EXCEPT !.pc = "commit", !.outcome = o])
    BY <1>w DEF WorkerState
  <2> QED
    BY <1>7, <1>k, <2>1 DEF RunBody, Active
<1>8. CASE CommitPoisoned(w)
  BY <1>8, <1>k, <1>r DEF CommitPoisoned, Active
<1>9. CASE GiveUp(w)
  <2>1. Kept([wk[w] EXCEPT !.pc = "ack", !.how = "failed"])
    BY <1>w DEF WorkerState
  <2> QED
    BY <1>9, <1>k, <2>1 DEF GiveUp, Active
<1>10. CASE DbError(w)
  BY <1>10, <1>k, <1>r DEF DbError, Active
<1>11. CASE ProcessLost(w)
  <2>1. Kept([wk[w] EXCEPT !.pc = "ack", !.how = "lost"])
    BY <1>w DEF WorkerState
  <2> QED
    BY <1>11, <1>k, <2>1 DEF ProcessLost, Active, Busy
<1> QED
  BY <1>1, <1>2, <1>3, <1>4, <1>5, <1>6, <1>7, <1>8, <1>9, <1>10, <1>11
  DEF StayStep

\* The messages in hand are well typed.
LEMMA KnownTypes ==
    ASSUME TypeOK
    PROVE  /\ \A m \in queue : /\ m \in Message /\ m.task \in Tasks
                               /\ m.retries \in Nat /\ m.copy \in Nat \ {0}
           /\ \A t \in Tasks : copies[t] \in Nat
           /\ \A x \in runs : /\ x.seq \in Message /\ x.seq.task \in Tasks
                              /\ x.seq.retries \in Nat
                              /\ x.seq.copy \in Nat \ {0} /\ x.pos \in Nat \ {0}
           /\ \A x \in results : x.msg \in Message /\ x.msg.retries \in Nat
           /\ \A w \in Workers : wk[w].pos \in Nat \ {0}
<1>1. \A m \in Message : /\ m.task \in Tasks /\ m.retries \in Nat
                         /\ m.copy \in Nat \ {0}
  BY MaxRetriesNat DEF Message
<1>2. \A m \in queue : m \in Message
  BY DEF TypeOK, StoreTypeOK
<1>3. \A t \in Tasks : copies[t] \in Nat
  BY DEF TypeOK, StoreTypeOK
<1>4. \A x \in runs : x.seq \in Message /\ x.pos \in Nat \ {0}
  BY DEF TypeOK, WorkerTypeOK, Run
<1>5. \A x \in results : x.msg \in Message
  BY DEF TypeOK, WorkerTypeOK, Result
<1>6. \A w \in Workers : wk[w].pos \in Nat \ {0}
  BY DEF TypeOK, WorkerTypeOK, WorkerState
<1> QED
  BY <1>1, <1>2, <1>3, <1>4, <1>5, <1>6

-----------------------------------------------------------------------------
(* The broker's messages: MessagesKnown, OneActiveDelivery and RunsBehind. *)

Delivery == MessagesKnown /\ OneActiveDelivery /\ RunsBehind

\* Such a step moves no message, so the delivery invariants are kept.
LEMMA StaysDelivery ==
    ASSUME Delivery, NEW w \in Workers, Stays(w)
    PROVE  Delivery'
<1>1. \A v \in Workers : /\ Busy(v)' => Busy(v)
                         /\ Active(v)' => Active(v)
                         /\ wk'[v].msg = wk[v].msg /\ wk'[v].pos = wk[v].pos
  BY DEF Stays, Busy, Active
<1>2. UNCHANGED <<queue, copies, runs>>
  BY DEF Stays
<1>3. MessagesKnown'
  BY <1>1, <1>2 DEF Delivery, MessagesKnown
<1>4. OneActiveDelivery'
  BY <1>1, <1>2 DEF Delivery, OneActiveDelivery
<1>5. RunsBehind'
  BY <1>1, <1>2 DEF Delivery, RunsBehind
<1> QED
  BY <1>3, <1>4, <1>5 DEF Delivery

\* A delivery with a copy number no message has yet may join the queue, by a
\* first publication (delay) or by the broker's redelivery.
LEMMA FreshDelivery ==
    ASSUME TypeOK, Delivery, NEW n \in Message,
           queue' = queue \cup {n}, n.copy > copies[n.task],
           copies' = [copies EXCEPT ![n.task] = n.copy],
           UNCHANGED runs,
           \A v \in Workers : /\ Active(v)' => Active(v)
                              /\ Busy(v)' => Busy(v) /\ wk'[v] = wk[v]
    PROVE  Delivery'
<1>n. n.task \in Tasks /\ n.copy \in Nat \ {0}
  BY DEF Message
<1>c. /\ copies'[n.task] = n.copy
      /\ \A t \in Tasks : copies[t] <= copies'[t] /\ copies[t] \in Nat /\ copies'[t] \in Nat
  BY <1>n DEF TypeOK, StoreTypeOK
<1>b. \A v \in Workers :
         Active(v)' => Active(v) /\ Busy(v) /\ wk'[v].msg = wk[v].msg
                       /\ wk'[v].pos = wk[v].pos
  BY DEF Active, Busy
<1>m. \A m \in Message : m.task \in Tasks /\ m.copy \in Nat
  BY DEF Message
<1>q. queue \subseteq Message
  BY DEF TypeOK, StoreTypeOK
<1>x. \A x \in runs : x.seq \in Message
  BY KnownTypes
<1>1. \A m \in queue : m.copy <= copies[m.task]
  BY DEF Delivery, MessagesKnown
<1>2. \A v \in Workers : Busy(v) => /\ wk[v].msg \in Message
                                    /\ wk[v].msg.copy <= copies[wk[v].msg.task]
  BY DEF Delivery, MessagesKnown
<1>3. \A x \in runs : x.seq.copy <= copies[x.seq.task]
  BY DEF Delivery, MessagesKnown
<1>4. /\ \A m \in queue : ~ SameChain(m, n)
      /\ \A v \in Workers : Busy(v) => ~ SameChain(wk[v].msg, n)
      /\ \A x \in runs : ~ SameChain(x.seq, n)
  BY <1>1, <1>2, <1>3, <1>n, <1>c, <1>q, <1>m, <1>x DEF SameChain
<1>5. MessagesKnown'
  <2>1. \A v \in Workers : Busy(v)' => /\ wk'[v].msg \in Message
                                       /\ wk'[v].msg.copy <= copies'[wk'[v].msg.task]
    BY <1>2, <1>c, <1>m
  <2>2. \A m \in queue' : m.copy <= copies'[m.task]
    BY <1>1, <1>c, <1>m, <1>q, <1>n
  <2>3. \A x \in runs' : x.seq.copy <= copies'[x.seq.task]
    BY <1>3, <1>c, <1>m, <1>x
  <2> QED
    BY <2>1, <2>2, <2>3 DEF MessagesKnown
<1>6. \A m : SameChain(n, m) <=> SameChain(m, n)
  BY DEF SameChain
<1>7. OneActiveDelivery'
  <2>1. \A k, m \in queue' : SameChain(k, m) => k = m
    BY <1>4, <1>6 DEF Delivery, OneActiveDelivery
  <2>2. ASSUME NEW w \in Workers, Active(w)'
        PROVE  /\ \A m \in queue' : ~ SameChain(m, wk'[w].msg)
               /\ \A v \in Workers \ {w} :
                     Active(v)' => ~ SameChain(wk'[v].msg, wk'[w].msg)
    BY <1>4, <1>6, <1>b, <2>2 DEF Delivery, OneActiveDelivery
  <2> QED
    BY <2>1, <2>2 DEF OneActiveDelivery
<1>8. RunsBehind'
  <2>1. \A m \in queue' : \A x \in runs' :
           SameChain(x.seq, m) => x.seq.retries < m.retries
    BY <1>4 DEF Delivery, RunsBehind
  <2>2. ASSUME NEW w \in Workers, Active(w)'
        PROVE  \A x \in runs' : SameChain(x.seq, wk'[w].msg) =>
                  /\ x.seq.retries <= wk'[w].msg.retries
                  /\ x.seq = wk'[w].msg => x.pos < wk'[w].pos
    BY <1>b, <2>2 DEF Delivery, RunsBehind
  <2> QED
    BY <2>1, <2>2 DEF RunsBehind
<1> QED
  BY <1>5, <1>7, <1>8 DEF Delivery

\* What receiving a message does: it leaves the queue for one idle worker.
LEMMA ReceiveFacts ==
    ASSUME TypeOK, NEW w \in Workers, Receive(w)
    PROVE  /\ \E m \in queue : /\ queue' = queue \ {m}
                               /\ wk'[w].msg = m
           /\ wk'[w].pc = "sync" /\ wk'[w].pos = 1
           /\ \A v \in Workers \ {w} : wk'[v] = wk[v]
           /\ UNCHANGED <<alerts, copies, runs, results>>
           /\ ~ Active(w) /\ ~ Busy(w)
<1>1. PICK m \in queue : /\ queue' = queue \ {m}
                         /\ Becomes(w, [Idle EXCEPT !.pc = "sync", !.msg = m])
  BY DEF Receive
<1>2. wk'[w] = [Idle EXCEPT !.pc = "sync", !.msg = m]
      /\ \A v \in Workers \ {w} : wk'[v] = wk[v]
  BY <1>1, BecomesTyped DEF TypeOK, WorkerTypeOK
<1>3. wk'[w].pc = "sync" /\ wk'[w].msg = m /\ wk'[w].pos = 1
  BY <1>2 DEF Idle
<1> QED
  BY <1>1, <1>2, <1>3 DEF Receive, Busy, Active

\* Receiving a message keeps the deliveries in order.
LEMMA ReceiveDelivery ==
    ASSUME TypeOK, Delivery, NEW w \in Workers, Receive(w)
    PROVE  Delivery'
<1>1. PICK m \in queue : queue' = queue \ {m} /\ wk'[w].msg = m
  BY ReceiveFacts
<1>2. /\ wk'[w].pc = "sync" /\ wk'[w].msg = m /\ wk'[w].pos = 1
      /\ \A v \in Workers \ {w} : wk'[v] = wk[v]
  BY <1>1, ReceiveFacts
<1>3. UNCHANGED <<copies, runs>> /\ ~ Active(w)
  BY ReceiveFacts
<1>4. m \in Message /\ m.copy <= copies[m.task]
  BY KnownTypes DEF Delivery, MessagesKnown
<1>5. \A k : SameChain(m, k) <=> SameChain(k, m)
  BY DEF SameChain
<1>6. MessagesKnown'
  <2>1. \A v \in Workers : Busy(v)' => /\ wk'[v].msg \in Message
                                       /\ wk'[v].msg.copy <= copies'[wk'[v].msg.task]
    BY <1>2, <1>3, <1>4 DEF Delivery, MessagesKnown, Busy
  <2> QED
    BY <1>1, <1>3, <2>1 DEF Delivery, MessagesKnown
<1>7. \A v \in Workers \ {w} : Active(v)' => Active(v)
  BY <1>2 DEF Active
<1>8. OneActiveDelivery'
  <2>1. \A k, n \in queue' : SameChain(k, n) => k = n
    BY <1>1 DEF Delivery, OneActiveDelivery
  <2>2. ASSUME NEW u \in Workers, Active(u)'
        PROVE  /\ \A k \in queue' : ~ SameChain(k, wk'[u].msg)
               /\ \A v \in Workers \ {u} :
                     Active(v)' => ~ SameChain(wk'[v].msg, wk'[u].msg)
    <3>1. CASE u = w
      BY <3>1, <1>1, <1>2, <1>5, <1>7 DEF Delivery, OneActiveDelivery
    <3>2. CASE u # w
      BY <3>2, <2>2, <1>1, <1>2, <1>5, <1>7 DEF Delivery, OneActiveDelivery
    <3> QED
      BY <3>1, <3>2
  <2> QED
    BY <2>1, <2>2 DEF OneActiveDelivery
<1>9. RunsBehind'
  <2>1. \A k \in queue' : \A x \in runs' :
           SameChain(x.seq, k) => x.seq.retries < k.retries
    BY <1>1, <1>3 DEF Delivery, RunsBehind
  <2>2. \A x \in runs' : SameChain(x.seq, m) => x.seq.retries < m.retries
    BY <1>1, <1>3 DEF Delivery, RunsBehind
  <2>3. ASSUME NEW u \in Workers, Active(u)'
        PROVE  \A x \in runs' : SameChain(x.seq, wk'[u].msg) =>
                  /\ x.seq.retries <= wk'[u].msg.retries
                  /\ x.seq = wk'[u].msg => x.pos < wk'[u].pos
    <3>1. CASE u = w
      BY <3>1, <1>2, <1>3, <2>2, KnownTypes
    <3>2. CASE u # w
      BY <3>2, <2>3, <1>2, <1>3, <1>7 DEF Delivery, RunsBehind
    <3> QED
      BY <3>1, <3>2
  <2> QED
    BY <2>1, <2>3 DEF RunsBehind
<1> QED
  BY <1>6, <1>8, <1>9 DEF Delivery

\* What committing a run does: the row is the one at the worker's position.
LEMMA CommitFacts ==
    ASSUME TypeOK, NEW w \in Workers, CommitRun(w)
    PROVE  /\ runs' = runs \cup {RunRow(w)}
           /\ RunRow(w).seq = wk[w].msg /\ RunRow(w).pos = wk[w].pos
           /\ wk'[w].msg = wk[w].msg
           /\ \/ wk'[w].pc = "select" /\ wk'[w].pos = wk[w].pos + 1
              \/ wk'[w].pc = "ack" /\ wk'[w].how = "lost"
           /\ \A v \in Workers \ {w} : wk'[v] = wk[v]
           /\ UNCHANGED <<alerts, queue, copies, results>>
           /\ Active(w) /\ Busy(w) /\ OpenRun(w)
<1>1. wk \in [Workers -> WorkerState] /\ wk[w] \in WorkerState
  BY DEF TypeOK, WorkerTypeOK
<1>2. CASE wk[w].outcome = "running"
  <2>1. Becomes(w, [wk[w] EXCEPT !.pc = "ack", !.how = "lost"])
    BY <1>2 DEF CommitRun
  <2>2. wk'[w] = [wk[w] EXCEPT !.pc = "ack", !.how = "lost"]
        /\ \A v \in Workers \ {w} : wk'[v] = wk[v]
    BY <1>1, <2>1, BecomesTyped
  <2>3. wk'[w].msg = wk[w].msg /\ wk'[w].pc = "ack" /\ wk'[w].how = "lost"
    BY <1>1, <2>2 DEF WorkerState
  <2> QED
    BY <2>2, <2>3 DEF CommitRun, RunRow, Active, Busy, OpenRun
<1>3. CASE wk[w].outcome # "running"
  <2>1. Becomes(w, [wk[w] EXCEPT !.pc = "select", !.pos = @ + 1])
    BY <1>3 DEF CommitRun
  <2>2. wk'[w] = [wk[w] EXCEPT !.pc = "select", !.pos = @ + 1]
        /\ \A v \in Workers \ {w} : wk'[v] = wk[v]
    BY <1>1, <2>1, BecomesTyped
  <2>3. wk'[w].msg = wk[w].msg /\ wk'[w].pc = "select"
        /\ wk'[w].pos = wk[w].pos + 1
    BY <1>1, <2>2 DEF WorkerState
  <2> QED
    BY <2>2, <2>3 DEF CommitRun, RunRow, Active, Busy, OpenRun
<1> QED
  BY <1>2, <1>3

\* Committing a run: nothing else of its copy is queued or active.
LEMMA CommitDelivery ==
    ASSUME TypeOK, Delivery, NEW w \in Workers, CommitRun(w)
    PROVE  Delivery'
<1> DEFINE new == RunRow(w)
<1>1. /\ runs' = runs \cup {new}
      /\ new.seq = wk[w].msg /\ new.pos = wk[w].pos
      /\ wk'[w].msg = wk[w].msg
      /\ \/ wk'[w].pc = "select" /\ wk'[w].pos = wk[w].pos + 1
         \/ wk'[w].pc = "ack" /\ wk'[w].how = "lost"
      /\ \A v \in Workers \ {w} : wk'[v] = wk[v]
      /\ UNCHANGED <<queue, copies>>
      /\ Active(w) /\ Busy(w)
  BY CommitFacts
<1> HIDE DEF new
<1>2. \A v \in Workers \ {w} : Active(v)' => Active(v)
  BY <1>1 DEF Active
<1>m. wk[w].msg \in Message /\ wk[w].msg.retries \in Nat
  BY <1>1, MaxRetriesNat DEF Delivery, MessagesKnown, Message
<1>3. MessagesKnown'
  BY <1>1 DEF Delivery, MessagesKnown, Busy
<1>4. OneActiveDelivery'
  <2>1. \A v \in Workers : Active(v)' => Active(v) /\ wk'[v].msg = wk[v].msg
    BY <1>1, <1>2
  <2> QED
    BY <1>1, <2>1 DEF Delivery, OneActiveDelivery
<1>5. RunsBehind'
  <2>1. \A k \in queue' : \A x \in runs' :
           SameChain(x.seq, k) => x.seq.retries < k.retries
    <3>1. \A k \in queue : ~ SameChain(new.seq, k)
      BY <1>1 DEF Delivery, OneActiveDelivery, SameChain
    <3> QED
      BY <1>1, <3>1 DEF Delivery, RunsBehind
  <2>2. ASSUME NEW u \in Workers, Active(u)'
        PROVE  \A x \in runs' : SameChain(x.seq, wk'[u].msg) =>
                  /\ x.seq.retries <= wk'[u].msg.retries
                  /\ x.seq = wk'[u].msg => x.pos < wk'[u].pos
    <3>1. CASE u = w
      <4>1. wk'[w].pos = wk[w].pos + 1
        BY <1>1, <2>2, <3>1 DEF Active
      <4>2. \A x \in runs : SameChain(x.seq, wk[w].msg) =>
               /\ x.seq.retries <= wk[w].msg.retries
               /\ x.seq = wk[w].msg => x.pos < wk[w].pos
        BY <1>1 DEF Delivery, RunsBehind
      <4> QED
        BY <1>1, <1>m, <3>1, <4>1, <4>2, KnownTypes
    <3>2. CASE u # w
      <4>1. ~ SameChain(new.seq, wk[u].msg)
        BY <1>1, <1>2, <2>2, <3>2 DEF Delivery, OneActiveDelivery
      <4> QED
        BY <1>1, <1>2, <2>2, <3>2, <4>1 DEF Delivery, RunsBehind
    <3> QED
      BY <3>1, <3>2
  <2> QED
    BY <2>1, <2>2 DEF RunsBehind
<1> QED
  BY <1>3, <1>4, <1>5 DEF Delivery

\* What a worker's last steps do to it.
LEMMA RetryFacts ==
    ASSUME TypeOK, NEW w \in Workers, Retry(w)
    PROVE  /\ queue' = queue \cup {[wk[w].msg EXCEPT !.retries = @ + 1]}
           /\ wk'[w].msg = wk[w].msg /\ wk'[w].pos = wk[w].pos
           /\ wk'[w].pc = "ack" /\ wk'[w].how = "retried"
           /\ \A v \in Workers \ {w} : wk'[v] = wk[v]
           /\ UNCHANGED <<alerts, copies, runs, results>>
           /\ Active(w) /\ Busy(w)
<1>1. wk \in [Workers -> WorkerState] /\ wk[w] \in WorkerState
  BY DEF TypeOK, WorkerTypeOK
<1>2. wk'[w] = [wk[w] EXCEPT !.pc = "ack", !.how = "retried"]
      /\ \A v \in Workers \ {w} : wk'[v] = wk[v]
  BY <1>1, BecomesTyped DEF Retry
<1>3. /\ wk'[w].msg = wk[w].msg /\ wk'[w].pos = wk[w].pos
      /\ wk'[w].pc = "ack" /\ wk'[w].how = "retried"
  BY <1>1, <1>2 DEF WorkerState
<1> QED
  BY <1>2, <1>3 DEF Retry, Active, Busy

\* Publishing a retry: the delivery stops being active in the same step.
LEMMA RetryDelivery ==
    ASSUME TypeOK, Delivery, NEW w \in Workers, Retry(w)
    PROVE  Delivery'
<1> DEFINE n == [wk[w].msg EXCEPT !.retries = @ + 1]
<1>1. /\ queue' = queue \cup {n}
      /\ wk'[w].msg = wk[w].msg /\ wk'[w].pc = "ack"
      /\ \A v \in Workers \ {w} : wk'[v] = wk[v]
      /\ UNCHANGED <<copies, runs>>
      /\ Active(w) /\ Busy(w)
  BY RetryFacts
<1>2. wk[w].msg \in Message /\ wk[w].msg.retries \in Nat
  BY <1>1, MaxRetriesNat DEF Delivery, MessagesKnown, Message
<1>3. /\ n.task = wk[w].msg.task /\ n.copy = wk[w].msg.copy
      /\ n.retries = wk[w].msg.retries + 1
  BY <1>2 DEF Message
<1> HIDE DEF n
<1>4. \A v \in Workers : Active(v)' => /\ Active(v) /\ v # w
                                       /\ wk'[v] = wk[v]
  BY <1>1 DEF Active
<1>5. \A m : /\ SameChain(m, n) <=> SameChain(m, wk[w].msg)
             /\ SameChain(n, m) <=> SameChain(m, wk[w].msg)
  BY <1>3 DEF SameChain
<1>6. MessagesKnown'
  BY <1>1, <1>3 DEF Delivery, MessagesKnown, Busy
<1>7. OneActiveDelivery'
  <2>1. \A k, m \in queue' : SameChain(k, m) => k = m
    BY <1>1, <1>5 DEF Delivery, OneActiveDelivery
  <2>2. ASSUME NEW u \in Workers, Active(u)'
        PROVE  /\ \A m \in queue' : ~ SameChain(m, wk'[u].msg)
               /\ \A v \in Workers \ {u} :
                     Active(v)' => ~ SameChain(wk'[v].msg, wk'[u].msg)
    BY <1>1, <1>4, <1>5, <2>2 DEF Delivery, OneActiveDelivery
  <2> QED
    BY <2>1, <2>2 DEF OneActiveDelivery
<1>8. RunsBehind'
  <2>1. \A x \in runs : SameChain(x.seq, n) => x.seq.retries < n.retries
    BY <1>1, <1>2, <1>3, <1>5, KnownTypes DEF Delivery, RunsBehind
  <2> QED
    BY <1>1, <1>4, <2>1 DEF Delivery, RunsBehind
<1> QED
  BY <1>6, <1>7, <1>8 DEF Delivery

\* A worker that becomes idle, with the queue unchanged.
LEMMA AckFacts ==
    ASSUME TypeOK, NEW w \in Workers, Becomes(w, Idle)
    PROVE  /\ wk'[w] = Idle /\ wk'[w].pc = "idle"
           /\ \A v \in Workers \ {w} : wk'[v] = wk[v]
BY BecomesTyped DEF TypeOK, WorkerTypeOK, Idle

\* The acknowledgement frees the worker; no other delivery is touched.
LEMMA AckDelivery ==
    ASSUME TypeOK, Delivery, NEW w \in Workers, Ack(w)
    PROVE  Delivery'
<1>1. /\ wk'[w].pc = "idle"
      /\ \A v \in Workers \ {w} : wk'[v] = wk[v]
      /\ UNCHANGED <<queue, copies, runs>>
  BY AckFacts DEF Ack
<1>2. \A v \in Workers : /\ Active(v)' => Active(v) /\ wk'[v] = wk[v]
                         /\ Busy(v)' => Busy(v) /\ wk'[v] = wk[v]
  BY <1>1 DEF Active, Busy
<1>3. MessagesKnown'
  BY <1>1, <1>2 DEF Delivery, MessagesKnown
<1>4. OneActiveDelivery'
  BY <1>1, <1>2 DEF Delivery, OneActiveDelivery
<1>5. RunsBehind'
  BY <1>1, <1>2 DEF Delivery, RunsBehind
<1> QED
  BY <1>3, <1>4, <1>5 DEF Delivery

\* A redelivery (node crash or visibility timeout) is a fresh copy.
LEMMA RequeueFacts ==
    ASSUME TypeOK, MessagesKnown, NEW w \in Workers, Busy(w), Requeue(wk[w].msg)
    PROVE  \E n \in Message :
              /\ queue' = queue \cup {n}
              /\ n.task = wk[w].msg.task /\ n.retries = wk[w].msg.retries
              /\ n.alert = wk[w].msg.alert
              /\ n.copy > copies[n.task]
              /\ copies' = [copies EXCEPT ![n.task] = n.copy]
<1> DEFINE m == wk[w].msg
           n == [m EXCEPT !.copy = copies[m.task] + 1]
<1>1. m \in Message
  BY DEF MessagesKnown
<1>2. m.task \in Tasks /\ copies[m.task] \in Nat
  BY <1>1, KnownTypes DEF Message
<1>3. copies[m.task] + 1 \in Nat \ {0}
  BY <1>2
<1>4. n \in Message
  BY <1>1, <1>3 DEF Message
<1>5. /\ n.task = m.task /\ n.retries = m.retries /\ n.alert = m.alert
      /\ n.copy = copies[m.task] + 1
  BY <1>1 DEF Message
<1>6. queue' = queue \cup {n} /\ copies' = [copies EXCEPT ![m.task] = copies[m.task] + 1]
  BY DEF Requeue
<1> HIDE DEF n, m
<1>7. n.copy > copies[n.task]
  BY <1>2, <1>5
<1>8. copies' = [copies EXCEPT ![n.task] = n.copy]
  BY <1>5, <1>6
<1> QED
  BY <1>4, <1>5, <1>6, <1>7, <1>8 DEF m

\* A redelivery (Crash, VisibilityTimeout) starts a new copy of the task, which no
\* queued or executing message belongs to.
LEMMA RedeliveryDelivery ==
    ASSUME TypeOK, Delivery, NEW w \in Workers,
           Crash(w) \/ VisibilityTimeout(w)
    PROVE  Delivery'
<1>1. Busy(w) /\ Requeue(wk[w].msg) /\ UNCHANGED runs
  BY DEF Crash, VisibilityTimeout
<1>2. PICK n \in Message :
              /\ queue' = queue \cup {n}
              /\ n.copy > copies[n.task]
              /\ copies' = [copies EXCEPT ![n.task] = n.copy]
  BY <1>1, RequeueFacts DEF Delivery
<1>3. \A v \in Workers : /\ Active(v)' => Active(v)
                         /\ Busy(v)' => Busy(v) /\ wk'[v] = wk[v]
  <2>1. CASE Crash(w)
    BY <2>1, AckFacts DEF Crash, Active, Busy
  <2>2. CASE VisibilityTimeout(w)
    BY <2>2 DEF VisibilityTimeout, Active, Busy
  <2> QED
    BY <2>1, <2>2
<1> QED
  BY <1>1, <1>2, <1>3, FreshDelivery

-----------------------------------------------------------------------------
(* The committed runs: SequencePrefix and RunsKeepTheirAlert.              *)

\* A step that commits no run and deletes no alert with a run.
LEMMA RunsFrame ==
    ASSUME SequencePrefix, RunsKeepTheirAlert, UNCHANGED runs,
           \A x \in runs : x.seq.alert \in alerts => x.seq.alert \in alerts'
    PROVE  SequencePrefix' /\ RunsKeepTheirAlert'
<1>1. SequencePrefix'
  BY DEF SequencePrefix, Committed
<1>2. RunsKeepTheirAlert'
  BY DEF RunsKeepTheirAlert
<1> QED
  BY <1>1, <1>2

\* The committed run is the next of its delivery, and its alert is there.
LEMMA CommitRuns ==
    ASSUME TypeOK, Delivery, Progress, SequencePrefix, RunsKeepTheirAlert,
           NEW w \in Workers, CommitRun(w)
    PROVE  SequencePrefix' /\ RunsKeepTheirAlert'
<1> DEFINE new == RunRow(w)
<1>1. /\ runs' = runs \cup {new}
      /\ new.seq = wk[w].msg /\ new.pos = wk[w].pos
      /\ UNCHANGED alerts
      /\ Active(w) /\ Busy(w) /\ OpenRun(w)
  BY CommitFacts
<1>2. new.name = Names[new.seq.task][new.pos]
  BY DEF RunRow, PlaybooksOf
<1> HIDE DEF new
<1>3. /\ new.pos <= Len(Names[new.seq.task])
      /\ \A i \in 1 .. new.pos - 1 : Committed(new.seq, i)
      /\ new.seq.alert \in alerts \cup {NoAlert}
  BY <1>1 DEF Progress, PlaybooksOf, OpenRun
<1>4. \A y \in runs : y.seq = new.seq => y.pos # new.pos
  <2>1. \A y \in runs : y.seq = new.seq => y.pos < new.pos
    BY <1>1 DEF Delivery, RunsBehind, SameChain
  <2> QED
    BY <1>1, <2>1, KnownTypes
<1>5. \A m, i : Committed(m, i) => Committed(m, i)'
  BY <1>1 DEF Committed
<1>6. SequencePrefix'
  <2> SUFFICES ASSUME NEW x \in runs'
               PROVE  /\ x.pos <= Len(Names[x.seq.task])
                      /\ x.name = Names[x.seq.task][x.pos]
                      /\ \A i \in 1 .. x.pos - 1 : Committed(x.seq, i)'
                      /\ \A y \in runs' : y.seq = x.seq /\ y.pos = x.pos => y = x
    BY DEF SequencePrefix
  <2>1. CASE x = new
    BY <1>1, <1>2, <1>3, <1>4, <1>5, <2>1
  <2>2. CASE x \in runs
    BY <1>1, <1>4, <1>5, <2>2 DEF SequencePrefix
  <2> QED
    BY <1>1, <2>1, <2>2
<1>7. RunsKeepTheirAlert'
  BY <1>1, <1>3 DEF RunsKeepTheirAlert
<1> QED
  BY <1>6, <1>7

-----------------------------------------------------------------------------
(* Progress of the deliveries being executed.                              *)

\* What Progress says of one worker.
ProgressOf(w) ==
    /\ Active(w) => \A i \in 1 .. wk[w].pos - 1 : Committed(wk[w].msg, i)
    /\ wk[w].pc \in {"sync", "upsert"} => wk[w].pos = 1
    /\ wk[w].pc \in {"insert", "body", "commit"} =>
          wk[w].pos <= Len(PlaybooksOf(w))
    /\ OpenRun(w) => wk[w].msg.alert \in alerts \cup {NoAlert}
    /\ wk[w].pc = "ack" /\ wk[w].how = "returned" =>
          \A i \in 1 .. Len(PlaybooksOf(w)) : Committed(wk[w].msg, i)
    /\ wk[w].pc = "ack" /\ wk[w].how = "failed" =>
          wk[w].msg.retries = MaxRetries

\* Progress, one worker at a time.
LEMMA ProgressParts == /\ Progress <=> \A w \in Workers : ProgressOf(w)
                       /\ Progress' <=> \A w \in Workers : ProgressOf(w)'
BY DEF Progress, ProgressOf

\* A worker that does not move keeps its progress while runs are only added
\* and the alert of its open run stays.
LEMMA ProgressFrame ==
    ASSUME NEW v \in Workers, ProgressOf(v), wk'[v] = wk[v], runs \subseteq runs',
           OpenRun(v) /\ wk[v].msg.alert \in alerts => wk[v].msg.alert \in alerts'
    PROVE  ProgressOf(v)'
<1>1. \A m, i : Committed(m, i) => Committed(m, i)'
  BY DEF Committed
<1>2. /\ Active(v)' = Active(v) /\ OpenRun(v)' = OpenRun(v)
      /\ PlaybooksOf(v)' = PlaybooksOf(v)
  BY DEF Active, OpenRun, PlaybooksOf
<1> QED
  BY <1>1, <1>2 DEF ProgressOf

\* A worker's own step keeps its progress.
LEMMA ProgressStep ==
    ASSUME TypeOK, Delivery, NEW w \in Workers, ProgressOf(w),
           WorkerStep(w) \/ FaultStep(w)
    PROVE  ProgressOf(w)'
<1>w. wk \in [Workers -> WorkerState] /\ wk[w] \in WorkerState
  BY DEF TypeOK, WorkerTypeOK
<1>t. wk[w].pos \in Nat \ {0}
  BY KnownTypes
<1>m. Busy(w) => /\ wk[w].msg.task \in Tasks
                 /\ wk[w].msg.retries \in Nat /\ wk[w].msg.retries <= MaxRetries
                 /\ Len(PlaybooksOf(w)) \in Nat
  BY NamesTyped, MaxRetriesNat DEF Delivery, MessagesKnown, Message, PlaybooksOf
<1>s. ASSUME NEW s, Becomes(w, s), s.msg = wk[w].msg
      PROVE  wk'[w] = s /\ PlaybooksOf(w)' = PlaybooksOf(w)
  BY <1>s, <1>w, BecomesTyped DEF PlaybooksOf
\* Steps that raise, or otherwise leave nothing to show but the runs behind.
<1>k. ASSUME Active(w), UNCHANGED runs, wk'[w].msg = wk[w].msg,
             wk'[w].pos = wk[w].pos, wk'[w].pc \in {"raise", "select"}
      PROVE  ProgressOf(w)'
  BY <1>k DEF ProgressOf, Active, OpenRun, Committed
<1>r. ASSUME Active(w), UNCHANGED runs, Becomes(w, [wk[w] EXCEPT !.pc = "raise"])
      PROVE  ProgressOf(w)'
  <2>1. wk'[w] = [wk[w] EXCEPT !.pc = "raise"]
    BY <1>r, <1>w, BecomesTyped
  <2>2. /\ wk'[w].msg = wk[w].msg /\ wk'[w].pos = wk[w].pos
        /\ wk'[w].pc = "raise"
    BY <1>w, <2>1 DEF WorkerState
  <2> QED
    BY <1>k, <1>r, <2>2
\* A message that is lost, retried or put back promises no run.
<1>l. ASSUME wk'[w].pc = "ack", wk'[w].how \in {"lost", "retried"}
      PROVE  ProgressOf(w)'
  BY <1>l DEF ProgressOf, Active, OpenRun
<1>i. ASSUME Becomes(w, Idle)
      PROVE  ProgressOf(w)'
  <2>1. wk'[w].pc = "idle"
    BY <1>i, AckFacts
  <2> QED
    BY <2>1 DEF ProgressOf, Active, OpenRun
<1>1. CASE Receive(w)
  <2>1. wk'[w].pc = "sync" /\ wk'[w].pos = 1
    BY <1>1, ReceiveFacts
  <2> QED
    BY <2>1 DEF ProgressOf, OpenRun
<1>2. CASE UnknownPlaybook(w)
  BY <1>2, <1>r DEF UnknownPlaybook, Active
<1>3. CASE SyncSelect(w)
  <2>1. wk'[w] = [wk[w] EXCEPT !.pc = "upsert", !.missing = Registered[w] \ defs]
    BY <1>3, <1>w, BecomesTyped DEF SyncSelect
  <2>2. wk'[w].pc = "upsert" /\ wk'[w].pos = wk[w].pos
    BY <1>w, <2>1 DEF WorkerState
  <2>3. wk[w].pos = 1
    BY <1>3 DEF SyncSelect, ProgressOf
  <2> QED
    BY <2>2, <2>3 DEF ProgressOf, OpenRun
<1>4. CASE SyncCommit(w)
  <2>1. CASE wk[w].missing \cap defs = {}
    <3>1. wk'[w] = [wk[w] EXCEPT !.pc = "select"]
      BY <1>4, <2>1, <1>w, BecomesTyped DEF SyncCommit
    <3>2. /\ wk'[w].msg = wk[w].msg /\ wk'[w].pos = wk[w].pos
          /\ wk'[w].pc = "select"
      BY <1>w, <3>1 DEF WorkerState
    <3> QED
      BY <1>4, <1>k, <3>2 DEF SyncCommit, Active
  <2>2. CASE wk[w].missing \cap defs # {}
    BY <1>4, <1>r, <2>2 DEF SyncCommit, Active
  <2> QED
    BY <2>1, <2>2
<1>5. CASE SelectAlert(w)
  <2> DEFINE pc == IF PlaybooksOf(w)[wk[w].pos] \in Registered[w] \cap defs
                     THEN "insert" ELSE "raise"
             saw == wk[w].msg.alert \in alerts
  <2>1. /\ pc \in {"insert", "raise"}
        /\ Becomes(w, [wk[w] EXCEPT !.pc = pc, !.saw = saw])
    BY <1>5 DEF SelectAlert
  <2> HIDE DEF pc, saw
  <2>2. wk'[w] = [wk[w] EXCEPT !.pc = pc, !.saw = saw]
    BY <1>w, <2>1, BecomesTyped
  <2>3. /\ wk'[w].msg = wk[w].msg /\ wk'[w].pos = wk[w].pos
        /\ wk'[w].pc \in {"insert", "raise"}
    BY <1>w, <2>1, <2>2 DEF WorkerState
  <2>4. wk[w].pos <= Len(PlaybooksOf(w)) /\ UNCHANGED runs /\ Active(w)
    BY <1>5 DEF SelectAlert, Active
  <2> QED
    BY <2>3, <2>4 DEF ProgressOf, OpenRun, Committed, PlaybooksOf
<1>6. CASE Finish(w)
  <2>1. wk'[w] = [wk[w] EXCEPT !.pc = "ack", !.how = "returned"]
    BY <1>6, <1>w, BecomesTyped DEF Finish
  <2>2. wk'[w].msg = wk[w].msg /\ wk'[w].pc = "ack" /\ wk'[w].how = "returned"
    BY <1>w, <2>1 DEF WorkerState
  <2>3. /\ \A i \in 1 .. wk[w].pos - 1 : Committed(wk[w].msg, i)
        /\ wk[w].pos > Len(PlaybooksOf(w)) /\ UNCHANGED runs /\ Busy(w)
    BY <1>6 DEF Finish, Active, Busy, ProgressOf
  <2>4. \A i \in 1 .. Len(PlaybooksOf(w)) : Committed(wk[w].msg, i)
    BY <1>m, <1>t, <2>3
  <2>5. (\A i \in 1 .. Len(PlaybooksOf(w)) : Committed(wk[w].msg, i))'
    BY <2>2, <2>3, <2>4 DEF PlaybooksOf, Committed
  <2> QED
    BY <2>2, <2>5 DEF ProgressOf, Active, OpenRun
<1>7. CASE FlushRun(w)
  <2>1. CASE wk[w].msg.alert \in alerts \cup {NoAlert}
    <3>1. wk'[w] = [wk[w] EXCEPT !.pc = "body"]
      BY <1>7, <2>1, <1>w, BecomesTyped DEF FlushRun
    <3>2. /\ wk'[w].msg = wk[w].msg /\ wk'[w].pos = wk[w].pos
          /\ wk'[w].pc = "body"
      BY <1>w, <3>1 DEF WorkerState
    <3>3. /\ wk[w].pos <= Len(PlaybooksOf(w)) /\ UNCHANGED <<runs, alerts>>
          /\ Active(w)
      BY <1>7 DEF FlushRun, Active, ProgressOf
    <3> QED
      BY <2>1, <3>2, <3>3 DEF ProgressOf, Committed, PlaybooksOf
  <2>2. CASE wk[w].msg.alert \notin alerts \cup {NoAlert}
    BY <1>7, <1>r, <2>2 DEF FlushRun, Active
  <2> QED
    BY <2>1, <2>2
<1>8. CASE RunBody(w)
  <2>1. PICK o \in Outcomes :
           Becomes(w, [wk[w] EXCEPT !.pc = "commit", !.outcome = o])
    BY <1>8 DEF RunBody
  <2>2. wk'[w] = [wk[w] EXCEPT !.pc = "commit", !.outcome = o]
    BY <1>w, <2>1, BecomesTyped
  <2>3. /\ wk'[w].msg = wk[w].msg /\ wk'[w].pos = wk[w].pos
        /\ wk'[w].pc = "commit"
    BY <1>w, <2>2 DEF WorkerState
  <2>4. /\ wk[w].pos <= Len(PlaybooksOf(w)) /\ UNCHANGED <<runs, alerts>>
        /\ Active(w) /\ wk[w].msg.alert \in alerts \cup {NoAlert}
    BY <1>8 DEF RunBody, Active, OpenRun, ProgressOf
  <2> QED
    BY <2>3, <2>4 DEF ProgressOf, Committed, PlaybooksOf
<1>9. CASE CommitRun(w)
  <2>1. CASE wk'[w].pc = "ack" /\ wk'[w].how = "lost"
    BY <1>l, <2>1
  <2>2. CASE wk'[w].pc = "select" /\ wk'[w].pos = wk[w].pos + 1
    <3>1. /\ runs \subseteq runs' /\ RunRow(w) \in runs'
          /\ RunRow(w).seq = wk[w].msg /\ RunRow(w).pos = wk[w].pos
          /\ wk'[w].msg = wk[w].msg /\ Active(w)
      BY <1>9, CommitFacts
    <3>2. \A i \in 1 .. wk[w].pos - 1 : Committed(wk[w].msg, i)
      BY <3>1 DEF ProgressOf
    <3>3. \A i \in 1 .. wk'[w].pos - 1 : i \in 1 .. wk[w].pos - 1 \/ i = wk[w].pos
      BY <1>t, <2>2
    <3>4. (\A i \in 1 .. wk[w].pos - 1 : Committed(wk[w].msg, i))'
      BY <3>1, <3>2, <3>3 DEF Committed
    <3> QED
      BY <2>2, <3>4 DEF ProgressOf, OpenRun
  <2> QED
    BY <1>9, <2>1, <2>2, CommitFacts
<1>10. CASE CommitPoisoned(w)
  BY <1>10, <1>r DEF CommitPoisoned, Active
<1>11. CASE Retry(w)
  BY <1>11, <1>l, RetryFacts
<1>12. CASE GiveUp(w)
  <2>1. wk'[w] = [wk[w] EXCEPT !.pc = "ack", !.how = "failed"]
    BY <1>12, <1>w, BecomesTyped DEF GiveUp
  <2>2. wk'[w].msg = wk[w].msg /\ wk'[w].pc = "ack" /\ wk'[w].how = "failed"
    BY <1>w, <2>1 DEF WorkerState
  <2>3. wk[w].msg.retries = MaxRetries
    BY <1>12, <1>m, MaxRetriesNat DEF GiveUp, Busy
  <2> QED
    BY <2>2, <2>3 DEF ProgressOf, Active, OpenRun
<1>13. CASE Ack(w)
  BY <1>13, <1>i DEF Ack
<1>14. CASE DbError(w)
  BY <1>14, <1>r DEF DbError, Active
<1>15. CASE Crash(w)
  BY <1>15, <1>i DEF Crash
<1>16. CASE ProcessLost(w)
  <2>1. wk'[w] = [wk[w] EXCEPT !.pc = "ack", !.how = "lost"]
    BY <1>16, <1>w, BecomesTyped DEF ProcessLost
  <2>2. wk'[w].pc = "ack" /\ wk'[w].how = "lost"
    BY <1>w, <2>1 DEF WorkerState
  <2> QED
    BY <1>l, <2>2
<1>17. CASE VisibilityTimeout(w)
  BY <1>17, ProgressFrame DEF VisibilityTimeout
<1> QED
  BY <1>1, <1>2, <1>3, <1>4, <1>5, <1>6, <1>7, <1>8, <1>9, <1>10, <1>11,
     <1>12, <1>13, <1>14, <1>15, <1>16, <1>17 DEF WorkerStep, FaultStep

-----------------------------------------------------------------------------
(* No task vanishes: RetryCovered.                                         *)

\* Worker w has published a retry and has not acknowledged its message yet.
Retried(w) == wk[w].pc = "ack" /\ wk[w].how = "retried"

\* A result that settles its task goes on doing so.
LEMMA FinalKept ==
    ASSUME runs \subseteq runs'
    PROVE  \A x : Final(x) => Final(x)'
BY DEF Final, Committed

\* A witness stays one while messages and results are only added.
LEMMA WitnessKept ==
    ASSUME queue \subseteq queue', runs \subseteq runs', results \subseteq results',
           \A v \in Workers : Busy(v) => Busy(v)' /\ wk'[v].msg = wk[v].msg
    PROVE  \A t, k : Witness(t, k) => Witness(t, k)'
<1>1. \A x : Final(x) => Final(x)'
  BY FinalKept
<1> QED
  BY <1>1 DEF Witness

\* RetryCovered carries over a step that keeps the witnesses, if new tasks
\* and new retries have a witness of their own.
LEMMA CoverKept ==
    ASSUME TypeOK, MessagesKnown, RetryCovered,
           \A t \in Tasks, k \in Nat : Witness(t, k) => Witness(t, k)',
           \A t \in Tasks : copies'[t] > 0 => copies[t] > 0 \/ Witness(t, 0)',
           \A v \in Workers : Retried(v)' =>
              \/ Retried(v) /\ wk'[v].msg = wk[v].msg
              \/ Witness(wk[v].msg.task, wk[v].msg.retries + 1)'
    PROVE  RetryCovered'
<1>1. \A t \in Tasks : copies'[t] > 0 => Witness(t, 0)'
  BY DEF RetryCovered
<1>2. ASSUME NEW v \in Workers, Retried(v)'
      PROVE  Witness(wk[v].msg.task, wk[v].msg.retries + 1)'
  <2>1. CASE Retried(v) /\ wk'[v].msg = wk[v].msg
    <3>1. wk[v].msg \in Message
      BY <2>1 DEF MessagesKnown, Busy, Retried
    <3>2. PICK t \in Tasks, k \in Nat :
             t = wk[v].msg.task /\ k = wk[v].msg.retries + 1
      BY <3>1, MaxRetriesNat DEF Message
    <3>3. Witness(t, k)
      BY <2>1, <3>2 DEF RetryCovered, Retried
    <3>4. Witness(t, k)'
      BY <3>3
    <3> QED
      BY <2>1, <3>2, <3>4
  <2> QED
    BY <1>2, <2>1
<1> QED
  BY <1>1, <1>2 DEF RetryCovered, Retried

\* Steps at the API publish a first message or change nothing here.
LEMMA ApiCover ==
    ASSUME TypeOK, MessagesKnown, RetryCovered, UNCHANGED workerVars,
           \/ UNCHANGED <<queue, copies>>
           \/ \E t \in Tasks, a \in Requests \cup {NoAlert} : Publish(t, a)
    PROVE  RetryCovered'
<1>1. \A t, k : Witness(t, k) => Witness(t, k)'
  <2>1. queue \subseteq queue'
    BY DEF Publish
  <2> QED
    BY <2>1, WitnessKept DEF Busy
<1>2. \A t \in Tasks : copies'[t] > 0 => copies[t] > 0 \/ Witness(t, 0)'
  <2>1. ASSUME NEW u \in Tasks, NEW a, Publish(u, a), NEW t \in Tasks,
               copies'[t] > 0
        PROVE  copies[t] > 0 \/ Witness(t, 0)'
    <3>1. CASE t = u
      <4> DEFINE n == [task |-> t, alert |-> a, retries |-> 0, copy |-> 1]
      <4>0. n \in queue'
        BY <2>1, <3>1 DEF Publish
      <4>1. PICK m \in queue' : m.task = t /\ m.retries = 0
        BY <4>0
      <4> QED
        BY <4>1 DEF Witness
    <3>2. CASE t # u
      BY <2>1, <3>2 DEF Publish, TypeOK, StoreTypeOK
    <3> QED
      BY <3>1, <3>2
  <2> QED
    BY <2>1
<1>3. \A v \in Workers : Retried(v)' => Retried(v) /\ wk'[v].msg = wk[v].msg
  BY DEF Retried
<1> QED
  BY <1>1, <1>2, <1>3, CoverKept

\* Every step of a worker hands the witness on: from the queue to the worker,
\* from the worker to the queue (retry, crash) or to the results (ack).
LEMMA WorkerCover ==
    ASSUME TypeOK, Delivery, Progress, RetryCovered, NEW w \in Workers,
           WorkerStep(w) \/ FaultStep(w)
    PROVE  RetryCovered'
<1>d. MessagesKnown
  BY DEF Delivery
<1>m. Busy(w) => /\ wk[w].msg \in Message /\ wk[w].msg.task \in Tasks
                 /\ wk[w].msg.retries \in Nat
  BY MaxRetriesNat DEF Delivery, MessagesKnown, Message
<1>1. CASE StayStep(w)
  <2>1. Stays(w)
    BY <1>1, StaysLemma
  <2>2. \A t, k : Witness(t, k) => Witness(t, k)'
    BY <2>1, WitnessKept DEF Stays, Busy, Active
  <2>3. \A v \in Workers : Retried(v)' => Retried(v) /\ wk'[v].msg = wk[v].msg
    BY <2>1 DEF Stays, Retried
  <2> QED
    BY <1>d, <2>1, <2>2, <2>3, CoverKept DEF Stays
<1>2. CASE Receive(w)
  <2>1. PICK m \in queue : queue' = queue \ {m} /\ wk'[w].msg = m
    BY <1>2, ReceiveFacts
  <2>2. /\ wk'[w].pc = "sync" /\ ~ Busy(w)
        /\ \A v \in Workers \ {w} : wk'[v] = wk[v]
        /\ UNCHANGED <<copies, runs, results>>
    BY <1>2, ReceiveFacts
  <2>3. \A x : Final(x) => Final(x)'
    BY <2>2, FinalKept
  <2>4. \A t, k : Witness(t, k) => Witness(t, k)'
    <3>1. \A v \in Workers : Busy(v) => Busy(v)' /\ wk'[v].msg = wk[v].msg
      BY <2>2 DEF Busy
    <3>2. Busy(w)'
      BY <2>2 DEF Busy
    <3> QED
      BY <2>1, <2>2, <2>3, <3>1, <3>2 DEF Witness
  <2>5. \A v \in Workers : Retried(v)' => Retried(v) /\ wk'[v].msg = wk[v].msg
    BY <2>2 DEF Retried
  <2> QED
    BY <1>d, <2>2, <2>4, <2>5, CoverKept
<1>3. CASE CommitRun(w)
  <2>1. /\ runs \subseteq runs' /\ wk'[w].msg = wk[w].msg /\ Busy(w)
        /\ wk'[w].pc = "select" \/ (wk'[w].pc = "ack" /\ wk'[w].how = "lost")
        /\ \A v \in Workers \ {w} : wk'[v] = wk[v]
        /\ UNCHANGED <<queue, copies, results>>
    BY <1>3, CommitFacts
  <2>2. \A t, k : Witness(t, k) => Witness(t, k)'
    BY <2>1, WitnessKept DEF Busy
  <2>3. \A v \in Workers : Retried(v)' => Retried(v) /\ wk'[v].msg = wk[v].msg
    BY <2>1 DEF Retried
  <2> QED
    BY <1>d, <2>1, <2>2, <2>3, CoverKept
<1>4. CASE Retry(w)
  <2>1. /\ queue' = queue \cup {[wk[w].msg EXCEPT !.retries = @ + 1]}
        /\ wk'[w].msg = wk[w].msg /\ wk'[w].pc = "ack" /\ Busy(w)
        /\ \A v \in Workers \ {w} : wk'[v] = wk[v]
        /\ UNCHANGED <<copies, runs, results>>
    BY <1>4, RetryFacts
  <2>2. \A t, k : Witness(t, k) => Witness(t, k)'
    BY <2>1, WitnessKept DEF Busy
  <2>3. PICK n \in queue' : /\ n.task = wk[w].msg.task
                            /\ n.retries = wk[w].msg.retries + 1
    <3> DEFINE n == [wk[w].msg EXCEPT !.retries = @ + 1]
    <3>1. n.task = wk[w].msg.task /\ n.retries = wk[w].msg.retries + 1
      BY <1>m, <2>1 DEF Message
    <3>2. n \in queue'
      BY <2>1
    <3> QED
      BY <3>1, <3>2
  <2>4. Witness(wk[w].msg.task, wk[w].msg.retries + 1)'
    BY <1>m, <2>1, <2>3 DEF Witness
  <2>5. \A v \in Workers : Retried(v)' =>
              \/ Retried(v) /\ wk'[v].msg = wk[v].msg
              \/ Witness(wk[v].msg.task, wk[v].msg.retries + 1)'
    BY <2>1, <2>4 DEF Retried
  <2> QED
    BY <1>d, <2>1, <2>2, <2>5, CoverKept
<1>5. CASE Ack(w)
  <2>1. /\ wk'[w].pc = "idle" /\ wk[w].pc = "ack" /\ Busy(w) /\ ~ Retried(w)'
        /\ results' = results \cup {[msg |-> wk[w].msg, how |-> wk[w].how]}
        /\ \A v \in Workers \ {w} : wk'[v] = wk[v]
        /\ UNCHANGED <<queue, copies, runs>>
    BY <1>5, AckFacts DEF Ack, Busy, Retried
  <2>2. \A x : Final(x) => Final(x)'
    BY <2>1, FinalKept
  <2> DEFINE d == [msg |-> wk[w].msg, how |-> wk[w].how]
  <2>3. \A v \in Workers \ {w} : Busy(v) => Busy(v)' /\ wk'[v].msg = wk[v].msg
    BY <2>1 DEF Busy
  <2>4. CASE wk[w].how = "retried"
    <3>1. Witness(wk[w].msg.task, wk[w].msg.retries + 1)
      BY <2>1, <2>4 DEF RetryCovered
    <3>2. ASSUME NEW t \in Tasks, NEW k \in Nat, Witness(t, k)
          PROVE  Witness(t, k)'
      <4>1. CASE \E m \in queue : m.task = t /\ m.retries >= k
        BY <2>1, <4>1 DEF Witness
      <4>2. CASE \E x \in results : x.msg.task = t /\ x.msg.retries >= k /\ Final(x)
        BY <2>1, <2>2, <4>2 DEF Witness
      <4>3. CASE \E v \in Workers \ {w} : Busy(v) /\ wk[v].msg.task = t
                                          /\ wk[v].msg.retries >= k
        BY <2>3, <4>3 DEF Witness
      <4>4. CASE wk[w].msg.task = t /\ wk[w].msg.retries >= k
        <5>1. CASE \E m \in queue : m.task = t /\ m.retries >= wk[w].msg.retries + 1
          BY <1>m, <2>1, <4>4, <5>1, KnownTypes DEF Witness
        <5>2. CASE \E x \in results : /\ x.msg.task = t /\ Final(x)
                                      /\ x.msg.retries >= wk[w].msg.retries + 1
          <6>1. PICK x \in results : /\ x.msg.task = t /\ Final(x)
                                     /\ x.msg.retries >= wk[w].msg.retries + 1
            BY <5>2
          <6>2. x \in results' /\ x.msg.retries >= k /\ Final(x)'
            BY <1>m, <2>1, <2>2, <4>4, <6>1, KnownTypes
          <6> QED
            BY <6>1, <6>2 DEF Witness
        <5>3. CASE \E v \in Workers : /\ Busy(v) /\ wk[v].msg.task = t
                                      /\ wk[v].msg.retries >= wk[w].msg.retries + 1
          <6>1. PICK v \in Workers : /\ Busy(v) /\ wk[v].msg.task = t
                                     /\ wk[v].msg.retries >= wk[w].msg.retries + 1
            BY <5>3
          <6>2. wk[v].msg.retries \in Nat
            BY <6>1, MaxRetriesNat DEF Delivery, MessagesKnown, Message
          <6>3. v # w /\ wk[v].msg.retries >= k
            BY <1>m, <2>1, <4>4, <6>1, <6>2
          <6> QED
            BY <2>3, <6>1, <6>3 DEF Witness
        <5> QED
          BY <3>1, <4>4, <5>1, <5>2, <5>3 DEF Witness
      <4> QED
        BY <3>2, <4>1, <4>2, <4>3, <4>4 DEF Witness
    <3> QED
      BY <1>d, <2>1, <3>2, CoverKept DEF Retried
  <2>5. CASE wk[w].how # "retried"
    <3>1. wk[w].how \in {"returned", "failed", "lost"}
      BY <2>5 DEF TypeOK, WorkerTypeOK, WorkerState, Verdict
    <3>2. Final(d)
      BY <2>1, <3>1 DEF Final, Progress, PlaybooksOf
    <3>3. PICK e : Final(e)' /\ e \in results' /\ e.msg = wk[w].msg
      BY <2>1, <2>2, <3>2
    <3>4. \A t, k : Witness(t, k) => Witness(t, k)'
      BY <2>1, <2>2, <2>3, <3>3 DEF Witness
    <3> QED
      BY <1>d, <2>1, <3>4, CoverKept DEF Retried
  <2> QED
    BY <2>4, <2>5
<1>6. CASE Crash(w) \/ VisibilityTimeout(w)
  <2>1. /\ Busy(w) /\ Requeue(wk[w].msg) /\ UNCHANGED <<runs, results>>
    BY <1>6 DEF Crash, VisibilityTimeout
  <2>2. PICK n \in Message :
              /\ queue' = queue \cup {n}
              /\ n.task = wk[w].msg.task /\ n.retries = wk[w].msg.retries
              /\ n.copy > copies[n.task]
              /\ copies' = [copies EXCEPT ![n.task] = n.copy]
    BY <1>d, <2>1, RequeueFacts
  <2>3. /\ \A v \in Workers \ {w} : wk'[v] = wk[v]
        /\ Retried(w)' => Retried(w) /\ wk'[w].msg = wk[w].msg
    BY <1>6, AckFacts DEF Crash, VisibilityTimeout, Retried
  <2>4. \A x : Final(x) => Final(x)'
    BY <2>1, FinalKept
  <2>5. \A t, k : Witness(t, k) => Witness(t, k)'
    BY <2>1, <2>2, <2>3, <2>4 DEF Witness, Busy
  <2>6. \A t \in Tasks : copies'[t] > 0 => copies[t] > 0 \/ Witness(t, 0)'
    <3>1. \A t \in Tasks : t # n.task => copies'[t] = copies[t]
      BY <2>2 DEF TypeOK, StoreTypeOK
    <3>2. Witness(n.task, 0)'
      BY <1>m, <2>1, <2>2 DEF Witness
    <3> QED
      BY <3>1, <3>2
  <2>7. \A v \in Workers : Retried(v)' => Retried(v) /\ wk'[v].msg = wk[v].msg
    BY <2>3 DEF Retried
  <2> QED
    BY <1>d, <2>5, <2>6, <2>7, CoverKept
<1> QED
  BY <1>1, <1>2, <1>3, <1>4, <1>5, <1>6 DEF WorkerStep, FaultStep, StayStep

-----------------------------------------------------------------------------
(* The inductive invariant.                                                *)

\* The initial state, with no request, message or run, satisfies the invariant.
LEMMA IInvInit == Init => IInv
<1> SUFFICES ASSUME Init PROVE IInv
  OBVIOUS
<1>w. \A w \in Workers : /\ wk[w] = Idle /\ wk[w].pc = "idle"
                         /\ ~ Busy(w) /\ ~ Active(w) /\ ~ OpenRun(w)
  BY DEF Init, WorkerInit, Idle, Busy, Active, OpenRun
<1>e. queue = {} /\ runs = {} /\ copies = [t \in Tasks |-> 0]
  BY DEF Init, StoreInit, WorkerInit
<1>1. TypeOK
  <2>1. Idle \in WorkerState
    BY DEF Idle, RunStatus, WorkerState, Verdict
  <2>2. WorkerTypeOK
    BY <2>1, WorkerAssumption DEF Init, WorkerInit, WorkerTypeOK
  <2>3. StoreTypeOK
    BY DEF Init, StoreInit, StoreTypeOK
  <2>4. IngestTypeOK
    BY DEF Init, IngestInit, IngestTypeOK, ReqState
  <2> QED
    BY <2>2, <2>3, <2>4 DEF TypeOK
<1>2. MessagesKnown /\ OneActiveDelivery /\ RunsBehind
  BY <1>w, <1>e DEF MessagesKnown, OneActiveDelivery, RunsBehind
<1>3. Undispatched
  BY <1>e DEF Undispatched, Tasks
<1>4. Progress
  BY <1>w DEF Progress
<1>5. SequencePrefix /\ RunsKeepTheirAlert
  BY <1>e DEF SequencePrefix, RunsKeepTheirAlert
<1>6. RetryCovered
  BY <1>w, <1>e DEF RetryCovered
<1> QED
  BY <1>1, <1>2, <1>3, <1>4, <1>5, <1>6 DEF IInv

\* Publishing a task for the first time (a webhook's dispatch, a manual run).
LEMMA PublishDelivery ==
    ASSUME TypeOK, Delivery, NEW t \in Tasks, NEW a \in Requests \cup {NoAlert},
           copies[t] = 0, Publish(t, a), UNCHANGED workerVars
    PROVE  Delivery'
<1> DEFINE n == [task |-> t, alert |-> a, retries |-> 0, copy |-> 1]
<1>1. n \in Message
  BY MaxRetriesNat DEF Message
<1>2. /\ queue' = queue \cup {n} /\ n.copy > copies[n.task]
      /\ copies' = [copies EXCEPT ![n.task] = n.copy]
  BY DEF Publish
<1>3. \A v \in Workers : /\ Active(v)' => Active(v)
                         /\ Busy(v)' => Busy(v) /\ wk'[v] = wk[v]
  BY DEF Active, Busy
<1> HIDE DEF n
<1> QED
  BY <1>1, <1>2, <1>3, FreshDelivery

\* The worker side does not notice a step of the API that publishes nothing.
LEMMA QuietDelivery ==
    ASSUME Delivery, UNCHANGED <<queue, copies>>, UNCHANGED workerVars
    PROVE  Delivery'
<1>1. \A v \in Workers : Active(v)' = Active(v) /\ Busy(v)' = Busy(v)
  BY DEF Active, Busy
<1> QED
  BY <1>1 DEF Delivery, MessagesKnown, OneActiveDelivery, RunsBehind

\* Alerts may be added, and removed while no run references them.
LEMMA ApiRuns ==
    ASSUME SequencePrefix, RunsKeepTheirAlert, Progress, UNCHANGED workerVars,
           \A x \in runs : x.seq.alert \in alerts => x.seq.alert \in alerts',
           \A v \in Workers : OpenRun(v) /\ wk[v].msg.alert \in alerts =>
                                 wk[v].msg.alert \in alerts'
    PROVE  SequencePrefix' /\ RunsKeepTheirAlert' /\ Progress'
<1>1. SequencePrefix' /\ RunsKeepTheirAlert'
  BY RunsFrame
<1>2. \A v \in Workers : ProgressOf(v)
  BY ProgressParts
<1>3. \A v \in Workers : ProgressOf(v)'
  BY <1>2, ProgressFrame
<1> QED
  BY <1>1, <1>3, ProgressParts

\* Every step of a webhook request preserves the invariant.
LEMMA RequestInv ==
    ASSUME IInv, NEW r \in Requests, RequestStep(r), UNCHANGED workerVars
    PROVE  IInv'
<1>1. TypeOK'
  BY RequestTypes DEF IInv
<1>2. alerts \subseteq alerts'
  BY DEF RequestStep, SelectNone, SelectOne, SelectMany, FlushInsert,
         FlushUpdate, Dispatch, Commit, Abort
<1>3. SequencePrefix' /\ RunsKeepTheirAlert' /\ Progress'
  BY <1>2, ApiRuns DEF IInv
<1>t. r \in Tasks
  BY DEF Tasks
<1>4. \/ UNCHANGED <<queue, copies>>
      \/ copies[r] = 0 /\ \E a \in Requests \cup {NoAlert} : Publish(r, a)
  <2>1. CASE Dispatch(r)
    <3>1. req[r].target \in Requests \cup {NoAlert}
      BY DEF IInv, TypeOK, IngestTypeOK, ReqState
    <3>2. copies[r] = 0
      BY <2>1 DEF Dispatch, IInv, Undispatched
    <3> QED
      BY <2>1, <3>1, <3>2 DEF Dispatch
  <2> QED
    BY <2>1 DEF RequestStep, SelectNone, SelectOne, SelectMany, FlushInsert,
                FlushUpdate, Commit, Abort
<1>5. Delivery
  BY DEF IInv, Delivery
<1>6. Delivery'
  BY <1>4, <1>5, <1>t, PublishDelivery, QuietDelivery DEF IInv
<1>7. RetryCovered'
  BY <1>4, <1>t, ApiCover DEF IInv
<1>8. Undispatched'
  <2> DEFINE Early == {"idle", "insert", "update", "flushed"}
  <2>1. req \in [Requests -> ReqState] /\ req[r] \in ReqState
    BY DEF IInv, TypeOK, IngestTypeOK
  <2>2. \A q \in Requests : q # r => req'[q] = req[q] /\ copies'[q] = copies[q]
    BY <2>1, <1>4 DEF RequestStep, SelectNone, SelectOne, SelectMany, FlushInsert,
       FlushUpdate, Dispatch, Commit, Abort, Goto, Publish, Tasks, IInv, TypeOK,
       StoreTypeOK
  <2>3. req'[r].pc \in Early => req[r].pc \in Early /\ copies'[r] = copies[r]
    BY <2>1 DEF RequestStep, SelectNone, SelectOne, SelectMany, FlushInsert,
       FlushUpdate, Dispatch, Commit, Abort, Goto, ReqState
  <2> QED
    BY <2>2, <2>3 DEF IInv, Undispatched
<1> QED
  BY <1>1, <1>3, <1>6, <1>7, <1>8 DEF IInv, Delivery

\* Every step of a worker, faults included, preserves the invariant.
LEMMA WorkerInv ==
    ASSUME IInv, NEW w \in Workers, WorkerStep(w) \/ FaultStep(w), UNCHANGED req
    PROVE  IInv'
<1>d. Delivery /\ ProgressOf(w)
  BY ProgressParts DEF IInv, Delivery
<1>1. TypeOK'
  BY WorkerTypes DEF IInv
<1>2. Delivery'
  <2>1. CASE StayStep(w)
    BY <1>d, <2>1, StaysLemma, StaysDelivery DEF IInv
  <2>2. CASE Receive(w)
    BY <1>d, <2>2, ReceiveDelivery DEF IInv
  <2>3. CASE CommitRun(w)
    BY <1>d, <2>3, CommitDelivery DEF IInv
  <2>4. CASE Retry(w)
    BY <1>d, <2>4, RetryDelivery DEF IInv
  <2>5. CASE Ack(w)
    BY <1>d, <2>5, AckDelivery DEF IInv
  <2>6. CASE Crash(w) \/ VisibilityTimeout(w)
    BY <1>d, <2>6, RedeliveryDelivery DEF IInv
  <2> QED
    BY <2>1, <2>2, <2>3, <2>4, <2>5, <2>6 DEF WorkerStep, FaultStep, StayStep
<1>3. SequencePrefix' /\ RunsKeepTheirAlert'
  <2>1. CASE CommitRun(w)
    BY <1>d, <2>1, CommitRuns DEF IInv
  <2>2. CASE ~ CommitRun(w)
    <3>1. UNCHANGED <<alerts, runs>>
      BY <2>2 DEF WorkerStep, FaultStep, Receive, UnknownPlaybook, SyncSelect,
         SyncCommit, SelectAlert, Finish, FlushRun, RunBody, CommitPoisoned,
         DbError, Retry, GiveUp, Ack, Crash, ProcessLost, VisibilityTimeout
    <3> QED
      BY <3>1, RunsFrame DEF IInv
  <2> QED
    BY <2>1, <2>2
<1>4. Progress'
  <2>1. ProgressOf(w)'
    BY <1>d, ProgressStep DEF IInv
  <2>2. UNCHANGED alerts /\ runs \subseteq runs'
    BY DEF WorkerStep, FaultStep, Receive, UnknownPlaybook, SyncSelect,
       SyncCommit, SelectAlert, Finish, FlushRun, RunBody, CommitRun,
       CommitPoisoned, DbError, Retry, GiveUp, Ack, Crash, ProcessLost,
       VisibilityTimeout
  <2>3. \A v \in Workers \ {w} : wk'[v] = wk[v]
    <3>1. wk \in [Workers -> WorkerState]
      BY DEF IInv, TypeOK, WorkerTypeOK
    <3> QED
      BY <3>1 DEF WorkerStep, FaultStep, Receive, UnknownPlaybook, SyncSelect,
         SyncCommit, SelectAlert, Finish, FlushRun, RunBody, CommitRun,
         CommitPoisoned, DbError, Retry, GiveUp, Ack, Crash, ProcessLost,
         VisibilityTimeout, Becomes
  <2>4. \A v \in Workers \ {w} : ProgressOf(v)'
    BY <2>2, <2>3, ProgressFrame, ProgressParts DEF IInv
  <2> QED
    BY <2>1, <2>4, ProgressParts
<1>5. RetryCovered'
  BY <1>d, WorkerCover DEF IInv
<1>6. Undispatched'
  <2>1. CASE Crash(w) \/ VisibilityTimeout(w)
    <3>1. Busy(w) /\ Requeue(wk[w].msg)
      BY <2>1 DEF Crash, VisibilityTimeout
    <3>2. PICK n \in Message :
              /\ n.task = wk[w].msg.task
              /\ copies' = [copies EXCEPT ![n.task] = n.copy]
      BY <3>1, RequeueFacts DEF IInv
    <3>3. copies[wk[w].msg.task] > 0 /\ wk[w].msg.task \in Tasks
      BY <3>1, KnownTypes DEF IInv, MessagesKnown, Message
    <3>4. \A r \in Requests : copies[r] = 0 => copies'[r] = 0
      BY <3>2, <3>3 DEF IInv, TypeOK, StoreTypeOK, Tasks
    <3> QED
      BY <3>4 DEF IInv, Undispatched
  <2>2. CASE ~ (Crash(w) \/ VisibilityTimeout(w))
    <3>1. UNCHANGED copies
      BY <2>2 DEF WorkerStep, FaultStep, Receive, UnknownPlaybook, SyncSelect,
         SyncCommit, SelectAlert, Finish, FlushRun, RunBody, CommitRun,
         CommitPoisoned, DbError, Retry, GiveUp, Ack, ProcessLost
    <3> QED
      BY <3>1 DEF IInv, Undispatched
  <2> QED
    BY <2>1, <2>2
<1> QED
  BY <1>1, <1>2, <1>3, <1>4, <1>5, <1>6 DEF IInv, Delivery

\* DELETE /alerts preserves the invariant: it waits for open runs, and a committed
\* run forbids it.
LEMMA DeleteInv ==
    ASSUME IInv, NEW a \in Requests, DeleteAlert(a)
    PROVE  IInv'
<1>u. UNCHANGED <<dup, queue, copies, req>> /\ UNCHANGED workerVars
      /\ alerts' = alerts \ {a}
  BY DEF DeleteAlert
<1>1. TypeOK'
  BY <1>u DEF IInv, TypeOK, StoreTypeOK, IngestTypeOK, WorkerTypeOK
<1>2. Delivery'
  BY <1>u, QuietDelivery DEF IInv, Delivery
<1>3. SequencePrefix' /\ RunsKeepTheirAlert' /\ Progress'
  <2>1. \A x \in runs : x.seq.alert # a
    BY DEF DeleteAlert
  <2>2. \A v \in Workers : OpenRun(v) => wk[v].msg.alert # a
    BY DEF DeleteAlert
  <2> QED
    BY <1>u, <2>1, <2>2, ApiRuns DEF IInv
<1>4. RetryCovered'
  BY <1>u, ApiCover DEF IInv
<1>5. Undispatched'
  BY <1>u DEF IInv, Undispatched
<1> QED
  BY <1>1, <1>2, <1>3, <1>4, <1>5 DEF IInv, Delivery

\* A playbook dispatched by hand or from a template preserves the invariant.
LEMMA ManualInv ==
    ASSUME IInv, NEW m \in Manuals, ManualRun(m) \/ TemplateRun(m)
    PROVE  IInv'
<1>u. UNCHANGED <<alerts, dup, req>> /\ UNCHANGED workerVars
  BY DEF ManualRun, TemplateRun
<1>t. m \in Tasks /\ copies[m] = 0
  BY DEF ManualRun, TemplateRun, Tasks
<1>p. PICK a \in Requests \cup {NoAlert} : Publish(m, a)
  BY DEF ManualRun, TemplateRun, IInv, TypeOK, StoreTypeOK
<1>1. TypeOK'
  <2>1. [task |-> m, alert |-> a, retries |-> 0, copy |-> 1] \in Message
    BY <1>t, MaxRetriesNat DEF Message
  <2>2. copies' \in [Tasks -> Nat] /\ queue' \subseteq Message
    BY <1>p, <2>1 DEF Publish, IInv, TypeOK, StoreTypeOK
  <2> QED
    BY <1>u, <2>2 DEF IInv, TypeOK, StoreTypeOK, IngestTypeOK, WorkerTypeOK
<1>2. Delivery'
  BY <1>u, <1>t, <1>p, PublishDelivery DEF IInv, Delivery
<1>3. SequencePrefix' /\ RunsKeepTheirAlert' /\ Progress'
  BY <1>u, ApiRuns DEF IInv
<1>4. RetryCovered'
  BY <1>u, <1>t, <1>p, ApiCover DEF IInv
<1>5. Undispatched'
  <2>1. \A r \in Requests : r # m
    BY ConstantsAssumption
  <2>2. \A r \in Requests : copies'[r] = copies[r]
    BY <1>p, <2>1 DEF Publish, IInv, TypeOK, StoreTypeOK, Tasks
  <2> QED
    BY <1>u, <2>2 DEF IInv, Undispatched
<1> QED
  BY <1>1, <1>2, <1>3, <1>4, <1>5 DEF IInv, Delivery

\* A stuttering step preserves the invariant.
LEMMA StutterInv ==
    ASSUME IInv, UNCHANGED vars
    PROVE  IInv'
<1>u. UNCHANGED storeVars /\ UNCHANGED req /\ UNCHANGED workerVars
  BY DEF vars
<1>1. TypeOK'
  BY <1>u DEF IInv, TypeOK, StoreTypeOK, IngestTypeOK, WorkerTypeOK
<1>2. Delivery'
  BY <1>u, QuietDelivery DEF IInv, Delivery
<1>3. SequencePrefix' /\ RunsKeepTheirAlert' /\ Progress'
  BY <1>u, ApiRuns DEF IInv
<1>4. RetryCovered'
  BY <1>u, ApiCover DEF IInv
<1>5. Undispatched'
  BY <1>u DEF IInv, Undispatched
<1> QED
  BY <1>1, <1>2, <1>3, <1>4, <1>5 DEF IInv, Delivery

\* Every step of the pipeline keeps the inductive invariant.
LEMMA IInvNext == IInv /\ [Next]_vars => IInv'
<1> SUFFICES ASSUME IInv, [Next]_vars PROVE IInv'
  OBVIOUS
<1>1. ASSUME NEW r \in Requests, RequestStep(r) /\ UNCHANGED workerVars
      PROVE  IInv'
  BY <1>1, RequestInv
<1>2. ASSUME NEW w \in Workers, (WorkerStep(w) \/ FaultStep(w)) /\ UNCHANGED req
      PROVE  IInv'
  BY <1>2, WorkerInv
<1>3. ASSUME NEW a \in Requests, DeleteAlert(a)
      PROVE  IInv'
  BY <1>3, DeleteInv
<1>4. ASSUME NEW m \in Manuals, ManualRun(m) \/ TemplateRun(m)
      PROVE  IInv'
  BY <1>4, ManualInv
<1>5. CASE UNCHANGED vars
  BY <1>5, StutterInv
<1> QED
  BY <1>1, <1>2, <1>3, <1>4, <1>5 DEF Next

-----------------------------------------------------------------------------
(* The theorems.                                                           *)

\* The conjunction of the lemmas above: IInv holds in every reachable state.
THEOREM Invariance == Spec => []IInv
<1>1. Init => IInv
  BY IInvInit
<1>2. IInv /\ [Next]_vars => IInv'
  BY IInvNext
<1> QED
  BY <1>1, <1>2, PTL DEF Spec

\* Every variable keeps its type (the run rows because a worker only commits
\* at a position of its list of playbooks).
THEOREM TypeCorrect == Spec => []TypeOK
<1>1. IInv => TypeOK
  BY DEF IInv
<1> QED
  BY <1>1, Invariance, PTL

\* The committed runs of one delivery are a duplicate-free prefix of the
\* dispatched playbooks, in order, whatever is retried, crashes or redelivered.
THEOREM SequencesInOrder == Spec => []SequencePrefix
<1>1. IInv => SequencePrefix
  BY DEF IInv
<1> QED
  BY <1>1, Invariance, PTL

\* A committed run's alert is committed and stays.
THEOREM RunsHaveAlerts == Spec => []RunsKeepTheirAlert
<1>1. IInv => RunsKeepTheirAlert
  BY DEF IInv
<1> QED
  BY <1>1, Invariance, PTL

\* A dispatched task has, at every moment, a message or a final result.
THEOREM NoTaskVanishes == Spec => []TaskAccounted
<1>1. IInv => TaskAccounted
  BY DEF IInv, RetryCovered, Witness, TaskAccounted
<1> QED
  BY <1>1, Invariance, PTL

-----------------------------------------------------------------------------
(* The refinement of TaskLedger.                                           *)

\* The task of the delivery has returned or raised, and is to be acknowledged.
Acking(w) == wk[w].pc = "ack"

\* A delivery that is over is behind every other one of its copy of the task,
\* and is acknowledged once.
EndedBehind ==
    /\ \A x \in results :
          /\ x.msg.copy <= copies[x.msg.task]
          /\ \A m \in queue : SameChain(x.msg, m) => x.msg.retries < m.retries
          /\ \A w \in Workers : Active(w) /\ SameChain(x.msg, wk[w].msg) =>
                                   x.msg.retries < wk[w].msg.retries
          /\ \A w \in Workers : Acking(w) => x.msg # wk[w].msg
    /\ \A v \in Workers : Acking(v) =>
          /\ \A m \in queue : SameChain(wk[v].msg, m) => wk[v].msg.retries < m.retries
          /\ \A w \in Workers : Active(w) /\ SameChain(wk[v].msg, wk[w].msg) =>
                                   wk[v].msg.retries < wk[w].msg.retries
          /\ \A w \in Workers \ {v} : Acking(w) => wk[w].msg # wk[v].msg

\* Every copy of a task beyond the first is the work of a fault.
CopiesBounded == \A t \in Tasks : copies[t] <= faults + 1

LedgerInv == EndedBehind /\ CopiesBounded

\* The delivery of a worker is in progress and stays so, or is over.
LEMMA EndedMoves ==
    ASSUME TypeOK, MessagesKnown, OneActiveDelivery, EndedBehind, NEW w \in Workers, Active(w),
           UNCHANGED <<queue, copies, results>>, wk'[w].pc # "idle", wk'[w].msg = wk[w].msg,
           \A v \in Workers \ {w} : wk'[v] = wk[v]
    PROVE  EndedBehind'
<1>1. \A e, l : SameChain(e, l) <=> SameChain(l, e)
  BY DEF SameChain
<1>2. ~Acking(w) /\ \A v \in Workers \ {w} : Active(v)' = Active(v) /\ Acking(v)' = Acking(v)
  BY DEF Active, Acking
<1>3. /\ Acking(w)' => ~Active(w)'
      /\ \A m \in queue : ~SameChain(m, wk[w].msg)
      /\ \A v \in Workers \ {w} : Active(v) => ~SameChain(wk[v].msg, wk[w].msg)
  BY DEF Active, Acking, OneActiveDelivery
\* What was over before is behind the delivery of the worker.
<1>4. /\ \A x \in results : x.msg # wk[w].msg
      /\ \A v \in Workers : Acking(v) => wk[v].msg # wk[w].msg
  <2>1. SameChain(wk[w].msg, wk[w].msg) /\ ~(wk[w].msg.retries < wk[w].msg.retries)
    <3>1. wk[w].msg.retries \in Nat
      BY DEF MessagesKnown, Active, Busy, Message
    <3> QED
      BY <3>1 DEF SameChain
  <2> QED
    BY <2>1 DEF EndedBehind
<1>5. ASSUME NEW x \in results
      PROVE  /\ x.msg.copy <= copies[x.msg.task]
             /\ \A m \in queue : SameChain(x.msg, m) => x.msg.retries < m.retries
             /\ \A v \in Workers : Active(v)' /\ SameChain(x.msg, wk'[v].msg) =>
                                      x.msg.retries < wk'[v].msg.retries
             /\ \A v \in Workers : Acking(v)' => x.msg # wk'[v].msg
  BY <1>2, <1>4 DEF EndedBehind
<1>6. ASSUME NEW v \in Workers, Acking(v)'
      PROVE  /\ \A m \in queue : SameChain(wk'[v].msg, m) => wk'[v].msg.retries < m.retries
             /\ \A u \in Workers : Active(u)' /\ SameChain(wk'[v].msg, wk'[u].msg) =>
                                      wk'[v].msg.retries < wk'[u].msg.retries
             /\ \A u \in Workers \ {v} : Acking(u)' => wk'[u].msg # wk'[v].msg
  <2>1. CASE v = w
    BY <1>1, <1>2, <1>3, <1>4, <1>6, <2>1
  <2>2. CASE v # w
    BY <1>2, <1>4, <1>6, <2>2 DEF EndedBehind
  <2> QED
    BY <2>1, <2>2
<1> QED
  BY <1>5, <1>6 DEF EndedBehind

\* A received message was live in the queue.
LEMMA EndedReceive ==
    ASSUME TypeOK, EndedBehind, NEW w \in Workers, Receive(w)
    PROVE  EndedBehind'
<1>1. PICK m \in queue : queue' = queue \ {m} /\ wk'[w].msg = m
  BY ReceiveFacts
<1>2. /\ wk'[w].pc = "sync" /\ UNCHANGED <<copies, results>>
      /\ \A v \in Workers \ {w} : wk'[v] = wk[v]
  BY ReceiveFacts
<1>3. /\ ~Acking(w)' /\ Active(w)'
      /\ \A v \in Workers \ {w} : Active(v)' = Active(v) /\ Acking(v)' = Acking(v)
  BY <1>2 DEF Active, Acking
<1> QED
  BY <1>1, <1>2, <1>3 DEF EndedBehind

\* A published retry is ahead of the delivery it is for.
LEMMA EndedRetry ==
    ASSUME TypeOK, MessagesKnown, OneActiveDelivery, EndedBehind, NEW w \in Workers, Retry(w)
    PROVE  EndedBehind'
<1> DEFINE m == wk[w].msg
           n == [m EXCEPT !.retries = m.retries + 1]
<1>1. /\ queue' = queue \cup {n}
      /\ wk'[w].msg = m /\ wk'[w].pc = "ack" /\ \A v \in Workers \ {w} : wk'[v] = wk[v]
      /\ UNCHANGED <<copies, results>>
      /\ Active(w) /\ Busy(w)
  BY RetryFacts
<1>2. m \in Message /\ m.retries \in Nat
  BY <1>1 DEF MessagesKnown, Message
<1>3. n.task = m.task /\ n.copy = m.copy /\ n.retries = m.retries + 1
  BY <1>2 DEF Message
<1> HIDE DEF n
<1>4. /\ \A e : SameChain(e, n) => SameChain(e, m)
      /\ SameChain(m, m)
      /\ \A e : SameChain(m, e) => SameChain(e, m)
  BY <1>3 DEF SameChain
<1>5. /\ ~Active(w)' /\ Acking(w)' /\ ~Acking(w)
      /\ \A v \in Workers \ {w} : Active(v)' = Active(v) /\ Acking(v)' = Acking(v)
  BY <1>1 DEF Active, Acking
<1>6. /\ \A q \in queue : ~SameChain(q, m)
      /\ \A v \in Workers \ {w} : Active(v) => ~SameChain(wk[v].msg, m)
  BY <1>1 DEF OneActiveDelivery
<1>7. /\ \A x \in results : x.msg # m /\ (SameChain(x.msg, m) => x.msg.retries < m.retries)
      /\ \A v \in Workers : Acking(v) =>
            wk[v].msg # m /\ (SameChain(wk[v].msg, m) => wk[v].msg.retries < m.retries)
  BY <1>1, <1>2, <1>4 DEF EndedBehind
<1>8. /\ \A x \in results : x.msg.retries \in Nat
      /\ \A v \in Workers : Acking(v) => wk[v].msg.retries \in Nat
  BY KnownTypes DEF MessagesKnown, Busy, Acking, Message
<1>9. /\ \A x \in results : SameChain(x.msg, n) => x.msg.retries < n.retries
      /\ \A v \in Workers : Acking(v)' /\ SameChain(wk'[v].msg, n) => wk'[v].msg.retries < n.retries
  <2>1. ASSUME NEW x \in results, SameChain(x.msg, n)
        PROVE  x.msg.retries < n.retries
    <3>1. x.msg.retries < m.retries /\ x.msg.retries \in Nat
      BY <1>4, <1>7, <1>8, <2>1
    <3> QED
      BY <1>2, <1>3, <3>1
  <2>2. ASSUME NEW v \in Workers, Acking(v)', SameChain(wk'[v].msg, n)
        PROVE  wk'[v].msg.retries < n.retries
    <3>1. CASE v = w
      BY <1>1, <1>2, <1>3, <3>1
    <3>2. CASE v # w
      <4>1. wk'[v] = wk[v] /\ Acking(v)
        BY <1>1, <1>5, <2>2, <3>2
      <4>2. wk[v].msg.retries < m.retries /\ wk[v].msg.retries \in Nat
        BY <1>4, <1>7, <1>8, <2>2, <4>1
      <4> QED
        BY <1>2, <1>3, <4>1, <4>2
    <3> QED
      BY <3>1, <3>2
  <2> QED
    BY <2>1, <2>2
<1> HIDE DEF m
<1>10. ASSUME NEW x \in results
       PROVE  /\ x.msg.copy <= copies[x.msg.task]
              /\ \A q \in queue' : SameChain(x.msg, q) => x.msg.retries < q.retries
              /\ \A v \in Workers : Active(v)' /\ SameChain(x.msg, wk'[v].msg) =>
                                       x.msg.retries < wk'[v].msg.retries
              /\ \A v \in Workers : Acking(v)' => x.msg # wk'[v].msg
  BY <1>1, <1>5, <1>7, <1>9 DEF EndedBehind
<1>11. ASSUME NEW v \in Workers, Acking(v)'
       PROVE  /\ \A q \in queue' : SameChain(wk'[v].msg, q) => wk'[v].msg.retries < q.retries
              /\ \A u \in Workers : Active(u)' /\ SameChain(wk'[v].msg, wk'[u].msg) =>
                                       wk'[v].msg.retries < wk'[u].msg.retries
              /\ \A u \in Workers \ {v} : Acking(u)' => wk'[u].msg # wk'[v].msg
  <2>1. CASE v = w
    BY <1>1, <1>4, <1>5, <1>6, <1>7, <1>9, <1>11, <2>1
  <2>2. CASE v # w
    BY <1>1, <1>5, <1>7, <1>9, <1>11, <2>2 DEF EndedBehind
  <2> QED
    BY <2>1, <2>2
<1> QED
  BY <1>1, <1>10, <1>11 DEF EndedBehind

\* The acknowledged delivery was over before.
LEMMA EndedAck ==
    ASSUME TypeOK, MessagesKnown, EndedBehind, NEW w \in Workers, Ack(w)
    PROVE  EndedBehind'
<1> DEFINE y == [msg |-> wk[w].msg, how |-> wk[w].how]
<1>1. /\ Acking(w) /\ results' = results \cup {y} /\ y.msg = wk[w].msg
      /\ UNCHANGED <<queue, copies>>
  BY DEF Ack, Acking
<1>2. wk'[w].pc = "idle" /\ \A v \in Workers \ {w} : wk'[v] = wk[v]
  BY AckFacts DEF Ack
<1>3. /\ ~Active(w)' /\ ~Acking(w)'
      /\ \A v \in Workers \ {w} : Active(v)' = Active(v) /\ Acking(v)' = Acking(v)
  BY <1>2 DEF Active, Acking
<1>4. y.msg.copy <= copies[y.msg.task]
  BY <1>1 DEF MessagesKnown, Busy, Acking
<1> HIDE DEF y
<1> QED
  BY <1>1, <1>2, <1>3, <1>4 DEF EndedBehind

\* A new copy of a task is not of the chain of any delivery that is over.
LEMMA EndedFresh ==
    ASSUME TypeOK, MessagesKnown, EndedBehind, NEW n \in Message,
           queue' = queue \cup {n}, n.copy > copies[n.task],
           copies' = [copies EXCEPT ![n.task] = n.copy],
           UNCHANGED results,
           \A v \in Workers : wk'[v] = wk[v] \/ wk'[v].pc = "idle"
    PROVE  EndedBehind'
<1>1. /\ \A t \in Tasks : copies[t] \in Nat /\ copies'[t] >= copies[t]
      /\ n.task \in Tasks /\ n.copy \in Nat
  BY DEF TypeOK, StoreTypeOK, Message
<1>2. \A v \in Workers : /\ Active(v)' => Active(v) /\ wk'[v] = wk[v]
                         /\ Acking(v)' => Acking(v) /\ wk'[v] = wk[v]
  BY DEF Active, Acking
<1>3. /\ \A x \in results : /\ x.msg.task \in Tasks /\ x.msg.copy \in Nat
                            /\ x.msg.copy <= copies[x.msg.task]
      /\ \A v \in Workers : Acking(v) => /\ wk[v].msg.copy <= copies[wk[v].msg.task]
                                         /\ wk[v].msg.copy \in Nat
  BY DEF TypeOK, WorkerTypeOK, Result, EndedBehind, MessagesKnown, Acking, Busy, Message
<1>4. /\ \A x \in results : ~SameChain(x.msg, n)
      /\ \A v \in Workers : Acking(v) => ~SameChain(wk[v].msg, n)
  BY <1>1, <1>3 DEF SameChain
<1>5. \A x \in results : x.msg.copy <= copies'[x.msg.task]
  BY <1>1, <1>3
<1> QED
  BY <1>2, <1>4, <1>5 DEF EndedBehind

\* A step that touches neither broker nor workers.
LEMMA EndedQuiet ==
    ASSUME EndedBehind, UNCHANGED <<queue, copies, wk, results>>
    PROVE  EndedBehind'
BY DEF EndedBehind, Active, Acking

\* Every step of a worker, faults included, keeps the ended deliveries behind.
LEMMA WorkerEnded ==
    ASSUME IInv, EndedBehind, NEW w \in Workers, WorkerStep(w) \/ FaultStep(w)
    PROVE  EndedBehind'
<1> TypeOK /\ MessagesKnown /\ OneActiveDelivery
  BY DEF IInv
<1>1. CASE StayStep(w)
  <2>1. Stays(w)
    BY <1>1, StaysLemma
  <2> QED
    BY <2>1, EndedMoves DEF Stays
<1>2. CASE CommitRun(w)
  <2>1. /\ wk'[w].pc # "idle" /\ wk'[w].msg = wk[w].msg
        /\ \A v \in Workers \ {w} : wk'[v] = wk[v]
        /\ UNCHANGED <<queue, copies, results>> /\ Active(w)
    BY <1>2, CommitFacts
  <2> QED
    BY <2>1, EndedMoves
<1>3. CASE Receive(w)
  BY <1>3, EndedReceive
<1>4. CASE Retry(w)
  BY <1>4, EndedRetry
<1>5. CASE Ack(w)
  BY <1>5, EndedAck
<1>6. CASE Crash(w) \/ VisibilityTimeout(w)
  <2>1. Busy(w) /\ Requeue(wk[w].msg) /\ UNCHANGED results
    BY <1>6 DEF Crash, VisibilityTimeout
  <2>2. PICK n \in Message :
              /\ queue' = queue \cup {n}
              /\ n.copy > copies[n.task]
              /\ copies' = [copies EXCEPT ![n.task] = n.copy]
    BY <2>1, RequeueFacts
  <2>3. \A v \in Workers : wk'[v] = wk[v] \/ wk'[v].pc = "idle"
    <3>1. CASE Crash(w)
      BY <3>1, AckFacts DEF Crash
    <3>2. CASE VisibilityTimeout(w)
      BY <3>2 DEF VisibilityTimeout
    <3> QED
      BY <1>6, <3>1, <3>2
  <2> QED
    BY <2>1, <2>2, <2>3, EndedFresh
<1> QED
  BY <1>1, <1>2, <1>3, <1>4, <1>5, <1>6 DEF WorkerStep, FaultStep, StayStep

\* A webhook's dispatch, or a playbook started by hand, publishes a first copy.
LEMMA PublishEnded ==
    ASSUME IInv, EndedBehind, NEW t \in Tasks, NEW a \in Requests \cup {NoAlert},
           copies[t] = 0, Publish(t, a), UNCHANGED workerVars
    PROVE  EndedBehind'
<1> TypeOK /\ MessagesKnown
  BY DEF IInv
<1> DEFINE n == [task |-> t, alert |-> a, retries |-> 0, copy |-> 1]
<1>1. n \in Message
  BY MaxRetriesNat DEF Message
<1>2. /\ queue' = queue \cup {n} /\ n.copy > copies[n.task]
      /\ copies' = [copies EXCEPT ![n.task] = n.copy]
  BY DEF Publish
<1>3. UNCHANGED results /\ \A v \in Workers : wk'[v] = wk[v]
  OBVIOUS
<1> HIDE DEF n
<1> QED
  BY <1>1, <1>2, <1>3, EndedFresh

\* What the API does to the broker: nothing, or the first publication of a task.
LEMMA ApiSteps ==
    ASSUME IInv,
           \/ \E r \in Requests : RequestStep(r) /\ UNCHANGED workerVars
           \/ \E a \in Requests : DeleteAlert(a)
           \/ \E m \in Manuals : ManualRun(m) \/ TemplateRun(m)
    PROVE  /\ UNCHANGED workerVars
           /\ \/ UNCHANGED <<queue, copies>>
              \/ \E t \in Tasks : /\ copies[t] = 0
                                  /\ \E a \in Requests \cup {NoAlert} : Publish(t, a)
<1>1. ASSUME NEW r \in Requests, RequestStep(r), UNCHANGED workerVars
      PROVE  \/ UNCHANGED <<queue, copies>>
             \/ copies[r] = 0 /\ \E a \in Requests \cup {NoAlert} : Publish(r, a)
  <2>1. CASE Dispatch(r)
    <3>1. req[r].target \in Requests \cup {NoAlert}
      BY DEF IInv, TypeOK, IngestTypeOK, ReqState
    <3>2. copies[r] = 0
      BY <2>1 DEF Dispatch, IInv, Undispatched
    <3> QED
      BY <2>1, <3>1, <3>2 DEF Dispatch
  <2> QED
    BY <1>1, <2>1 DEF RequestStep, SelectNone, SelectOne, SelectMany, FlushInsert,
                FlushUpdate, Commit, Abort
<1>2. ASSUME NEW a \in Requests, DeleteAlert(a)
      PROVE  UNCHANGED <<queue, copies>> /\ UNCHANGED workerVars
  BY <1>2 DEF DeleteAlert
<1>3. ASSUME NEW m \in Manuals, ManualRun(m) \/ TemplateRun(m)
      PROVE  /\ copies[m] = 0 /\ UNCHANGED workerVars
             /\ \E a \in Requests \cup {NoAlert} : Publish(m, a)
  BY <1>3 DEF ManualRun, TemplateRun, IInv, TypeOK, StoreTypeOK
<1> QED
  BY <1>1, <1>2, <1>3 DEF Tasks

\* Only a redelivery makes a copy beyond the first, and it counts a fault.
LEMMA CopiesStep ==
    ASSUME IInv, CopiesBounded, [Next]_vars
    PROVE  CopiesBounded'
<1>1. TypeOK /\ MessagesKnown /\ copies \in [Tasks -> Nat] /\ faults \in Nat
  BY WorkerAssumption DEF IInv, TypeOK, StoreTypeOK, WorkerTypeOK
<1>2. \/ UNCHANGED <<copies, faults>>
      \/ /\ UNCHANGED faults
         /\ \E t \in Tasks, a \in Requests \cup {NoAlert} : Publish(t, a)
      \/ faults' >= faults /\ faults' \in Nat /\ UNCHANGED copies
      \/ faults' = faults + 1 /\ \E m \in Message : Requeue(m)
  <2>1. ASSUME NEW w \in Workers, WorkerStep(w) \/ FaultStep(w)
        PROVE  \/ UNCHANGED <<copies, faults>>
               \/ faults' >= faults /\ faults' \in Nat /\ UNCHANGED copies
               \/ faults' = faults + 1 /\ \E m \in Message : Requeue(m)
    <3>1. CASE Crash(w) \/ VisibilityTimeout(w)
      <4>1. Busy(w) /\ Requeue(wk[w].msg) /\ faults' = faults + 1
        BY <3>1 DEF Crash, VisibilityTimeout
      <4> QED
        BY <1>1, <4>1 DEF MessagesKnown
    <3>2. CASE ProcessLost(w)
      BY <1>1, <3>2 DEF ProcessLost
    <3> QED
      BY <2>1, <3>1, <3>2 DEF WorkerStep, FaultStep, Receive, UnknownPlaybook, SyncSelect,
         SyncCommit, SelectAlert, Finish, FlushRun, RunBody, CommitRun,
         CommitPoisoned, DbError, Retry, GiveUp, Ack
  <2>2. CASE UNCHANGED vars
    BY <2>2 DEF vars
  <2> QED
    BY <2>1, <2>2, ApiSteps DEF Next
<1>3. \A m \in Message : m.task \in Tasks
  BY DEF Message
<1> QED
  BY <1>1, <1>2, <1>3 DEF CopiesBounded, Publish, Requeue

\* LedgerInv holds in every reachable state.
THEOREM LedgerInvariance == Spec => []LedgerInv
<1>1. Init => LedgerInv
  <2> SUFFICES ASSUME Init PROVE LedgerInv
    OBVIOUS
  <2>1. /\ queue = {} /\ results = {} /\ faults = 0 /\ copies = [t \in Tasks |-> 0]
        /\ \A w \in Workers : ~Active(w) /\ ~Acking(w)
    BY DEF Init, StoreInit, WorkerInit, Idle, Active, Acking
  <2> QED
    BY <2>1 DEF LedgerInv, EndedBehind, CopiesBounded
<1>2. IInv /\ LedgerInv /\ [Next]_vars => LedgerInv'
  <2> SUFFICES ASSUME IInv, LedgerInv, [Next]_vars PROVE EndedBehind'
    BY CopiesStep DEF LedgerInv
  <2> EndedBehind
    BY DEF LedgerInv
  <2>1. ASSUME NEW w \in Workers, WorkerStep(w) \/ FaultStep(w)
        PROVE  EndedBehind'
    BY <2>1, WorkerEnded
  <2>2. CASE \/ \E r \in Requests : RequestStep(r) /\ UNCHANGED workerVars
             \/ \E a \in Requests : DeleteAlert(a)
             \/ \E m \in Manuals : ManualRun(m) \/ TemplateRun(m)
    BY <2>2, ApiSteps, PublishEnded, EndedQuiet
  <2>3. CASE UNCHANGED vars
    BY <2>3, EndedQuiet DEF vars
  <2> QED
    BY <2>1, <2>2, <2>3 DEF Next
<1> QED
  BY <1>1, <1>2, Invariance, PTL DEF Spec

-----------------------------------------------------------------------------
(* The simulation: every step of the pipeline is a step of TaskLedger, or  *)
(* none that it shows.                                                     *)

\* The delivery a worker holds is one of the ledger's attempts, at an accepted
\* task; one that is active is not closed.
LEMMA HeldDelivery ==
    ASSUME IInv, LedgerInv, NEW w \in Workers, Busy(w)
    PROVE  /\ wk[w].msg \in Deliveries
           /\ wk[w].msg.task \in {t \in Tasks : copies[t] > 0}
           /\ wk[w].msg \notin {x.msg : x \in results}
<1>1. wk[w].msg \in Message /\ wk[w].msg.copy <= copies[wk[w].msg.task]
  BY DEF IInv, MessagesKnown
<1>2. /\ wk[w].msg.task \in Tasks /\ copies[wk[w].msg.task] \in Nat
      /\ wk[w].msg.copy \in Nat \ {0} /\ wk[w].msg.retries \in Nat
      /\ faults \in 0 .. MaxFaults /\ MaxFaults \in Nat
      /\ copies[wk[w].msg.task] <= faults + 1
  BY <1>1, WorkerAssumption, MaxRetriesNat
  DEF Message, IInv, TypeOK, StoreTypeOK, WorkerTypeOK, LedgerInv, CopiesBounded
<1>3. wk[w].msg.copy \in 1 .. MaxFaults + 1
  BY <1>1, <1>2
<1>4. wk[w].msg \in Deliveries
  BY <1>1, <1>3 DEF Message, Deliveries
<1>5. copies[wk[w].msg.task] > 0
  BY <1>1, <1>2
<1>6. ASSUME NEW x \in results, x.msg = wk[w].msg
      PROVE  FALSE
  <2>1. Active(w) \/ Acking(w)
    BY DEF Busy, Active, Acking
  <2>2. SameChain(x.msg, wk[w].msg)
    BY <1>6 DEF SameChain
  <2>3. ~(x.msg.retries < wk[w].msg.retries)
    BY <1>2, <1>6
  <2> QED
    BY <1>6, <2>1, <2>2, <2>3 DEF LedgerInv, EndedBehind
<1> QED
  BY <1>2, <1>4, <1>5, <1>6

\* A first publication accepts the task.
LEMMA PublishAccepts ==
    ASSUME IInv, NEW t \in Tasks, NEW a, copies[t] = 0, Publish(t, a),
           UNCHANGED workerVars
    PROVE  Ledger!Accept(t)
<1>1. copies \in [Tasks -> Nat] /\ copies' = [copies EXCEPT ![t] = 1]
  BY DEF IInv, TypeOK, StoreTypeOK, Publish
<1>2. /\ t \notin {u \in Tasks : copies[u] > 0}
      /\ {u \in Tasks : copies'[u] > 0} = {u \in Tasks : copies[u] > 0} \cup {t}
  BY <1>1
<1> QED
  BY <1>2 DEF Ledger!Accept

\* Committing a run executes the next playbook of the delivery: the runs it has
\* committed are those of the positions before.
LEMMA CommitExecutes ==
    ASSUME IInv, LedgerInv, NEW w \in Workers, CommitRun(w),
           NEW m, m = wk[w].msg
    PROVE  Ledger!ExecuteNext(m)
<1> DEFINE row == RunRow(w)
<1>i. PICK i : i = wk[w].pos
  OBVIOUS
<1> TypeOK
  BY DEF IInv
<1>1. /\ runs' = runs \cup {row} /\ row.seq = m /\ row.pos = i
      /\ UNCHANGED <<copies, results>>
      /\ Active(w) /\ Busy(w) /\ OpenRun(w)
  BY <1>i, CommitFacts
<1> HIDE DEF row
<1>2. /\ m \in Deliveries /\ m.task \in {t \in Tasks : copies[t] > 0}
      /\ m \notin {x.msg : x \in results}
  BY <1>1, HeldDelivery
<1>3. m.task \in Tasks /\ Len(Names[m.task]) \in Nat /\ i \in Nat \ {0}
  BY <1>2, <1>i, NamesTyped, KnownTypes
<1>4. i <= Len(Names[m.task])
  BY <1>1, <1>i DEF IInv, Progress, OpenRun, PlaybooksOf
<1>5. \A j \in 1 .. i - 1 : \E x \in runs : x.seq = m /\ x.pos = j
  BY <1>1, <1>i DEF IInv, Progress, Committed
<1>6. \A x \in runs : x.seq = m => x.pos < i
  BY <1>1, <1>i DEF IInv, RunsBehind, SameChain
<1>7. Ledger!Executed(m) = 1 .. i - 1
  <2>1. \A j : <<m, j>> \in {<<x.seq, x.pos>> : x \in runs} <=>
                  \E x \in runs : x.seq = m /\ x.pos = j
    OBVIOUS
  <2>2. Ledger!Executed(m) = {j \in 1 .. Len(Names[m.task]) :
                                 \E x \in runs : x.seq = m /\ x.pos = j}
    BY <2>1 DEF Ledger!Executed
  <2> QED
    BY <1>3, <1>4, <1>5, <1>6, <2>2
<1>8. Ledger!Cardinality(Ledger!Executed(m)) + 1 = i
  <2>1. i - 1 \in Int /\ 1 \in Int
    BY <1>3
  <2>2. Cardinality(1 .. i - 1) = IF 1 > i - 1 THEN 0 ELSE (i - 1) - 1 + 1
    BY <2>1, FS_Interval
  <2>3. Cardinality(1 .. i - 1) = i - 1
    BY <1>3, <2>2
  <2>4. Ledger!Cardinality(Ledger!Executed(m)) = Cardinality(Ledger!Executed(m))
    BY DEF Ledger!Cardinality, Cardinality
  <2> QED
    BY <1>3, <1>7, <2>3, <2>4
<1>9. {<<x.seq, x.pos>> : x \in runs'} = {<<x.seq, x.pos>> : x \in runs} \cup {<<m, i>>}
  BY <1>1
<1> QED
  BY <1>1, <1>2, <1>4, <1>8, <1>9 DEF Ledger!ExecuteNext

\* An acknowledgement closes the delivery; it ends the task unless a retry is
\* published, and only returns when the whole sequence is committed.
LEMMA AckCloses ==
    ASSUME IInv, LedgerInv, NEW w \in Workers, Ack(w),
           NEW m, m = wk[w].msg
    PROVE  \/ Ledger!Leave(m)
           \/ \E how \in {"returned", "failed", "lost"} : Ledger!Conclude(m, how)
<1>h. PICK h : h = wk[w].how
  OBVIOUS
<1> DEFINE y == [msg |-> m, how |-> h]
<1>1. /\ results' = results \cup {y} /\ y.msg = m /\ y.how = h
      /\ UNCHANGED <<copies, runs>> /\ Busy(w) /\ Acking(w)
  BY <1>h DEF Ack, Busy, Acking
<1>2. /\ m.task \in {t \in Tasks : copies[t] > 0} /\ m \notin {x.msg : x \in results}
  BY <1>1, HeldDelivery
<1>3. h \in {"returned", "retried", "failed", "lost"}
  BY <1>h DEF IInv, TypeOK, WorkerTypeOK, WorkerState, Verdict
<1>4. h = "returned" => \A i \in 1 .. Len(Names[m.task]) :
                           \E x \in runs : x.seq = m /\ x.pos = i
  BY <1>1, <1>h DEF IInv, Progress, Committed, Acking, PlaybooksOf
<1> HIDE DEF y
<1>5. {x.msg : x \in results'} = {x.msg : x \in results} \cup {m}
  BY <1>1
<1>6. CASE h = "retried"
  <2>1. {x \in results' : x.how # "retried"} = {x \in results : x.how # "retried"}
    BY <1>1, <1>6
  <2> QED
    BY <1>1, <1>2, <1>5, <2>1 DEF Ledger!Leave
<1>7. CASE h # "retried"
  <2>1. {x \in results' : x.how # "retried"} = {x \in results : x.how # "retried"} \cup {y}
    BY <1>1, <1>7
  <2>2. {<<x.msg.task, x.how>> : x \in {z \in results' : z.how # "retried"}}
          = {<<x.msg.task, x.how>> : x \in {z \in results : z.how # "retried"}}
               \cup {<<m.task, h>>}
    BY <1>1, <2>1
  <2>3. h = "returned" => Ledger!Executed(m) = 1 .. Len(Names[m.task])
    BY <1>4 DEF Ledger!Executed
  <2>4. Ledger!Conclude(m, h)
    BY <1>1, <1>2, <1>5, <2>2, <2>3 DEF Ledger!Conclude
  <2> QED
    BY <1>3, <1>7, <2>4
<1> QED
  BY <1>6, <1>7

\* The steps that publish nothing new, commit no run and acknowledge nothing.
LEMMA LedgerQuiet ==
    ASSUME UNCHANGED <<runs, results>>,
           \A t \in Tasks : copies'[t] > 0 <=> copies[t] > 0
    PROVE  UNCHANGED Ledger!ledgerVars
<1>1. {t \in Tasks : copies'[t] > 0} = {t \in Tasks : copies[t] > 0}
  OBVIOUS
<1> QED
  BY <1>1 DEF Ledger!ledgerVars

\* Every step of a worker, faults included, is a step of the ledger or none.
LEMMA WorkerLedger ==
    ASSUME IInv, LedgerInv, NEW w \in Workers, WorkerStep(w) \/ FaultStep(w)
    PROVE  [Ledger!Next]_(Ledger!ledgerVars)
<1> TypeOK
  BY DEF IInv
<1>1. CASE CommitRun(w)
  <2>1. PICK m \in Deliveries : m = wk[w].msg
    BY <1>1, CommitFacts, HeldDelivery
  <2> QED
    BY <1>1, <2>1, CommitExecutes DEF Ledger!Next
<1>2. CASE Ack(w)
  <2>1. PICK m \in Deliveries : m = wk[w].msg
    BY <1>2, HeldDelivery DEF Ack, Busy
  <2> QED
    BY <1>2, <2>1, AckCloses DEF Ledger!Next
<1>3. CASE Crash(w) \/ VisibilityTimeout(w)
  <2>1. Busy(w) /\ Requeue(wk[w].msg) /\ UNCHANGED <<runs, results>>
    BY <1>3 DEF Crash, VisibilityTimeout
  <2>2. wk[w].msg.task \in {t \in Tasks : copies[t] > 0} /\ copies \in [Tasks -> Nat]
    BY <2>1, HeldDelivery DEF TypeOK, StoreTypeOK
  <2>3. copies' = [copies EXCEPT ![wk[w].msg.task] = @ + 1]
    BY <2>1 DEF Requeue
  <2>4. \A t \in Tasks : copies'[t] > 0 <=> copies[t] > 0
    BY <2>2, <2>3
  <2> QED
    BY <2>1, <2>4, LedgerQuiet
<1>4. CASE ~(CommitRun(w) \/ Ack(w) \/ Crash(w) \/ VisibilityTimeout(w))
  <2>1. UNCHANGED <<copies, runs, results>>
    BY <1>4 DEF WorkerStep, FaultStep, Receive, UnknownPlaybook, SyncSelect,
       SyncCommit, SelectAlert, Finish, FlushRun, RunBody,
       CommitPoisoned, DbError, Retry, GiveUp, ProcessLost
  <2> QED
    BY <2>1, LedgerQuiet
<1> QED
  BY <1>1, <1>2, <1>3, <1>4

\* The pipeline implements the ledger: whatever is retried, lost or delivered
\* twice, a delivery executes the dispatched playbooks one after the other, none
\* after it was acknowledged, and a task returns only with its sequence complete.
THEOREM ImplementsTaskLedger == Spec => ImplementsLedger
<1>1. Init => Ledger!Init
  <2> SUFFICES ASSUME Init PROVE Ledger!Init
    OBVIOUS
  <2>1. runs = {} /\ results = {} /\ copies = [t \in Tasks |-> 0]
    BY DEF Init, StoreInit, WorkerInit
  <2> QED
    BY <2>1 DEF Ledger!Init
<1>2. IInv /\ LedgerInv /\ [Next]_vars => [Ledger!Next]_(Ledger!ledgerVars)
  <2> SUFFICES ASSUME IInv, LedgerInv, [Next]_vars
               PROVE  [Ledger!Next]_(Ledger!ledgerVars)
    OBVIOUS
  <2>1. ASSUME NEW w \in Workers, WorkerStep(w) \/ FaultStep(w)
        PROVE  [Ledger!Next]_(Ledger!ledgerVars)
    BY <2>1, WorkerLedger
  <2>2. CASE \/ \E r \in Requests : RequestStep(r) /\ UNCHANGED workerVars
             \/ \E a \in Requests : DeleteAlert(a)
             \/ \E m \in Manuals : ManualRun(m) \/ TemplateRun(m)
    <3>1. UNCHANGED workerVars
      BY <2>2, ApiSteps
    <3>2. CASE UNCHANGED <<queue, copies>>
      BY <3>1, <3>2, LedgerQuiet
    <3>3. CASE \E t \in Tasks : /\ copies[t] = 0
                                /\ \E a \in Requests \cup {NoAlert} : Publish(t, a)
      BY <3>1, <3>3, PublishAccepts DEF Ledger!Next
    <3> QED
      BY <2>2, <3>2, <3>3, ApiSteps
  <2>3. CASE UNCHANGED vars
    BY <2>3, LedgerQuiet DEF vars
  <2> QED
    BY <2>1, <2>2, <2>3 DEF Next
<1> QED
  BY <1>1, <1>2, Invariance, LedgerInvariance, PTL DEF Spec, ImplementsLedger, Ledger!Spec

-----------------------------------------------------------------------------
(* Where the messages come from: what deduplication, the repeats and the   *)
(* runs without an alert rest on.                                          *)

\* The messages in the broker, in the workers' hands and behind a run row.
Known == queue \cup {wk[w].msg : w \in {v \in Workers : Busy(v)}} \cup {x.seq : x \in runs}

\* Something made the broker or a worker start task t again.
Cause(t) ==
    \/ faults > 0
    \/ \E z \in results : z.msg.task = t /\ z.how = "retried"
    \/ \E w \in Workers : wk[w].pc = "ack" /\ wk[w].how = "retried" /\ wk[w].msg.task = t

\* An alert in the table was committed by its request, which is over; a request
\* that is about to insert has itself as the target.
AlertsDone ==
    /\ \A a \in alerts : req[a].pc = "done" /\ req[a].target = a
    /\ \A r \in Requests : req[r].pc = "insert" => req[r].target = r

\* A message keeps the alert of its task; one with an alert that another request
\* inserted was published when that request was over; a retry has a cause.
Origins ==
    /\ \A m, n \in Known : m.task = n.task => m.alert = n.alert
    /\ \A m \in Known : /\ m.alert \notin {NoAlert, m.task} => req[m.alert].pc = "done"
                        /\ m.retries > 0 => Cause(m.task)

\* A playbook that has not seen the alert of a repeated delivery comes too late:
\* the alert is deleted, and the run row will not be flushed.
LateInsert ==
    \A w \in Workers :
       /\ wk[w].pc \in {"insert", "body", "commit"}
       /\ ~wk[w].saw /\ wk[w].msg.alert \notin {NoAlert, wk[w].msg.task}
       => wk[w].msg.alert \notin alerts

\* A request that has flushed its UPDATE of an alert holds the lock of its row.
FlushedThere ==
    \A r \in Requests :
       req[r].pc \in {"flushed", "dispatched"} /\ req[r].target # r =>
          req[r].target \in alerts

OriginInv ==
    AlertsDone /\ FlushedThere /\ Origins /\ LateInsert /\ UnseenOnlyAtArrival

\* A known message is typed, and from a copy the broker has made.
LEMMA KnownTyped ==
    ASSUME IInv
    PROVE  \A m \in Known : /\ m \in Message /\ m.task \in Tasks /\ m.retries \in Nat
                            /\ m.alert \in Requests \cup {NoAlert}
                            /\ copies[m.task] > 0 /\ m.copy \in Nat \ {0}
                            /\ m.copy <= copies[m.task]
<1>1. \A m \in Message : /\ m.task \in Tasks /\ m.retries \in Nat /\ m.copy \in Nat \ {0}
                         /\ m.alert \in Requests \cup {NoAlert}
  BY MaxRetriesNat DEF Message
<1>2. \A m \in Known : m \in Message /\ m.copy <= copies[m.task]
  BY KnownTypes DEF Known, IInv, MessagesKnown
<1>3. \A t \in Tasks : copies[t] \in Nat
  BY DEF IInv, TypeOK, StoreTypeOK
<1> QED
  BY <1>1, <1>2, <1>3

\* Whatever a worker or a fault makes known repeats a known message, with one
\* more retry only if it retries its own (self.retry keeps the arguments).
LEMMA KnownRepeats ==
    ASSUME IInv, NEW w \in Workers, WorkerStep(w) \/ FaultStep(w), NEW m \in Known'
    PROVE  \E k \in Known : /\ m.task = k.task /\ m.alert = k.alert
                            /\ \/ m.retries = k.retries
                               \/ Retry(w) /\ m.task = wk[w].msg.task
<1> TypeOK /\ MessagesKnown
  BY DEF IInv
<1>k. ASSUME NEW k PROVE
         k \in Known <=> \/ k \in queue
                         \/ \E v \in Workers : Busy(v) /\ k = wk[v].msg
                         \/ \E x \in runs : k = x.seq
  BY DEF Known
<1>m. \/ m \in queue'
      \/ \E v \in Workers : Busy(v)' /\ m = wk'[v].msg
      \/ \E x \in runs' : m = x.seq
  BY DEF Known
<1>1. CASE StayStep(w)
  <2>1. /\ UNCHANGED <<queue, runs>> /\ Busy(w) /\ wk'[w].msg = wk[w].msg
        /\ \A v \in Workers \ {w} : wk'[v] = wk[v]
    BY <1>1, StaysLemma DEF Stays, Active, Busy
  <2> QED
    BY <1>k, <1>m, <2>1 DEF Busy
<1>2. CASE CommitRun(w)
  <2>1. /\ UNCHANGED queue /\ Busy(w) /\ wk'[w].msg = wk[w].msg
        /\ runs' = runs \cup {RunRow(w)} /\ RunRow(w).seq = wk[w].msg
        /\ \A v \in Workers \ {w} : wk'[v] = wk[v]
    BY <1>2, CommitFacts
  <2> HIDE DEF RunRow
  <2> QED
    BY <1>k, <1>m, <2>1 DEF Busy
<1>3. CASE Receive(w)
  <2>1. PICK q \in queue : queue' = queue \ {q} /\ wk'[w].msg = q
    BY <1>3, ReceiveFacts
  <2>2. UNCHANGED runs /\ \A v \in Workers \ {w} : wk'[v] = wk[v]
    BY <1>3, ReceiveFacts
  <2> QED
    BY <1>k, <1>m, <2>1, <2>2 DEF Busy
<1>4. CASE Retry(w)
  <2> DEFINE n == [wk[w].msg EXCEPT !.retries = @ + 1]
  <2>1. /\ queue' = queue \cup {n} /\ Busy(w) /\ wk'[w].msg = wk[w].msg
        /\ UNCHANGED runs /\ \A v \in Workers \ {w} : wk'[v] = wk[v]
    BY <1>4, RetryFacts
  <2>2. n.task = wk[w].msg.task /\ n.alert = wk[w].msg.alert
    BY <2>1 DEF MessagesKnown, Message
  <2> HIDE DEF n
  <2> QED
    BY <1>4, <1>k, <1>m, <2>1, <2>2 DEF Busy
<1>5. CASE Ack(w)
  <2>1. /\ UNCHANGED <<queue, runs>> /\ wk'[w].pc = "idle"
        /\ \A v \in Workers \ {w} : wk'[v] = wk[v]
    BY <1>5, AckFacts DEF Ack
  <2> QED
    BY <1>k, <1>m, <2>1 DEF Busy
<1>6. CASE Crash(w) \/ VisibilityTimeout(w)
  <2>1. Busy(w) /\ Requeue(wk[w].msg) /\ UNCHANGED runs
    BY <1>6 DEF Crash, VisibilityTimeout
  <2>2. PICK n \in Message : /\ queue' = queue \cup {n}
                             /\ n.task = wk[w].msg.task /\ n.retries = wk[w].msg.retries
                             /\ n.alert = wk[w].msg.alert
    BY <2>1, RequeueFacts
  <2>3. \A v \in Workers : wk'[v] = wk[v] \/ wk'[v].pc = "idle"
    <3>1. CASE Crash(w)
      BY <3>1, AckFacts DEF Crash
    <3>2. CASE VisibilityTimeout(w)
      BY <3>2 DEF VisibilityTimeout
    <3> QED
      BY <1>6, <3>1, <3>2
  <2> QED
    BY <1>k, <1>m, <2>1, <2>2, <2>3 DEF Busy
<1> QED
  BY <1>1, <1>2, <1>3, <1>4, <1>5, <1>6 DEF WorkerStep, FaultStep, StayStep

\* A cause stays on record: faults and results only grow, and a worker that has
\* published a retry acknowledges its message as retried or is itself a fault.
LEMMA CauseKept ==
    ASSUME IInv, NEW w \in Workers, WorkerStep(w) \/ FaultStep(w), NEW t, Cause(t)
    PROVE  Cause(t)'
<1> TypeOK /\ faults \in Nat
  BY WorkerAssumption DEF IInv, TypeOK, WorkerTypeOK
<1>1. /\ results \subseteq results' /\ faults' \in Nat /\ faults' >= faults
      /\ \A v \in Workers \ {w} : wk'[v] = wk[v]
  <2>1. wk' = wk \/ \E s : Becomes(w, s)
    BY DEF WorkerStep, FaultStep, Receive, UnknownPlaybook,
       SyncSelect, SyncCommit, SelectAlert, Finish, FlushRun, RunBody, CommitRun,
       CommitPoisoned, DbError, Retry, GiveUp, Ack, Crash, ProcessLost, VisibilityTimeout
  <2>2. \A v \in Workers \ {w} : wk'[v] = wk[v]
    BY <2>1 DEF Becomes, TypeOK, WorkerTypeOK
  <2>3. faults' = faults \/ faults' = faults + 1
    BY DEF WorkerStep, FaultStep, Receive, UnknownPlaybook,
       SyncSelect, SyncCommit, SelectAlert, Finish, FlushRun, RunBody, CommitRun,
       CommitPoisoned, DbError, Retry, GiveUp, Ack, Crash, ProcessLost, VisibilityTimeout
  <2>4. results \subseteq results'
    BY DEF WorkerStep, FaultStep, Receive, UnknownPlaybook,
       SyncSelect, SyncCommit, SelectAlert, Finish, FlushRun, RunBody, CommitRun,
       CommitPoisoned, DbError, Retry, GiveUp, Ack, Crash, ProcessLost, VisibilityTimeout
  <2> QED
    BY <2>2, <2>3, <2>4
<1>2. CASE wk[w].pc = "ack" /\ wk[w].how = "retried" /\ wk[w].msg.task = t
  <2>1. CASE Ack(w)
    <3> DEFINE y == [msg |-> wk[w].msg, how |-> wk[w].how]
    <3>1. y \in results' /\ y.msg.task = t /\ y.how = "retried"
      BY <1>2, <2>1 DEF Ack
    <3> QED
      BY <3>1 DEF Cause
  <2>2. CASE Crash(w) \/ VisibilityTimeout(w)
    BY <2>2 DEF Crash, VisibilityTimeout, Cause
  <2> QED
    BY <1>2, <2>1, <2>2 DEF WorkerStep, FaultStep, Receive, UnknownPlaybook,
       SyncSelect, SyncCommit, SelectAlert, Finish, FlushRun, RunBody, CommitRun,
       CommitPoisoned, DbError, Retry, GiveUp, ProcessLost, Busy
<1>3. CASE \E v \in Workers \ {w} : wk[v].pc = "ack" /\ wk[v].how = "retried"
                                    /\ wk[v].msg.task = t
  BY <1>1, <1>3 DEF Cause
<1> QED
  BY <1>1, <1>2, <1>3 DEF Cause

\* A worker's step keeps the messages' origins.
LEMMA WorkerOrigins ==
    ASSUME IInv, Origins, NEW w \in Workers, WorkerStep(w) \/ FaultStep(w), UNCHANGED req
    PROVE  Origins'
<1>1. \A m \in Known' : \E k \in Known :
         /\ m.task = k.task /\ m.alert = k.alert
         /\ m.retries = k.retries \/ (Retry(w) /\ m.task = wk[w].msg.task)
  BY KnownRepeats
<1>2. \A t : Cause(t) => Cause(t)'
  BY CauseKept
<1>3. \A t : Retry(w) /\ t = wk[w].msg.task => Cause(t)'
  <2>1. Retry(w) => /\ wk'[w].msg = wk[w].msg
                    /\ wk'[w].pc = "ack" /\ wk'[w].how = "retried"
    BY RetryFacts DEF IInv
  <2> QED
    BY <2>1 DEF Cause
<1>4. ASSUME NEW m \in Known', m.alert \notin {NoAlert, m.task} 
      PROVE  req'[m.alert].pc = "done"
  BY <1>1, <1>4 DEF Origins
<1>5. ASSUME NEW m \in Known', m.retries > 0
      PROVE  Cause(m.task)'
  <2>1. PICK t : t = m.task
    OBVIOUS
  <2>2. Cause(t)'
    BY <1>1, <1>2, <1>3, <1>5, <2>1 DEF Origins
  <2> QED
    BY <2>1, <2>2
<1>6. \A m, n \in Known' : m.task = n.task => m.alert = n.alert
  BY <1>1 DEF Origins
<1> QED
  BY <1>4, <1>5, <1>6 DEF Origins

\* Of a task that is not dispatched yet nothing is known, so publishing it first
\* cannot contradict what is; a request that is over stays over.
LEMMA PublishOrigins ==
    ASSUME IInv, Origins, NEW t \in Tasks, NEW a, copies[t] = 0, Publish(t, a),
           UNCHANGED workerVars,
           a \notin {NoAlert, t} => req'[a].pc = "done",
           \A r \in Requests : req[r].pc = "done" => req'[r].pc = "done"
    PROVE  Origins'
<1> DEFINE n == [task |-> t, alert |-> a, retries |-> 0, copy |-> 1]
<1>1. /\ Known' = Known \cup {n} /\ n.task = t /\ n.alert = a /\ n.retries = 0
      /\ \A u : Cause(u)' = Cause(u)
  BY DEF Known, Publish, Busy, Cause
<1>2. \A m \in Known : /\ m.task # t /\ m.alert \in Requests \cup {NoAlert}
  BY KnownTyped
<1> HIDE DEF n
<1>3. \A m, k \in Known' : m.task = k.task => m.alert = k.alert
  BY <1>1, <1>2 DEF Origins
<1>4. ASSUME NEW m \in Known', m.alert \notin {NoAlert, m.task}
      PROVE  req'[m.alert].pc = "done"
  BY <1>1, <1>2, <1>4 DEF Origins
<1>5. ASSUME NEW m \in Known', m.retries > 0
      PROVE  Cause(m.task)'
  <2>1. PICK u : u = m.task
    OBVIOUS
  <2>2. Cause(u)'
    BY <1>1, <1>5, <2>1 DEF Origins
  <2> QED
    BY <2>1, <2>2
<1> QED
  BY <1>3, <1>4, <1>5 DEF Origins

\* A step of the API that publishes nothing.
LEMMA QuietOrigins ==
    ASSUME IInv, Origins, UNCHANGED queue, UNCHANGED workerVars,
           \A r \in Requests : req[r].pc = "done" => req'[r].pc = "done"
    PROVE  Origins'
<1>1. Known' = Known /\ \A u : Cause(u)' = Cause(u)
  BY DEF Known, Busy, Cause
<1>2. \A m \in Known : m.alert \in Requests \cup {NoAlert}
  BY KnownTyped
<1>3. ASSUME NEW m \in Known, m.retries > 0
      PROVE  Cause(m.task)'
  <2>1. PICK u : u = m.task
    OBVIOUS
  <2>2. Cause(u)'
    BY <1>1, <1>3, <2>1 DEF Origins
  <2> QED
    BY <2>1, <2>2
<1> QED
  BY <1>1, <1>2, <1>3 DEF Origins

\* What a request's step does to the requests: only its own moves; once over it
\* takes no further step, and it inserts its own alert only in its last one.
LEMMA RequestFacts ==
    ASSUME TypeOK, NEW r \in Requests, RequestStep(r)
    PROVE  /\ \A q \in Requests \ {r} : req'[q] = req[q]
           /\ req[r].pc # "done" /\ req'[r].pc # "idle"
           /\ \/ alerts' = alerts /\ req'[r].pc # "done"
              \/ /\ Commit(r) /\ req'[r].pc = "done" /\ req'[r].target = req[r].target
                 /\ req[r].pc = "dispatched"
                 /\ alerts' = IF req[r].target = r THEN alerts \cup {r} ELSE alerts
<1> req \in [Requests -> ReqState] /\ req[r] \in ReqState
  BY DEF TypeOK, IngestTypeOK
<1>1. CASE Commit(r)
  BY <1>1 DEF Commit, Goto, ReqState
<1>2. CASE Dispatch(r)
  BY <1>2 DEF Dispatch, Goto, ReqState
<1>3. CASE SelectNone(r) \/ SelectOne(r) \/ SelectMany(r)
  BY <1>3 DEF SelectNone, SelectOne, SelectMany, Goto, ReqState
<1>4. CASE FlushInsert(r) \/ FlushUpdate(r) \/ Abort(r)
  BY <1>4 DEF FlushInsert, FlushUpdate, Abort, Goto, ReqState
<1> QED
  BY <1>1, <1>2, <1>3, <1>4 DEF RequestStep

\* Where a request's step leaves it: the target of an update is in the table when
\* the UPDATE is flushed.
LEMMA RequestTargets ==
    ASSUME TypeOK, AlertsDone, FlushedThere, NEW r \in Requests, RequestStep(r)
    PROVE  /\ req'[r].pc = "insert" => req'[r].target = r
           /\ req'[r].pc \in {"flushed", "dispatched"} /\ req'[r].target # r =>
                 req'[r].target \in alerts
<1> /\ req \in [Requests -> ReqState] /\ req[r] \in ReqState
    /\ alerts \subseteq Requests
  BY DEF TypeOK, IngestTypeOK, StoreTypeOK
<1>1. CASE SelectNone(r)
  BY <1>1 DEF SelectNone
<1>2. CASE SelectOne(r)
  <2>1. req'[r].pc = "update"
    BY <1>2 DEF SelectOne
  <2> QED
    BY <2>1
<1>3. CASE SelectMany(r) \/ Commit(r) \/ Abort(r)
  <2>1. req'[r].target = req[r].target /\ req'[r].pc \in {"done", "aborted"}
    BY <1>3 DEF SelectMany, Commit, Abort, Goto, ReqState
  <2> QED
    BY <2>1
<1>4. CASE FlushInsert(r)
  <2>1. req'[r].target = req[r].target /\ req'[r].pc = "flushed" /\ req[r].pc = "insert"
    BY <1>4 DEF FlushInsert, Goto, ReqState
  <2> QED
    BY <2>1 DEF AlertsDone
<1>5. CASE FlushUpdate(r)
  <2>1. /\ req'[r].target = req[r].target
        /\ req'[r].pc = IF req[r].target \in alerts THEN "flushed" ELSE "aborted"
    BY <1>5 DEF FlushUpdate, Goto, ReqState
  <2> QED
    BY <2>1
<1>6. CASE Dispatch(r)
  <2>1. req'[r].target = req[r].target /\ req'[r].pc = "dispatched" /\ req[r].pc = "flushed"
    BY <1>6 DEF Dispatch, Goto, ReqState
  <2> QED
    BY <2>1 DEF FlushedThere
<1> QED
  BY <1>1, <1>2, <1>3, <1>4, <1>5, <1>6 DEF RequestStep

\* Every step of a webhook request keeps the origins.
LEMMA RequestOrigin ==
    ASSUME IInv, OriginInv, NEW r \in Requests, RequestStep(r), UNCHANGED workerVars
    PROVE  OriginInv'
<1> /\ TypeOK /\ AlertsDone /\ FlushedThere /\ Origins /\ LateInsert
    /\ UnseenOnlyAtArrival /\ alerts \subseteq Requests
  BY DEF IInv, OriginInv, TypeOK, StoreTypeOK
<1>1. /\ \A q \in Requests \ {r} : req'[q] = req[q]
      /\ req[r].pc # "done"
      /\ alerts \subseteq alerts'
      /\ \A a \in alerts' :
            a \in alerts \/ (a = r /\ req'[r].pc = "done" /\ req'[r].target = r)
  BY RequestFacts
<1>2. \A q \in Requests : req[q].pc = "done" => req'[q].pc = "done"
  BY <1>1
<1>3. AlertsDone'
  BY <1>1, RequestTargets DEF AlertsDone
<1>5. FlushedThere'
  BY <1>1, RequestTargets DEF FlushedThere
<1>6. Origins'
  <2>1. CASE Dispatch(r) /\ Names[r] # <<>>
    <3>1. PICK a : a = req[r].target
      OBVIOUS
    <3>2. Publish(r, a) /\ req[r].pc = "flushed" /\ copies[r] = 0 /\ r \in Tasks
      BY <2>1, <3>1 DEF Dispatch, IInv, Undispatched, Tasks
    <3>3. a \notin {NoAlert, r} => req'[a].pc = "done"
      BY <1>2, <3>1, <3>2 DEF FlushedThere, AlertsDone
    <3> QED
      BY <1>2, <3>2, <3>3, PublishOrigins
  <2>2. CASE ~(Dispatch(r) /\ Names[r] # <<>>)
    <3>1. UNCHANGED queue
      BY <2>2 DEF RequestStep, SelectNone, SelectOne, SelectMany, FlushInsert,
                  FlushUpdate, Dispatch, Commit, Abort
    <3> QED
      BY <1>2, <3>1, QuietOrigins
  <2> QED
    BY <2>1, <2>2
<1>7. LateInsert'
  <2>1. ASSUME NEW w \in Workers, wk[w].pc \in {"insert", "body", "commit"},
               wk[w].msg.alert \notin {NoAlert, wk[w].msg.task}
        PROVE  req[wk[w].msg.alert].pc = "done"
    BY <2>1 DEF Origins, Known, Busy
  <2> QED
    BY <1>1, <2>1 DEF LateInsert
<1>8. UnseenOnlyAtArrival'
  BY DEF UnseenOnlyAtArrival
<1> QED
  BY <1>3, <1>5, <1>6, <1>7, <1>8 DEF OriginInv

\* A playbook reads its alert before the run row is flushed (core/executor.py): it
\* either saw the alert or finds it gone for good.
LEMMA WorkerLate ==
    ASSUME IInv, LateInsert, NEW w \in Workers, WorkerStep(w) \/ FaultStep(w)
    PROVE  LateInsert'
<1> /\ wk \in [Workers -> WorkerState] /\ wk[w] \in WorkerState
  BY DEF IInv, TypeOK, WorkerTypeOK
<1>1. UNCHANGED alerts
  BY DEF WorkerStep, FaultStep, Receive, UnknownPlaybook, SyncSelect, SyncCommit,
     SelectAlert, Finish, FlushRun, RunBody, CommitRun, CommitPoisoned, DbError, Retry,
     GiveUp, Ack, Crash, ProcessLost, VisibilityTimeout
<1>2. \A v \in Workers \ {w} : wk'[v] = wk[v]
  BY DEF WorkerStep, FaultStep, Receive, UnknownPlaybook, SyncSelect, SyncCommit,
     SelectAlert, Finish, FlushRun, RunBody, CommitRun, CommitPoisoned, DbError, Retry,
     GiveUp, Ack, Crash, ProcessLost, VisibilityTimeout, Becomes
<1> DEFINE Inserting == {"insert", "body", "commit"}
<1>3. \/ wk'[w].pc \notin Inserting
      \/ wk'[w].msg = wk[w].msg /\ wk'[w].saw = (wk[w].msg.alert \in alerts)
      \/ wk'[w].msg = wk[w].msg /\ wk'[w].saw = wk[w].saw /\ wk[w].pc \in Inserting
  <2>1. CASE SelectAlert(w)
    <3>1. wk'[w] = [wk[w] EXCEPT
                     !.pc = IF PlaybooksOf(w)[wk[w].pos] \in Registered[w] \cap defs
                              THEN "insert" ELSE "raise",
                     !.saw = wk[w].msg.alert \in alerts]
      BY <2>1, BecomesTyped DEF SelectAlert
    <3>2. wk'[w].msg = wk[w].msg /\ wk'[w].saw = (wk[w].msg.alert \in alerts)
      BY <3>1 DEF WorkerState
    <3> QED
      BY <3>2
  <2>2. CASE FlushRun(w)
    <3>1. wk'[w].msg = wk[w].msg /\ wk'[w].saw = wk[w].saw /\ wk[w].pc = "insert"
      BY <2>2 DEF FlushRun, Becomes, WorkerState
    <3> QED
      BY <3>1
  <2>3. CASE RunBody(w)
    <3>1. wk'[w].msg = wk[w].msg /\ wk'[w].saw = wk[w].saw /\ wk[w].pc = "body"
      BY <2>3 DEF RunBody, Becomes, WorkerState
    <3> QED
      BY <3>1
  <2>4. CASE UnknownPlaybook(w) \/ CommitPoisoned(w) \/ DbError(w)
    <3>1. wk'[w] = [wk[w] EXCEPT !.pc = "raise"]
      BY <2>4, BecomesTyped DEF UnknownPlaybook, CommitPoisoned, DbError
    <3> QED
      BY <3>1 DEF WorkerState
  <2>5. CASE SyncSelect(w) \/ SyncCommit(w)
    <3>1. \/ wk'[w] = [wk[w] EXCEPT !.pc = "upsert", !.missing = Registered[w] \ defs]
          \/ wk'[w] = [wk[w] EXCEPT !.pc = "select"]
          \/ wk'[w] = [wk[w] EXCEPT !.pc = "raise"]
      BY <2>5, BecomesTyped DEF SyncSelect, SyncCommit
    <3> QED
      BY <3>1 DEF WorkerState
  <2>6. CASE Finish(w) \/ GiveUp(w) \/ ProcessLost(w)
    <3>1. \E h : wk'[w] = [wk[w] EXCEPT !.pc = "ack", !.how = h]
      BY <2>6, BecomesTyped DEF Finish, GiveUp, ProcessLost
    <3> QED
      BY <3>1 DEF WorkerState
  <2>7. CASE Receive(w) \/ CommitRun(w) \/ Retry(w)
    BY <2>7, ReceiveFacts, CommitFacts, RetryFacts DEF IInv
  <2>8. CASE Ack(w) \/ Crash(w)
    BY <2>8, AckFacts DEF Ack, Crash, IInv
  <2>9. CASE VisibilityTimeout(w)
    BY <2>9 DEF VisibilityTimeout
  <2> QED
    BY <2>1, <2>2, <2>3, <2>4, <2>5, <2>6, <2>7, <2>8, <2>9 DEF WorkerStep, FaultStep
<1>4. ASSUME NEW v \in Workers, wk'[v].pc \in Inserting, ~wk'[v].saw,
             wk'[v].msg.alert \notin {NoAlert, wk'[v].msg.task}
      PROVE  wk'[v].msg.alert \notin alerts
  <2>1. CASE v = w
    BY <1>3, <1>4, <2>1 DEF LateInsert
  <2>2. CASE v # w
    BY <1>2, <1>4, <2>2 DEF LateInsert
  <2> QED
    BY <2>1, <2>2
<1> QED
  BY <1>1, <1>4 DEF LateInsert

\* The run a worker commits has seen its alert, or came with the alert's arrival.
LEMMA WorkerUnseen ==
    ASSUME IInv, LateInsert, UnseenOnlyAtArrival, NEW w \in Workers,
           WorkerStep(w) \/ FaultStep(w)
    PROVE  UnseenOnlyAtArrival'
<1>1. CASE CommitRun(w)
  <2> DEFINE row == RunRow(w)
  <2>1. /\ runs' = runs \cup {row} /\ row.seq = wk[w].msg /\ OpenRun(w)
        /\ wk[w].pc = "commit"
    BY <1>1, CommitFacts DEF IInv, CommitRun
  <2>2. row.saw = wk[w].saw
    BY DEF RunRow
  <2> HIDE DEF row
  <2>3. wk[w].msg.alert \in alerts \cup {NoAlert}
    BY <2>1 DEF IInv, Progress
  <2>4. row.seq.alert # NoAlert /\ ~row.saw => row.seq.task = row.seq.alert
    BY <2>1, <2>2, <2>3 DEF LateInsert
  <2> QED
    BY <2>1, <2>4 DEF UnseenOnlyAtArrival
<1>2. CASE ~CommitRun(w)
  <2>1. UNCHANGED runs
    BY <1>2 DEF WorkerStep, FaultStep, Receive, UnknownPlaybook, SyncSelect,
       SyncCommit, SelectAlert, Finish, FlushRun, RunBody, CommitPoisoned,
       DbError, Retry, GiveUp, Ack, Crash, ProcessLost, VisibilityTimeout
  <2> QED
    BY <2>1 DEF UnseenOnlyAtArrival
<1> QED
  BY <1>1, <1>2

\* Every step of a worker, faults included, keeps the origins.
LEMMA WorkerOrigin ==
    ASSUME IInv, OriginInv, NEW w \in Workers, WorkerStep(w) \/ FaultStep(w), UNCHANGED req
    PROVE  OriginInv'
<1>1. UNCHANGED alerts
  BY DEF WorkerStep, FaultStep, Receive, UnknownPlaybook, SyncSelect, SyncCommit,
     SelectAlert, Finish, FlushRun, RunBody, CommitRun, CommitPoisoned, DbError, Retry,
     GiveUp, Ack, Crash, ProcessLost, VisibilityTimeout
<1>2. AlertsDone' /\ FlushedThere'
  BY <1>1 DEF OriginInv, AlertsDone, FlushedThere
<1> QED
  BY <1>2, WorkerOrigins, WorkerLate, WorkerUnseen DEF OriginInv

\* DELETE /alerts keeps the origins: it waits for a flushed UPDATE of the row.
LEMMA DeleteOrigin ==
    ASSUME IInv, OriginInv, NEW a \in Requests, DeleteAlert(a)
    PROVE  OriginInv'
<1>1. /\ alerts' = alerts \ {a} /\ UNCHANGED <<queue, req>> /\ UNCHANGED workerVars
      /\ ~Locked(a)
  BY DEF DeleteAlert
<1>2. AlertsDone'
  BY <1>1 DEF OriginInv, AlertsDone
<1>3. FlushedThere'
  BY <1>1 DEF OriginInv, FlushedThere, Locked
<1>4. Origins'
  BY <1>1, QuietOrigins DEF OriginInv
<1>5. LateInsert' /\ UnseenOnlyAtArrival'
  BY <1>1 DEF OriginInv, LateInsert, UnseenOnlyAtArrival
<1> QED
  BY <1>2, <1>3, <1>4, <1>5 DEF OriginInv

\* A playbook started by hand or from a template names an alert in the table, or none.
LEMMA ManualOrigin ==
    ASSUME IInv, OriginInv, NEW m \in Manuals, ManualRun(m) \/ TemplateRun(m)
    PROVE  OriginInv'
<1>1. /\ UNCHANGED <<alerts, req>> /\ UNCHANGED workerVars /\ m \in Tasks /\ copies[m] = 0
  BY DEF ManualRun, TemplateRun, Tasks
<1>2. PICK a \in alerts \cup {NoAlert} : Publish(m, a)
  BY DEF ManualRun, TemplateRun
<1>3. a \notin {NoAlert, m} => req'[a].pc = "done"
  BY <1>1, <1>2 DEF OriginInv, AlertsDone
<1>4. Origins'
  BY <1>1, <1>2, <1>3, PublishOrigins DEF OriginInv
<1> QED
  BY <1>1, <1>4 DEF OriginInv, AlertsDone, FlushedThere, LateInsert,
                    UnseenOnlyAtArrival

\* OriginInv holds in every reachable state.
THEOREM OriginInvariance == Spec => []OriginInv
<1>1. Init => OriginInv
  <2> SUFFICES ASSUME Init PROVE OriginInv
    OBVIOUS
  <2>1. /\ alerts = {} /\ queue = {} /\ runs = {}
        /\ \A w \in Workers : ~Busy(w) /\ wk[w].pc = "idle"
        /\ \A r \in Requests : req[r].pc = "idle" /\ req[r].target = NoAlert
    BY DEF Init, StoreInit, IngestInit, WorkerInit, Idle, Busy
  <2>2. Known = {}
    BY <2>1 DEF Known
  <2> QED
    BY <2>1, <2>2 DEF OriginInv, AlertsDone, FlushedThere, Origins, LateInsert,
                      UnseenOnlyAtArrival
<1>2. IInv /\ OriginInv /\ [Next]_vars => OriginInv'
  <2> SUFFICES ASSUME IInv, OriginInv, [Next]_vars PROVE OriginInv'
    OBVIOUS
  <2>1. ASSUME NEW r \in Requests, RequestStep(r), UNCHANGED workerVars
        PROVE  OriginInv'
    BY <2>1, RequestOrigin
  <2>2. ASSUME NEW w \in Workers, WorkerStep(w) \/ FaultStep(w), UNCHANGED req
        PROVE  OriginInv'
    BY <2>2, WorkerOrigin
  <2>3. ASSUME NEW a \in Requests, DeleteAlert(a)
        PROVE  OriginInv'
    BY <2>3, DeleteOrigin
  <2>4. ASSUME NEW m \in Manuals, ManualRun(m) \/ TemplateRun(m)
        PROVE  OriginInv'
    BY <2>4, ManualOrigin
  <2>5. CASE UNCHANGED vars
    <3>1. UNCHANGED <<alerts, queue, req>> /\ UNCHANGED workerVars
      BY <2>5 DEF vars
    <3>2. Origins'
      BY <3>1, QuietOrigins DEF OriginInv
    <3> QED
      BY <3>1, <3>2 DEF OriginInv, AlertsDone, FlushedThere, LateInsert,
                        UnseenOnlyAtArrival
  <2> QED
    BY <2>1, <2>2, <2>3, <2>4, <2>5 DEF Next
<1> QED
  BY <1>1, <1>2, Invariance, PTL DEF Spec

\* A playbook only runs without its alert when it was dispatched by the delivery
\* that inserts the alert.
THEOREM UnseenAtArrival == Spec => []UnseenOnlyAtArrival
<1>1. OriginInv => UnseenOnlyAtArrival
  BY DEF OriginInv
<1> QED
  BY <1>1, OriginInvariance, PTL

\* Without faults there is one copy of a task, and without a retry one delivery of
\* it, which commits every position once: a repeat has a fault or a retry to blame.
THEOREM RepeatsHaveCause == Spec => []RepeatsExplained
<1>1. IInv /\ LedgerInv /\ OriginInv => RepeatsExplained
  <2> SUFFICES ASSUME IInv, LedgerInv, OriginInv,
                      NEW x \in runs, NEW y \in runs,
                      x # y, x.seq.task = y.seq.task, x.pos = y.pos
               PROVE  Cause(x.seq.task)
    BY DEF RepeatsExplained, Cause
  <2>1. x.seq \in Known /\ y.seq \in Known
    BY DEF Known
  <2>2. /\ x.seq \in Message /\ x.seq.copy \in Nat \ {0} /\ x.seq.retries \in Nat
        /\ y.seq \in Message /\ y.seq.copy \in Nat \ {0} /\ y.seq.retries \in Nat
        /\ x.seq.task \in Tasks /\ copies[x.seq.task] \in Nat
        /\ x.seq.copy <= copies[x.seq.task] /\ y.seq.copy <= copies[x.seq.task]
    BY <2>1, KnownTyped DEF IInv, TypeOK, StoreTypeOK
  <2>3. x.seq # y.seq
    BY DEF IInv, SequencePrefix
  <2>4. x.seq.alert = y.seq.alert
    BY <2>1 DEF OriginInv, Origins
  <2>5. \A t : (x.seq.retries > 0 \/ y.seq.retries > 0) /\ t = x.seq.task => Cause(t)
    BY <2>1 DEF OriginInv, Origins
  <2>6. CASE faults = 0
    <3>1. x.seq.copy = 1 /\ y.seq.copy = 1
      BY <2>2, <2>6 DEF LedgerInv, CopiesBounded
    <3>2. x.seq.retries # y.seq.retries
      BY <2>2, <2>3, <2>4, <3>1 DEF Message
    <3> QED
      BY <2>2, <2>5, <3>2
  <2>7. CASE faults # 0
    BY <2>7, WorkerAssumption DEF Cause, IInv, TypeOK, WorkerTypeOK
  <2> QED
    BY <2>6, <2>7
<1> QED
  BY <1>1, Invariance, LedgerInvariance, OriginInvariance, PTL

-----------------------------------------------------------------------------
(***************************************************************************)
(* Deduplication.  Requests that are open together are beside each other,  *)
(* so what a SELECT returned is only outdated by a request beside it.      *)
(***************************************************************************)

\* Request r has inserted an alert, or is about to, that nobody has deleted.
Standing(r) == req[r].target = r /\ (r \in InProgress \/ r \in alerts)

\* The deliveries of S did not overlap.
AllSeparate(S) == \A r, q \in S : Separate(r, q)

\* An alert that another request updates was committed; open requests overlap.
OpenOverlap ==
    /\ \A r \in Requests : req[r].pc = "idle" => req[r].target = NoAlert
    /\ \A r \in Requests :
          req[r].target \notin {NoAlert, r} => req[req[r].target].pc = "done"
    /\ \A r, q \in InProgress : r # q => ~ Separate(r, q)

\* Two requests with one key that both insert overlap.
TwinsInv ==
    \A r, q \in Requests :
       /\ Standing(r) /\ Standing(q) /\ KeyOf[r] = KeyOf[q] /\ KeyOf[r] # NoKey
       /\ Separate(r, q)
       => r = q

\* n is a duplicate_count of alert a that was read beside the requests of S.
CountedIn(n, a, S) ==
    /\ n \in 1 .. Cardinality(MergedInto(a))
    /\ AllSeparate(S) => n = Cardinality(MergedInto(a))

\* The committed count of an alert, and the count an open update has read.
CountsOf(a) ==
    /\ IsFiniteSet(MergedInto(a))
    /\ CountedIn(dup[a], a, MergedInto(a))
    /\ \A r \in InProgress :
          req[r].target = a => CountedIn(req[r].seen, a, MergedInto(a) \cup {r})

DedupInv == OpenOverlap /\ TwinsInv /\ \A a \in alerts : CountsOf(a)

\* A request that only moves on: between its SELECT and its end.
Moves(r) ==
    /\ UNCHANGED <<alerts, dup>>
    /\ req'[r].target = req[r].target /\ req'[r].seen = req[r].seen
    /\ req'[r].beside = req[r].beside
    /\ r \in InProgress' => r \in InProgress
    /\ req[r].pc # "done" /\ req'[r].pc \notin {"idle", "done"}

\* A request that has run its SELECT, next to those in progress.
Selects(r, t) ==
    /\ UNCHANGED <<alerts, dup>>
    /\ req[r].pc = "idle" /\ req'[r].pc \in {"insert", "update"}
    /\ req'[r].target = t /\ req'[r].beside = InProgress

\* Every step of a request selects, moves on, or commits (ingestion/webhook.py).
LEMMA RequestKinds ==
    ASSUME TypeOK, NEW r \in Requests, RequestStep(r)
    PROVE  /\ \A q \in Requests \ {r} : req'[q] = req[q]
           /\ \/ Moves(r)
              \/ Selects(r, r) /\ (KeyOf[r] = NoKey \/ RowsOf(KeyOf[r]) = {})
              \/ \E a \in alerts : Selects(r, a) /\ req'[r].seen = dup[a]
              \/ /\ Commit(r) /\ req[r].pc = "dispatched" /\ req'[r].pc = "done"
                 /\ req'[r].target = req[r].target /\ req'[r].beside = req[r].beside
<1> /\ req \in [Requests -> ReqState] /\ req[r] \in ReqState /\ alerts \subseteq Requests
  BY DEF TypeOK, IngestTypeOK, StoreTypeOK
<1>0. \A q \in Requests \ {r} : req'[q] = req[q]
  BY RequestFacts
<1>1. CASE Commit(r)
  BY <1>0, <1>1 DEF Commit, Goto, ReqState
<1>2. CASE SelectNone(r)
  BY <1>0, <1>2 DEF SelectNone, Selects
<1>3. CASE SelectOne(r)
  <2>1. PICK a \in Requests : /\ RowsOf(KeyOf[r]) = {a}
                              /\ req' = [req EXCEPT ![r] =
                                   [pc |-> "update", target |-> a, seen |-> dup[a],
                                    beside |-> InProgress]]
    BY <1>3 DEF SelectOne
  <2>2. a \in alerts
    BY <2>1 DEF RowsOf
  <2>3. Selects(r, a) /\ req'[r].seen = dup[a]
    BY <1>3, <2>1 DEF SelectOne, Selects
  <2> QED
    BY <1>0, <2>2, <2>3
<1>4. CASE SelectMany(r) \/ Abort(r) \/ FlushInsert(r) \/ FlushUpdate(r) \/ Dispatch(r)
  <2>1. Moves(r)
    BY <1>4 DEF Moves, SelectMany, Abort, FlushInsert, FlushUpdate, Dispatch, Goto, ReqState,
                InProgress
  <2> QED
    BY <1>0, <2>1
<1> QED
  BY <1>1, <1>2, <1>3, <1>4 DEF RequestStep

\* What nobody's SELECT or COMMIT has changed is counted as before.
LEMMA CountsKept ==
    ASSUME NEW a \in Requests, CountsOf(a),
           MergedInto(a)' = MergedInto(a), dup'[a] = dup[a],
           \A q, s \in Requests : Separate(q, s)' => Separate(q, s),
           \A q \in InProgress' : /\ q \in InProgress
                                  /\ req'[q].target = req[q].target
                                  /\ req'[q].seen = req[q].seen
    PROVE  CountsOf(a)'
<1>1. ASSUME NEW S, S \subseteq Requests, NEW n, CountedIn(n, a, S)
      PROVE  /\ n \in 1 .. Cardinality(MergedInto(a))'
             /\ (\A q, s \in S : Separate(q, s)') => n = Cardinality(MergedInto(a))'
  BY <1>1 DEF CountedIn, AllSeparate
<1>2. MergedInto(a) \subseteq Requests
  BY DEF MergedInto
<1>3. IsFiniteSet(MergedInto(a))' /\ CountedIn(dup[a], a, MergedInto(a))'
  BY <1>1, <1>2 DEF CountsOf, CountedIn, AllSeparate
<1>4. ASSUME NEW r \in InProgress', req'[r].target = a
      PROVE  CountedIn(req[r].seen, a, MergedInto(a) \cup {r})'
  <2>1. /\ r \in InProgress /\ req[r].target = a /\ req'[r].seen = req[r].seen
        /\ MergedInto(a) \cup {r} \subseteq Requests
    BY <1>2, <1>4 DEF InProgress
  <2>2. CountedIn(req[r].seen, a, MergedInto(a) \cup {r})
    BY <2>1 DEF CountsOf
  <2>3. /\ req[r].seen \in 1 .. Cardinality(MergedInto(a))'
        /\ (\A q, s \in MergedInto(a) \cup {r} : Separate(q, s)')
             => req[r].seen = Cardinality(MergedInto(a))'
    BY <1>1, <2>1, <2>2
  <2> QED
    BY <2>1, <2>3 DEF CountedIn, AllSeparate
<1> QED
  BY <1>3, <1>4 DEF CountsOf

\* A request that moves on, or fails, changes nothing that is counted.
LEMMA MovesDedup ==
    ASSUME TypeOK, AlertsDone, DedupInv, NEW r \in Requests,
           \A q \in Requests \ {r} : req'[q] = req[q], Moves(r)
    PROVE  DedupInv'
<1>1. \A q \in Requests :
         /\ req'[q].target = req[q].target /\ req'[q].seen = req[q].seen
         /\ req'[q].beside = req[q].beside /\ (q \in InProgress' => q \in InProgress)
         /\ (req'[q].pc = "done" <=> req[q].pc = "done")
         /\ (req'[q].pc = "idle" => req[q].pc = "idle")
  BY DEF Moves, InProgress
<1>2. \A q, s \in Requests : Separate(q, s)' <=> Separate(q, s)
  BY <1>1 DEF Separate
<1>3. OpenOverlap'
  BY <1>1, <1>2, MaxRetriesNat DEF DedupInv, OpenOverlap, InProgress, TypeOK, IngestTypeOK,
     ReqState
<1>4. TwinsInv'
  BY <1>1, <1>2 DEF DedupInv, TwinsInv, Standing, Moves
<1>5. ASSUME NEW a \in alerts' PROVE CountsOf(a)'
  <2>1. a \in alerts /\ a \in Requests /\ dup'[a] = dup[a]
    BY <1>5 DEF Moves, TypeOK, StoreTypeOK
  <2>2. MergedInto(a)' = MergedInto(a)
    BY <1>1 DEF MergedInto
  <2>3. \A q \in InProgress' : q \in Requests
    BY DEF InProgress
  <2> QED
    BY <1>1, <1>2, <2>1, <2>2, <2>3, CountsKept DEF DedupInv
<1> QED
  BY <1>3, <1>4, <1>5 DEF DedupInv

\* A request that runs its SELECT is beside all that are open, and finds what was
\* committed before.
LEMMA SelectsDedup ==
    ASSUME TypeOK, AlertsDone, DedupInv, NEW r \in Requests, NEW t \in Requests,
           \A q \in Requests \ {r} : req'[q] = req[q], Selects(r, t),
           \/ t = r /\ (KeyOf[r] = NoKey \/ RowsOf(KeyOf[r]) = {})
           \/ t \in alerts /\ req'[r].seen = dup[t]
    PROVE  DedupInv'
<1> NoAlert \notin Requests
  BY MaxRetriesNat
<1>1. /\ InProgress' = InProgress \cup {r} /\ r \notin InProgress /\ r \notin alerts
      /\ req[r].target = NoAlert /\ UNCHANGED <<alerts, dup>>
      /\ req'[r].target = t /\ req'[r].pc \notin {"idle", "done"}
      /\ \A q \in InProgress : q \in Requests /\ q # r /\ req'[q] = req[q]
  BY DEF Selects, InProgress, AlertsDone, DedupInv, OpenOverlap
<1>2. \A q, s \in Requests : q # r /\ s # r => (Separate(q, s)' <=> Separate(q, s))
  BY DEF Separate
<1>3. \A q \in InProgress : ~ Separate(r, q)' /\ ~ Separate(q, r)'
  BY DEF Separate, Selects
<1>4. OpenOverlap'
  <2>1. \A q \in Requests : req'[q].pc = "idle" => req'[q].target = NoAlert
    BY <1>1 DEF DedupInv, OpenOverlap
  <2>2. \A q \in Requests :
           req'[q].target \notin {NoAlert, q} =>
              req'[q].target # r /\ req[req'[q].target].pc = "done"
    BY <1>1 DEF DedupInv, OpenOverlap, AlertsDone, Selects
  <2>3. \A q \in Requests :
           req'[q].target \notin {NoAlert, q} => req'[req'[q].target].pc = "done"
    <3>1. \A q \in Requests : req'[q].target \in Requests \cup {NoAlert}
      BY <1>1 DEF TypeOK, IngestTypeOK, ReqState
    <3> QED
      BY <2>2, <3>1
  <2>4. \A q, s \in InProgress' : q # s => ~ Separate(q, s)'
    BY <1>1, <1>2, <1>3 DEF DedupInv, OpenOverlap
  <2> QED
    BY <2>1, <2>3, <2>4 DEF OpenOverlap
<1>5. TwinsInv'
  <2>1. \A q \in Requests \ {r} : Standing(q)' => Standing(q)
    BY <1>1 DEF Standing
  <2>2. ASSUME NEW q \in Requests \ {r}, Standing(q), Standing(r)',
               KeyOf[q] = KeyOf[r], KeyOf[r] # NoKey
        PROVE  ~ Separate(r, q)' /\ ~ Separate(q, r)'
    <3>1. t = r
      BY <1>1, <2>2 DEF Standing
    <3>2. q \notin alerts
      BY <1>1, <2>2, <3>1 DEF RowsOf
    <3> QED
      BY <1>3, <2>2, <3>2 DEF Standing
  <2>3. ASSUME NEW q \in Requests, NEW s \in Requests, Standing(q)', Standing(s)',
               KeyOf[q] = KeyOf[s], KeyOf[q] # NoKey, Separate(q, s)', q # s
        PROVE  FALSE
    <3>1. CASE q # r /\ s # r
      BY <1>2, <2>1, <2>3, <3>1 DEF DedupInv, TwinsInv
    <3>2. CASE q = r
      BY <2>1, <2>2, <2>3, <3>2
    <3>3. CASE s = r
      BY <2>1, <2>2, <2>3, <3>3
    <3> QED
      BY <3>1, <3>2, <3>3
  <2> QED
    BY <2>3 DEF TwinsInv
<1>6. ASSUME NEW a \in alerts' PROVE CountsOf(a)'
  <2>1. a \in alerts /\ a \in Requests /\ dup'[a] = dup[a] /\ CountsOf(a)
    BY <1>1, <1>6 DEF DedupInv, TypeOK, StoreTypeOK
  <2>2. MergedInto(a)' = MergedInto(a) /\ MergedInto(a) \subseteq Requests \ {r}
    BY <1>1 DEF MergedInto, Selects
  <2>3. ASSUME NEW S, S \subseteq Requests \ {r}, NEW n, CountedIn(n, a, S)
        PROVE  CountedIn(n, a, S)'
    BY <1>2, <2>2, <2>3 DEF CountedIn, AllSeparate
  <2>4. IsFiniteSet(MergedInto(a))' /\ CountedIn(dup[a], a, MergedInto(a))'
    BY <2>1, <2>2, <2>3 DEF CountsOf
  <2>5. ASSUME NEW q \in InProgress', req'[q].target = a
        PROVE  CountedIn(req[q].seen, a, MergedInto(a) \cup {q})'
    <3>1. CASE q # r
      <4>1. /\ q \in InProgress /\ req[q].target = a /\ req'[q].seen = req[q].seen
            /\ MergedInto(a) \cup {q} \subseteq Requests \ {r}
        BY <1>1, <2>2, <2>5, <3>1 DEF InProgress
      <4>2. CountedIn(req[q].seen, a, MergedInto(a) \cup {q})
        BY <2>1, <4>1 DEF CountsOf
      <4>3. PICK n, S : n = req[q].seen /\ S = MergedInto(a) \cup {q}
        OBVIOUS
      <4>4. CountedIn(n, a, S)'
        BY <4>1, <4>2, <4>3, <2>3
      <4>5. n = req'[q].seen /\ S = MergedInto(a)' \cup {q}
        BY <4>1, <4>3, <2>2
      <4> QED
        BY <4>4, <4>5
    <3>2. CASE q = r
      <4>1. req'[r].seen = dup'[a]
        BY <1>1, <2>1, <2>5, <3>2
      <4> QED
        BY <3>2, <4>1, <2>4, <2>2 DEF CountedIn, AllSeparate
    <3> QED
      BY <3>1, <3>2
  <2> QED
    BY <2>1, <2>2, <2>4, <2>5 DEF CountsOf
<1> QED
  BY <1>4, <1>5, <1>6 DEF DedupInv

\* The COMMIT of a request: what an open one beside it has read is outdated, and
\* that they overlap is on record.
LEMMA CommitDedup ==
    ASSUME TypeOK, AlertsDone, DedupInv, NEW r \in Requests,
           \A q \in Requests \ {r} : req'[q] = req[q],
           Commit(r), req[r].pc = "dispatched", req'[r].pc = "done",
           req'[r].target = req[r].target, req'[r].beside = req[r].beside
    PROVE  DedupInv'
<1> NoAlert \notin Requests /\ alerts \subseteq Requests /\ dup \in [Requests -> Nat]
  BY MaxRetriesNat DEF TypeOK, StoreTypeOK
<1>1. /\ r \in InProgress /\ InProgress' = InProgress \ {r}
      /\ \A q \in InProgress' : q \in Requests /\ q # r /\ req'[q] = req[q]
      /\ \A q \in Requests : req'[q].target = req[q].target /\ req'[q].beside = req[q].beside
      /\ r \notin alerts
  BY DEF InProgress, AlertsDone
<1>2. \A q, s \in Requests : Separate(q, s)' <=> Separate(q, s)
  BY <1>1 DEF Separate
<1>3. /\ alerts' = IF req[r].target = r THEN alerts \cup {r} ELSE alerts
      /\ \A a \in Requests : a # req[r].target => dup'[a] = dup[a]
      /\ req[r].target = r => dup'[r] = 1
      /\ req[r].target # r /\ req[r].target \in Requests =>
            dup'[req[r].target] = req[r].seen + 1
  BY DEF Commit
<1>4. OpenOverlap'
  BY <1>1, <1>2, <1>3 DEF DedupInv, OpenOverlap, TypeOK, IngestTypeOK, ReqState
<1>5. TwinsInv'
  BY <1>1, <1>2, <1>3 DEF DedupInv, TwinsInv, Standing
<1>6. \A a \in Requests : MergedInto(a)' = IF a = req[r].target THEN MergedInto(a) \cup {r}
                                                                ELSE MergedInto(a)
  BY <1>1 DEF MergedInto
<1>7. ASSUME NEW a \in alerts' PROVE CountsOf(a)'
  <2>1. CASE a # req[r].target
    <3>1. a \in alerts /\ CountsOf(a) /\ dup'[a] = dup[a] /\ MergedInto(a)' = MergedInto(a)
      BY <1>3, <1>6, <1>7, <2>1 DEF DedupInv
    <3> QED
      BY <1>1, <1>2, <3>1, CountsKept
  <2>2. CASE a = r /\ a = req[r].target
    <3>1. \A q \in Requests \ {r} : req[q].target # r
      BY DEF DedupInv, OpenOverlap
    <3>2. MergedInto(r)' = {r}
      BY <1>6, <2>2, <3>1 DEF MergedInto
    <3>3. Cardinality({r}) = 1 /\ IsFiniteSet({r})
      BY FS_Singleton
    <3>4. dup'[r] = 1 /\ 1 \in 1 .. 1
      BY <1>3, <2>2
    <3>5. CountedIn(dup[r], r, MergedInto(r))'
      BY <3>2, <3>3, <3>4 DEF CountedIn
    <3>6. \A q \in InProgress' : req'[q].target # r
      BY <1>1, <3>1
    <3>7. IsFiniteSet(MergedInto(r))'
      BY <3>2, <3>3
    <3>8. CountsOf(r)'
      BY <3>5, <3>6, <3>7 DEF CountsOf
    <3> QED
      BY <2>2, <3>8
  <2>3. CASE a # r /\ a = req[r].target
    <3>1. /\ a \in alerts /\ a \in Requests /\ CountsOf(a) /\ r \notin MergedInto(a)
          /\ MergedInto(a)' = MergedInto(a) \cup {r}
      <4>1. a \in alerts /\ a \in Requests
        BY <1>3, <1>7, <2>3
      <4>2. r \notin MergedInto(a)
        BY DEF MergedInto
      <4> QED
        BY <1>6, <2>3, <4>1, <4>2 DEF DedupInv
    <3>2. /\ IsFiniteSet(MergedInto(a)')
          /\ Cardinality(MergedInto(a)') = Cardinality(MergedInto(a)) + 1
          /\ Cardinality(MergedInto(a)) \in Nat
      <4>1. IsFiniteSet(MergedInto(a))
        BY <3>1 DEF CountsOf
      <4>2. /\ IsFiniteSet(MergedInto(a) \cup {r})
            /\ Cardinality(MergedInto(a) \cup {r}) = Cardinality(MergedInto(a)) + 1
        BY <3>1, <4>1, FS_AddElement
      <4> QED
        BY <3>1, <4>1, <4>2, FS_CardinalityType
    <3>3. CountedIn(req[r].seen, a, MergedInto(a) \cup {r}) /\ dup'[a] = req[r].seen + 1
      BY <1>1, <1>3, <2>3, <3>1 DEF CountsOf
    <3>4. CountedIn(dup[a], a, MergedInto(a))'
      <4>1. MergedInto(a) \cup {r} \subseteq Requests
        BY DEF MergedInto
      <4>2. AllSeparate(MergedInto(a))' => AllSeparate(MergedInto(a) \cup {r})
        BY <1>2, <3>1, <4>1 DEF AllSeparate
      <4> QED
        BY <3>1, <3>2, <3>3, <4>2 DEF CountedIn
    <3>5. ASSUME NEW q \in InProgress', req'[q].target = a
          PROVE  CountedIn(req[q].seen, a, MergedInto(a) \cup {q})'
      <4>1. /\ q \in InProgress /\ q \in Requests /\ q # r /\ req'[q] = req[q]
            /\ req[q].target = a
        BY <1>1, <3>5
      <4>2. CountedIn(req[q].seen, a, MergedInto(a) \cup {q})
        BY <3>1, <4>1 DEF CountsOf
      <4>3. ~ Separate(r, q)'
        BY <1>1, <1>2, <4>1 DEF DedupInv, OpenOverlap
      <4>4. ~ AllSeparate(MergedInto(a) \cup {q})'
        BY <3>1, <4>3 DEF AllSeparate
      <4>5. req'[q].seen \in 1 .. Cardinality(MergedInto(a)')
        BY <3>2, <4>1, <4>2 DEF CountedIn
      <4> QED
        BY <4>4, <4>5 DEF CountedIn
    <3> QED
      BY <3>2, <3>4, <3>5 DEF CountsOf
  <2> QED
    BY <2>1, <2>2, <2>3
<1> QED
  BY <1>4, <1>5, <1>7 DEF DedupInv

\* DELETE /alerts, workers and manual runs leave the requests alone.
LEMMA OthersDedup ==
    ASSUME TypeOK, DedupInv, alerts' \subseteq alerts, UNCHANGED <<dup, req>>
    PROVE  DedupInv'
<1>1. /\ InProgress' = InProgress
      /\ \A q, s \in Requests : Separate(q, s)' <=> Separate(q, s)
  BY DEF InProgress, Separate
<1>2. OpenOverlap' /\ TwinsInv'
  BY <1>1 DEF DedupInv, OpenOverlap, TwinsInv, Standing, InProgress
<1>3. ASSUME NEW a \in alerts' PROVE CountsOf(a)'
  <2>1. a \in alerts /\ a \in Requests /\ CountsOf(a) /\ MergedInto(a)' = MergedInto(a)
    BY <1>3 DEF DedupInv, TypeOK, StoreTypeOK, MergedInto
  <2> QED
    BY <1>1, <2>1, CountsKept
<1> QED
  BY <1>2, <1>3 DEF DedupInv

\* What deduplication has read is accounted for in every reachable state.
THEOREM DedupInvariance == Spec => []DedupInv
<1>1. Init => DedupInv
  BY DEF Init, StoreInit, IngestInit, DedupInv, OpenOverlap, TwinsInv, Standing, InProgress
<1>2. IInv /\ OriginInv /\ DedupInv /\ [Next]_vars => DedupInv'
  <2> SUFFICES ASSUME IInv, OriginInv, DedupInv, [Next]_vars PROVE DedupInv'
    OBVIOUS
  <2>0. TypeOK /\ AlertsDone
    BY DEF IInv, OriginInv
  <2>1. ASSUME NEW r \in Requests, RequestStep(r) PROVE DedupInv'
    <3>1. \A q \in Requests \ {r} : req'[q] = req[q]
      BY <2>0, <2>1, RequestKinds
    <3>2. CASE Moves(r)
      BY <2>0, <3>1, <3>2, MovesDedup
    <3>3. CASE Selects(r, r) /\ (KeyOf[r] = NoKey \/ RowsOf(KeyOf[r]) = {})
      BY <2>0, <3>1, <3>3, SelectsDedup
    <3>4. ASSUME NEW a \in alerts, Selects(r, a), req'[r].seen = dup[a] PROVE DedupInv'
      <4>1. a \in Requests
        BY <2>0 DEF TypeOK, StoreTypeOK
      <4> QED
        BY <2>0, <3>1, <3>4, <4>1, SelectsDedup
    <3>5. CASE /\ Commit(r) /\ req[r].pc = "dispatched" /\ req'[r].pc = "done"
               /\ req'[r].target = req[r].target /\ req'[r].beside = req[r].beside
      BY <2>0, <3>1, <3>5, CommitDedup
    <3> QED
      BY <2>0, <2>1, <3>2, <3>3, <3>4, <3>5, RequestKinds
  <2>2. ASSUME NEW w \in Workers, WorkerStep(w) \/ FaultStep(w), UNCHANGED req
        PROVE  DedupInv'
    <3>1. UNCHANGED <<alerts, dup>>
      BY <2>2 DEF WorkerStep, FaultStep, Receive, UnknownPlaybook, SyncSelect, SyncCommit,
         SelectAlert, Finish, FlushRun, RunBody, CommitRun, CommitPoisoned, DbError, Retry,
         GiveUp, Ack, Crash, ProcessLost, VisibilityTimeout
    <3> QED
      BY <2>0, <2>2, <3>1, OthersDedup
  <2>3. ASSUME NEW a \in Requests, DeleteAlert(a) PROVE DedupInv'
    BY <2>0, <2>3, OthersDedup DEF DeleteAlert
  <2>4. ASSUME NEW m \in Manuals, ManualRun(m) \/ TemplateRun(m) PROVE DedupInv'
    BY <2>0, <2>4, OthersDedup DEF ManualRun, TemplateRun
  <2>5. CASE UNCHANGED vars
    BY <2>0, <2>5, OthersDedup DEF vars
  <2> QED
    BY <2>1, <2>2, <2>3, <2>4, <2>5 DEF Next
<1> QED
  BY <1>1, <1>2, Invariance, OriginInvariance, PTL DEF Spec

\* Two alerts of one key come from two deliveries that were open at the same time.
THEOREM TwinsHaveOverlapped == Spec => []TwinsOverlapped
<1>1. IInv /\ OriginInv /\ DedupInv => TwinsOverlapped
  <2> SUFFICES ASSUME IInv, OriginInv, DedupInv, NEW a \in alerts, NEW b \in alerts,
                      KeyOf[a] = KeyOf[b], KeyOf[a] # NoKey, Separate(a, b)
               PROVE  a = b
    BY DEF TwinsOverlapped
  <2>1. a \in Requests /\ b \in Requests
    BY DEF IInv, TypeOK, StoreTypeOK
  <2>2. req[a].target = a /\ req[b].target = b
    BY DEF OriginInv, AlertsDone
  <2> QED
    BY <2>1, <2>2 DEF DedupInv, TwinsInv, Standing
<1> QED
  BY <1>1, Invariance, OriginInvariance, DedupInvariance, PTL

\* duplicate_count is exact unless two of the deliveries it counts overlapped, and
\* never too high.
THEOREM CountsAreExplained == Spec => []DuplicatesCounted
<1>1. DedupInv => DuplicatesCounted
  BY DEF DedupInv, CountsOf, CountedIn, AllSeparate, DuplicatesCounted
<1> QED
  BY <1>1, DedupInvariance, PTL
=============================================================================
