----------------------------- MODULE ActionRetry -----------------------------
(***************************************************************************)
(* The @action wrapper (core/decorators.py) inside one playbook run: the   *)
(* attempts of an action, and record_action of core/executor.py, which     *)
(* adds an ActionResult to the run's only database session and flushes it. *)
(* The playbook awaits its actions one after the other, or all together    *)
(* with asyncio.gather; then the executor sets run.status and commits.     *)
(*                                                                         *)
(* The session belongs to SQLAlchemy and is modelled from how this code    *)
(* uses it: while one coroutine waits for its flush every other flush      *)
(* raises; a flush takes what was added before it began; a flush that the  *)
(* database refuses rolls the transaction back, and every later flush or   *)
(* commit raises (PendingRollbackError).                                   *)
(***************************************************************************)
EXTENDS Integers, FiniteSets

CONSTANTS
    Actions,    \* the action calls the playbook makes
    Retries,    \* Retries[a]: the decorator's retries
    NoOne,      \* no flush is in progress
    Executor,   \* the executor's commit is in progress
    MaxDbErrors \* bound: flushes the database refuses

ASSUME ActionAssumption ==
    /\ Retries \in [Actions -> Nat]
    /\ NoOne \notin Actions /\ Executor \notin Actions /\ NoOne # Executor
    /\ MaxDbErrors \in Nat

VARIABLES
    gather,    \* the playbook uses asyncio.gather; else it awaits in turn
    act,       \* act[a]: where the wrapper of a is
    calls,     \* calls[a]: how often the wrapped function was called
    wins,      \* wins[a]: how often it returned
    pending,   \* ActionResults added to the session and not flushed
    flushing,  \* whose flush or commit is in progress
    taken,     \* the ActionResults that flush is writing
    rows,      \* ActionResults in the open, then in the committed, transaction
    broken,    \* the session's transaction was rolled back
    dbErrors,  \* flushes the database has refused
    run        \* "body", "commit", then "committed" or "lost"

vars == <<gather, act, calls, wins, pending, flushing, taken, rows, broken, dbErrors, run>>
session == <<pending, flushing, taken, rows, broken, dbErrors>>

\* One ActionResult; an action adds at most one of a status and attempt.
Row == [action : Actions, status : {"success", "failed"}, attempt : Nat \ {0}]

ActState == [pc      : {"idle", "call", "flush", "sleep", "returned", "raised"},
             attempt : Nat,
             status  : {"success", "failed"}]    \* of the flush in progress

TypeOK ==
    /\ gather \in BOOLEAN
    /\ act \in [Actions -> ActState]
    /\ calls \in [Actions -> Nat] /\ wins \in [Actions -> Nat]
    /\ pending \subseteq Row /\ taken \subseteq Row /\ rows \subseteq Row
    /\ flushing \in Actions \cup {NoOne, Executor}
    /\ broken \in BOOLEAN
    /\ dbErrors \in 0 .. MaxDbErrors
    /\ run \in {"body", "commit", "committed", "lost"}

Init ==
    /\ gather \in BOOLEAN
    /\ act = [a \in Actions |-> [pc |-> "idle", attempt |-> 0, status |-> "failed"]]
    /\ calls = [a \in Actions |-> 0]
    /\ wins = [a \in Actions |-> 0]
    /\ pending = {} /\ taken = {} /\ rows = {}
    /\ flushing = NoOne
    /\ broken = FALSE
    /\ dbErrors = 0
    /\ run = "body"

Ongoing(a) == act[a].pc \in {"call", "flush", "sleep"}
Over == run \in {"committed", "lost"}
RowOf(a, status) == [action |-> a, status |-> status, attempt |-> act[a].attempt]
Goto(a, pc) == act' = [act EXCEPT ![a].pc = pc]

\* session.add() and flush() raise at once: nothing is awaited.
Refused == broken \/ flushing # NoOne

\* The attempt is the last one of range(1, retries + 2).
LastAttempt(a) == act[a].attempt > Retries[a]

\* The playbook calls the action.  Awaited in turn, the next action is called
\* when the one before it has returned, or has raised and was caught.
Call(a) ==
    /\ run = "body"
    /\ act[a].pc = "idle"
    /\ gather \/ \A b \in Actions \ {a} : ~ Ongoing(b)
    /\ act' = [act EXCEPT ![a].pc = "call", ![a].attempt = 1]
    /\ calls' = [calls EXCEPT ![a] = @ + 1]
    /\ UNCHANGED <<wins, session, run>>

\* Begin to flush: add(action_result); flush() takes everything pending.
BeginFlush(a, status) ==
    /\ flushing' = a
    /\ taken' = pending \cup {RowOf(a, status)}
    /\ pending' = {}
    /\ act' = [act EXCEPT ![a].pc = "flush", ![a].status = status]
    /\ UNCHANGED <<rows, broken, dbErrors>>

\* The except branches after the session refused to record a success: sleep
\* and call the function again, or record a failure, which is refused too.
\* What was added to the session stays in it.
RefusedSuccess(a) ==
    /\ pending' = pending \cup {RowOf(a, "success")} \cup
                    (IF LastAttempt(a) THEN {RowOf(a, "failed")} ELSE {})
    /\ Goto(a, IF LastAttempt(a) THEN "raised" ELSE "sleep")
    /\ UNCHANGED <<flushing, taken, rows, broken, dbErrors>>

\* The function returns in time: record_action(status="success").
Returns(a) ==
    /\ ~ Over
    /\ act[a].pc = "call"
    /\ wins' = [wins EXCEPT ![a] = @ + 1]
    /\ IF Refused THEN RefusedSuccess(a) ELSE BeginFlush(a, "success")
    /\ UNCHANGED <<calls, run>>

\* Mutant: a failed attempt is recorded although attempts are left.
FailsRecorded(a) ==
    /\ ~ Over
    /\ act[a].pc = "call"
    /\ ~ Refused
    /\ BeginFlush(a, "failed")
    /\ UNCHANGED <<calls, wins, run>>

\* The function raises, or wait_for gives up (TimeoutError): back off while
\* attempts are left, otherwise record_action(status="failed") and re-raise.
Fails(a) ==
    /\ ~ Over
    /\ act[a].pc = "call"
    /\ \/ /\ ~ LastAttempt(a)
          /\ Goto(a, "sleep")
          /\ UNCHANGED session
       \/ /\ LastAttempt(a) /\ ~ Refused
          /\ BeginFlush(a, "failed")
       \/ /\ LastAttempt(a) /\ Refused
          /\ pending' = pending \cup {RowOf(a, "failed")}
          /\ Goto(a, "raised")
          /\ UNCHANGED <<flushing, taken, rows, broken, dbErrors>>
    /\ UNCHANGED <<calls, wins, run>>

\* A BaseException (CancelledError, SystemExit) passes the wrapper by.
Interrupted(a) ==
    /\ ~ Over
    /\ act[a].pc \in {"call", "sleep"}
    /\ Goto(a, "raised")
    /\ UNCHANGED <<calls, wins, session, run>>

\* Mutant: the attempt counter is not advanced.
WakeSameAttempt(a) ==
    /\ ~ Over
    /\ act[a].pc = "sleep"
    /\ Goto(a, "call")
    /\ UNCHANGED <<calls, wins, session, run>>

\* asyncio.sleep(retry_backoff ** attempt) is over: the next attempt.
Wake(a) ==
    /\ ~ Over
    /\ act[a].pc = "sleep"
    /\ act' = [act EXCEPT ![a].pc = "call", ![a].attempt = @ + 1]
    /\ calls' = [calls EXCEPT ![a] = @ + 1]
    /\ UNCHANGED <<wins, session, run>>

\* Mutant: after its success is written the action is retried all the same.
FlushDoneRetries(a) ==
    /\ ~ Over
    /\ flushing = a
    /\ rows' = rows \cup taken
    /\ taken' = {}
    /\ flushing' = NoOne
    /\ Goto(a, IF act[a].status = "success" /\ LastAttempt(a) THEN "returned"
               ELSE IF act[a].status = "success" THEN "sleep" ELSE "raised")
    /\ UNCHANGED <<calls, wins, pending, broken, dbErrors, run>>

\* Mutant: the result is returned before its row is written.
FlushDoneUnwritten(a) ==
    /\ ~ Over
    /\ flushing = a
    /\ pending' = pending \cup taken
    /\ taken' = {}
    /\ flushing' = NoOne
    /\ Goto(a, IF act[a].status = "success" THEN "returned" ELSE "raised")
    /\ UNCHANGED <<calls, wins, rows, broken, dbErrors, run>>

\* The flush succeeds: return the result, or re-raise the error.
FlushDone(a) ==
    /\ ~ Over
    /\ flushing = a
    /\ rows' = rows \cup taken
    /\ taken' = {}
    /\ flushing' = NoOne
    /\ Goto(a, IF act[a].status = "success" THEN "returned" ELSE "raised")
    /\ UNCHANGED <<calls, wins, pending, broken, dbErrors, run>>

\* The database refuses the flush: the transaction is rolled back, and the
\* error takes the except branch like one of the function itself.
FlushRefused(a) ==
    /\ ~ Over
    /\ flushing = a
    /\ dbErrors < MaxDbErrors
    /\ dbErrors' = dbErrors + 1
    /\ broken' = TRUE
    /\ rows' = {}
    /\ taken' = {}
    /\ flushing' = NoOne
    /\ IF act[a].status = "success" /\ ~ LastAttempt(a)
         THEN Goto(a, "sleep") ELSE Goto(a, "raised")
    /\ UNCHANGED <<calls, wins, pending, run>>

\* The playbook returns, or raises with the first action that raised while
\* the others of the gather go on.  The executor sets run.status and enters
\* its finally block: a commit, which first flushes what is pending.  In the
\* middle of a flush of another coroutine the commit skips that, and raises
\* unless the connection happens to be idle.
EndBody ==
    /\ run = "body"
    /\ gather \/ \A a \in Actions : ~ Ongoing(a)
    /\ \/ \A a \in Actions : act[a].pc = "returned"
       \/ \E a \in Actions : act[a].pc = "raised"
    /\ \/ /\ ~ Refused
          /\ run' = "commit"
          /\ flushing' = Executor
          /\ taken' = pending
          /\ pending' = {}
          /\ UNCHANGED <<rows, broken, dbErrors>>
       \/ /\ Refused
          /\ run' \in IF broken THEN {"lost"} ELSE {"lost", "committed"}
          /\ UNCHANGED session
    /\ UNCHANGED <<act, calls, wins>>

\* The commit succeeds.  Actions of a failed gather that are still running
\* are not followed any further.
CommitDone ==
    /\ run = "commit" /\ flushing = Executor
    /\ run' = "committed"
    /\ rows' = rows \cup taken
    /\ taken' = {}
    /\ flushing' = NoOne
    /\ UNCHANGED <<act, calls, wins, pending, broken, dbErrors>>

\* One step of the wrapper of a.
Step(a) == \/ Call(a) \/ Returns(a) \/ Fails(a) \/ Wake(a)
           \/ FlushDone(a)

Next ==
    /\ \/ \E a \in Actions : Step(a) \/ Interrupted(a) \/ FlushRefused(a)
       \/ EndBody
       \/ CommitDone
    /\ UNCHANGED gather

Spec == Init /\ [][Next]_vars

\* wait_for bounds every attempt and sleep ends: a wrapper takes its next
\* step, and the executor does.  No function has to fail.
Fairness == /\ \A a \in Actions : WF_vars(Step(a) /\ UNCHANGED gather)
            /\ WF_vars(EndBody /\ UNCHANGED gather)
            /\ WF_vars(CommitDone /\ UNCHANGED gather)

FairSpec == Spec /\ Fairness

-----------------------------------------------------------------------------
(* Properties.                                                             *)

\* Whatever fails, the function or the recording of its result, and however
\* actions overlap: a function is called at most retries + 1 times.
AttemptsBounded == \A a \in Actions : calls[a] <= Retries[a] + 1

\* A failure on record is final: it was written after all attempts, and the
\* action does not return a result to the playbook afterwards.
FailureIsFinal ==
    \A x \in pending \cup taken \cup rows : x.status = "failed" =>
       /\ x.attempt = Retries[x.action] + 1
       /\ calls[x.action] = Retries[x.action] + 1
       /\ act[x.action].pc \in {"flush", "raised"}

\* An action that hands a result to the playbook has its success on record
\* in the transaction, unless the transaction as a whole was rolled back.
ReturnedIsRecorded ==
    \A a \in Actions : act[a].pc = "returned" /\ ~ broken =>
       RowOf(a, "success") \in rows

\* The inductive strengthening of the three invariants above: every call is
\* an attempt, ...
CallsAreAttempts ==
    \A a \in Actions :
       /\ calls[a] = act[a].attempt
       /\ act[a].attempt <= Retries[a] + 1
       /\ act[a].pc = "idle" => act[a].attempt = 0
       /\ act[a].pc \in {"call", "flush"} => act[a].attempt > 0
       /\ act[a].pc = "sleep" => act[a].attempt <= Retries[a]

\* ... the action that flushes is the one waiting for it, and its own row is
\* among those written, ...
FlushOwned ==
    \A a \in Actions :
       /\ act[a].pc = "flush" <=> flushing = a
       /\ flushing = a => RowOf(a, act[a].status) \in taken

\* ... and a failure is written when there is nothing left to try.
FailuresLast ==
    \A x \in pending \cup taken \cup rows : x.status = "failed" =>
       /\ x.attempt = Retries[x.action] + 1
       /\ calls[x.action] = Retries[x.action] + 1
       /\ \/ act[x.action].pc = "raised"
          \/ act[x.action].pc = "flush" /\ act[x.action].status = "failed"

\* The inductive invariant of the wrapper.
IInv == TypeOK /\ CallsAreAttempts /\ FlushOwned /\ FailuresLast /\ ReturnedIsRecorded

\* A playbook that awaits its actions in turn, on a database that takes every
\* flush, gets exactly what it asked for: no function that has returned is
\* called again, and each action has one record in the committed run.
InTurnExact ==
    ~ gather /\ dbErrors = 0 =>
       /\ \A a \in Actions : wins[a] <= 1
       /\ run = "committed" => \A x, y \in rows : x.action = y.action => x = y

\* Every run comes to an end, with its rows committed or lost.
RunEnds == <> Over
=============================================================================
