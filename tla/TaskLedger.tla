------------------------------ MODULE TaskLedger ------------------------------
(***************************************************************************)
(* What the pipeline promises of a dispatched task, without requests,      *)
(* messages, workers or sessions.  A task is accepted once; attempts work  *)
(* on it, each through the playbooks of the task from the first one, one   *)
(* after the other; an attempt that is closed does no more, and either     *)
(* leaves the task to another attempt or gives it an outcome.              *)
(***************************************************************************)
EXTENDS Integers, Sequences, FiniteSets

CONSTANTS
    Tasks,
    Names,      \* Names[t]: the playbooks of task t, in order
    Attempts    \* records with a field task

VARIABLES
    accepted,   \* the tasks accepted so far
    done,       \* <<s, i>>: attempt s has executed playbook i of its task
    closed,     \* attempts that are over
    outcome     \* <<t, how>>: an attempt has ended task t

ledgerVars == <<accepted, done, closed, outcome>>

Init == accepted = {} /\ done = {} /\ closed = {} /\ outcome = {}

Executed(s) == {i \in 1 .. Len(Names[s.task]) : <<s, i>> \in done}

Accept(t) ==
    /\ t \notin accepted
    /\ accepted' = accepted \cup {t}
    /\ UNCHANGED <<done, closed, outcome>>

\* The next playbook of an open attempt.
ExecuteNext(s) ==
    LET i == Cardinality(Executed(s)) + 1
    IN  /\ s.task \in accepted /\ s \notin closed
        /\ i <= Len(Names[s.task])
        /\ done' = done \cup {<<s, i>>}
        /\ UNCHANGED <<accepted, closed, outcome>>

\* The task is left to a later attempt.
Leave(s) ==
    /\ s.task \in accepted /\ s \notin closed
    /\ closed' = closed \cup {s}
    /\ UNCHANGED <<accepted, done, outcome>>

\* An attempt that returns has executed every playbook.
Conclude(s, how) ==
    /\ s.task \in accepted /\ s \notin closed
    /\ how = "returned" => Executed(s) = 1 .. Len(Names[s.task])
    /\ closed' = closed \cup {s}
    /\ outcome' = outcome \cup {<<s.task, how>>}
    /\ UNCHANGED <<accepted, done>>

Next ==
    \/ \E t \in Tasks : Accept(t)
    \/ \E s \in Attempts : \/ ExecuteNext(s) \/ Leave(s)
                           \/ \E how \in {"returned", "failed", "lost"} : Conclude(s, how)

Spec == Init /\ [][Next]_ledgerVars
=============================================================================
