-------------------------- MODULE ActionRetryProofs --------------------------
(***************************************************************************)
(* Proofs that the @action wrapper keeps its promises for any number of    *)
(* overlapping actions, any retries and any number of database errors.     *)
(***************************************************************************)
EXTENDS ActionRetry, TLAPS

USE ActionAssumption

\* The initial state, before the playbook body runs, satisfies the invariant.
LEMMA IInvInit == Init => IInv
<1> SUFFICES ASSUME Init PROVE IInv
  OBVIOUS
<1>1. TypeOK
  <2>1. act \in [Actions -> ActState] /\ dbErrors \in 0 .. MaxDbErrors
    BY DEF Init, ActState
  <2>2. broken \in BOOLEAN /\ gather \in BOOLEAN
    BY Zenon DEF Init
  <2> QED
    BY <2>1, <2>2 DEF Init, TypeOK
<1>2. CallsAreAttempts /\ FlushOwned /\ FailuresLast /\ ReturnedIsRecorded
  BY DEF Init, CallsAreAttempts, FlushOwned, FailuresLast, ReturnedIsRecorded
<1> QED
  BY <1>1, <1>2 DEF IInv

\* Rows are made from the attempt in progress.
LEMMA RowTyped ==
    ASSUME IInv, NEW a \in Actions, NEW s \in {"success", "failed"},
           act[a].pc \in {"call", "flush"}
    PROVE  /\ RowOf(a, s) \in Row
           /\ RowOf(a, s).action = a /\ RowOf(a, s).status = s
           /\ RowOf(a, s).attempt = act[a].attempt
<1>1. act[a].attempt \in Nat \ {0}
  BY DEF IInv, TypeOK, ActState, CallsAreAttempts
<1> QED
  BY <1>1 DEF RowOf, Row

\* Another action's wrapper is where it was, and so are its rows.
Others(a) == \A b \in Actions \ {a} : act'[b] = act[b] /\ calls'[b] = calls[b]

\* Calling the function, for the first time or after the back-off.
LEMMA CallInv ==
    ASSUME IInv, UNCHANGED gather, NEW a \in Actions, Call(a) \/ Wake(a)
    PROVE  IInv'
<1>1. act \in [Actions -> ActState] /\ calls \in [Actions -> Nat]
  BY DEF IInv, TypeOK
<1>2. PICK n \in Nat :
         /\ act' = [act EXCEPT ![a].pc = "call", ![a].attempt = n]
         /\ n = act[a].attempt + 1 /\ n <= Retries[a] + 1
         /\ act[a].pc \in {"idle", "sleep"}
         /\ calls' = [calls EXCEPT ![a] = @ + 1]
         /\ UNCHANGED <<wins, session, run>>
  BY <1>1 DEF Call, Wake, IInv, CallsAreAttempts, ActState
<1>3. /\ act'[a].pc = "call" /\ act'[a].attempt = n /\ calls'[a] = calls[a] + 1
      /\ Others(a)
  BY <1>1, <1>2 DEF ActState, Others
<1>s. UNCHANGED <<pending, flushing, taken, rows, broken, dbErrors>>
  BY <1>2 DEF session
<1>r. \A b \in Actions \ {a} : \A s : RowOf(b, s)' = RowOf(b, s)
  BY <1>3 DEF Others, RowOf
<1>4. TypeOK'
  <2>1. act' \in [Actions -> ActState]
    BY <1>1, <1>2 DEF ActState
  <2> QED
    BY <1>1, <1>2, <2>1, <1>s DEF IInv, TypeOK
<1>5. CallsAreAttempts'
  BY <1>1, <1>2, <1>3 DEF IInv, CallsAreAttempts, Others
<1>6. FlushOwned'
  <2>1. flushing # a
    BY <1>2 DEF IInv, FlushOwned
  <2>2. \A b \in Actions \ {a} : /\ (act[b].pc = "flush" <=> flushing = b)'
                                /\ (flushing = b => RowOf(b, act[b].status) \in taken)'
    BY <1>3, <1>s, <1>r DEF IInv, FlushOwned, Others
  <2> QED
    BY <1>3, <1>s, <2>1, <2>2 DEF FlushOwned
<1>7. FailuresLast'
  BY <1>2, <1>3, <1>s DEF IInv, FailuresLast, Others, TypeOK, Row
<1>8. ReturnedIsRecorded'
  <2>1. \A b \in Actions \ {a} :
           (act[b].pc = "returned" /\ ~ broken => RowOf(b, "success") \in rows)'
    BY <1>3, <1>s, <1>r DEF IInv, ReturnedIsRecorded, Others
  <2> QED
    BY <1>3, <2>1 DEF ReturnedIsRecorded
<1> QED
  BY <1>4, <1>5, <1>6, <1>7, <1>8 DEF IInv

\* Beginning to record a result.
LEMMA BeginInv ==
    ASSUME IInv, UNCHANGED gather, NEW a \in Actions, NEW s \in {"success", "failed"},
           act[a].pc = "call", ~ Refused, s = "failed" => LastAttempt(a),
           BeginFlush(a, s), wins' \in [Actions -> Nat], UNCHANGED <<calls, run>>
    PROVE  IInv'
<1>1. act \in [Actions -> ActState]
  BY DEF IInv, TypeOK
<1>2. /\ act'[a].pc = "flush" /\ act'[a].status = s
      /\ act'[a].attempt = act[a].attempt /\ Others(a)
      /\ act' \in [Actions -> ActState]
  BY <1>1, ZenonT(60) DEF BeginFlush, ActState, Others
<1>3. /\ flushing = NoOne /\ ~ broken /\ flushing' = a /\ pending' = {}
      /\ taken' = pending \cup {RowOf(a, s)} /\ UNCHANGED <<rows, broken, dbErrors>>
  BY DEF Refused, BeginFlush
<1>r. /\ RowOf(a, s) \in Row /\ RowOf(a, s)' = RowOf(a, s)
      /\ RowOf(a, s).action = a /\ RowOf(a, s).status = s
      /\ RowOf(a, s).attempt = act[a].attempt
  BY <1>2, RowTyped DEF RowOf
<1>4. TypeOK'
  BY <1>2, <1>3, <1>r DEF IInv, TypeOK
<1>5. CallsAreAttempts'
  BY <1>2 DEF IInv, CallsAreAttempts, Others
<1>6. FlushOwned'
  <2>1. \A b \in Actions \ {a} : act'[b].pc # "flush"
    BY <1>2, <1>3 DEF IInv, FlushOwned, Others
  <2>2. (RowOf(a, act[a].status) \in taken)'
    BY <1>2, <1>3, <1>r DEF RowOf
  <2> QED
    BY <1>2, <1>3, <2>1, <2>2 DEF FlushOwned
<1>7. FailuresLast'
  <2>1. s = "failed" => act[a].attempt = Retries[a] + 1 /\ calls[a] = Retries[a] + 1
    BY <1>1 DEF LastAttempt, IInv, CallsAreAttempts, ActState
  <2> QED
    BY <1>2, <1>3, <1>r, <2>1 DEF IInv, FailuresLast, Others, TypeOK, Row
<1>8. ReturnedIsRecorded'
  BY <1>2, <1>3 DEF IInv, ReturnedIsRecorded, Others, RowOf
<1> QED
  BY <1>4, <1>5, <1>6, <1>7, <1>8 DEF IInv

\* Leaving the function, or the back-off, without a flush: for another
\* attempt, or for good with rows the session did not take.
LEMMA LeaveInv ==
    ASSUME IInv, UNCHANGED gather, NEW a \in Actions, NEW pc \in {"sleep", "raised"},
           act[a].pc \in {"call", "sleep"}, Goto(a, pc),
           pc = "sleep" => ~ LastAttempt(a), NEW new \in SUBSET Row,
           \A x \in new : /\ x.action = a /\ x.attempt = act[a].attempt
                          /\ x.status = "failed" => LastAttempt(a) /\ pc = "raised",
           pending' = pending \cup new, wins' \in [Actions -> Nat],
           UNCHANGED <<flushing, taken, rows, broken, dbErrors, calls, run>>
    PROVE  IInv'
<1>1. act \in [Actions -> ActState]
  BY DEF IInv, TypeOK
<1>2. /\ act'[a].pc = pc /\ act'[a].status = act[a].status
      /\ act'[a].attempt = act[a].attempt /\ Others(a)
      /\ act' \in [Actions -> ActState]
  BY <1>1 DEF Goto, ActState, Others
<1>3. LastAttempt(a) => /\ act[a].attempt = Retries[a] + 1
                        /\ calls[a] = Retries[a] + 1
  BY <1>1 DEF LastAttempt, IInv, CallsAreAttempts, ActState
<1>4. TypeOK'
  BY <1>2 DEF IInv, TypeOK
<1>5. CallsAreAttempts'
  BY <1>1, <1>2 DEF IInv, CallsAreAttempts, Others, LastAttempt, ActState
<1>6. FlushOwned'
  BY <1>2 DEF IInv, FlushOwned, Others, RowOf
<1>7. FailuresLast'
  BY <1>2, <1>3 DEF IInv, FailuresLast, Others, TypeOK, Row
<1>8. ReturnedIsRecorded'
  BY <1>2 DEF IInv, ReturnedIsRecorded, Others, RowOf
<1> QED
  BY <1>4, <1>5, <1>6, <1>7, <1>8 DEF IInv

\* The function returns and its success is recorded, or cannot be.
LEMMA ReturnsInv ==
    ASSUME IInv, UNCHANGED gather, NEW a \in Actions, Returns(a)
    PROVE  IInv'
<1>1. wins' \in [Actions -> Nat] /\ act[a].pc = "call" /\ UNCHANGED <<calls, run>>
  BY DEF Returns, IInv, TypeOK
<1>2. CASE ~ Refused
  BY <1>1, <1>2, BeginInv DEF Returns
<1>3. CASE Refused
  <2> DEFINE new == {RowOf(a, "success")} \cup
                    (IF LastAttempt(a) THEN {RowOf(a, "failed")} ELSE {})
             pc == IF LastAttempt(a) THEN "raised" ELSE "sleep"
  <2>1. /\ Goto(a, pc) /\ pending' = pending \cup new
        /\ UNCHANGED <<flushing, taken, rows, broken, dbErrors>>
    BY <1>3 DEF Returns, RefusedSuccess
  <2>2. /\ new \in SUBSET Row
        /\ \A x \in new : /\ x.action = a /\ x.attempt = act[a].attempt
                          /\ x.status = "failed" => LastAttempt(a) /\ pc = "raised"
    BY <1>1, RowTyped
  <2>3. pc \in {"sleep", "raised"} /\ (pc = "sleep" => ~ LastAttempt(a))
    OBVIOUS
  <2> HIDE DEF new, pc
  <2> QED
    BY <1>1, <2>1, <2>2, <2>3, LeaveInv
<1> QED
  BY <1>2, <1>3

\* The function raises or times out, or the wrapper is interrupted.
LEMMA FailsInv ==
    ASSUME IInv, UNCHANGED gather, NEW a \in Actions, Fails(a) \/ Interrupted(a)
    PROVE  IInv'
<1>1. /\ UNCHANGED <<calls, wins, run>> /\ wins' \in [Actions -> Nat]
      /\ act[a].pc \in {"call", "sleep"}
  BY DEF Fails, Interrupted, IInv, TypeOK
<1>2. CASE Fails(a) /\ LastAttempt(a) /\ ~ Refused
  BY <1>1, <1>2, BeginInv DEF Fails
<1>3. CASE Fails(a) /\ LastAttempt(a) /\ Refused
  <2>1. /\ Goto(a, "raised") /\ pending' = pending \cup {RowOf(a, "failed")}
        /\ UNCHANGED <<flushing, taken, rows, broken, dbErrors>>
        /\ act[a].pc = "call"
    BY <1>3 DEF Fails
  <2>2. {RowOf(a, "failed")} \in SUBSET Row
    BY <2>1, RowTyped
  <2>3. \A x \in {RowOf(a, "failed")} : x.action = a /\ x.attempt = act[a].attempt
    BY <2>1, RowTyped
  <2> QED
    BY <1>1, <1>3, <2>1, <2>2, <2>3, LeaveInv
<1>4. CASE (Fails(a) /\ ~ LastAttempt(a)) \/ Interrupted(a)
  <2>1. PICK pc \in {"sleep", "raised"} :
           /\ Goto(a, pc)
           /\ pc = "sleep" => ~ LastAttempt(a)
           /\ UNCHANGED session
    BY <1>4 DEF Fails, Interrupted
  <2> DEFINE new == {}
  <2>2. /\ pending' = pending \cup new /\ new \in SUBSET Row
        /\ UNCHANGED <<flushing, taken, rows, broken, dbErrors>>
    BY <2>1 DEF session
  <2>3. \A x \in new : /\ x.action = a /\ x.attempt = act[a].attempt
                       /\ x.status = "failed" => LastAttempt(a) /\ pc = "raised"
    OBVIOUS
  <2> HIDE DEF new
  <2> QED
    BY <1>1, <2>1, <2>2, <2>3, LeaveInv
<1> QED
  BY <1>2, <1>3, <1>4

\* The end of a flush, whether the database takes it or refuses it.
LEMMA FlushInv ==
    ASSUME IInv, UNCHANGED gather, NEW a \in Actions, FlushDone(a) \/ FlushRefused(a)
    PROVE  IInv'
<1>1. act \in [Actions -> ActState] /\ act[a].status \in {"success", "failed"}
  BY DEF IInv, TypeOK, ActState
<1>2. /\ flushing = a /\ flushing' = NoOne /\ taken' = {} /\ act[a].pc = "flush"
      /\ UNCHANGED <<calls, wins, pending, run>>
      /\ RowOf(a, act[a].status) \in taken
  BY DEF FlushDone, FlushRefused, IInv, FlushOwned
<1>3. PICK pc \in {"returned", "raised", "sleep"} :
         /\ Goto(a, pc)
         /\ pc = "sleep" => ~ LastAttempt(a)
         /\ pc # "raised" => act[a].status = "success"
         /\ pc = "returned" => FlushDone(a)
  BY DEF FlushDone, FlushRefused
<1>4. /\ act'[a].pc = pc /\ act'[a].status = act[a].status
      /\ act'[a].attempt = act[a].attempt /\ Others(a)
      /\ act' \in [Actions -> ActState]
  BY <1>1, <1>2, <1>3 DEF Goto, ActState, Others
<1>5. rows' \subseteq rows \cup taken /\ (~ broken' => rows' = rows \cup taken /\ ~ broken)
  BY DEF FlushDone, FlushRefused, IInv, TypeOK
<1>6. TypeOK'
  <2>1. dbErrors' \in 0 .. MaxDbErrors
    BY DEF FlushDone, FlushRefused, IInv, TypeOK
  <2>2. broken' \in BOOLEAN
    BY Zenon DEF FlushDone, FlushRefused, IInv, TypeOK
  <2> QED
    BY <1>2, <1>4, <1>5, <2>1, <2>2 DEF IInv, TypeOK
<1>7. CallsAreAttempts'
  BY <1>1, <1>2, <1>3, <1>4 DEF IInv, CallsAreAttempts, Others, LastAttempt, ActState
<1>8. FlushOwned'
  BY <1>2, <1>4 DEF IInv, FlushOwned, Others
<1>9. FailuresLast'
  BY <1>2, <1>3, <1>4, <1>5 DEF IInv, FailuresLast, Others, TypeOK, Row
<1>10. ReturnedIsRecorded'
  BY <1>2, <1>3, <1>4, <1>5 DEF IInv, ReturnedIsRecorded, Others, RowOf
<1> QED
  BY <1>6, <1>7, <1>8, <1>9, <1>10 DEF IInv

\* The executor's part: the end of the body and the commit.
LEMMA ExecutorInv ==
    ASSUME IInv, UNCHANGED gather, EndBody \/ CommitDone
    PROVE  IInv'
<1>1. UNCHANGED <<act, calls, wins>>
  BY DEF EndBody, CommitDone
<1>2. /\ pending' \cup taken' \cup rows' \subseteq pending \cup taken \cup rows
      /\ rows \subseteq rows' /\ UNCHANGED <<broken, dbErrors>>
  BY DEF EndBody, CommitDone, session
<1>3. TypeOK'
  <2>1. /\ flushing' \in Actions \cup {NoOne, Executor}
        /\ run' \in {"body", "commit", "committed", "lost"}
    BY DEF EndBody, CommitDone, session, IInv, TypeOK
  <2> QED
    BY <1>1, <1>2, <2>1 DEF IInv, TypeOK
<1>4. CallsAreAttempts'
  BY <1>1 DEF IInv, CallsAreAttempts
<1>5. FlushOwned'
  <2>1. CASE UNCHANGED <<flushing, taken>>
    BY <1>1, <2>1 DEF IInv, FlushOwned, RowOf
  <2>2. CASE flushing \notin Actions /\ flushing' \notin Actions
    BY <1>1, <2>2 DEF IInv, FlushOwned
  <2> QED
    BY <2>1, <2>2 DEF EndBody, CommitDone, session, Refused
<1>6. FailuresLast'
  BY <1>1, <1>2 DEF IInv, FailuresLast
<1>7. ReturnedIsRecorded'
  BY <1>1, <1>2 DEF IInv, ReturnedIsRecorded, RowOf
<1> QED
  BY <1>3, <1>4, <1>5, <1>6, <1>7 DEF IInv

\* Every step of the wrapper, the session and the executor keeps IInv.
LEMMA IInvNext == IInv /\ [Next]_vars => IInv'
<1> SUFFICES ASSUME IInv, [Next]_vars PROVE IInv'
  OBVIOUS
<1>1. ASSUME NEW a \in Actions, Step(a) \/ Interrupted(a) \/ FlushRefused(a),
             UNCHANGED gather
      PROVE  IInv'
  BY <1>1, CallInv, ReturnsInv, FailsInv, FlushInv DEF Step
<1>2. CASE (EndBody \/ CommitDone) /\ UNCHANGED gather
  BY <1>2, ExecutorInv
<1>3. CASE UNCHANGED vars
  BY <1>3 DEF vars, IInv, TypeOK, CallsAreAttempts, FlushOwned, FailuresLast,
              ReturnedIsRecorded, RowOf
<1> QED
  BY <1>1, <1>2, <1>3 DEF Next

\* The inductive invariant holds in every reachable state.
THEOREM Invariance == Spec => []IInv
BY IInvInit, IInvNext, PTL DEF Spec

\* A function is called at most retries + 1 times, however often recording its
\* result fails.
THEOREM CallsBounded == Spec => []AttemptsBounded
<1>1. IInv => AttemptsBounded
  BY DEF IInv, CallsAreAttempts, AttemptsBounded
<1> QED
  BY <1>1, Invariance, PTL

\* A recorded failure is the action's last word.
THEOREM FailuresFinal == Spec => []FailureIsFinal
<1>1. IInv => FailureIsFinal
  BY DEF IInv, FailuresLast, FailureIsFinal
<1> QED
  BY <1>1, Invariance, PTL

\* A result the playbook has received is on record.
THEOREM ResultsRecorded == Spec => []ReturnedIsRecorded
<1>1. IInv => ReturnedIsRecorded
  BY DEF IInv
<1> QED
  BY <1>1, Invariance, PTL

-----------------------------------------------------------------------------
(* Actions awaited in turn on a database that takes every flush.           *)

\* One action at a time is under way; an action that has won is recorded or about
\* to be; there is at most one row of an action.
InTurn ==
    /\ pending = {}
    /\ \A a \in Actions : Ongoing(a) =>
          run = "body" /\ \A b \in Actions \ {a} : ~Ongoing(b)
    /\ \A a \in Actions : \/ wins[a] = 0
                          \/ /\ wins[a] = 1
                             /\ \/ act[a].pc = "returned"
                                \/ act[a].pc = "flush" /\ act[a].status = "success"
    /\ \A x \in rows : act[x.action].pc \in {"returned", "raised"}
    /\ \A x \in taken : act[x.action].pc = "flush"
    /\ \A x, y \in rows \cup taken : x.action = y.action => x = y

\* A broken session had its error, and the executor flushes when it commits.
InTurnInv ==
    /\ broken => dbErrors > 0
    /\ flushing = Executor => run = "commit"
    /\ ~gather /\ dbErrors = 0 => InTurn

\* An action that is not waiting for its own flush finds the session free.
LEMMA SessionFree ==
    ASSUME IInv, InTurn, ~broken, flushing = Executor => run = "commit",
           NEW a \in Actions, act[a].pc \in {"call", "sleep"}
    PROVE  ~Refused /\ flushing = NoOne /\ run = "body"
<1>1. run = "body" /\ \A b \in Actions \ {a} : ~Ongoing(b)
  BY DEF InTurn, Ongoing
<1>2. \A b \in Actions : flushing # b
  BY <1>1 DEF IInv, FlushOwned, Ongoing
<1>3. flushing = NoOne
  BY <1>1, <1>2 DEF IInv, TypeOK
<1> QED
  BY <1>1, <1>3 DEF Refused

\* The moves of the wrapper that touch neither the session nor the wins: calling
\* the function, giving an attempt up, being interrupted.
LEMMA TurnMoves ==
    ASSUME IInv, InTurn, NEW a \in Actions, act' \in [Actions -> ActState],
           act[a].pc \in {"idle", "call", "sleep"}, act'[a].pc \in {"call", "sleep", "raised"},
           \A b \in Actions \ {a} : act'[b] = act[b], UNCHANGED <<wins, session, run>>,
           act[a].pc = "idle" => run = "body" /\ \A b \in Actions \ {a} : ~Ongoing(b)
    PROVE  InTurn'
<1>1. \A b \in Actions \ {a} : act'[b] = act[b] /\ Ongoing(b)' = Ongoing(b)
  BY DEF Ongoing
<1>2. UNCHANGED <<pending, taken, rows>>
  BY DEF session
<1>3. Ongoing(a) \/ act[a].pc = "idle"
  BY DEF Ongoing
<1>4. \A b \in Actions : Ongoing(b)' =>
         run' = "body" /\ \A c \in Actions \ {b} : ~Ongoing(c)'
  BY <1>1, <1>3 DEF InTurn
<1>5. \A x \in rows \cup taken : x.action \in Actions /\ x.action # a
  BY DEF InTurn, IInv, TypeOK, Row
<1>6. wins[a] = 0
  BY DEF InTurn
<1> QED
  BY <1>1, <1>2, <1>4, <1>5, <1>6 DEF InTurn

\* Beginning to record the only row of the action.
LEMMA TurnBegins ==
    ASSUME IInv, InTurn, NEW a \in Actions, NEW s \in {"success", "failed"},
           act[a].pc = "call", BeginFlush(a, s), UNCHANGED run,
           wins' = IF s = "success" THEN [wins EXCEPT ![a] = @ + 1] ELSE wins
    PROVE  InTurn'
<1>1. act \in [Actions -> ActState] /\ wins \in [Actions -> Nat]
  BY DEF IInv, TypeOK
<1>2. /\ act'[a].pc = "flush" /\ act'[a].status = s
      /\ \A b \in Actions \ {a} : act'[b] = act[b]
  BY <1>1 DEF BeginFlush, ActState
<1>3. /\ pending' = {} /\ UNCHANGED rows /\ taken' = {RowOf(a, s)}
      /\ RowOf(a, s).action = a
  BY DEF BeginFlush, InTurn, RowOf
<1>4. /\ \A b \in Actions \ {a} : Ongoing(b)' = Ongoing(b)
      /\ Ongoing(a)
  BY <1>2 DEF Ongoing
<1>5. \A b \in Actions : Ongoing(b)' =>
         run' = "body" /\ \A c \in Actions \ {b} : ~Ongoing(c)'
  BY <1>4 DEF InTurn
<1>6. \A x \in rows : x.action \in Actions /\ x.action # a
  BY DEF InTurn, IInv, TypeOK, Row
<1>7. wins[a] = 0
  BY DEF InTurn
<1>8. \A b \in Actions : \/ wins'[b] = 0
                         \/ /\ wins'[b] = 1
                            /\ \/ act'[b].pc = "returned"
                               \/ act'[b].pc = "flush" /\ act'[b].status = "success"
  BY <1>1, <1>2, <1>7 DEF InTurn
<1> HIDE DEF RowOf
<1> QED
  BY <1>2, <1>3, <1>5, <1>6, <1>8 DEF InTurn

\* The row is written and the action over.
LEMMA TurnWritten ==
    ASSUME IInv, InTurn, NEW a \in Actions, FlushDone(a)
    PROVE  InTurn'
<1>1. act \in [Actions -> ActState] /\ act[a].pc = "flush"
  BY DEF IInv, TypeOK, FlushOwned, FlushDone
<1>2. /\ act'[a].pc = (IF act[a].status = "success" THEN "returned" ELSE "raised")
      /\ \A b \in Actions \ {a} : act'[b] = act[b]
  BY <1>1 DEF FlushDone, Goto, ActState
<1>3. /\ rows' = rows \cup taken /\ taken' = {} /\ pending' = {}
      /\ UNCHANGED <<wins, run>>
  BY DEF FlushDone, InTurn
<1>4. \A b \in Actions \ {a} : ~Ongoing(b) /\ ~Ongoing(b)'
  BY <1>1, <1>2 DEF InTurn, Ongoing
<1>5. ~Ongoing(a)'
  BY <1>2 DEF Ongoing
<1>6. \A x \in rows \cup taken : x.action \in Actions
  BY DEF IInv, TypeOK, Row
<1>7. \A x \in rows' : act'[x.action].pc \in {"returned", "raised"}
  BY <1>1, <1>2, <1>3, <1>4, <1>6 DEF InTurn, Ongoing
<1>8. \A b \in Actions : \/ wins'[b] = 0
                         \/ /\ wins'[b] = 1
                            /\ \/ act'[b].pc = "returned"
                               \/ act'[b].pc = "flush" /\ act'[b].status = "success"
  BY <1>1, <1>2, <1>3 DEF InTurn
<1> QED
  BY <1>3, <1>4, <1>5, <1>7, <1>8 DEF InTurn

\* The executor ends the body when no action is under way, and commits.
LEMMA TurnCommits ==
    ASSUME IInv, InTurn, ~broken, ~gather, flushing = Executor => run = "commit",
           EndBody \/ CommitDone
    PROVE  InTurn'
<1>1. UNCHANGED <<act, wins>> /\ \A a \in Actions : Ongoing(a)' = Ongoing(a)
  BY DEF EndBody, CommitDone, Ongoing
<1>2. \A a \in Actions : ~Ongoing(a)
  BY DEF EndBody, CommitDone, InTurn
<1>3. taken = {}
  BY <1>2 DEF InTurn, IInv, TypeOK, Row, Ongoing
<1>4. pending' = {} /\ taken' = {} /\ rows' = rows
  BY <1>3 DEF EndBody, CommitDone, InTurn, session
<1> QED
  BY <1>1, <1>2, <1>4 DEF InTurn

\* Every step of a run that awaits in turn, without a refused flush, keeps it so.
LEMMA TurnNext ==
    ASSUME IInv, InTurn, ~broken, ~gather, flushing = Executor => run = "commit",
           [Next]_vars, dbErrors' = dbErrors
    PROVE  InTurn'
<1> act \in [Actions -> ActState] /\ dbErrors \in Nat
  BY DEF IInv, TypeOK
<1>1. ASSUME NEW a \in Actions, Call(a) \/ Wake(a) \/ Interrupted(a)
      PROVE  InTurn'
  <2>1. /\ act' \in [Actions -> ActState] /\ act'[a].pc \in {"call", "raised"}
        /\ \A b \in Actions \ {a} : act'[b] = act[b]
    BY <1>1 DEF Call, Wake, Interrupted, Goto, ActState
  <2>2. /\ act[a].pc \in {"idle", "call", "sleep"} /\ UNCHANGED <<wins, session, run>>
        /\ act[a].pc = "idle" => run = "body" /\ \A b \in Actions \ {a} : ~Ongoing(b)
    BY <1>1 DEF Call, Wake, Interrupted
  <2> QED
    BY <2>1, <2>2, TurnMoves
<1>2. ASSUME NEW a \in Actions, Returns(a)
      PROVE  InTurn'
  <2>1. act[a].pc = "call" /\ UNCHANGED run /\ wins' = [wins EXCEPT ![a] = @ + 1]
    BY <1>2 DEF Returns
  <2>2. BeginFlush(a, "success")
    BY <1>2, <2>1, SessionFree DEF Returns
  <2> QED
    BY <2>1, <2>2, TurnBegins
<1>3. ASSUME NEW a \in Actions, Fails(a)
      PROVE  InTurn'
  <2>1. act[a].pc = "call" /\ ~Refused /\ UNCHANGED <<run, wins, calls>>
    BY <1>3, SessionFree DEF Fails
  <2>2. CASE BeginFlush(a, "failed")
    BY <2>1, <2>2, TurnBegins
  <2>3. CASE Goto(a, "sleep") /\ UNCHANGED session
    <3>1. /\ act' \in [Actions -> ActState] /\ act'[a].pc = "sleep"
          /\ \A b \in Actions \ {a} : act'[b] = act[b]
      BY <2>1, <2>3 DEF Goto, ActState
    <3> QED
      BY <2>1, <2>3, <3>1, TurnMoves
  <2> QED
    BY <1>3, <2>1, <2>2, <2>3 DEF Fails
<1>4. ASSUME NEW a \in Actions, FlushDone(a)
      PROVE  InTurn'
  BY <1>4, TurnWritten
<1>5. ASSUME NEW a \in Actions, FlushRefused(a)
      PROVE  FALSE
  BY <1>5 DEF FlushRefused
<1>6. CASE EndBody \/ CommitDone
  BY <1>6, TurnCommits
<1>7. CASE UNCHANGED vars
  BY <1>7 DEF vars, InTurn, Ongoing
<1> QED
  BY <1>1, <1>2, <1>3, <1>4, <1>5, <1>6, <1>7 DEF Next, Step

\* InTurnInv holds in every reachable state.
THEOREM InTurnInvariance == Spec => []InTurnInv
<1>1. Init => InTurnInv
  BY DEF Init, InTurnInv, InTurn, Ongoing
<1>2. IInv /\ InTurnInv /\ [Next]_vars => InTurnInv'
  <2> SUFFICES ASSUME IInv, InTurnInv, [Next]_vars PROVE InTurnInv'
    OBVIOUS
  <2>1. dbErrors \in Nat /\ UNCHANGED gather
    BY DEF IInv, TypeOK, Next, vars
  <2>2. dbErrors' = dbErrors \/ dbErrors' = dbErrors + 1
    BY DEF Next, vars, Step, session, Call, Returns, BeginFlush, RefusedSuccess, Fails,
           Interrupted, Wake, FlushDone, FlushRefused, EndBody, CommitDone
  <2>3. broken' => dbErrors' > 0
    <3>1. CASE \E a \in Actions : FlushRefused(a)
      BY <2>1, <3>1 DEF FlushRefused
    <3>2. CASE ~\E a \in Actions : FlushRefused(a)
      <4>1. broken' = broken
        BY <3>2 DEF Next, vars, Step, session, Call, Returns, BeginFlush, RefusedSuccess, Fails,
               Interrupted, Wake, FlushDone, EndBody, CommitDone
      <4> QED
        BY <2>1, <2>2, <4>1 DEF InTurnInv
    <3> QED
      BY <3>1, <3>2
  <2>4. flushing' = Executor => run' = "commit"
    BY DEF InTurnInv, Next, vars, Step, session, Call, Returns, BeginFlush, RefusedSuccess, Fails, Interrupted,
           Wake, FlushDone, FlushRefused, EndBody, CommitDone, Over
  <2>5. ~gather' /\ dbErrors' = 0 => InTurn'
    <3> SUFFICES ASSUME ~gather', dbErrors' = 0 PROVE InTurn'
      OBVIOUS
    <3>1. /\ dbErrors = 0 /\ ~gather /\ ~broken /\ dbErrors' = dbErrors
          /\ flushing = Executor => run = "commit"
      BY <2>1, <2>2 DEF InTurnInv
    <3>2. InTurn
      BY <3>1 DEF InTurnInv
    <3> QED
      BY <3>1, <3>2, TurnNext
  <2> QED
    BY <2>3, <2>4, <2>5 DEF InTurnInv
<1> QED
  BY <1>1, <1>2, Invariance, PTL DEF Spec

\* Awaited in turn, on a database that takes every flush, no function that has
\* returned is called again, and each action has one row.
THEOREM InTurnIsExact == Spec => []InTurnExact
<1>1. InTurnInv => InTurnExact
  BY DEF InTurnInv, InTurn, InTurnExact
<1> QED
  BY <1>1, InTurnInvariance, PTL
=============================================================================
