--------------------------- MODULE EnrichmentProofs ---------------------------
(***************************************************************************)
(* Proofs about Enrichment: how many enrichments of one key can be in      *)
(* progress, and why an observable is pending.                             *)
(***************************************************************************)
EXTENDS Enrichment, FiniteSetTheorems, TLAPS

(***************************************************************************)
(* What the variables look like.                                           *)
(***************************************************************************)
IsRow(x) == x = [alert |-> x.alert, status |-> x.status, entries |-> x.entries]
IsRequest(x) == x = [pc |-> x.pc, todo |-> x.todo, new |-> x.new, links |-> x.links,
                     skipped |-> x.skipped, cur |-> x.cur, left |-> x.left]
IsWorker(x) == x = [pc |-> x.pc, msg |-> x.msg, snap |-> x.snap, left |-> x.left,
                    cur |-> x.cur, found |-> x.found, how |-> x.how]
IsEdit(x) == x = [pc |-> x.pc, row |-> x.row, snap |-> x.snap, source |-> x.source]
IsTask(x) == x = [row |-> x.row, key |-> x.key, copy |-> x.copy] /\ x.key \in Keys

Places == {Redis} \cup {ProcOf[r] : r \in Requests}

\* A request has an observable in hand.
Choosing == {"consult", "mark", "delay"}

Typed ==
    /\ rows = [i \in DOMAIN rows |-> rows[i]] /\ \A i \in DOMAIN rows : IsRow(rows[i])
    /\ req = [r \in Requests |-> req[r]]
    /\ \A r \in Requests : IsRequest(req[r]) /\ (req[r].pc \in Choosing => req[r].cur \in Values)
    /\ wk = [w \in Workers |-> wk[w]]
    /\ \A w \in Workers :
          IsWorker(wk[w]) /\ (wk[w].pc \in {"lookup", "fetch", "fail"} => wk[w].msg.row \in DOMAIN rows)
    /\ edit = [e \in Edits |-> edit[e]]
    /\ \A e \in Edits : IsEdit(edit[e]) /\ (edit[e].pc # "idle" => edit[e].row \in DOMAIN rows)
    /\ claims \subseteq Places \X Keys
    /\ IsFiniteSet(tasks) /\ \A m \in tasks : IsTask(m)
    /\ slips \in [Keys -> Nat]

(***************************************************************************)
(* The enrichments in progress.                                            *)
(***************************************************************************)
\* A worker has a delivery that is not acknowledged, and has it alone.
Busy(w) == wk[w].pc # "idle"
OwnTasks ==
    /\ \A w \in Workers : Busy(w) => wk[w].msg \in tasks
    /\ \A v, w \in Workers : Busy(v) /\ Busy(w) /\ wk[v].msg = wk[w].msg => v = w

Delaying(k) == {r \in Requests : req[r].pc = "delay" /\ CurKey(r) = k}
Running(k) == {m \in tasks : m.key = k /\ Uncleared(m)}

\* One of the enrichments of a key has its claim in Redis; each of the others
\* has had its slip.
Claimed(k) ==
    Cardinality(Delaying(k)) + Cardinality(Running(k))
      <= slips[k] + (IF <<Redis, k>> \in claims THEN 1 ELSE 0)

InflightInv == OwnTasks /\ \A k \in Keys : Claimed(k)

(***************************************************************************)
(* What becomes of an observable.                                          *)
(***************************************************************************)
Coming(i) == \E m \in tasks : m.row = i
Excused(i) == \E x \in results : x.row = i /\ x.how \in {"missing", "swallowed", "lost"}
Edited(i) == \E e \in Edits : edit[e].row = i /\ edit[e].pc = "done"
Settled(i) == i \in DOMAIN rows /\ (rows[i].status # "pending" \/ Edited(i))

\* A row is accounted for from before its COMMIT on.
Accounted(i) ==
    \/ i.by \in Posts
    \/ i.by \in Requests /\ i.value \in req[i.by].skipped
    \/ Coming(i) \/ Excused(i) \/ Settled(i)

\* The request has seen to the observables its loop is through with.
RequestAccounts(r) ==
    /\ req[r].pc \in {"idle", "select"} => req[r].skipped = {}
    /\ req[r].pc \in {"schedule"} \cup Choosing =>
          \A v \in req[r].new \ req[r].todo : Accounted(NewRow(r, v))
    /\ req[r].pc = "commit" => \A v \in req[r].new : Accounted(NewRow(r, v))

\* A worker that has loaded a status other than "pending" has not made it up,
\* and one that reports an outcome has stored one.
WorkerAccounts(w) ==
    /\ wk[w].pc \in {"lookup", "fetch", "fail"} /\ wk[w].snap.status # "pending" =>
          Settled(wk[w].msg.row)
    /\ wk[w].pc \in {"clear", "ack"} =>
          \/ wk[w].how \in {"missing", "swallowed"}
          \/ wk[w].how \in {"complete", "failed"} /\ Settled(wk[w].msg.row)

AccountsInv ==
    /\ \A r \in Requests : RequestAccounts(r)
    /\ \A w \in Workers : WorkerAccounts(w)
    /\ \A i \in DOMAIN rows : Accounted(i)

(***************************************************************************)
(* The steps of a request.                                                 *)
(***************************************************************************)
\* Only the request of a step changes, and it keeps the fields of a request.
OneRequest(r, q) ==
    /\ req' = [s \in Requests |-> req'[s]] /\ req'[r] = q /\ IsRequest(q)
    /\ \A s \in Requests \ {r} : req'[s] = req[s]

\* A request whose record is replaced.
LEMMA Replaced ==
    ASSUME Typed, NEW r \in Requests, NEW q, IsRequest(q), req' = [req EXCEPT ![r] = q]
    PROVE  OneRequest(r, q)
  BY DEF Typed, OneRequest

\* The observable in hand is left to the next alert.
LEMMA Suppressed ==
    ASSUME Typed, NEW r \in Requests, req' = Suppress(r)
    PROVE  \E q : /\ OneRequest(r, q) /\ q.pc = "schedule" /\ q.new = req[r].new
                  /\ q.todo = req[r].todo \ {req[r].cur}
                  /\ q.skipped = req[r].skipped \cup {req[r].cur}
<1> DEFINE q == req[r]
           a == [q EXCEPT !.pc = "schedule"]
           b == [a EXCEPT !.todo = q.todo \ {q.cur}]
           c == [b EXCEPT !.skipped = q.skipped \cup {q.cur}]
           d == [c EXCEPT !.left = {}]
           e == [d EXCEPT !.cur = NoSource]
<1>0. IsRequest(q) /\ req = [s \in Requests |-> req[s]]
  BY DEF Typed
<1>1. a.todo = q.todo /\ b.skipped = q.skipped
  BY <1>0 DEF IsRequest
<1>2. req' = [req EXCEPT ![r] = e]
  BY <1>0, <1>1 DEF Suppress
<1> HIDE DEF q
<1>3. a = [pc |-> "schedule", todo |-> q.todo, new |-> q.new, links |-> q.links,
           skipped |-> q.skipped, cur |-> q.cur, left |-> q.left]
  BY <1>0 DEF IsRequest
<1> HIDE DEF a
<1>4. b = [pc |-> "schedule", todo |-> q.todo \ {q.cur}, new |-> q.new, links |-> q.links,
           skipped |-> q.skipped, cur |-> q.cur, left |-> q.left]
  BY <1>3
<1> HIDE DEF b
<1>5. c = [pc |-> "schedule", todo |-> q.todo \ {q.cur}, new |-> q.new, links |-> q.links,
           skipped |-> q.skipped \cup {q.cur}, cur |-> q.cur, left |-> q.left]
  BY <1>4
<1> HIDE DEF c
<1>6. d = [pc |-> "schedule", todo |-> q.todo \ {q.cur}, new |-> q.new, links |-> q.links,
           skipped |-> q.skipped \cup {q.cur}, cur |-> q.cur, left |-> {}]
  BY <1>5
<1> HIDE DEF d
<1>7. e = [pc |-> "schedule", todo |-> q.todo \ {q.cur}, new |-> q.new, links |-> q.links,
           skipped |-> q.skipped \cup {q.cur}, cur |-> NoSource, left |-> {}]
  BY <1>6
<1> HIDE DEF e
<1>8. /\ IsRequest(e) /\ e.pc = "schedule" /\ e.new = q.new /\ e.todo = q.todo \ {q.cur}
      /\ e.skipped = q.skipped \cup {q.cur}
  BY <1>7 DEF IsRequest
<1> QED
  BY <1>2, <1>8, Replaced DEF q

\* The SELECTs find the rows of the values; nothing is skipped yet unless a
\* SELECT raises.
Selecting(r) ==
    \E q : /\ OneRequest(r, q) /\ q.pc = "select" /\ q.skipped = req[r].skipped
           /\ req[r].pc \in {"idle", "select"}
LEMMA SelectFacts ==
    ASSUME Typed, NEW r \in Requests,
           Begin(r) \/ \E v \in Values : SelectNew(r, v) \/ SelectKnown(r, v)
    PROVE  Selecting(r)
<1> DEFINE q == req[r]
<1>0. IsRequest(q) /\ req = [s \in Requests |-> req[s]]
  BY DEF Typed
<1>1. CASE Begin(r)
  <2> DEFINE a == [q EXCEPT !.pc = "select"]
             b == [a EXCEPT !.todo = Iocs[r]]
  <2>1. req' = [req EXCEPT ![r] = b] /\ q.pc = "idle"
    BY <1>0, <1>1 DEF Begin
  <2> HIDE DEF q
  <2>2. IsRequest(a) /\ a.pc = "select" /\ a.skipped = q.skipped
    BY <1>0 DEF IsRequest
  <2> HIDE DEF a
  <2>3. IsRequest(b) /\ b.pc = "select" /\ b.skipped = q.skipped
    BY <2>2 DEF IsRequest
  <2> HIDE DEF b
  <2> QED
    BY <2>1, <2>3, Replaced DEF q, Selecting
<1>2. ASSUME NEW v \in Values, SelectNew(r, v)
      PROVE  Selecting(r)
  <2> DEFINE a == [q EXCEPT !.todo = q.todo \ {v}]
             b == [a EXCEPT !.new = q.new \cup {v}]
  <2>0. a.new = q.new
    BY <1>0 DEF IsRequest
  <2>1. req' = [req EXCEPT ![r] = b] /\ q.pc = "select"
    BY <1>0, <1>2, <2>0 DEF SelectNew
  <2> HIDE DEF q
  <2>2. IsRequest(a) /\ a.pc = q.pc /\ a.skipped = q.skipped
    BY <1>0 DEF IsRequest
  <2> HIDE DEF a
  <2>3. IsRequest(b) /\ b.pc = q.pc /\ b.skipped = q.skipped
    BY <2>2 DEF IsRequest
  <2> HIDE DEF b
  <2> QED
    BY <2>1, <2>3, Replaced DEF q, Selecting
<1>3. ASSUME NEW v \in Values, SelectKnown(r, v)
      PROVE  Selecting(r)
  <2>0. PICK i \in RowIds :
           req' = [req EXCEPT ![r].todo = @ \ {v},
                     ![r].links = IF rows[i].alert = NoAlert THEN @ \cup {i} ELSE @]
    BY <1>3 DEF SelectKnown
  <2> DEFINE links == IF rows[i].alert = NoAlert THEN q.links \cup {i} ELSE q.links
             a == [q EXCEPT !.todo = q.todo \ {v}]
             b == [a EXCEPT !.links = links]
  <2>1. a.links = q.links
    BY <1>0 DEF IsRequest
  <2>2. req' = [req EXCEPT ![r] = b] /\ q.pc = "select"
    BY <1>0, <1>3, <2>0, <2>1 DEF SelectKnown
  <2> HIDE DEF q, links
  <2>3. IsRequest(a) /\ a.pc = q.pc /\ a.skipped = q.skipped
    BY <1>0 DEF IsRequest
  <2> HIDE DEF a
  <2>4. IsRequest(b) /\ b.pc = q.pc /\ b.skipped = q.skipped
    BY <2>3 DEF IsRequest
  <2> HIDE DEF b
  <2> QED
    BY <2>2, <2>4, Replaced DEF q, Selecting
<1> QED
  BY <1>1, <1>2, <1>3

\* The loop goes on with the observable in hand, or takes one.
Scheduling == {"schedule"} \cup Choosing
Going(r, pc) ==
    \E q : /\ OneRequest(r, q) /\ q.pc = pc /\ q.cur \in Values
           /\ q.todo = req[r].todo /\ q.new = req[r].new /\ q.skipped = req[r].skipped
           /\ req[r].pc \in Scheduling
           /\ req[r].pc \in Choosing => q.cur = req[r].cur
LEMMA EnqueueFacts ==
    ASSUME Typed, NEW r \in Requests, NEW v \in Values, Enqueue(r, v)
    PROVE  \E pc \in {"consult", "mark"} : Going(r, pc)
<1> DEFINE q == req[r]
           pc == IF Consulted[v] = {} THEN "mark" ELSE "consult"
           a == [q EXCEPT !.cur = v]
           b == [a EXCEPT !.left = Consulted[v]]
           c == [b EXCEPT !.pc = pc]
<1>0. IsRequest(q) /\ req = [s \in Requests |-> req[s]]
  BY DEF Typed
<1>1. req' = [req EXCEPT ![r] = c] /\ q.pc = "schedule"
  BY <1>0 DEF Enqueue
<1>2. pc \in {"consult", "mark"}
  OBVIOUS
<1> HIDE DEF q, pc
<1>3. IsRequest(a) /\ a.cur = v /\ a.todo = q.todo /\ a.new = q.new /\ a.skipped = q.skipped
  BY <1>0 DEF IsRequest
<1> HIDE DEF a
<1>4. IsRequest(b) /\ b.cur = v /\ b.todo = q.todo /\ b.new = q.new /\ b.skipped = q.skipped
  BY <1>3 DEF IsRequest
<1> HIDE DEF b
<1>5. IsRequest(c) /\ c.cur = v /\ c.todo = q.todo /\ c.new = q.new /\ c.skipped = q.skipped
      /\ c.pc = pc
  BY <1>4 DEF IsRequest
<1> HIDE DEF c
<1> QED
  BY <1>1, <1>2, <1>5, Replaced DEF q, Going, Scheduling, Choosing

\* Setting one field of a request leaves the others.
LEMMA PcSet ==
    ASSUME NEW q, IsRequest(q), NEW pc
    PROVE  [q EXCEPT !.pc = pc] = [pc |-> pc, todo |-> q.todo, new |-> q.new, links |-> q.links,
                                   skipped |-> q.skipped, cur |-> q.cur, left |-> q.left]
  BY DEF IsRequest
LEMMA LeftSet ==
    ASSUME NEW q, IsRequest(q), NEW left
    PROVE  [q EXCEPT !.left = left] = [pc |-> q.pc, todo |-> q.todo, new |-> q.new, links |-> q.links,
                                       skipped |-> q.skipped, cur |-> q.cur, left |-> left]
  BY DEF IsRequest

\* A field that the accounts do not depend on, or the place of the request,
\* is set, and the request goes on with the observable in hand.
LEMMA GoesOn ==
    ASSUME Typed, NEW r \in Requests, req[r].pc \in Choosing, NEW pc \in Choosing,
           \/ req' = [req EXCEPT ![r].pc = pc]
           \/ \E left : req' = [req EXCEPT ![r].pc = pc, ![r].left = left]
           \/ \E left : req' = [req EXCEPT ![r].left = left] /\ pc = req[r].pc
    PROVE  Going(r, pc)
<1> DEFINE q == req[r]
           a == [q EXCEPT !.pc = pc]
           same(b) == /\ IsRequest(b) /\ b.cur = q.cur /\ b.todo = q.todo /\ b.new = q.new
                      /\ b.skipped = q.skipped /\ b.pc = pc
<1>0. IsRequest(q) /\ req = [s \in Requests |-> req[s]] /\ q.cur \in Values
  BY DEF Typed
<1>1. ASSUME NEW b, same(b), req' = [req EXCEPT ![r] = b]
      PROVE  Going(r, pc)
  BY <1>0, <1>1, Replaced DEF Going, Scheduling
<1>2. same(a)
  <2> HIDE DEF q
  <2>1. a = [pc |-> pc, todo |-> q.todo, new |-> q.new, links |-> q.links,
             skipped |-> q.skipped, cur |-> q.cur, left |-> q.left]
    BY <1>0, PcSet
  <2> HIDE DEF a
  <2> QED
    BY <2>1 DEF IsRequest
<1>3. ASSUME NEW left
      PROVE  same([a EXCEPT !.left = left])
  <2> HIDE DEF q, a
  <2> DEFINE b == [a EXCEPT !.left = left]
  <2>1. b = [pc |-> a.pc, todo |-> a.todo, new |-> a.new, links |-> a.links,
             skipped |-> a.skipped, cur |-> a.cur, left |-> left]
    BY <1>2, LeftSet
  <2> HIDE DEF b
  <2>2. same(b)
    BY <1>2, <2>1 DEF IsRequest
  <2> QED
    BY <2>2 DEF b
<1>4. ASSUME NEW left, pc = q.pc
      PROVE  same([q EXCEPT !.left = left])
  <2> HIDE DEF q
  <2> DEFINE b == [q EXCEPT !.left = left]
  <2>1. b = [pc |-> q.pc, todo |-> q.todo, new |-> q.new, links |-> q.links,
             skipped |-> q.skipped, cur |-> q.cur, left |-> left]
    BY <1>0, LeftSet
  <2> HIDE DEF b
  <2>2. same(b)
    BY <1>4, <2>1 DEF IsRequest
  <2> QED
    BY <2>2 DEF b
<1>5. CASE req' = [req EXCEPT ![r].pc = pc]
  <2>1. req' = [req EXCEPT ![r] = a]
    BY <1>0, <1>5
  <2> QED
    BY <1>1, <1>2, <2>1
<1>6. CASE \E left : req' = [req EXCEPT ![r].pc = pc, ![r].left = left]
  <2>1. PICK left : req' = [req EXCEPT ![r].pc = pc, ![r].left = left]
    BY <1>6
  <2> DEFINE b == [a EXCEPT !.left = left]
  <2>2. req' = [req EXCEPT ![r] = b]
    BY <1>0, <2>1
  <2>3. same(b)
    BY <1>3
  <2> HIDE DEF b
  <2> QED
    BY <1>1, <2>2, <2>3
<1>7. CASE \E left : req' = [req EXCEPT ![r].left = left] /\ pc = req[r].pc
  <2>1. PICK left : req' = [req EXCEPT ![r].left = left] /\ pc = req[r].pc
    BY <1>7
  <2> DEFINE b == [q EXCEPT !.left = left]
  <2>2. req' = [req EXCEPT ![r] = b]
    BY <1>0, <2>1
  <2>3. same(b)
    BY <1>4, <2>1
  <2> HIDE DEF b
  <2> QED
    BY <1>1, <2>2, <2>3
<1> QED
  BY <1>5, <1>6, <1>7

\* The loop is through with the observable in hand, which has its task.
LEMMA DelayFacts ==
    ASSUME Typed, NEW r \in Requests, Delay(r)
    PROVE  \E q : /\ OneRequest(r, q) /\ q.pc = "schedule" /\ q.new = req[r].new
                  /\ q.todo = req[r].todo \ {req[r].cur} /\ q.skipped = req[r].skipped
<1> DEFINE q == req[r]
           a == [q EXCEPT !.pc = "schedule"]
           b == [a EXCEPT !.todo = q.todo \ {q.cur}]
           c == [b EXCEPT !.cur = NoSource]
<1>0. IsRequest(q) /\ req = [s \in Requests |-> req[s]]
  BY DEF Typed
<1>1. a.todo = q.todo
  BY <1>0 DEF IsRequest
<1>2. req' = [req EXCEPT ![r] = c]
  BY <1>0, <1>1 DEF Delay
<1> HIDE DEF q
<1>3. IsRequest(a) /\ a.pc = "schedule" /\ a.new = q.new /\ a.skipped = q.skipped
  BY <1>0 DEF IsRequest
<1> HIDE DEF a
<1>4. IsRequest(b) /\ b.pc = "schedule" /\ b.new = q.new /\ b.skipped = q.skipped
      /\ b.todo = q.todo \ {q.cur}
  BY <1>3 DEF IsRequest
<1> HIDE DEF b
<1>5. IsRequest(c) /\ c.pc = "schedule" /\ c.new = q.new /\ c.skipped = q.skipped
      /\ c.todo = q.todo \ {q.cur}
  BY <1>4 DEF IsRequest
<1> HIDE DEF c
<1> QED
  BY <1>2, <1>5, Replaced DEF q

\* The steps that take a request from one loop to the next.
LEMMA TurnFacts ==
    ASSUME Typed, NEW r \in Requests
    PROVE  /\ (\E v \in Values : SelectMany(r, v)) =>
                \E q : /\ OneRequest(r, q) /\ q.pc = "commit" /\ q.new = req[r].new
                       /\ q.skipped = req[r].new /\ req[r].pc = "select"
           /\ Flush(r) =>
                \E q : /\ OneRequest(r, q) /\ q.pc = "schedule" /\ q.new = req[r].new
                       /\ q.todo = req[r].new /\ q.skipped = req[r].skipped
                       /\ req[r].pc = "select"
           /\ Scheduled(r) =>
                \E q : /\ OneRequest(r, q) /\ q.pc = "commit" /\ q.new = req[r].new
                       /\ q.skipped = req[r].skipped
                       /\ req[r].pc = "schedule" /\ req[r].todo = {}
<1> DEFINE q == req[r]
<1>0. IsRequest(q) /\ req = [s \in Requests |-> req[s]]
  BY DEF Typed
<1>1. ASSUME NEW v \in Values, SelectMany(r, v)
      PROVE  \E p : /\ OneRequest(r, p) /\ p.pc = "commit" /\ p.new = q.new
                    /\ p.skipped = q.new /\ q.pc = "select"
  <2> DEFINE a == [q EXCEPT !.pc = "commit"]
             b == [a EXCEPT !.todo = {}]
             c == [b EXCEPT !.skipped = q.new]
  <2>1. req' = [req EXCEPT ![r] = c] /\ q.pc = "select"
    BY <1>0, <1>1 DEF SelectMany
  <2> HIDE DEF q
  <2>2. IsRequest(a) /\ a.pc = "commit" /\ a.new = q.new
    BY <1>0 DEF IsRequest
  <2> HIDE DEF a
  <2>3. IsRequest(b) /\ b.pc = "commit" /\ b.new = q.new
    BY <2>2 DEF IsRequest
  <2> HIDE DEF b
  <2>4. IsRequest(c) /\ c.pc = "commit" /\ c.new = q.new /\ c.skipped = q.new
    BY <2>3 DEF IsRequest
  <2> HIDE DEF c
  <2> QED
    BY <2>1, <2>4, Replaced DEF q
<1>2. ASSUME Flush(r)
      PROVE  \E p : /\ OneRequest(r, p) /\ p.pc = "schedule" /\ p.new = q.new
                    /\ p.todo = q.new /\ p.skipped = q.skipped /\ q.pc = "select"
  <2> DEFINE a == [q EXCEPT !.pc = "schedule"]
             b == [a EXCEPT !.todo = q.new]
  <2>1. req' = [req EXCEPT ![r] = b] /\ q.pc = "select"
    BY <1>0, <1>2 DEF Flush
  <2> HIDE DEF q
  <2>2. IsRequest(a) /\ a.pc = "schedule" /\ a.new = q.new /\ a.skipped = q.skipped
    BY <1>0 DEF IsRequest
  <2> HIDE DEF a
  <2>3. IsRequest(b) /\ b.pc = "schedule" /\ b.new = q.new /\ b.skipped = q.skipped
        /\ b.todo = q.new
    BY <2>2 DEF IsRequest
  <2> HIDE DEF b
  <2> QED
    BY <2>1, <2>3, Replaced DEF q
<1>3. ASSUME Scheduled(r)
      PROVE  \E p : /\ OneRequest(r, p) /\ p.pc = "commit" /\ p.new = q.new
                    /\ p.skipped = q.skipped /\ q.pc = "schedule" /\ q.todo = {}
  <2> DEFINE a == [q EXCEPT !.pc = "commit"]
  <2>1. req' = [req EXCEPT ![r] = a] /\ q.pc = "schedule" /\ q.todo = {}
    BY <1>0, <1>3 DEF Scheduled
  <2> HIDE DEF q
  <2>2. IsRequest(a) /\ a.pc = "commit" /\ a.new = q.new /\ a.skipped = q.skipped
    BY <1>0 DEF IsRequest
  <2> HIDE DEF a
  <2> QED
    BY <2>1, <2>2, Replaced DEF q
<1> QED
  BY <1>1, <1>2, <1>3

\* A request that ends, or whose alert is deleted, keeps what it skipped.
LEMMA OverFacts ==
    ASSUME Typed, NEW r \in Requests, Commit(r) \/ Abort(r) \/ DeleteAlert(r)
    PROVE  \E q : /\ OneRequest(r, q) /\ q.pc \in {"done", "deleted", "aborted"}
                  /\ q.skipped = req[r].skipped
<1> DEFINE q == req[r]
<1>0. IsRequest(q) /\ req = [s \in Requests |-> req[s]]
  BY DEF Typed
<1>1. ASSUME NEW pc \in {"done", "aborted"}, Over(r, pc)
      PROVE  \E p : OneRequest(r, p) /\ p.pc = pc /\ p.skipped = q.skipped
  <2> DEFINE a == [IdleRequest EXCEPT !.pc = pc]
             b == [a EXCEPT !.skipped = q.skipped]
  <2>1. req' = [req EXCEPT ![r] = b]
    BY <1>1 DEF Over
  <2> HIDE DEF q
  <2>2. IsRequest(IdleRequest)
    BY DEF IsRequest, IdleRequest
  <2>3. IsRequest(a) /\ a.pc = pc
    BY <2>2 DEF IsRequest
  <2> HIDE DEF a
  <2>4. IsRequest(b) /\ b.pc = pc /\ b.skipped = q.skipped
    BY <2>3 DEF IsRequest
  <2> HIDE DEF b
  <2> QED
    BY <2>1, <2>4, Replaced
<1>2. CASE DeleteAlert(r)
  <2> DEFINE a == [q EXCEPT !.pc = "deleted"]
  <2>1. req' = [req EXCEPT ![r] = a]
    BY <1>0, <1>2 DEF DeleteAlert
  <2> HIDE DEF q
  <2>2. IsRequest(a) /\ a.pc = "deleted" /\ a.skipped = q.skipped
    BY <1>0 DEF IsRequest
  <2> HIDE DEF a
  <2> QED
    BY <2>1, <2>2, Replaced DEF q
<1> QED
  BY <1>1, <1>2 DEF Commit, Abort

(***************************************************************************)
(* The steps of a worker.                                                  *)
(***************************************************************************)
OneWorker(w, q) ==
    /\ wk' = [v \in Workers |-> wk'[v]] /\ wk'[w] = q /\ IsWorker(q)
    /\ \A v \in Workers \ {w} : wk'[v] = wk[v]

\* A worker whose record is replaced.
LEMMA WorkerReplaced ==
    ASSUME Typed, NEW w \in Workers, NEW q, IsWorker(q), wk' = [wk EXCEPT ![w] = q]
    PROVE  OneWorker(w, q)
  BY DEF Typed, OneWorker

\* Fields the accounts do not depend on.
SameWork(a, q) == IsWorker(a) /\ a.msg = q.msg /\ a.snap = q.snap /\ a.how = q.how
LEMMA WorkLeft ==
    ASSUME NEW p, NEW q, SameWork(q, p), NEW x
    PROVE  /\ SameWork([q EXCEPT !.left = x], p) /\ [q EXCEPT !.left = x].pc = q.pc
           /\ [q EXCEPT !.left = x].found = q.found
<1>1. IsWorker(q)
  BY DEF SameWork
<1>2. [q EXCEPT !.left = x]
        = [pc |-> q.pc, msg |-> q.msg, snap |-> q.snap, left |-> x, cur |-> q.cur, found |-> q.found, how |-> q.how]
  BY <1>1 DEF IsWorker
<1> QED
  BY <1>2 DEF SameWork, IsWorker
LEMMA WorkFound ==
    ASSUME NEW p, NEW q, SameWork(q, p), NEW x
    PROVE  SameWork([q EXCEPT !.found = x], p) /\ [q EXCEPT !.found = x].pc = q.pc
<1>1. IsWorker(q)
  BY DEF SameWork
<1>2. [q EXCEPT !.found = x]
        = [pc |-> q.pc, msg |-> q.msg, snap |-> q.snap, left |-> q.left, cur |-> q.cur, found |-> x, how |-> q.how]
  BY <1>1 DEF IsWorker
<1> QED
  BY <1>2 DEF SameWork, IsWorker
LEMMA WorkCur ==
    ASSUME NEW p, NEW q, SameWork(q, p), NEW x
    PROVE  SameWork([q EXCEPT !.cur = x], p) /\ [q EXCEPT !.cur = x].pc = q.pc
<1>1. IsWorker(q)
  BY DEF SameWork
<1>2. [q EXCEPT !.cur = x]
        = [pc |-> q.pc, msg |-> q.msg, snap |-> q.snap, left |-> q.left, cur |-> x, found |-> q.found, how |-> q.how]
  BY <1>1 DEF IsWorker
<1> QED
  BY <1>2 DEF SameWork, IsWorker
LEMMA WorkPc ==
    ASSUME NEW p, NEW q, SameWork(q, p), NEW x
    PROVE  /\ SameWork([q EXCEPT !.pc = x], p) /\ [q EXCEPT !.pc = x].pc = x
           /\ [q EXCEPT !.pc = x].left = q.left
           /\ [q EXCEPT !.pc = x].found = q.found
<1>1. IsWorker(q)
  BY DEF SameWork
<1>2. [q EXCEPT !.pc = x]
        = [pc |-> x, msg |-> q.msg, snap |-> q.snap, left |-> q.left, cur |-> q.cur, found |-> q.found, how |-> q.how]
  BY <1>1 DEF IsWorker
<1> QED
  BY <1>2 DEF SameWork, IsWorker

\* A lookup of a source goes on: the delivery and the loaded row stay.
Looking(w) ==
    \E q : /\ OneWorker(w, q) /\ q.msg = wk[w].msg /\ q.snap = wk[w].snap
           /\ q.pc \in {"lookup", "fetch", "fail"} /\ wk[w].pc \in {"lookup", "fetch"}
LEMMA LookFacts ==
    ASSUME Typed, NEW w \in Workers,
           \/ \E s \in Sources : Hit(w, s) \/ Miss(w, s) \/ SkipSource(w, s)
           \/ Fetched(w) \/ LookupFails(w) \/ Raise(w)
    PROVE  Looking(w)
<1> DEFINE q == wk[w]
<1>0. SameWork(q, q) /\ wk = [v \in Workers |-> wk[v]]
  BY DEF Typed, SameWork
<1>1. ASSUME NEW p, SameWork(p, q), p.pc \in {"lookup", "fetch", "fail"},
             q.pc \in {"lookup", "fetch"}, wk' = [wk EXCEPT ![w] = p]
      PROVE  Looking(w)
  BY <1>1, WorkerReplaced DEF Looking, SameWork
<1>2. ASSUME NEW s \in Sources, Hit(w, s)
      PROVE  Looking(w)
  <2> DEFINE a == [q EXCEPT !.left = q.left \ {s}]
             b == [a EXCEPT !.found = q.found \cup {s}]
  <2>1. SameWork(a, q) /\ a.pc = q.pc /\ a.found = q.found
    BY <1>0, WorkLeft
  <2>2. wk' = [wk EXCEPT ![w] = b] /\ q.pc = "lookup"
    BY <1>0, <1>2, <2>1 DEF Hit
  <2> HIDE DEF a, q
  <2>3. SameWork(b, q) /\ b.pc = a.pc
    BY <2>1, WorkFound
  <2> HIDE DEF b
  <2> QED
    BY <1>1, <2>1, <2>2, <2>3
<1>3. ASSUME NEW s \in Sources, Miss(w, s)
      PROVE  Looking(w)
  <2> DEFINE a == [q EXCEPT !.pc = "fetch"]
             b == [a EXCEPT !.left = q.left \ {s}]
             c == [b EXCEPT !.cur = s]
  <2>1. SameWork(a, q) /\ a.pc = "fetch" /\ a.left = q.left
    BY <1>0, WorkPc
  <2>2. wk' = [wk EXCEPT ![w] = c] /\ q.pc = "lookup"
    BY <1>0, <1>3, <2>1 DEF Miss
  <2> HIDE DEF a, q
  <2>3. SameWork(b, q) /\ b.pc = a.pc
    BY <2>1, WorkLeft
  <2> HIDE DEF b
  <2>4. SameWork(c, q) /\ c.pc = b.pc
    BY <2>3, WorkCur
  <2> HIDE DEF c
  <2> QED
    BY <1>1, <2>1, <2>2, <2>3, <2>4
<1>4. ASSUME NEW s \in Sources, SkipSource(w, s)
      PROVE  Looking(w)
  <2> DEFINE a == [q EXCEPT !.left = q.left \ {s}]
  <2>1. SameWork(a, q) /\ a.pc = q.pc
    BY <1>0, WorkLeft
  <2>2. wk' = [wk EXCEPT ![w] = a] /\ q.pc = "lookup"
    BY <1>0, <1>4 DEF SkipSource
  <2> HIDE DEF a, q
  <2> QED
    BY <1>1, <2>1, <2>2
<1>5. CASE Fetched(w)
  <2> DEFINE a == [q EXCEPT !.pc = "lookup"]
             b == [a EXCEPT !.found = q.found \cup {q.cur}]
             c == [b EXCEPT !.cur = NoSource]
  <2>1. SameWork(a, q) /\ a.pc = "lookup" /\ a.found = q.found
    BY <1>0, WorkPc
  <2>2. wk' = [wk EXCEPT ![w] = c] /\ q.pc = "fetch"
    BY <1>0, <1>5, <2>1 DEF Fetched
  <2> HIDE DEF a, q
  <2>3. SameWork(b, q) /\ b.pc = a.pc
    BY <2>1, WorkFound
  <2> HIDE DEF b
  <2>4. SameWork(c, q) /\ c.pc = b.pc
    BY <2>3, WorkCur
  <2> HIDE DEF c
  <2> QED
    BY <1>1, <2>1, <2>2, <2>3, <2>4
<1>6. CASE LookupFails(w)
  <2> DEFINE a == [q EXCEPT !.pc = "lookup"]
             b == [a EXCEPT !.cur = NoSource]
  <2>1. SameWork(a, q) /\ a.pc = "lookup"
    BY <1>0, WorkPc
  <2>2. wk' = [wk EXCEPT ![w] = b] /\ q.pc = "fetch"
    BY <1>0, <1>6 DEF LookupFails
  <2> HIDE DEF a, q
  <2>3. SameWork(b, q) /\ b.pc = a.pc
    BY <2>1, WorkCur
  <2> HIDE DEF b
  <2> QED
    BY <1>1, <2>1, <2>2, <2>3
<1>7. CASE Raise(w)
  <2> DEFINE a == [q EXCEPT !.pc = "fail"]
  <2>1. SameWork(a, q) /\ a.pc = "fail"
    BY <1>0, WorkPc
  <2>2. wk' = [wk EXCEPT ![w] = a] /\ q.pc \in {"lookup", "fetch"}
    BY <1>0, <1>7 DEF Raise, Go
  <2> HIDE DEF a, q
  <2> QED
    BY <1>1, <2>1, <2>2
<1> QED
  BY <1>2, <1>3, <1>4, <1>5, <1>6, <1>7

\* The session of a task is closed, with an outcome.
LEMMA EndFacts ==
    ASSUME Typed, NEW w \in Workers, NEW how, End(w, how)
    PROVE  \E q : OneWorker(w, q) /\ q.pc = "clear" /\ q.msg = wk[w].msg /\ q.how = how
<1> DEFINE msg == wk[w].msg
           a == [IdleWorker EXCEPT !.pc = "clear"]
           b == [a EXCEPT !.msg = msg]
           c == [b EXCEPT !.how = how]
<1>1. wk' = [wk EXCEPT ![w] = c]
  BY DEF End
<1> HIDE DEF msg
<1>2. IsWorker(IdleWorker)
  BY DEF IsWorker, IdleWorker
<1>3. IsWorker(a) /\ a.pc = "clear"
  BY <1>2 DEF IsWorker
<1> HIDE DEF a
<1>4. IsWorker(b) /\ b.pc = "clear" /\ b.msg = msg
  BY <1>3 DEF IsWorker
<1> HIDE DEF b
<1>5. IsWorker(c) /\ c.pc = "clear" /\ c.msg = msg /\ c.how = how
  BY <1>4 DEF IsWorker
<1> HIDE DEF c
<1> QED
  BY <1>1, <1>5, WorkerReplaced DEF msg

\* A delivery is received, and its row loaded.
LEMMA ReceiveFacts ==
    ASSUME Typed, NEW w \in Workers, NEW m \in tasks, Receive(w, m)
    PROVE  \E q : OneWorker(w, q) /\ q.pc = "get" /\ q.msg = m
<1> DEFINE a == [IdleWorker EXCEPT !.pc = "get"]
           b == [a EXCEPT !.msg = m]
<1>1. wk' = [wk EXCEPT ![w] = b]
  BY DEF Receive
<1>2. IsWorker(IdleWorker)
  BY DEF IsWorker, IdleWorker
<1>3. IsWorker(a) /\ a.pc = "get"
  BY <1>2 DEF IsWorker
<1> HIDE DEF a
<1>4. IsWorker(b) /\ b.pc = "get" /\ b.msg = m
  BY <1>3 DEF IsWorker
<1> HIDE DEF b
<1> QED
  BY <1>1, <1>4, WorkerReplaced

LEMMA GetFacts ==
    ASSUME Typed, NEW w \in Workers, Get(w)
    PROVE  \E q : /\ OneWorker(w, q) /\ q.msg = wk[w].msg /\ wk[w].pc = "get"
                  /\ \/ /\ q.pc = "lookup" /\ wk[w].msg.row \in DOMAIN rows
                        /\ q.snap.status = rows[wk[w].msg.row].status
                     \/ q.pc = "clear" /\ q.how = "missing"
<1> DEFINE q == wk[w]
           left == LookedUp[wk[w].msg.row.value]
           snap == ColumnsOf(rows[wk[w].msg.row])
           a == [q EXCEPT !.pc = "lookup"]
           b == [a EXCEPT !.left = left]
           c == [b EXCEPT !.snap = snap]
<1>0. SameWork(q, q) /\ wk = [v \in Workers |-> wk[v]] /\ q.pc = "get"
  BY DEF Typed, Get, SameWork
<1>1. CASE wk[w].msg.row \in DOMAIN rows
  <2>1. wk' = [wk EXCEPT ![w] = c] /\ snap.status = rows[wk[w].msg.row].status
    BY <1>0, <1>1 DEF Get, ColumnsOf
  <2> HIDE DEF q, left, snap
  <2>2. SameWork(a, q) /\ a.pc = "lookup"
    BY <1>0, WorkPc
  <2> HIDE DEF a
  <2>3. SameWork(b, q) /\ b.pc = "lookup"
    BY <2>2, WorkLeft
  <2> HIDE DEF b
  <2>4. IsWorker(c) /\ c.msg = b.msg /\ c.pc = "lookup" /\ c.snap = snap
    BY <2>3 DEF SameWork, IsWorker
  <2> HIDE DEF c
  <2>5. OneWorker(w, c)
    BY <2>1, <2>4, WorkerReplaced
  <2>6. c.msg = q.msg
    BY <2>2, <2>3, <2>4 DEF SameWork
  <2> QED
    BY <1>0, <1>1, <2>1, <2>4, <2>5, <2>6 DEF q
<1>2. CASE wk[w].msg.row \notin DOMAIN rows
  BY <1>0, <1>2, EndFacts DEF Get
<1> QED
  BY <1>1, <1>2

\* The claim is given back: the outcome is still to be acknowledged.
LEMMA ClearFacts ==
    ASSUME Typed, NEW w \in Workers, Clear(w)
    PROVE  \E q : /\ OneWorker(w, q) /\ q.pc = "ack" /\ q.msg = wk[w].msg /\ q.how = wk[w].how
                  /\ wk[w].pc = "clear"
<1> DEFINE q == wk[w]
           a == [q EXCEPT !.pc = "ack"]
<1>0. SameWork(q, q) /\ wk = [v \in Workers |-> wk[v]] /\ q.pc = "clear"
  BY DEF Typed, Clear, SameWork
<1>1. wk' = [wk EXCEPT ![w] = a]
  BY DEF Clear, Go
<1>2. SameWork(a, q) /\ a.pc = "ack"
  BY <1>0, WorkPc
<1> HIDE DEF a, q
<1> QED
  BY <1>0, <1>1, <1>2, WorkerReplaced DEF SameWork, q

\* The worker is free again.
LEMMA FreeFacts ==
    ASSUME Typed, NEW w \in Workers, wk' = [wk EXCEPT ![w] = IdleWorker]
    PROVE  \E q : OneWorker(w, q) /\ q.pc = "idle"
<1>1. IsWorker(IdleWorker) /\ IdleWorker.pc = "idle"
  BY DEF IsWorker, IdleWorker
<1> QED
  BY <1>1, WorkerReplaced

(***************************************************************************)
(* The rows and the calls that edit them.                                  *)
(***************************************************************************)
\* Rows are added and columns written; no row is removed.
RowsGrow ==
    /\ rows' = [i \in DOMAIN rows' |-> rows'[i]] /\ \A i \in DOMAIN rows' : IsRow(rows'[i])
    /\ DOMAIN rows \subseteq DOMAIN rows'

\* Two columns of one row are written.
LEMMA ColumnsSet ==
    ASSUME Typed, NEW i \in DOMAIN rows, NEW status, NEW entries,
           rows' = [rows EXCEPT ![i].status = status, ![i].entries = entries]
    PROVE  /\ RowsGrow /\ DOMAIN rows' = DOMAIN rows
           /\ rows'[i].status = status /\ \A j \in DOMAIN rows \ {i} : rows'[j] = rows[j]
<1> DEFINE x == rows[i]
           a == [x EXCEPT !.status = status]
           b == [a EXCEPT !.entries = entries]
<1>0. IsRow(x) /\ rows = [j \in DOMAIN rows |-> rows[j]] /\ \A j \in DOMAIN rows : IsRow(rows[j])
  BY DEF Typed
<1>1. rows' = [rows EXCEPT ![i] = b]
  BY <1>0
<1> HIDE DEF x
<1>2. a = [alert |-> x.alert, status |-> status, entries |-> x.entries]
  BY <1>0 DEF IsRow
<1> HIDE DEF a
<1>3. b = [alert |-> x.alert, status |-> status, entries |-> entries]
  BY <1>2
<1> HIDE DEF b
<1>4. IsRow(b) /\ b.status = status
  BY <1>3 DEF IsRow
<1> QED
  BY <1>0, <1>1, <1>4 DEF RowsGrow

\* One column of one row is written.
LEMMA StatusSet ==
    ASSUME Typed, NEW i \in DOMAIN rows, NEW status,
           rows' = [rows EXCEPT ![i].status = status]
    PROVE  /\ RowsGrow /\ DOMAIN rows' = DOMAIN rows
           /\ rows'[i].status = status /\ \A j \in DOMAIN rows \ {i} : rows'[j] = rows[j]
<1> DEFINE x == rows[i]
           a == [x EXCEPT !.status = status]
<1>0. IsRow(x) /\ rows = [j \in DOMAIN rows |-> rows[j]] /\ \A j \in DOMAIN rows : IsRow(rows[j])
  BY DEF Typed
<1>1. rows' = [rows EXCEPT ![i] = a]
  BY <1>0
<1> HIDE DEF x
<1>2. a = [alert |-> x.alert, status |-> status, entries |-> x.entries]
  BY <1>0 DEF IsRow
<1> HIDE DEF a
<1>3. IsRow(a) /\ a.status = status
  BY <1>2 DEF IsRow
<1> QED
  BY <1>0, <1>1, <1>3 DEF RowsGrow

\* A row gets, loses or keeps its alert.
LEMMA AlertSet ==
    ASSUME NEW x, IsRow(x), NEW a
    PROVE  IsRow([x EXCEPT !.alert = a]) /\ [x EXCEPT !.alert = a].status = x.status
<1>1. [x EXCEPT !.alert = a] = [alert |-> a, status |-> x.status, entries |-> x.entries]
  BY DEF IsRow
<1> QED
  BY <1>1 DEF IsRow

\* The COMMIT of a request adds its rows, all of them pending.
LEMMA CommitRows ==
    ASSUME Typed, NEW r \in Requests, Commit(r)
    PROVE  /\ RowsGrow /\ \A i \in DOMAIN rows : rows'[i].status = rows[i].status
           /\ \A i \in DOMAIN rows' \ DOMAIN rows : \E v \in req[r].new : i = NewRow(r, v)
<1> DEFINE linked(i) == IF i \in req[r].links THEN r ELSE rows[i].alert
           added == {NewRow(r, v) : v \in req[r].new}
<1>1. rows' = [i \in DOMAIN rows \cup added |->
                 IF i \in DOMAIN rows THEN [rows[i] EXCEPT !.alert = linked(i)]
                                      ELSE [Fresh EXCEPT !.alert = r]]
  BY DEF Commit
<1>2. \A i \in DOMAIN rows : /\ IsRow([rows[i] EXCEPT !.alert = linked(i)])
                             /\ [rows[i] EXCEPT !.alert = linked(i)].status = rows[i].status
  BY AlertSet DEF Typed
<1>3. IsRow([Fresh EXCEPT !.alert = r])
  BY AlertSet DEF Fresh, IsRow
<1>4. \A i \in added : \E v \in req[r].new : i = NewRow(r, v)
  OBVIOUS
<1> HIDE DEF linked, added
<1> QED
  BY <1>1, <1>2, <1>3, <1>4 DEF RowsGrow

\* Deleting an alert leaves its rows without one.
LEMMA DeleteRows ==
    ASSUME Typed, NEW r \in Requests, DeleteAlert(r)
    PROVE  RowsGrow /\ DOMAIN rows' = DOMAIN rows
           /\ \A i \in DOMAIN rows : rows'[i].status = rows[i].status
<1>1. rows' = [i \in DOMAIN rows |-> IF rows[i].alert = r THEN [rows[i] EXCEPT !.alert = NoAlert]
                                                         ELSE rows[i]]
  BY DEF DeleteAlert
<1>2. \A i \in DOMAIN rows : /\ IsRow([rows[i] EXCEPT !.alert = NoAlert]) /\ IsRow(rows[i])
                             /\ [rows[i] EXCEPT !.alert = NoAlert].status = rows[i].status
  BY AlertSet DEF Typed
<1> QED
  BY <1>1, <1>2 DEF RowsGrow

\* A call that creates an observable adds one row.
LEMMA PostRows ==
    ASSUME Typed, NEW p \in Posts, PostCommit(p)
    PROVE  /\ RowsGrow /\ \A i \in DOMAIN rows : rows'[i] = rows[i]
           /\ \A i \in DOMAIN rows' \ DOMAIN rows : i.by = p
<1>1. PICK a : rows' = [i \in DOMAIN rows \cup {NewRow(p, PostValue[p])} |->
                          IF i \in DOMAIN rows THEN rows[i] ELSE [Fresh EXCEPT !.alert = a]]
  BY DEF PostCommit
<1>2. IsRow([Fresh EXCEPT !.alert = a])
  BY AlertSet DEF Fresh, IsRow
<1>3. NewRow(p, PostValue[p]).by = p
  BY DEF NewRow
<1> QED
  BY <1>1, <1>2, <1>3 DEF RowsGrow, Typed

\* A call that edits a row: it loads it and later writes its columns.
OneEdit(e, q) ==
    /\ edit' = [d \in Edits |-> edit'[d]] /\ edit'[e] = q /\ IsEdit(q)
    /\ \A d \in Edits \ {e} : edit'[d] = edit[d]
LEMMA EditFacts ==
    ASSUME Typed, NEW e \in Edits, EditLoad(e) \/ EditAdd(e) \/ EditUncache(e) \/ EditDrop(e)
    PROVE  \E q : /\ OneEdit(e, q) /\ edit[e].pc # "done" /\ q.row \in DOMAIN rows
                  /\ edit[e].pc # "idle" => q.row = edit[e].row
                  /\ EditAdd(e) \/ EditDrop(e) => q.pc = "done"
<1>0. /\ edit = [d \in Edits |-> edit[d]] /\ \A d \in Edits : IsEdit(edit[d])
      /\ \A d \in Edits : edit[d].pc # "idle" => edit[d].row \in DOMAIN rows
  BY DEF Typed
<1>1. CASE EditLoad(e)
  <2>1. PICK i \in DOMAIN rows, s \in Sources, op \in {"add", "drop"} :
           edit' = [edit EXCEPT ![e] = [pc |-> op, row |-> i, snap |-> ColumnsOf(rows[i]), source |-> s]]
    BY <1>1 DEF EditLoad
  <2> DEFINE q == [pc |-> op, row |-> i, snap |-> ColumnsOf(rows[i]), source |-> s]
  <2>2. IsEdit(q) /\ q.row = i
    BY DEF IsEdit
  <2>3. edit' = [edit EXCEPT ![e] = q]
    BY <2>1
  <2> HIDE DEF q
  <2>4. OneEdit(e, q)
    BY <1>0, <2>2, <2>3 DEF OneEdit
  <2>5. edit[e].pc = "idle"
    BY <1>1 DEF EditLoad
  <2> QED
    BY <2>2, <2>4, <2>5 DEF EditAdd, EditDrop
<1>2. ASSUME NEW pc, edit' = [edit EXCEPT ![e].pc = pc]
      PROVE  \E q : OneEdit(e, q) /\ q.pc = pc /\ q.row = edit[e].row
  <2> DEFINE x == edit[e]
             a == [x EXCEPT !.pc = pc]
  <2>1. edit' = [edit EXCEPT ![e] = a] /\ IsEdit(x)
    BY <1>0, <1>2
  <2> HIDE DEF x
  <2>2. a = [pc |-> pc, row |-> x.row, snap |-> x.snap, source |-> x.source]
    BY <2>1 DEF IsEdit
  <2> HIDE DEF a
  <2>3. IsEdit(a) /\ a.pc = pc /\ a.row = x.row
    BY <2>2 DEF IsEdit
  <2>4. OneEdit(e, a)
    BY <1>0, <2>1, <2>3 DEF OneEdit
  <2> QED
    BY <2>3, <2>4 DEF x
<1>3. CASE EditAdd(e)
  BY <1>0, <1>2, <1>3 DEF EditAdd
<1>4. CASE EditUncache(e)
  BY <1>0, <1>2, <1>4 DEF EditUncache, EditAdd, EditDrop
<1>5. CASE EditDrop(e)
  BY <1>0, <1>2, <1>5 DEF EditDrop
<1> QED
  BY <1>1, <1>3, <1>4, <1>5

\* What EditAdd and EditDrop write.
LEMMA EditRows ==
    ASSUME Typed, NEW e \in Edits, EditAdd(e) \/ EditDrop(e)
    PROVE  /\ RowsGrow /\ DOMAIN rows' = DOMAIN rows
           /\ \A j \in DOMAIN rows \ {edit[e].row} : rows'[j] = rows[j]
<1> DEFINE i == edit[e].row
           x == edit[e]
<1>0. i \in DOMAIN rows /\ IsRow(rows[i]) /\ rows = [j \in DOMAIN rows |-> rows[j]]
  BY DEF Typed, EditAdd, EditDrop
<1>1. CASE EditAdd(e)
  BY <1>0, <1>1, ColumnsSet DEF EditAdd
<1>2. CASE EditDrop(e)
  <2> DEFINE status == IF x.snap.entries \ {x.source} = {} THEN "pending" ELSE x.snap.status
             stored == Column(rows[i].status, x.snap.status, status)
             entries == Column(rows[i].entries, x.snap.entries, x.snap.entries \ {x.source})
  <2>1. [rows[i] EXCEPT !.status = stored].entries = rows[i].entries
    BY <1>0 DEF IsRow
  <2>2. rows' = [rows EXCEPT ![i].status = stored, ![i].entries = entries]
    BY <1>0, <1>2, <2>1 DEF EditDrop
  <2> HIDE DEF stored, entries
  <2> QED
    BY <1>0, <2>2, ColumnsSet
<1> QED
  BY <1>1, <1>2

\* What a worker writes when it reports an outcome.
LEMMA OutcomeRows ==
    ASSUME Typed, NEW w \in Workers, Fail(w) \/ Complete(w)
    PROVE  /\ RowsGrow /\ DOMAIN rows' = DOMAIN rows
           /\ wk[w].pc \in {"lookup", "fail"} /\ wk[w].msg.row \in DOMAIN rows
           /\ \A j \in DOMAIN rows \ {wk[w].msg.row} : rows'[j] = rows[j]
           /\ \/ rows'[wk[w].msg.row].status # "pending"
              \/ /\ wk[w].snap.status # "pending"
                 /\ rows'[wk[w].msg.row].status = rows[wk[w].msg.row].status
           /\ \E how \in {"complete", "failed"} : End(w, how)
<1> DEFINE i == wk[w].msg.row
           old == wk[w].snap.status
<1>0. i \in DOMAIN rows /\ IsRow(rows[i]) /\ rows = [j \in DOMAIN rows |-> rows[j]]
      /\ wk[w].pc \in {"lookup", "fail"}
  BY DEF Typed, Fail, Complete
<1>1. CASE Fail(w)
  <2> DEFINE stored == Column(rows[i].status, old, "failed")
  <2>1. rows' = [rows EXCEPT ![i].status = stored]
    BY <1>0, <1>1 DEF Fail
  <2>2. stored # "pending" \/ (old # "pending" /\ stored = rows[i].status)
    BY DEF Column
  <2> HIDE DEF stored
  <2>3. End(w, "failed")
    BY <1>1 DEF Fail
  <2>4. /\ RowsGrow /\ DOMAIN rows' = DOMAIN rows
        /\ rows'[i].status = stored /\ \A j \in DOMAIN rows \ {i} : rows'[j] = rows[j]
    BY <1>0, <2>1, StatusSet
  <2> QED
    BY <1>0, <2>2, <2>3, <2>4
<1>2. CASE Complete(w)
  <2> DEFINE stored == Column(rows[i].status, old, "complete")
             entries == IF wk[w].found = {} THEN rows[i].entries ELSE wk[w].snap.entries \cup wk[w].found
  <2>1. [rows[i] EXCEPT !.status = stored].entries = rows[i].entries
    BY <1>0 DEF IsRow
  <2>2. rows' = [rows EXCEPT ![i].status = stored, ![i].entries = entries]
    BY <1>0, <1>2, <2>1 DEF Complete
  <2>3. stored # "pending" \/ (old # "pending" /\ stored = rows[i].status)
    BY DEF Column
  <2> HIDE DEF stored, entries
  <2>4. /\ RowsGrow /\ DOMAIN rows' = DOMAIN rows /\ rows'[i].status = stored
        /\ \A j \in DOMAIN rows \ {i} : rows'[j] = rows[j]
    BY <1>0, <2>2, ColumnsSet, ZenonT(60)
  <2>5. End(w, "complete")
    BY <1>2 DEF Complete
  <2> QED
    BY <1>0, <2>3, <2>4, <2>5
<1> QED
  BY <1>1, <1>2

(***************************************************************************)
(* The types.                                                              *)
(***************************************************************************)
\* The inner loop of a request: the observable in hand is skipped, or the
\* request goes on with it.
LEMMA LoopFacts ==
    ASSUME Typed, NEW r \in Requests,
           (\E s \in Cached : Consult(r, s)) \/ Mark(r) \/ MarkInMemory(r) \/ DelayFails(r)
    PROVE  /\ req[r].pc \in Choosing /\ UNCHANGED <<rows, edit, wk, tasks, results>>
           /\ \/ req' = Suppress(r)
              \/ Going(r, "consult") \/ Going(r, "mark")
              \/ Going(r, "delay") /\ (Mark(r) \/ MarkInMemory(r))
<1>1. ASSUME NEW s \in Cached, Consult(r, s)
      PROVE  req' = Suppress(r) \/ Going(r, "consult") \/ Going(r, "mark")
  <2>1. req[r].pc = "consult" /\ req[r].pc \in Choosing
    BY <1>1 DEF Consult, Choosing
  <2>2. \/ req' = Suppress(r)
        \/ req' = [req EXCEPT ![r].left = req[r].left \ {s}]
        \/ req' = [req EXCEPT ![r].pc = "mark", ![r].left = {}]
    BY <1>1 DEF Consult
  <2>3. CASE req' = [req EXCEPT ![r].left = req[r].left \ {s}]
    <3>1. \E left : req' = [req EXCEPT ![r].left = left] /\ "consult" = req[r].pc
      BY <2>1, <2>3
    <3> QED
      BY <2>1, <3>1, GoesOn DEF Choosing
  <2>4. CASE req' = [req EXCEPT ![r].pc = "mark", ![r].left = {}]
    <3>1. \E left : req' = [req EXCEPT ![r].pc = "mark", ![r].left = left]
      BY <2>4
    <3> QED
      BY <2>1, <3>1, GoesOn DEF Choosing
  <2> QED
    BY <2>2, <2>3, <2>4
<1>2. ASSUME Mark(r) \/ MarkInMemory(r)
      PROVE  req' = Suppress(r) \/ Going(r, "delay")
  <2>1. req[r].pc \in Choosing
    BY <1>2 DEF Mark, MarkInMemory, Choosing
  <2>2. req' = Suppress(r) \/ req' = [req EXCEPT ![r].pc = "delay"]
    BY <1>2 DEF Mark, MarkInMemory
  <2>3. CASE req' = [req EXCEPT ![r].pc = "delay"]
    BY <2>1, <2>3, GoesOn DEF Choosing
  <2> QED
    BY <2>2, <2>3
<1>3. DelayFails(r) => req' = Suppress(r)
  BY DEF DelayFails
<1>4. req[r].pc \in Choosing /\ UNCHANGED <<rows, edit, wk, tasks, results>>
  BY DEF Consult, Mark, MarkInMemory, DelayFails, Choosing, ReqUnchanged
<1> QED
  BY <1>1, <1>2, <1>3, <1>4

\* The key of the observable in hand.
LEMMA CurKeyTyped ==
    ASSUME Typed, NEW r \in Requests, req[r].pc \in Choosing
    PROVE  CurKey(r) \in Keys
  BY EnrichmentAssumption DEF Typed, CurKey, KeyOf, Keys

\* A step of a request leaves the other requests alone.
LEMMA RequestMoves ==
    ASSUME Typed, NEW r \in Requests, RequestStep(r)
    PROVE  \E q : OneRequest(r, q) /\ (q.pc \in Choosing => q.cur \in Values)
<1>1. CASE Begin(r) \/ \E v \in Values : SelectNew(r, v) \/ SelectKnown(r, v)
  BY <1>1, SelectFacts DEF Selecting, Choosing
<1>2. CASE \E v \in Values : Enqueue(r, v)
  BY <1>2, EnqueueFacts DEF Going
<1>3. CASE (\E s \in Cached : Consult(r, s)) \/ Mark(r) \/ MarkInMemory(r) \/ DelayFails(r)
  <2>1. CASE req' = Suppress(r)
    BY <2>1, Suppressed DEF Choosing
  <2> QED
    BY <1>3, <2>1, LoopFacts DEF Going
<1>4. CASE Delay(r)
  BY <1>4, DelayFacts DEF Choosing
<1>5. CASE Flush(r) \/ Scheduled(r) \/ \E v \in Values : SelectMany(r, v)
  BY <1>5, TurnFacts DEF Choosing
<1>6. CASE Commit(r) \/ Abort(r) \/ DeleteAlert(r)
  BY <1>6, OverFacts DEF Choosing
<1> QED
  BY <1>1, <1>2, <1>3, <1>4, <1>5, <1>6 DEF RequestStep

\* Unchanged rows are rows that grow.
LEMMA RowsStay ==
    ASSUME Typed, UNCHANGED rows
    PROVE  RowsGrow
  BY DEF Typed, RowsGrow

\* Every step of a request keeps the types.
LEMMA RequestTyped ==
    ASSUME Typed, NEW r \in Requests, RequestStep(r)
    PROVE  Typed'
<1>1. PICK q : OneRequest(r, q) /\ (q.pc \in Choosing => q.cur \in Values)
  BY RequestMoves
<1>2. RowsGrow
  <2>1. UNCHANGED rows \/ Commit(r) \/ DeleteAlert(r)
    BY DEF RequestStep, Begin, SelectNew, SelectKnown, SelectMany, Flush, Enqueue, Consult, Mark,
           MarkInMemory, Delay, DelayFails, Scheduled, Abort, ReqUnchanged
  <2> QED
    BY <2>1, RowsStay, CommitRows, DeleteRows
<1>3. UNCHANGED <<wk, edit>>
  BY DEF RequestStep, Begin, SelectNew, SelectKnown, SelectMany, Flush, Enqueue, Consult, Mark,
         MarkInMemory, Delay, DelayFails, Scheduled, Commit, Abort, DeleteAlert, ReqUnchanged
<1>4. claims' \subseteq Places \X Keys /\ slips' \in [Keys -> Nat]
  <2>0. claims \subseteq Places \X Keys /\ slips \in [Keys -> Nat]
    BY DEF Typed
  <2>1. CASE Mark(r)
    <3>1. claims' \subseteq claims \cup {<<Redis, CurKey(r)>>} /\ UNCHANGED slips
      BY <2>1 DEF Mark
    <3>2. CurKey(r) \in Keys /\ Redis \in Places
      BY <2>1, CurKeyTyped DEF Mark, Choosing, Places
    <3> QED
      BY <2>0, <3>1, <3>2
  <2>2. CASE MarkInMemory(r)
    <3>1. /\ claims' \subseteq claims \cup {<<ProcOf[r], CurKey(r)>>}
          /\ UNCHANGED slips \/ slips' = [slips EXCEPT ![CurKey(r)] = slips[CurKey(r)] + 1]
      BY <2>2 DEF MarkInMemory
    <3>2. CurKey(r) \in Keys /\ ProcOf[r] \in Places
      BY <2>2, CurKeyTyped DEF MarkInMemory, Choosing, Places
    <3> QED
      BY <2>0, <3>1, <3>2
  <2>3. CASE DelayFails(r)
    BY <2>0, <2>3 DEF DelayFails
  <2>4. CASE UNCHANGED <<claims, slips>>
    BY <2>0, <2>4
  <2> QED
    BY <2>1, <2>2, <2>3, <2>4
       DEF RequestStep, Begin, SelectNew, SelectKnown, SelectMany, Flush, Enqueue, Consult,
           Delay, Scheduled, Commit, Abort, DeleteAlert
<1>5. IsFiniteSet(tasks') /\ \A m \in tasks' : IsTask(m)
  <2>1. CASE Delay(r)
    <3> DEFINE m == [row |-> NewRow(r, req[r].cur), key |-> CurKey(r), copy |-> 1]
    <3>1. tasks' = tasks \cup {m}
      BY <2>1 DEF Delay
    <3>2. IsTask(m)
      BY <2>1, CurKeyTyped DEF Delay, Choosing, IsTask
    <3>3. IsFiniteSet(tasks) /\ \A n \in tasks : IsTask(n)
      BY DEF Typed
    <3> HIDE DEF m
    <3>4. IsFiniteSet(tasks \cup {m})
      BY <3>3, FS_AddElement
    <3> QED
      BY <3>1, <3>2, <3>3, <3>4
  <2>2. CASE UNCHANGED tasks
    BY <2>2 DEF Typed
  <2> QED
    BY <2>1, <2>2
       DEF RequestStep, Begin, SelectNew, SelectKnown, SelectMany, Flush, Enqueue, Consult, Mark,
           MarkInMemory, DelayFails, Scheduled, Commit, Abort, DeleteAlert
<1> QED
  BY <1>1, <1>2, <1>3, <1>4, <1>5 DEF Typed, OneRequest, RowsGrow

\* Every step of the API calls keeps them.
LEMMA ApiTyped ==
    ASSUME Typed, ApiStep
    PROVE  Typed'
<1>1. ASSUME NEW p \in Posts, PostSelect(p) \/ PostCommit(p)
      PROVE  Typed'
  <2>1. RowsGrow
    BY <1>1, RowsStay, PostRows DEF PostSelect
  <2>2. UNCHANGED <<req, wk, edit, claims, tasks, slips>>
    BY <1>1 DEF PostSelect, PostCommit, PostUnchanged
  <2> QED
    BY <2>1, <2>2 DEF Typed, RowsGrow
<1>2. ASSUME NEW e \in Edits, EditLoad(e) \/ EditAdd(e) \/ EditUncache(e) \/ EditDrop(e)
      PROVE  Typed'
  <2>1. PICK q : OneEdit(e, q) /\ q.row \in DOMAIN rows
    BY <1>2, EditFacts
  <2>2. RowsGrow
    BY <1>2, RowsStay, EditRows DEF EditLoad, EditUncache
  <2>3. UNCHANGED <<req, wk, claims, tasks, slips>>
    BY <1>2 DEF EditLoad, EditAdd, EditUncache, EditDrop, EditUnchanged
  <2> QED
    BY <2>1, <2>2, <2>3 DEF Typed, RowsGrow, OneEdit
<1> QED
  BY <1>1, <1>2 DEF ApiStep

\* What a step of a worker does to its record and its delivery.
LEMMA WorkerMoves ==
    ASSUME Typed, NEW w \in Workers, WorkerStep(w) \/ Crash(w) \/ ProcessLost(w)
    PROVE  \E q : /\ OneWorker(w, q)
                  /\ q.pc \in {"lookup", "fetch", "fail"} => q.msg.row \in DOMAIN rows
<1>1. CASE \E m \in tasks : Receive(w, m)
  BY <1>1, ReceiveFacts
<1>2. CASE Get(w)
  BY <1>2, GetFacts
<1>3. CASE (\E s \in Sources : Hit(w, s) \/ Miss(w, s) \/ SkipSource(w, s))
           \/ Fetched(w) \/ LookupFails(w) \/ Raise(w)
  BY <1>3, LookFacts DEF Looking, Typed
<1>4. CASE \E how : End(w, how)
  BY <1>4, EndFacts
<1>5. CASE Clear(w)
  BY <1>5, ClearFacts
<1>6. CASE wk' = [wk EXCEPT ![w] = IdleWorker]
  BY <1>6, FreeFacts
<1> QED
  BY <1>1, <1>2, <1>3, <1>4, <1>5, <1>6
     DEF WorkerStep, Crash, ProcessLost, Fail, Complete, Swallow, Ack

\* Every step of a worker keeps the types.
LEMMA WorkerTyped ==
    ASSUME Typed, NEW w \in Workers, WorkerStep(w)
    PROVE  Typed'
<1>1. PICK q : OneWorker(w, q) /\ (q.pc \in {"lookup", "fetch", "fail"} => q.msg.row \in DOMAIN rows)
  BY WorkerMoves
<1>2. RowsGrow
  <2>1. UNCHANGED rows \/ Fail(w) \/ Complete(w)
    BY DEF WorkerStep, Receive, Get, Hit, Miss, Fetched, LookupFails, SkipSource, Raise, Swallow,
           Clear, Ack
  <2> QED
    BY <2>1, RowsStay, OutcomeRows
<1>3. UNCHANGED <<req, edit, slips>> /\ claims' \subseteq claims /\ tasks' \subseteq tasks
  BY DEF WorkerStep, Receive, Get, Hit, Miss, Fetched, LookupFails, SkipSource, Raise, Fail,
         Complete, Swallow, Clear, Ack, WorkUnchanged
<1>4. IsFiniteSet(tasks')
  BY <1>3, FS_Subset DEF Typed
<1> QED
  BY <1>1, <1>2, <1>3, <1>4 DEF Typed, RowsGrow, OneWorker

\* The copy of a delivery is a delivery of the same row and key.
LEMMA CopyFacts ==
    ASSUME NEW m, IsTask(m)
    PROVE  IsTask(NextCopy(m)) /\ NextCopy(m).row = m.row /\ NextCopy(m).key = m.key
<1> DEFINE copy == copies[m.row] + 1
<1>1. NextCopy(m) = [m EXCEPT !.copy = copy]
  BY DEF NextCopy
<1> HIDE DEF copy
<1>2. NextCopy(m) = [row |-> m.row, key |-> m.key, copy |-> copy]
  BY <1>1 DEF IsTask
<1> QED
  BY <1>2 DEF IsTask

\* Faults keep the types.  A busy worker has a delivery that is in the queue.
LEMMA FaultTyped ==
    ASSUME Typed, OwnTasks, FaultStep
    PROVE  Typed'
<1>0. IsFiniteSet(tasks) /\ \A m \in tasks : IsTask(m)
  BY DEF Typed
<1>1. ASSUME NEW w \in Workers, Crash(w) \/ ProcessLost(w)
      PROVE  Typed'
  <2>1. PICK q : OneWorker(w, q) /\ (q.pc \in {"lookup", "fetch", "fail"} => q.msg.row \in DOMAIN rows)
    BY <1>1, WorkerMoves
  <2> DEFINE m == wk[w].msg
  <2>2. m \in tasks /\ IsTask(m)
    BY <1>0, <1>1 DEF OwnTasks, Busy, Crash, ProcessLost
  <2>3. /\ UNCHANGED <<rows, req, edit, claims>> /\ tasks' \subseteq tasks \cup {NextCopy(m)}
        /\ UNCHANGED slips \/ slips' = [slips EXCEPT ![m.key] = slips[m.key] + 1]
    BY <1>1 DEF Crash, ProcessLost, FaultUnchanged
  <2> HIDE DEF m
  <2>4. IsTask(NextCopy(m)) /\ m.key \in Keys
    BY <2>2, CopyFacts DEF IsTask
  <2>5. IsFiniteSet(tasks')
    BY <1>0, <2>3, FS_AddElement, FS_Subset
  <2>6. slips' \in [Keys -> Nat]
    BY <2>3, <2>4 DEF Typed
  <2> QED
    BY <2>1, <2>3, <2>4, <2>5, <2>6 DEF Typed, OneWorker
<1>2. ASSUME NEW m \in tasks, Redeliver(m)
      PROVE  Typed'
  <2>1. /\ UNCHANGED <<rows, req, edit, wk, claims>> /\ tasks' = tasks \cup {NextCopy(m)}
        /\ slips' = [slips EXCEPT ![m.key] = slips[m.key] + 1]
    BY <1>2 DEF Redeliver, FaultUnchanged
  <2>2. IsTask(NextCopy(m)) /\ m.key \in Keys
    BY <1>0, CopyFacts DEF IsTask
  <2>3. IsFiniteSet(tasks')
    BY <1>0, <2>1, FS_AddElement
  <2>4. slips' \in [Keys -> Nat]
    BY <2>1, <2>2 DEF Typed
  <2> QED
    BY <2>1, <2>2, <2>3, <2>4 DEF Typed
<1>3. ASSUME NEW c \in claims, ExpireClaim(c)
      PROVE  Typed'
  <2>1. /\ UNCHANGED <<rows, req, edit, wk, tasks>> /\ claims' \subseteq claims
        /\ UNCHANGED slips \/ slips' = [slips EXCEPT ![c[2]] = slips[c[2]] + 1]
    BY <1>3 DEF ExpireClaim, FaultUnchanged
  <2>2. c[2] \in Keys
    BY DEF Typed
  <2>3. slips' \in [Keys -> Nat]
    BY <2>1, <2>2 DEF Typed
  <2> QED
    BY <2>1, <2>3 DEF Typed
<1>4. CASE CacheStep
  BY <1>4 DEF CacheStep, Typed
<1> QED
  BY <1>1, <1>2, <1>3, <1>4 DEF FaultStep

\* Every step of the system.
LEMMA NextCases ==
    ASSUME [Next]_vars
    PROVE  \/ \E r \in Requests : RequestStep(r)
           \/ ApiStep
           \/ \E w \in Workers : WorkerStep(w)
           \/ FaultStep
           \/ UNCHANGED <<rows, req, post, edit, wk, claims, fresh, tasks, copies, results, slips>>
  BY DEF Next, vars

LEMMA TypedStep ==
    ASSUME Typed, OwnTasks, [Next]_vars
    PROVE  Typed'
<1>1. CASE UNCHANGED <<rows, req, post, edit, wk, claims, fresh, tasks, copies, results, slips>>
  BY <1>1 DEF Typed
<1> QED
  BY <1>1, NextCases, RequestTyped, ApiTyped, WorkerTyped, FaultTyped

(***************************************************************************)
(* Who has a delivery.                                                     *)
(***************************************************************************)
\* A delivery that is received is nobody's; one that is given up is removed.
LEMMA OwnTasksStep ==
    ASSUME Typed, OwnTasks, [Next]_vars
    PROVE  OwnTasks'
<1>1. ASSUME UNCHANGED wk, tasks \subseteq tasks'
      PROVE  OwnTasks'
  BY <1>1 DEF OwnTasks, Busy
<1>2. ASSUME NEW w \in Workers, NEW m \in tasks, Receive(w, m)
      PROVE  OwnTasks'
  <2>1. PICK q : OneWorker(w, q) /\ q.pc = "get" /\ q.msg = m
    BY <1>2, ReceiveFacts
  <2>2. ~Held(m) /\ UNCHANGED tasks
    BY <1>2 DEF Receive
  <2> QED
    BY <2>1, <2>2 DEF OwnTasks, Busy, OneWorker, Held
<1>3. ASSUME NEW w \in Workers, Busy(w), tasks \ {wk[w].msg} \subseteq tasks',
             NEW q, OneWorker(w, q), q.pc = "idle"
      PROVE  OwnTasks'
  BY <1>3 DEF OwnTasks, Busy, OneWorker
<1>4. ASSUME NEW w \in Workers, Busy(w), tasks' = tasks,
             NEW q, OneWorker(w, q), q.msg = wk[w].msg
      PROVE  OwnTasks'
  BY <1>4 DEF OwnTasks, Busy, OneWorker
<1>5. ASSUME NEW w \in Workers, WorkerStep(w)
      PROVE  OwnTasks'
  <2>1. CASE \E m \in tasks : Receive(w, m)
    BY <1>2, <2>1
  <2>2. CASE Ack(w)
    <3>1. Busy(w) /\ tasks' = tasks \ {wk[w].msg} /\ wk' = [wk EXCEPT ![w] = IdleWorker]
      BY <2>2 DEF Ack, Busy
    <3> QED
      BY <1>3, <3>1, FreeFacts
  <2>3. CASE (\E s \in Sources : Hit(w, s) \/ Miss(w, s) \/ SkipSource(w, s))
             \/ Fetched(w) \/ LookupFails(w) \/ Raise(w)
    <3>1. tasks' = tasks
      BY <2>3 DEF Hit, Miss, SkipSource, Fetched, LookupFails, Raise
    <3> QED
      BY <1>4, <2>3, <3>1, LookFacts DEF Looking, Busy
  <2>4. CASE Get(w)
    BY <1>4, <2>4, GetFacts DEF Get, Busy
  <2>5. CASE Fail(w) \/ Complete(w) \/ Swallow(w)
    <3>1. tasks' = tasks /\ Busy(w) /\ \E how : End(w, how)
      BY <2>5 DEF Fail, Complete, Swallow, Busy
    <3> QED
      BY <1>4, <3>1, EndFacts
  <2>6. CASE Clear(w)
    BY <1>4, <2>6, ClearFacts DEF Clear, Busy
  <2> QED
    BY <1>5, <2>1, <2>2, <2>3, <2>4, <2>5, <2>6 DEF WorkerStep
<1>6. ASSUME NEW w \in Workers, Crash(w) \/ ProcessLost(w)
      PROVE  OwnTasks'
  <2>1. Busy(w) /\ tasks \ {wk[w].msg} \subseteq tasks' /\ wk' = [wk EXCEPT ![w] = IdleWorker]
    BY <1>6 DEF Crash, ProcessLost, Busy
  <2> QED
    BY <1>3, <2>1, FreeFacts
<1>7. ASSUME NEW r \in Requests, RequestStep(r)
      PROVE  OwnTasks'
  <2>1. UNCHANGED wk /\ tasks \subseteq tasks'
    BY <1>7
       DEF RequestStep, Begin, SelectNew, SelectKnown, SelectMany, Flush, Enqueue, Consult, Mark,
           MarkInMemory, Delay, DelayFails, Scheduled, Commit, Abort, DeleteAlert, ReqUnchanged
  <2> QED
    BY <1>1, <2>1
<1>8. CASE ApiStep
  BY <1>1, <1>8
     DEF ApiStep, PostSelect, PostCommit, PostUnchanged, EditLoad, EditAdd, EditUncache, EditDrop,
         EditUnchanged
<1>9. CASE (\E m \in tasks : Redeliver(m)) \/ (\E c \in claims : ExpireClaim(c)) \/ CacheStep
  BY <1>1, <1>9 DEF Redeliver, ExpireClaim, CacheStep
<1>10. CASE UNCHANGED <<rows, req, post, edit, wk, claims, fresh, tasks, copies, results, slips>>
  BY <1>1, <1>10
<1> QED
  BY <1>5, <1>6, <1>7, <1>8, <1>9, <1>10, NextCases DEF FaultStep

(***************************************************************************)
(* Counting the enrichments of a key.                                      *)
(***************************************************************************)
\* A subset, with one more element, and with one less.
LEMMA FewerOrSame ==
    ASSUME NEW S, IsFiniteSet(S), NEW T, T \subseteq S
    PROVE  /\ IsFiniteSet(T) /\ Cardinality(T) \in Nat /\ Cardinality(S) \in Nat
           /\ Cardinality(T) <= Cardinality(S)
  BY FS_Subset, FS_CardinalityType
LEMMA OneMore ==
    ASSUME NEW S, IsFiniteSet(S), NEW x, NEW T, T \subseteq S \cup {x}
    PROVE  /\ Cardinality(T) \in Nat /\ Cardinality(S) \in Nat
           /\ Cardinality(T) <= Cardinality(S) + 1
<1>1. Cardinality(S) \in Nat
  BY FS_CardinalityType
<1>2. /\ IsFiniteSet(S \cup {x})
      /\ Cardinality(S \cup {x}) = Cardinality(S) \/ Cardinality(S \cup {x}) = Cardinality(S) + 1
  BY FS_AddElement
<1>3. Cardinality(T) \in Nat /\ Cardinality(T) <= Cardinality(S \cup {x})
  BY <1>2, FewerOrSame
<1> QED
  BY <1>1, <1>2, <1>3
LEMMA OneLess ==
    ASSUME NEW S, IsFiniteSet(S), NEW x \in S, NEW T, T \subseteq S \ {x}
    PROVE  /\ Cardinality(T) \in Nat /\ Cardinality(S) \in Nat
           /\ Cardinality(T) <= Cardinality(S) - 1
<1>1. IsFiniteSet(S \ {x}) /\ Cardinality(S \ {x}) = Cardinality(S) - 1 /\ Cardinality(S) \in Nat
  BY FS_RemoveElement, FS_CardinalityType
<1> QED
  BY <1>1, FewerOrSame

LEMMA InflightFinite ==
    ASSUME Typed, NEW k \in Keys
    PROVE  /\ IsFiniteSet(Delaying(k)) /\ IsFiniteSet(Running(k))
           /\ Cardinality(Delaying(k)) \in Nat /\ Cardinality(Running(k)) \in Nat
           /\ slips[k] \in Nat
<1>1. Delaying(k) \subseteq Requests /\ Running(k) \subseteq tasks
  BY DEF Delaying, Running
<1>2. IsFiniteSet(Requests) /\ IsFiniteSet(tasks) /\ slips[k] \in Nat
  BY EnrichmentAssumption DEF Typed
<1> QED
  BY <1>1, <1>2, FewerOrSame

\* Nothing is added, no claim is dropped.
LEMMA ClaimedFewer ==
    ASSUME Typed, NEW k \in Keys, Claimed(k), slips'[k] \in Nat, slips'[k] >= slips[k],
           <<Redis, k>> \in claims => <<Redis, k>> \in claims',
           Delaying(k)' \subseteq Delaying(k), Running(k)' \subseteq Running(k)
    PROVE  Claimed(k)'
<1>1. /\ Cardinality(Delaying(k)') \in Nat /\ Cardinality(Running(k)') \in Nat
      /\ Cardinality(Delaying(k)) \in Nat /\ Cardinality(Running(k)) \in Nat /\ slips[k] \in Nat
      /\ Cardinality(Delaying(k)') <= Cardinality(Delaying(k))
      /\ Cardinality(Running(k)') <= Cardinality(Running(k))
  BY InflightFinite, FewerOrSame
<1>2. Cardinality(Delaying(k)') + Cardinality(Running(k)')
        <= slips'[k] + (IF <<Redis, k>> \in claims' THEN 1 ELSE 0)
  BY <1>1 DEF Claimed
<1> QED
  BY <1>2 DEF Claimed

\* Nothing is added, no claim is dropped, and the slips stay.
LEMMA ClaimedStays ==
    ASSUME Typed, NEW k \in Keys, Claimed(k), slips'[k] = slips[k],
           <<Redis, k>> \in claims => <<Redis, k>> \in claims',
           Delaying(k)' \subseteq Delaying(k), Running(k)' \subseteq Running(k)
    PROVE  Claimed(k)'
<1>1. slips'[k] \in Nat /\ slips'[k] >= slips[k]
  BY InflightFinite
<1> QED
  BY <1>1, ClaimedFewer

\* One is added, with its claim or its slip.
LEMMA ClaimedMore ==
    ASSUME Typed, NEW k \in Keys, Claimed(k), NEW x,
           \/ Delaying(k)' \subseteq Delaying(k) \cup {x} /\ Running(k)' \subseteq Running(k)
           \/ Delaying(k)' \subseteq Delaying(k) /\ Running(k)' \subseteq Running(k) \cup {x},
           \/ slips'[k] = slips[k] /\ <<Redis, k>> \notin claims /\ <<Redis, k>> \in claims'
           \/ /\ slips'[k] = slips[k] + 1
              /\ <<Redis, k>> \in claims => <<Redis, k>> \in claims'
    PROVE  Claimed(k)'
<1>1. /\ Cardinality(Delaying(k)') \in Nat /\ Cardinality(Running(k)') \in Nat
      /\ Cardinality(Delaying(k)) \in Nat /\ Cardinality(Running(k)) \in Nat /\ slips[k] \in Nat
      /\ Cardinality(Delaying(k)') + Cardinality(Running(k)')
           <= Cardinality(Delaying(k)) + Cardinality(Running(k)) + 1
  <2>1. ASSUME Delaying(k)' \subseteq Delaying(k) \cup {x}, Running(k)' \subseteq Running(k)
        PROVE  /\ Cardinality(Delaying(k)') <= Cardinality(Delaying(k)) + 1
               /\ Cardinality(Running(k)') <= Cardinality(Running(k))
               /\ Cardinality(Delaying(k)') \in Nat /\ Cardinality(Running(k)') \in Nat
    <3>1. IsFiniteSet(Delaying(k)) /\ IsFiniteSet(Running(k))
      BY InflightFinite
    <3>2. Cardinality(Delaying(k)') <= Cardinality(Delaying(k)) + 1 /\ Cardinality(Delaying(k)') \in Nat
      BY <2>1, <3>1, OneMore
    <3> QED
      BY <2>1, <3>1, <3>2, FewerOrSame
  <2>2. ASSUME Delaying(k)' \subseteq Delaying(k), Running(k)' \subseteq Running(k) \cup {x}
        PROVE  /\ Cardinality(Delaying(k)') <= Cardinality(Delaying(k))
               /\ Cardinality(Running(k)') <= Cardinality(Running(k)) + 1
               /\ Cardinality(Delaying(k)') \in Nat /\ Cardinality(Running(k)') \in Nat
    <3>1. IsFiniteSet(Delaying(k)) /\ IsFiniteSet(Running(k))
      BY InflightFinite
    <3>2. Cardinality(Running(k)') <= Cardinality(Running(k)) + 1 /\ Cardinality(Running(k)') \in Nat
      BY <2>2, <3>1, OneMore
    <3> QED
      BY <2>2, <3>1, <3>2, FewerOrSame
  <2> QED
    BY <2>1, <2>2, InflightFinite
<1>2. Cardinality(Delaying(k)') + Cardinality(Running(k)')
        <= slips'[k] + (IF <<Redis, k>> \in claims' THEN 1 ELSE 0)
  BY <1>1 DEF Claimed
<1> QED
  BY <1>2 DEF Claimed

\* One is gone, perhaps with the claim.
LEMMA ClaimedLess ==
    ASSUME Typed, NEW k \in Keys, Claimed(k), slips'[k] = slips[k],
           \/ \E x \in Delaying(k) : Delaying(k)' \subseteq Delaying(k) \ {x} /\ Running(k)' \subseteq Running(k)
           \/ \E x \in Running(k) : Delaying(k)' \subseteq Delaying(k) /\ Running(k)' \subseteq Running(k) \ {x}
    PROVE  Claimed(k)'
<1>1. /\ Cardinality(Delaying(k)') \in Nat /\ Cardinality(Running(k)') \in Nat
      /\ Cardinality(Delaying(k)) \in Nat /\ Cardinality(Running(k)) \in Nat /\ slips[k] \in Nat
      /\ Cardinality(Delaying(k)') + Cardinality(Running(k)')
           <= Cardinality(Delaying(k)) + Cardinality(Running(k)) - 1
  <2>1. ASSUME NEW x \in Delaying(k), Delaying(k)' \subseteq Delaying(k) \ {x},
               Running(k)' \subseteq Running(k)
        PROVE  /\ Cardinality(Delaying(k)') <= Cardinality(Delaying(k)) - 1
               /\ Cardinality(Running(k)') <= Cardinality(Running(k))
               /\ Cardinality(Delaying(k)') \in Nat /\ Cardinality(Running(k)') \in Nat
    BY <2>1, InflightFinite, FewerOrSame, OneLess
  <2>2. ASSUME NEW x \in Running(k), Delaying(k)' \subseteq Delaying(k),
               Running(k)' \subseteq Running(k) \ {x}
        PROVE  /\ Cardinality(Delaying(k)') <= Cardinality(Delaying(k))
               /\ Cardinality(Running(k)') <= Cardinality(Running(k)) - 1
               /\ Cardinality(Delaying(k)') \in Nat /\ Cardinality(Running(k)') \in Nat
    BY <2>2, InflightFinite, FewerOrSame, OneLess
  <2> QED
    BY <2>1, <2>2, InflightFinite
<1>2. Cardinality(Delaying(k)') + Cardinality(Running(k)')
        <= slips'[k] + (IF <<Redis, k>> \in claims' THEN 1 ELSE 0)
  BY <1>1 DEF Claimed
<1> QED
  BY <1>2 DEF Claimed

\* One leaves, and one comes.
LEMMA ClaimedTrade ==
    ASSUME Typed, NEW k \in Keys, Claimed(k), slips'[k] = slips[k], NEW y,
           <<Redis, k>> \in claims => <<Redis, k>> \in claims',
           \/ \E x \in Delaying(k) :
                 Delaying(k)' \subseteq Delaying(k) \ {x} /\ Running(k)' \subseteq Running(k) \cup {y}
           \/ \E x \in Running(k) :
                 Delaying(k)' \subseteq Delaying(k) /\ Running(k)' \subseteq (Running(k) \ {x}) \cup {y}
    PROVE  Claimed(k)'
<1>0. IsFiniteSet(Delaying(k)) /\ IsFiniteSet(Running(k))
  BY InflightFinite
<1>1. /\ Cardinality(Delaying(k)') \in Nat /\ Cardinality(Running(k)') \in Nat
      /\ Cardinality(Delaying(k)) \in Nat /\ Cardinality(Running(k)) \in Nat /\ slips[k] \in Nat
      /\ Cardinality(Delaying(k)') + Cardinality(Running(k)')
           <= Cardinality(Delaying(k)) + Cardinality(Running(k))
  <2>1. ASSUME NEW x \in Delaying(k), Delaying(k)' \subseteq Delaying(k) \ {x},
               Running(k)' \subseteq Running(k) \cup {y}
        PROVE  /\ Cardinality(Delaying(k)') <= Cardinality(Delaying(k)) - 1
               /\ Cardinality(Running(k)') <= Cardinality(Running(k)) + 1
               /\ Cardinality(Delaying(k)') \in Nat /\ Cardinality(Running(k)') \in Nat
    <3>1. Cardinality(Delaying(k)') <= Cardinality(Delaying(k)) - 1 /\ Cardinality(Delaying(k)') \in Nat
      BY <1>0, <2>1, OneLess
    <3>2. Cardinality(Running(k)') <= Cardinality(Running(k)) + 1 /\ Cardinality(Running(k)') \in Nat
      BY <1>0, <2>1, OneMore
    <3> QED
      BY <3>1, <3>2
  <2>2. ASSUME NEW x \in Running(k), Delaying(k)' \subseteq Delaying(k),
               Running(k)' \subseteq (Running(k) \ {x}) \cup {y}
        PROVE  /\ Cardinality(Delaying(k)') <= Cardinality(Delaying(k))
               /\ Cardinality(Running(k)') <= Cardinality(Running(k))
               /\ Cardinality(Delaying(k)') \in Nat /\ Cardinality(Running(k)') \in Nat
    <3>1. Cardinality(Delaying(k)') <= Cardinality(Delaying(k)) /\ Cardinality(Delaying(k)') \in Nat
      BY <1>0, <2>2, FewerOrSame
    <3> DEFINE S == Running(k) \ {x}
    <3>2. IsFiniteSet(S) /\ Cardinality(S) = Cardinality(Running(k)) - 1
          /\ Cardinality(Running(k)) \in Nat
      BY <1>0, FS_RemoveElement, FS_CardinalityType
    <3>3. Running(k)' \subseteq S \cup {y}
      BY <2>2
    <3> HIDE DEF S
    <3>4. Cardinality(Running(k)') <= Cardinality(S) + 1 /\ Cardinality(Running(k)') \in Nat
      BY <3>2, <3>3, OneMore
    <3> QED
      BY <3>1, <3>2, <3>4
  <2> QED
    BY <2>1, <2>2, InflightFinite
<1>2. Cardinality(Delaying(k)') + Cardinality(Running(k)')
        <= slips'[k] + (IF <<Redis, k>> \in claims' THEN 1 ELSE 0)
  BY <1>1 DEF Claimed
<1> QED
  BY <1>2 DEF Claimed

\* Which requests are about to dispatch after a step of one of them.
LEMMA DelayingMoves ==
    ASSUME Typed, NEW r \in Requests, NEW q, OneRequest(r, q), NEW k \in Keys
    PROVE  /\ q.pc # "delay" => Delaying(k)' \subseteq Delaying(k) \ {r}
           /\ Delaying(k)' \subseteq Delaying(k) \cup {r}
           /\ k # KeyOf(r, q.cur) => Delaying(k)' \subseteq Delaying(k)
  BY DEF OneRequest, Delaying, CurKey, KeyOf

\* Which deliveries hold a claim after a step of one worker: none is added
\* unless it comes new into the queue.
LEMMA RunningMoves ==
    ASSUME Typed, NEW w \in Workers, NEW q, OneWorker(w, q), NEW k \in Keys,
           NEW N, tasks' \subseteq tasks \cup N,
           wk[w].pc = "ack" => wk[w].msg \notin tasks' \ N \/ (q.pc = "ack" /\ q.msg = wk[w].msg)
    PROVE  Running(k)' \subseteq Running(k) \cup {m \in N : m.key = k}
  BY DEF OneWorker, Running, Uncleared

\* The delivery of a worker that has not given the claim back.
LEMMA OwnRunning ==
    ASSUME OwnTasks, NEW w \in Workers, wk[w].pc \notin {"idle", "ack"}
    PROVE  wk[w].msg \in Running(wk[w].msg.key)
  BY DEF OwnTasks, Busy, Running, Uncleared

\* A request: the claim comes with the observable it is for, the delivery with
\* the dispatch.
LEMMA ClaimedByRequest ==
    ASSUME Typed, NEW r \in Requests, RequestStep(r), NEW k \in Keys, Claimed(k)
    PROVE  Claimed(k)'
<1>1. UNCHANGED wk /\ slips[k] \in Nat
  BY InflightFinite
     DEF RequestStep, Begin, SelectNew, SelectKnown, SelectMany, Flush, Enqueue, Consult, Mark,
         MarkInMemory, Delay, DelayFails, Scheduled, Commit, Abort, DeleteAlert, ReqUnchanged
<1>2. tasks' = tasks => Running(k)' = Running(k)
  BY <1>1 DEF Running, Uncleared
\* The request is not about to dispatch.
<1>3. ASSUME NEW q, OneRequest(r, q), q.pc # "delay", UNCHANGED <<claims, slips, tasks>>
      PROVE  Claimed(k)'
  <2>1. Delaying(k)' \subseteq Delaying(k)
    BY <1>3, DelayingMoves
  <2> QED
    BY <1>1, <1>2, <1>3, <2>1, ClaimedStays
<1>4. CASE \/ Begin(r) \/ Flush(r) \/ Scheduled(r) \/ Commit(r) \/ Abort(r) \/ DeleteAlert(r)
           \/ \E v \in Values : SelectNew(r, v) \/ SelectKnown(r, v) \/ SelectMany(r, v)
                                \/ Enqueue(r, v)
  <2>1. UNCHANGED <<claims, slips, tasks>>
    BY <1>4
       DEF Begin, SelectNew, SelectKnown, SelectMany, Flush, Enqueue, Scheduled, Commit, Abort,
           DeleteAlert, ReqUnchanged
  <2>2. CASE Flush(r) \/ Scheduled(r) \/ \E v \in Values : SelectMany(r, v)
    <3>1. \E q : OneRequest(r, q) /\ q.pc \in {"schedule", "commit"}
      BY <2>2, TurnFacts
    <3> QED
      BY <1>3, <2>1, <3>1
  <2>3. CASE Commit(r) \/ Abort(r) \/ DeleteAlert(r)
    BY <1>3, <2>1, <2>3, OverFacts
  <2>4. CASE Begin(r) \/ \E v \in Values : SelectNew(r, v) \/ SelectKnown(r, v)
    BY <1>3, <2>1, <2>4, SelectFacts DEF Selecting
  <2>5. CASE \E v \in Values : Enqueue(r, v)
    BY <1>3, <2>1, <2>5, EnqueueFacts DEF Going
  <2> QED
    BY <1>4, <2>2, <2>3, <2>4, <2>5
<1>5. ASSUME NEW s \in Cached, Consult(r, s)
      PROVE  Claimed(k)'
  <2>1. UNCHANGED <<claims, slips, tasks>> /\ ~Mark(r) /\ ~MarkInMemory(r)
    BY <1>5 DEF Consult, ReqUnchanged, Mark, MarkInMemory
  <2>2. req' = Suppress(r) \/ Going(r, "consult") \/ Going(r, "mark")
    BY <1>5, <2>1, LoopFacts
  <2> QED
    BY <1>3, <2>1, <2>2, Suppressed DEF Going
\* The claim is taken, in Redis or in memory, or the observable is skipped.
<1>6. CASE Mark(r) \/ MarkInMemory(r)
  <2>0. req[r].pc = "mark" /\ tasks' = tasks /\ CurKey(r) \in Keys
    BY <1>6, CurKeyTyped DEF Mark, MarkInMemory, ReqUnchanged, Choosing
  <2>1. CASE req' = Suppress(r)
    <3>1. PICK q : OneRequest(r, q) /\ q.pc = "schedule"
      BY <2>1, Suppressed
    <3>2. req'[r].pc = "schedule"
      BY <3>1 DEF OneRequest
    <3>3. ~ (req' = [req EXCEPT ![r].pc = "delay"])
      BY <3>2 DEF Typed, IsRequest
    <3>4. UNCHANGED <<claims, slips>>
      BY <1>6, <3>3 DEF Mark, MarkInMemory
    <3> QED
      BY <1>3, <2>0, <3>1, <3>4
  <2>2. CASE req' # Suppress(r)
    <3>1. req' = [req EXCEPT ![r].pc = "delay"]
      BY <1>6, <2>2 DEF Mark, MarkInMemory
    <3>2. PICK q : OneRequest(r, q) /\ q.pc = "delay" /\ q.cur = req[r].cur
      BY <2>0, <3>1, GoesOn DEF Choosing, Going
    <3>3. Running(k)' = Running(k) /\ KeyOf(r, q.cur) = CurKey(r)
      BY <1>2, <2>0, <3>2 DEF CurKey
    <3>4. CASE k # CurKey(r)
      <4>1. Delaying(k)' \subseteq Delaying(k)
        BY <3>2, <3>3, <3>4, DelayingMoves
      <4>2. slips'[k] = slips[k]
        BY <1>6, <2>0, <3>4 DEF Mark, MarkInMemory, ReqUnchanged, Typed
      <4>3. claims \subseteq claims'
        BY <1>6 DEF Mark, MarkInMemory
      <4> QED
        BY <1>1, <3>3, <4>1, <4>2, <4>3, ClaimedStays
    <3>5. CASE k = CurKey(r)
      <4>1. Delaying(k)' \subseteq Delaying(k) \cup {r}
        BY <3>2, DelayingMoves
      <4>2. CASE Mark(r)
        <5>1. slips'[k] = slips[k] /\ <<Redis, k>> \notin claims /\ <<Redis, k>> \in claims'
          BY <2>2, <3>5, <4>2 DEF Mark
        <5> QED
          BY <3>3, <4>1, <5>1, ClaimedMore
      <4>3. CASE MarkInMemory(r)
        <5>1. slips'[k] = slips[k] + 1 /\ (<<Redis, k>> \in claims => <<Redis, k>> \in claims')
          BY <2>2, <3>5, <4>3 DEF MarkInMemory, Typed
        <5> QED
          BY <3>3, <4>1, <5>1, ClaimedMore
      <4> QED
        BY <1>6, <4>2, <4>3
    <3> QED
      BY <3>4, <3>5
  <2> QED
    BY <2>1, <2>2
\* The delivery takes the place of the dispatch.
<1>7. CASE Delay(r)
  <2> DEFINE y == [row |-> NewRow(r, req[r].cur), key |-> CurKey(r), copy |-> 1]
  <2>0. y.key = CurKey(r) /\ tasks' = tasks \cup {y} /\ UNCHANGED <<claims, slips>>
        /\ req[r].pc = "delay"
    BY <1>7 DEF Delay
  <2> HIDE DEF y
  <2>1. PICK q : OneRequest(r, q) /\ q.pc = "schedule"
    BY <1>7, DelayFacts
  <2>2. Delaying(k)' \subseteq Delaying(k) \ {r}
    BY <2>1, DelayingMoves
  <2>3. CASE k = CurKey(r)
    <3>1. r \in Delaying(k)
      BY <2>0, <2>3 DEF Delaying
    <3>2. Running(k)' \subseteq Running(k) \cup {y}
      BY <1>1, <2>0 DEF Running, Uncleared
    <3> QED
      BY <2>0, <2>2, <3>1, <3>2, ClaimedTrade
  <2>4. CASE k # CurKey(r)
    <3>1. Running(k)' \subseteq Running(k)
      BY <1>1, <2>0, <2>4 DEF Running, Uncleared
    <3> QED
      BY <1>1, <2>0, <2>2, <3>1, ClaimedStays
  <2> QED
    BY <2>3, <2>4
\* With the dispatch that failed, the claim may go.
<1>8. CASE DelayFails(r)
  <2>0. /\ req[r].pc = "delay" /\ UNCHANGED <<slips, tasks>> /\ req' = Suppress(r)
        /\ claims \ {<<Redis, CurKey(r)>>, <<ProcOf[r], CurKey(r)>>} \subseteq claims'
    BY <1>8 DEF DelayFails, ReqUnchanged
  <2>1. PICK q : OneRequest(r, q) /\ q.pc = "schedule"
    BY <2>0, Suppressed
  <2>2. Delaying(k)' \subseteq Delaying(k) \ {r} /\ Running(k)' = Running(k)
    BY <1>2, <2>0, <2>1, DelayingMoves
  <2>3. CASE k = CurKey(r)
    <3>1. r \in Delaying(k)
      BY <2>0, <2>3 DEF Delaying
    <3> QED
      BY <2>0, <2>2, <3>1, ClaimedLess
  <2>4. CASE k # CurKey(r)
    <3>1. <<Redis, k>> \in claims => <<Redis, k>> \in claims'
      BY <2>0, <2>4
    <3> QED
      BY <1>1, <2>0, <2>2, <3>1, ClaimedStays
  <2> QED
    BY <2>3, <2>4
<1> QED
  BY <1>4, <1>5, <1>6, <1>7, <1>8 DEF RequestStep

\* A worker: the claim goes with the delivery that stops being in progress.
LEMMA ClaimedByWorker ==
    ASSUME Typed, OwnTasks, NEW w \in Workers, WorkerStep(w), NEW k \in Keys, Claimed(k)
    PROVE  Claimed(k)'
<1>0. PICK q : OneWorker(w, q)
  BY WorkerMoves
<1>1. Delaying(k)' = Delaying(k) /\ slips' = slips /\ slips[k] \in Nat
  BY InflightFinite
     DEF WorkerStep, Get, Fetched, LookupFails, Raise, Fail, Complete, Swallow, Clear, Ack, Receive,
         Hit, Miss, SkipSource, WorkUnchanged, Delaying, CurKey, KeyOf
<1>2. CASE Clear(w)
  <2>1. PICK p : OneWorker(w, p) /\ p.pc = "ack" /\ p.msg = wk[w].msg /\ wk[w].pc = "clear"
    BY <1>2, ClearFacts
  <2> DEFINE m == wk[w].msg
  <2>2. tasks' = tasks /\ claims \ {<<Redis, m.key>>} \subseteq claims'
    BY <1>2 DEF Clear
  <2>3. Running(k)' \subseteq Running(k) \ {m}
    BY <2>1, <2>2 DEF OneWorker, Running, Uncleared
  <2>4. CASE k = m.key
    <3>1. m \in Running(k)
      BY <2>1, <2>4, OwnRunning
    <3> QED
      BY <1>1, <2>3, <3>1, ClaimedLess
  <2>5. CASE k # m.key
    <3>1. <<Redis, k>> \in claims => <<Redis, k>> \in claims'
      BY <2>2, <2>5
    <3> QED
      BY <1>1, <2>3, <3>1, ClaimedStays
  <2> QED
    BY <2>4, <2>5
<1>3. CASE ~Clear(w)
  <2>1. /\ claims' = claims /\ tasks' \subseteq tasks
        /\ wk[w].pc = "ack" => wk[w].msg \notin tasks'
    BY <1>3
       DEF WorkerStep, Get, Fetched, LookupFails, Raise, Fail, Complete, Swallow, Ack, Receive,
           Hit, Miss, SkipSource
  <2>2. Running(k)' \subseteq Running(k)
    BY <1>0, <2>1 DEF OneWorker, Running, Uncleared
  <2> QED
    BY <1>1, <2>1, <2>2, ClaimedStays
<1> QED
  BY <1>2, <1>3

\* A delivery that is repeated late, or a claim that is lost early, is a slip.
LEMMA ClaimedByFault ==
    ASSUME Typed, OwnTasks, FaultStep, NEW k \in Keys, Claimed(k)
    PROVE  Claimed(k)'
<1>0. slips \in [Keys -> Nat] /\ \A m \in tasks : IsTask(m)
  BY DEF Typed
<1>1. UNCHANGED req /\ Delaying(k)' = Delaying(k)
  BY DEF FaultStep, Crash, ProcessLost, Redeliver, ExpireClaim, CacheStep, FaultUnchanged, Delaying,
         CurKey, KeyOf
<1>2. ASSUME NEW w \in Workers, Crash(w)
      PROVE  Claimed(k)'
  <2> DEFINE m == wk[w].msg
             n == NextCopy(m)
  <2>1. PICK q : OneWorker(w, q) /\ q.pc = "idle"
    BY <1>2, FreeFacts DEF Crash
  <2>2. m \in tasks /\ n.key = m.key /\ m.key \in Keys
    BY <1>0, <1>2, CopyFacts DEF Crash, OwnTasks, Busy, IsTask
  <2>3. /\ tasks' = (tasks \ {m}) \cup {n} /\ claims' = claims /\ wk[w].pc # "idle"
        /\ slips' = IF wk[w].pc = "ack" THEN [slips EXCEPT ![m.key] = slips[m.key] + 1] ELSE slips
    BY <1>2 DEF Crash
  <2>4. wk[w].pc # "ack" => m \in Running(m.key)
    BY <2>3, OwnRunning
  <2> HIDE DEF n
  <2>5. /\ Running(k)' \subseteq Running(k) \cup {n}
        /\ k # m.key => Running(k)' \subseteq Running(k)
        /\ wk[w].pc # "ack" => Running(k)' \subseteq (Running(k) \ {m}) \cup {n}
    BY <2>1, <2>2, <2>3 DEF OneWorker, Running, Uncleared
  <2>6. CASE k # m.key
    <3>1. slips'[k] = slips[k]
      BY <1>0, <2>3, <2>6
    <3> QED
      BY <1>1, <2>3, <2>5, <2>6, <3>1, ClaimedStays
  <2>7. CASE k = m.key /\ wk[w].pc = "ack"
    <3>1. slips'[k] = slips[k] + 1
      BY <1>0, <2>3, <2>7
    <3> QED
      BY <1>1, <2>3, <2>5, <3>1, ClaimedMore
  <2>8. CASE k = m.key /\ wk[w].pc # "ack"
    <3>1. slips'[k] = slips[k]
      BY <2>3, <2>8
    <3>2. m \in Running(k) /\ Running(k)' \subseteq (Running(k) \ {m}) \cup {n}
      BY <2>4, <2>5, <2>8
    <3>3. Delaying(k)' \subseteq Delaying(k) /\ (<<Redis, k>> \in claims => <<Redis, k>> \in claims')
      BY <1>1, <2>3
    <3> HIDE DEF m
    <3> QED
      BY <3>1, <3>2, <3>3, ClaimedTrade
  <2> QED
    BY <2>6, <2>7, <2>8
<1>3. ASSUME NEW w \in Workers, ProcessLost(w)
      PROVE  Claimed(k)'
  <2>1. PICK q : OneWorker(w, q) /\ q.pc = "idle"
    BY <1>3, FreeFacts DEF ProcessLost
  <2>2. tasks' = tasks \ {wk[w].msg} /\ UNCHANGED <<claims, slips>>
    BY <1>3 DEF ProcessLost
  <2>3. Running(k)' \subseteq Running(k)
    BY <2>1, <2>2 DEF OneWorker, Running, Uncleared
  <2> QED
    BY <1>1, <2>2, <2>3, ClaimedStays
<1>4. ASSUME NEW m \in tasks, Redeliver(m)
      PROVE  Claimed(k)'
  <2> DEFINE n == NextCopy(m)
  <2>1. n.key = m.key /\ m.key \in Keys
    BY <1>0, CopyFacts DEF IsTask
  <2>2. /\ tasks' = tasks \cup {n} /\ UNCHANGED <<wk, claims>>
        /\ slips' = [slips EXCEPT ![m.key] = slips[m.key] + 1]
    BY <1>4 DEF Redeliver
  <2> HIDE DEF n
  <2>3. Running(k)' \subseteq Running(k) \cup {n} /\ (k # m.key => Running(k)' \subseteq Running(k))
    BY <2>1, <2>2 DEF Running, Uncleared
  <2>4. slips'[k] = IF k = m.key THEN slips[k] + 1 ELSE slips[k]
    BY <1>0, <2>2
  <2>5. CASE k = m.key
    BY <1>1, <2>2, <2>3, <2>4, <2>5, ClaimedMore
  <2>6. CASE k # m.key
    BY <1>1, <2>2, <2>3, <2>4, <2>6, ClaimedStays
  <2> QED
    BY <2>5, <2>6
<1>5. ASSUME NEW c \in claims, ExpireClaim(c)
      PROVE  Claimed(k)'
  <2>1. Running(k)' = Running(k) /\ claims' = claims \ {c} /\ c = <<c[1], c[2]>> /\ c[2] \in Keys
    BY <1>5 DEF ExpireClaim, Running, Uncleared, Typed
  <2>2. \/ slips' = slips /\ Live(c[2]) = {}
        \/ slips' = [slips EXCEPT ![c[2]] = slips[c[2]] + 1]
    BY <1>5 DEF ExpireClaim
  <2>3. CASE c # <<Redis, k>>
    <3>1. <<Redis, k>> \in claims => <<Redis, k>> \in claims'
      BY <2>1, <2>3
    <3>2. slips[k] \in Nat /\ (slips'[k] = slips[k] \/ slips'[k] = slips[k] + 1)
      BY <1>0, <2>1, <2>2
    <3>3. slips'[k] \in Nat /\ slips'[k] >= slips[k]
      BY <3>2
    <3> QED
      BY <1>1, <2>1, <3>1, <3>3, ClaimedFewer
  <2>4. CASE c = <<Redis, k>> /\ slips' = slips /\ Live(k) = {}
    <3>1. Delaying(k)' = {} /\ Running(k)' = {}
      BY <1>1, <2>1, <2>4 DEF Live, Delaying, Running
    <3>2. Cardinality({}) = 0
      BY FS_EmptySet, Zenon
    <3>3. slips'[k] \in Nat
      BY <1>0, <2>4
    <3>4. Cardinality(Delaying(k)') = 0 /\ Cardinality(Running(k)') = 0
      BY <3>1, <3>2
    <3>5. Cardinality(Delaying(k)') + Cardinality(Running(k)')
            <= slips'[k] + (IF <<Redis, k>> \in claims' THEN 1 ELSE 0)
      BY <3>3, <3>4
    <3> QED
      BY <3>5 DEF Claimed
  <2>5. CASE c = <<Redis, k>> /\ slips' = [slips EXCEPT ![k] = slips[k] + 1]
    <3>1. slips'[k] = slips[k] + 1
      BY <1>0, <2>5
    <3>2. Cardinality(Delaying(k)) \in Nat /\ Cardinality(Running(k)) \in Nat /\ slips[k] \in Nat
      BY InflightFinite
    <3>3. Cardinality(Delaying(k)) + Cardinality(Running(k)) <= slips[k] + 1
      BY <3>2 DEF Claimed
    <3>4. Cardinality(Delaying(k)') + Cardinality(Running(k)')
            <= slips'[k] + (IF <<Redis, k>> \in claims' THEN 1 ELSE 0)
      BY <1>1, <2>1, <3>1, <3>2, <3>3
    <3> QED
      BY <3>4 DEF Claimed
  <2> QED
    BY <2>2, <2>3, <2>4, <2>5
<1>6. CASE CacheStep
  <2>1. Running(k)' = Running(k) /\ UNCHANGED <<claims, slips>>
    BY <1>6 DEF CacheStep, Running, Uncleared
  <2> QED
    BY <1>1, <2>1, ClaimedStays
<1> QED
  BY <1>2, <1>3, <1>4, <1>5, <1>6 DEF FaultStep

LEMMA InflightStep ==
    ASSUME Typed, InflightInv, [Next]_vars
    PROVE  InflightInv'
<1>1. OwnTasks'
  BY OwnTasksStep DEF InflightInv
<1>2. ASSUME NEW k \in Keys
      PROVE  Claimed(k)'
  <2>0. OwnTasks /\ Claimed(k)
    BY DEF InflightInv
  <2>1. ASSUME UNCHANGED <<req, wk, tasks, claims, slips>>
        PROVE  Claimed(k)'
    BY <2>0, <2>1 DEF Claimed, Delaying, Running, Uncleared, CurKey, KeyOf
  <2>2. CASE ApiStep
    <3>1. UNCHANGED <<req, wk, tasks, claims, slips>>
      BY <2>2 DEF ApiStep, PostSelect, PostCommit, PostUnchanged, EditLoad, EditAdd, EditUncache,
                  EditDrop, EditUnchanged
    <3> QED
      BY <2>1, <3>1
  <2>3. CASE UNCHANGED <<rows, req, post, edit, wk, claims, fresh, tasks, copies, results, slips>>
    BY <2>1, <2>3
  <2>4. CASE \E r \in Requests : RequestStep(r)
    BY <2>0, <2>4, ClaimedByRequest
  <2>5. CASE \E w \in Workers : WorkerStep(w)
    BY <2>0, <2>5, ClaimedByWorker
  <2>6. CASE FaultStep
    BY <2>0, <2>6, ClaimedByFault
  <2> QED
    BY <2>2, <2>3, <2>4, <2>5, <2>6, NextCases
<1> QED
  BY <1>1, <1>2 DEF InflightInv

\* At the start nothing is scheduled.
LEMMA TypedInit ==
    ASSUME Init
    PROVE  Typed
<1>1. IsRequest(IdleRequest) /\ IsWorker(IdleWorker) /\ IdleRequest.pc = "idle" /\ IdleWorker.pc = "idle"
  BY DEF IsRequest, IdleRequest, IsWorker, IdleWorker
<1>2. /\ req = [r \in Requests |-> req[r]] /\ wk = [w \in Workers |-> wk[w]]
      /\ \A r \in Requests : req[r] = IdleRequest
      /\ \A w \in Workers : wk[w] = IdleWorker
  BY DEF Init
<1>3. IsFiniteSet(tasks) /\ tasks = {} /\ claims = {}
  BY FS_EmptySet, Zenon DEF Init
<1>4. slips \in [Keys -> Nat]
  BY DEF Init
<1>5. rows = [i \in DOMAIN rows |-> rows[i]] /\ DOMAIN rows = {}
  BY DEF Init
<1>6. edit = [e \in Edits |-> edit[e]] /\ \A e \in Edits : IsEdit(edit[e]) /\ edit[e].pc = "idle"
  BY DEF Init, IsEdit
<1> QED
  BY <1>1, <1>2, <1>3, <1>4, <1>5, <1>6 DEF Typed, Choosing

LEMMA InflightInit ==
    ASSUME Init
    PROVE  InflightInv
<1>1. /\ \A r \in Requests : req[r].pc = "idle"
      /\ \A w \in Workers : wk[w].pc = "idle"
      /\ tasks = {} /\ slips = [k \in Keys |-> 0]
  BY DEF Init, IdleRequest, IdleWorker
<1>2. OwnTasks
  BY <1>1 DEF OwnTasks, Busy
<1>3. ASSUME NEW k \in Keys
      PROVE  Claimed(k)
  <2>1. Delaying(k) = {} /\ Running(k) = {} /\ slips[k] = 0
    BY <1>1 DEF Delaying, Running
  <2>2. Cardinality({}) = 0
    BY FS_EmptySet, Zenon
  <2>3. Cardinality(Delaying(k)) = 0 /\ Cardinality(Running(k)) = 0
    BY <2>1, <2>2
  <2> QED
    BY <2>1, <2>3 DEF Claimed
<1> QED
  BY <1>2, <1>3 DEF InflightInv

\* The types hold throughout, a busy worker has its delivery alone, and each
\* enrichment of a key that is in progress has its claim or its slip.
THEOREM InflightInvariance == Spec => [](Typed /\ InflightInv)
<1>1. Init => Typed /\ InflightInv
  BY TypedInit, InflightInit
<1>2. Typed /\ InflightInv /\ [Next]_vars => (Typed /\ InflightInv)'
  <2> SUFFICES ASSUME Typed, InflightInv, [Next]_vars
               PROVE  Typed' /\ InflightInv'
    OBVIOUS
  <2>1. OwnTasks
    BY DEF InflightInv
  <2> QED
    BY <2>1, TypedStep, InflightStep
<1> QED
  BY <1>1, <1>2, PTL DEF Spec

\* InflightBound: at any time at most one enrichment of an observable is in
\* progress for a tenant, but for those that a slip of the claim let through:
\* one that expired, was taken in a process's memory, or a repeated delivery.
THEOREM InflightBounded == Spec => []InflightBound
<1>1. ASSUME Typed, InflightInv
      PROVE  InflightBound
  <2>1. ASSUME NEW k \in Keys
        PROVE  Cardinality(Live(k)) <= 1 + slips[k]
    <3>1. IsFiniteSet(Delaying(k)) /\ IsFiniteSet(Running(k)) /\ slips[k] \in Nat
          /\ Cardinality(Delaying(k)) \in Nat /\ Cardinality(Running(k)) \in Nat
      BY <1>1, InflightFinite
    <3>0. Claimed(k)
      BY <1>1 DEF InflightInv
    <3>2. Cardinality(Delaying(k)) + Cardinality(Running(k)) <= slips[k] + 1
      BY <3>0, <3>1 DEF Claimed
    <3>3. Live(k) = Delaying(k) \cup Running(k)
      BY DEF Live, Delaying, Running
    <3> DEFINE D == Delaying(k)
               R == Running(k)
    <3> HIDE DEF D, R
    <3>4. IsFiniteSet(D) /\ IsFiniteSet(R)
      BY <3>1 DEF D, R
    <3>5. /\ Cardinality(D \cup R) = Cardinality(D) + Cardinality(R) - Cardinality(D \cap R)
          /\ IsFiniteSet(D \cap R)
      BY <3>4, FS_Union, FS_Intersection
    <3>6. Cardinality(D \cap R) \in Nat
      BY <3>5, FS_CardinalityType
    <3> QED
      BY <3>1, <3>2, <3>3, <3>5, <3>6 DEF D, R
  <2> QED
    BY <2>1 DEF InflightBound
<1> QED
  BY <1>1, InflightInvariance, PTL

(***************************************************************************)
(* What becomes of the observables.                                        *)
(***************************************************************************)
\* What a step of each kind leaves alone.
LEMMA RequestFrame ==
    ASSUME Typed, NEW r \in Requests, RequestStep(r)
    PROVE  /\ UNCHANGED <<edit, wk, results>> /\ tasks \subseteq tasks'
           /\ DOMAIN rows \subseteq DOMAIN rows'
           /\ \A i \in DOMAIN rows : rows'[i].status = rows[i].status
           /\ \A i \in DOMAIN rows' \ DOMAIN rows :
                 req[r].pc = "commit" /\ \E v \in req[r].new : i = NewRow(r, v)
<1>1. UNCHANGED <<edit, wk, results>> /\ tasks \subseteq tasks'
  BY DEF RequestStep, Begin, SelectNew, SelectKnown, SelectMany, Flush, Enqueue, Consult, Mark,
         MarkInMemory, Delay, DelayFails, Scheduled, Commit, Abort, DeleteAlert, ReqUnchanged
<1>2. UNCHANGED rows \/ Commit(r) \/ DeleteAlert(r)
  BY DEF RequestStep, Begin, SelectNew, SelectKnown, SelectMany, Flush, Enqueue, Consult, Mark,
         MarkInMemory, Delay, DelayFails, Scheduled, Abort, ReqUnchanged
<1>3. CASE Commit(r)
  BY <1>1, <1>3, CommitRows DEF RowsGrow, Commit
<1>4. CASE DeleteAlert(r)
  BY <1>1, <1>4, DeleteRows
<1> QED
  BY <1>1, <1>2, <1>3, <1>4

LEMMA ApiFrame ==
    ASSUME ApiStep
    PROVE  UNCHANGED <<req, wk, tasks, results>>
  BY DEF ApiStep, PostSelect, PostCommit, PostUnchanged, EditLoad, EditAdd, EditUncache, EditDrop,
         EditUnchanged

LEMMA WorkerFrame ==
    ASSUME NEW w \in Workers, WorkerStep(w)
    PROVE  /\ UNCHANGED <<req, edit>> /\ results \subseteq results'
           /\ UNCHANGED rows \/ Fail(w) \/ Complete(w)
           /\ UNCHANGED tasks \/ Ack(w)
  BY DEF WorkerStep, Get, Fetched, LookupFails, Raise, Fail, Complete, Swallow, Clear, Ack, Receive,
         Hit, Miss, SkipSource, WorkUnchanged

LEMMA FaultFrame ==
    ASSUME FaultStep
    PROVE  /\ UNCHANGED <<rows, req, edit>> /\ results \subseteq results'
           /\ tasks \subseteq tasks' \/ \E w \in Workers : Crash(w) \/ ProcessLost(w)
           /\ UNCHANGED wk \/ \E w \in Workers : Crash(w) \/ ProcessLost(w)
  BY DEF FaultStep, Crash, ProcessLost, Redeliver, ExpireClaim, CacheStep, FaultUnchanged

\* A step of an API call: what it adds and what it edits.
LEMMA ApiRows ==
    ASSUME Typed, ApiStep
    PROVE  /\ \A i : Edited(i) => Edited(i)'
           /\ DOMAIN rows \subseteq DOMAIN rows'
           /\ \A i \in DOMAIN rows : rows'[i].status = rows[i].status \/ Edited(i)'
           /\ \A i \in DOMAIN rows' \ DOMAIN rows : i.by \in Posts
<1>1. ASSUME NEW p \in Posts, PostSelect(p) \/ PostCommit(p)
      PROVE  /\ UNCHANGED edit /\ DOMAIN rows \subseteq DOMAIN rows'
             /\ \A i \in DOMAIN rows : rows'[i] = rows[i]
             /\ \A i \in DOMAIN rows' \ DOMAIN rows : i.by \in Posts
  <2>1. CASE PostSelect(p)
    BY <2>1 DEF PostSelect, PostUnchanged
  <2>2. CASE PostCommit(p)
    BY <2>2, PostRows, ZenonT(60) DEF PostCommit, PostUnchanged, RowsGrow
  <2> QED
    BY <1>1, <2>1, <2>2
<1>2. ASSUME NEW e \in Edits, EditLoad(e) \/ EditAdd(e) \/ EditUncache(e) \/ EditDrop(e)
      PROVE  /\ \A i : Edited(i) => Edited(i)'
             /\ DOMAIN rows' = DOMAIN rows
             /\ \A i \in DOMAIN rows : rows'[i].status = rows[i].status \/ Edited(i)'
  <2>1. PICK q : /\ OneEdit(e, q) /\ edit[e].pc # "done"
                 /\ edit[e].pc # "idle" => q.row = edit[e].row
                 /\ EditAdd(e) \/ EditDrop(e) => q.pc = "done"
    BY <1>2, EditFacts
  <2>2. \A i : Edited(i) => Edited(i)'
    BY <2>1 DEF Edited, OneEdit
  <2>3. CASE EditAdd(e) \/ EditDrop(e)
    <3>1. edit'[e].row = edit[e].row /\ edit'[e].pc = "done"
      BY <2>1, <2>3 DEF OneEdit, EditAdd, EditDrop
    <3>2. \A i : i = edit[e].row => Edited(i)'
      BY <3>1 DEF Edited
    <3> QED
      BY <2>2, <2>3, <3>2, EditRows
  <2>4. CASE UNCHANGED rows
    BY <2>2, <2>4
  <2> QED
    BY <1>2, <2>3, <2>4 DEF EditLoad, EditUncache
<1>3. ASSUME UNCHANGED edit
      PROVE  \A i : Edited(i) => Edited(i)'
  BY <1>3 DEF Edited
<1> QED
  BY <1>1, <1>2, <1>3 DEF ApiStep

\* A row that has been given a status stays settled.
LEMMA SettledStays ==
    ASSUME Typed, [Next]_vars, NEW i, Settled(i)
    PROVE  Settled(i)'
<1>1. ASSUME UNCHANGED edit, DOMAIN rows \subseteq DOMAIN rows',
             rows'[i].status = rows[i].status \/ rows'[i].status # "pending"
      PROVE  Settled(i)'
  BY <1>1 DEF Settled, Edited
<1>2. CASE \E r \in Requests : RequestStep(r)
  <2>1. PICK r \in Requests : RequestStep(r)
    BY <1>2
  <2> QED
    BY <1>1, <2>1, RequestFrame DEF Settled
<1>3. CASE ApiStep
  BY <1>3, ApiRows DEF Settled
<1>4. ASSUME NEW w \in Workers, WorkerStep(w)
      PROVE  Settled(i)'
  <2>1. UNCHANGED edit /\ (UNCHANGED rows \/ Fail(w) \/ Complete(w))
    BY <1>4, WorkerFrame
  <2>2. CASE Fail(w) \/ Complete(w)
    <3>1. DOMAIN rows' = DOMAIN rows /\ (rows'[i].status = rows[i].status \/ rows'[i].status # "pending")
      BY <2>2, OutcomeRows DEF Settled
    <3> QED
      BY <1>1, <2>1, <3>1
  <2> QED
    BY <1>1, <2>1, <2>2
<1>5. CASE FaultStep \/ UNCHANGED <<rows, req, post, edit, wk, claims, fresh, tasks, copies, results, slips>>
  BY <1>1, <1>5, FaultFrame
<1> QED
  BY <1>2, <1>3, <1>4, <1>5, NextCases

\* What was skipped stays skipped.
LEMMA SkippedStays ==
    ASSUME Typed, AccountsInv, [Next]_vars, NEW s \in Requests
    PROVE  req[s].skipped \subseteq req'[s].skipped
<1>1. ASSUME NEW r \in Requests, NEW q, OneRequest(r, q), req[r].skipped \subseteq q.skipped
      PROVE  req[s].skipped \subseteq req'[s].skipped
  BY <1>1 DEF OneRequest
<1>2. ASSUME NEW r \in Requests, RequestStep(r)
      PROVE  req[s].skipped \subseteq req'[s].skipped
  <2>1. CASE Begin(r) \/ \E v \in Values : SelectNew(r, v) \/ SelectKnown(r, v)
    BY <1>1, <2>1, SelectFacts DEF Selecting
  <2>2. CASE \E v \in Values : SelectMany(r, v)
    <3>1. PICK q : OneRequest(r, q) /\ q.skipped = req[r].new /\ req[r].pc = "select"
      BY <2>2, TurnFacts
    <3>2. req[r].skipped = {}
      BY <3>1 DEF AccountsInv, RequestAccounts
    <3> QED
      BY <1>1, <3>1, <3>2
  <2>3. CASE Flush(r) \/ Scheduled(r)
    <3>1. \E q : OneRequest(r, q) /\ q.skipped = req[r].skipped
      BY <2>3, TurnFacts
    <3> QED
      BY <1>1, <3>1
  <2>4. CASE Commit(r) \/ Abort(r) \/ DeleteAlert(r)
    BY <1>1, <2>4, OverFacts
  <2>5. CASE \E v \in Values : Enqueue(r, v)
    BY <1>1, <2>5, EnqueueFacts DEF Going
  <2>6. CASE Delay(r)
    BY <1>1, <2>6, DelayFacts
  <2>7. CASE (\E c \in Cached : Consult(r, c)) \/ Mark(r) \/ MarkInMemory(r) \/ DelayFails(r)
    <3>1. req' = Suppress(r) \/ \E pc : Going(r, pc)
      BY <2>7, LoopFacts
    <3> QED
      BY <1>1, <3>1, Suppressed DEF Going
  <2> QED
    BY <1>2, <2>1, <2>2, <2>3, <2>4, <2>5, <2>6, <2>7 DEF RequestStep
<1>3. UNCHANGED req \/ \E r \in Requests : RequestStep(r)
  BY NextCases, ApiFrame, WorkerFrame, FaultFrame
<1> QED
  BY <1>2, <1>3

\* A result without an outcome excuses its row.
LEMMA ResultExcuses ==
    ASSUME NEW i, NEW how \in {"missing", "swallowed", "lost"}, [row |-> i, how |-> how] \in results'
    PROVE  Excused(i)'
<1> DEFINE x == [row |-> i, how |-> how]
<1>1. x.row = i /\ x.how = how /\ x \in results'
  OBVIOUS
<1> HIDE DEF x
<1> QED
  BY <1>1 DEF Excused

\* A delivery that leaves the queue leaves a result: that of a worker with an
\* outcome, or that of a process that was lost.
LEMMA ComingStays ==
    ASSUME Typed, OwnTasks, AccountsInv, [Next]_vars, NEW i, Coming(i)
    PROVE  Coming(i)' \/ Excused(i)' \/ Settled(i)'
<1>1. ASSUME tasks \subseteq tasks'
      PROVE  Coming(i)'
  BY <1>1 DEF Coming
<1>2. ASSUME NEW w \in Workers, Ack(w)
      PROVE  Coming(i)' \/ Excused(i)' \/ Settled(i)'
  <2> DEFINE m == wk[w].msg
  <2>1. /\ tasks' = tasks \ {m} /\ wk[w].pc = "ack"
        /\ results' = results \cup {[row |-> m.row, how |-> wk[w].how]}
    BY <1>2 DEF Ack
  <2>2. wk[w].how \in {"missing", "swallowed"} \/ Settled(m.row)
    BY <2>1 DEF AccountsInv, WorkerAccounts
  <2> HIDE DEF m
  <2>3. CASE m.row # i
    BY <2>1, <2>3 DEF Coming
  <2>4. CASE m.row = i /\ Settled(i)
    BY <2>4, SettledStays
  <2>5. CASE m.row = i /\ wk[w].how \in {"missing", "swallowed"}
    <3>1. [row |-> i, how |-> wk[w].how] \in results'
      BY <2>1, <2>5
    <3> QED
      BY <2>5, <3>1, ResultExcuses
  <2> QED
    BY <2>2, <2>3, <2>4, <2>5
<1>3. ASSUME NEW w \in Workers, ProcessLost(w)
      PROVE  Coming(i)' \/ Excused(i)'
  <2> DEFINE m == wk[w].msg
  <2>1. /\ tasks' = tasks \ {m}
        /\ results' = results \cup {[row |-> m.row, how |-> "lost"]}
    BY <1>3 DEF ProcessLost
  <2> HIDE DEF m
  <2>2. CASE m.row # i
    BY <2>1, <2>2 DEF Coming
  <2>3. CASE m.row = i
    <3>1. [row |-> i, how |-> "lost"] \in results'
      BY <2>1, <2>3
    <3> QED
      BY <3>1, ResultExcuses
  <2> QED
    BY <2>2, <2>3
<1>4. ASSUME NEW w \in Workers, Crash(w)
      PROVE  Coming(i)'
  <2> DEFINE m == wk[w].msg
  <2>1. tasks' = (tasks \ {m}) \cup {NextCopy(m)} /\ m \in tasks /\ IsTask(m)
    BY <1>4 DEF Crash, OwnTasks, Busy, Typed
  <2>2. NextCopy(m).row = m.row
    BY <2>1, CopyFacts
  <2> HIDE DEF m
  <2> QED
    BY <2>1, <2>2 DEF Coming
<1>5. \/ tasks \subseteq tasks'
      \/ \E w \in Workers : Ack(w) \/ Crash(w) \/ ProcessLost(w)
  BY NextCases, RequestFrame, ApiFrame, WorkerFrame, FaultFrame
<1> QED
  BY <1>1, <1>2, <1>3, <1>4, <1>5

\* No observable that is accounted for is forgotten.
LEMMA AccountedStays ==
    ASSUME Typed, OwnTasks, AccountsInv, [Next]_vars, NEW i, Accounted(i)
    PROVE  Accounted(i)'
<1>1. CASE i.by \in Posts
  BY <1>1 DEF Accounted
<1>2. CASE i.by \in Requests /\ i.value \in req[i.by].skipped
  BY <1>2, SkippedStays DEF Accounted
<1>3. CASE Coming(i)
  BY <1>3, ComingStays DEF Accounted
<1>4. CASE Excused(i)
  <2>1. results \subseteq results'
    BY NextCases, RequestFrame, ApiFrame, WorkerFrame, FaultFrame
  <2>2. Excused(i)'
    BY <1>4, <2>1 DEF Excused
  <2> QED
    BY <2>2 DEF Accounted
<1>5. CASE Settled(i)
  BY <1>5, SettledStays DEF Accounted
<1> QED
  BY <1>1, <1>2, <1>3, <1>4, <1>5 DEF Accounted

\* What a request skips, or has dispatched, is accounted for.
LEMMA RequestAccountsStep ==
    ASSUME Typed, OwnTasks, AccountsInv, [Next]_vars, NEW s \in Requests
    PROVE  RequestAccounts(s)'
<1>0. /\ \A v : Accounted(NewRow(s, v)) => Accounted(NewRow(s, v))'
      /\ RequestAccounts(s)
  BY AccountedStays DEF AccountsInv
\* The request is not the one of the step.
<1>1. ASSUME req'[s] = req[s]
      PROVE  RequestAccounts(s)'
  BY <1>0, <1>1 DEF RequestAccounts, NewRow
<1>2. ASSUME NEW q, OneRequest(s, q), NEW v, v \in q.skipped
      PROVE  Accounted(NewRow(s, v))'
  BY <1>2 DEF Accounted, NewRow, OneRequest
\* Its own steps.
<1>3. CASE RequestStep(s)
  <2>1. CASE Begin(s) \/ \E v \in Values : SelectNew(s, v) \/ SelectKnown(s, v)
    BY <1>0, <2>1, SelectFacts DEF Selecting, OneRequest, RequestAccounts, Choosing
  <2>2. CASE \E v \in Values : SelectMany(s, v)
    <3>1. PICK q : OneRequest(s, q) /\ q.pc = "commit" /\ q.new = req[s].new /\ q.skipped = req[s].new
      BY <2>2, TurnFacts
    <3>2. \A v \in q.new : Accounted(NewRow(s, v))'
      BY <1>2, <3>1
    <3> QED
      BY <3>1, <3>2 DEF OneRequest, RequestAccounts, Choosing, NewRow
  <2>3. CASE Flush(s)
    <3>1. PICK q : OneRequest(s, q) /\ q.pc = "schedule" /\ q.todo = q.new
      BY <2>3, TurnFacts
    <3> QED
      BY <3>1 DEF OneRequest, RequestAccounts, Choosing
  <2>4. CASE Scheduled(s)
    <3>1. PICK q : /\ OneRequest(s, q) /\ q.pc = "commit" /\ q.new = req[s].new
                   /\ req[s].pc = "schedule" /\ req[s].todo = {}
      BY <2>4, TurnFacts
    <3>2. \A v \in q.new : Accounted(NewRow(s, v))'
      BY <1>0, <3>1 DEF RequestAccounts
    <3> QED
      BY <3>1, <3>2 DEF OneRequest, RequestAccounts, Choosing, NewRow
  <2>5. CASE Commit(s) \/ Abort(s) \/ DeleteAlert(s)
    <3>1. PICK q : OneRequest(s, q) /\ q.pc \in {"done", "deleted", "aborted"}
      BY <2>5, OverFacts
    <3> QED
      BY <3>1 DEF OneRequest, RequestAccounts, Choosing
  \* The loop goes on with an observable.
  <2>6. ASSUME NEW q, OneRequest(s, q), q.pc \in Scheduling, q.new = req[s].new,
               req[s].pc \in Scheduling,
               \A v \in req[s].todo \ q.todo : Accounted(NewRow(s, v))'
        PROVE  RequestAccounts(s)'
    <3>1. \A v \in q.new \ q.todo : Accounted(NewRow(s, v))'
      BY <1>0, <2>6 DEF RequestAccounts, Scheduling
    <3> QED
      BY <2>6, <3>1 DEF OneRequest, RequestAccounts, Scheduling, Choosing, NewRow
  <2>7. ASSUME NEW pc \in Choosing, Going(s, pc)
        PROVE  RequestAccounts(s)'
    BY <2>6, <2>7 DEF Going, Scheduling
  <2>8. CASE \E v \in Values : Enqueue(s, v)
    BY <2>7, <2>8, EnqueueFacts DEF Choosing
  <2>9. CASE Delay(s)
    <3>1. PICK q : /\ OneRequest(s, q) /\ q.pc = "schedule" /\ q.new = req[s].new
                   /\ q.todo = req[s].todo \ {req[s].cur}
      BY <2>9, DelayFacts
    <3>2. req[s].pc = "delay"
          /\ [row |-> NewRow(s, req[s].cur), key |-> CurKey(s), copy |-> 1] \in tasks'
      BY <2>9 DEF Delay
    <3>3. ASSUME NEW v, v = req[s].cur
          PROVE  Accounted(NewRow(s, v))'
      <4> DEFINE m == [row |-> NewRow(s, v), key |-> CurKey(s), copy |-> 1]
      <4>1. m \in tasks' /\ m.row = NewRow(s, v)
        BY <3>2, <3>3
      <4> HIDE DEF m
      <4> QED
        BY <4>1 DEF Accounted, Coming
    <3> QED
      BY <2>6, <3>1, <3>2, <3>3 DEF Scheduling, Choosing
  <2>10. CASE (\E c \in Cached : Consult(s, c)) \/ Mark(s) \/ MarkInMemory(s) \/ DelayFails(s)
    <3>1. req[s].pc \in Choosing /\ (req' = Suppress(s) \/ \E pc \in Choosing : Going(s, pc))
      BY <2>10, LoopFacts DEF Choosing
    <3>2. CASE req' = Suppress(s)
      <4>1. PICK q : /\ OneRequest(s, q) /\ q.pc = "schedule" /\ q.new = req[s].new
                     /\ q.todo = req[s].todo \ {req[s].cur}
                     /\ q.skipped = req[s].skipped \cup {req[s].cur}
        BY <3>2, Suppressed
      <4>2. \A v \in req[s].todo \ q.todo : Accounted(NewRow(s, v))'
        BY <1>2, <4>1
      <4> QED
        BY <2>6, <3>1, <4>1, <4>2 DEF Scheduling
    <3> QED
      BY <2>7, <3>1, <3>2
  <2> QED
    BY <1>3, <2>1, <2>2, <2>3, <2>4, <2>5, <2>8, <2>9, <2>10 DEF RequestStep
\* The step of another request, or of none.
<1>4. ASSUME NEW r \in Requests, RequestStep(r), r # s
      PROVE  req'[s] = req[s]
  BY <1>4, RequestMoves DEF OneRequest
<1>5. UNCHANGED req \/ \E r \in Requests : RequestStep(r)
  BY NextCases, ApiFrame, WorkerFrame, FaultFrame
<1> QED
  BY <1>1, <1>3, <1>4, <1>5

\* A worker that reports an outcome has stored it.
LEMMA WorkerAccountsStep ==
    ASSUME Typed, OwnTasks, AccountsInv, [Next]_vars, NEW v \in Workers
    PROVE  WorkerAccounts(v)'
<1>0. /\ \A i : Settled(i) => Settled(i)'
      /\ WorkerAccounts(v)
  BY SettledStays DEF AccountsInv
\* The worker is not the one of the step, or stays at the same place.
<1>1. ASSUME wk'[v] = wk[v]
      PROVE  WorkerAccounts(v)'
  BY <1>0, <1>1 DEF WorkerAccounts
\* Its own steps.
<1>2. ASSUME NEW q, OneWorker(v, q),
             q.pc \in {"lookup", "fetch", "fail"} /\ q.snap.status # "pending" =>
                \E i : i = q.msg.row /\ Settled(i)',
             q.pc \in {"clear", "ack"} =>
                \/ q.how \in {"missing", "swallowed"}
                \/ q.how \in {"complete", "failed"} /\ \E i : i = q.msg.row /\ Settled(i)'
      PROVE  WorkerAccounts(v)'
  BY <1>2 DEF OneWorker, WorkerAccounts
<1>3. CASE WorkerStep(v)
  <2>1. CASE \E m \in tasks : Receive(v, m)
    BY <1>2, <2>1, ReceiveFacts
  <2>2. CASE Get(v)
    <3>1. PICK q : /\ OneWorker(v, q) /\ q.msg = wk[v].msg
                   /\ \/ /\ q.pc = "lookup" /\ wk[v].msg.row \in DOMAIN rows
                         /\ q.snap.status = rows[wk[v].msg.row].status
                      \/ q.pc = "clear" /\ q.how = "missing"
      BY <2>2, GetFacts
    <3>2. ASSUME NEW i, i = q.msg.row, q.pc = "lookup", q.snap.status # "pending"
          PROVE  Settled(i)'
      <4>1. Settled(i)
        BY <3>1, <3>2 DEF Settled
      <4> QED
        BY <1>0, <4>1
    <3> QED
      BY <1>2, <3>1, <3>2
  <2>3. CASE (\E s \in Sources : Hit(v, s) \/ Miss(v, s) \/ SkipSource(v, s))
             \/ Fetched(v) \/ LookupFails(v) \/ Raise(v)
    <3>1. PICK q : /\ OneWorker(v, q) /\ q.msg = wk[v].msg /\ q.snap = wk[v].snap
                   /\ q.pc \in {"lookup", "fetch", "fail"} /\ wk[v].pc \in {"lookup", "fetch"}
      BY <2>3, LookFacts DEF Looking
    <3>2. ASSUME NEW i, i = q.msg.row, q.snap.status # "pending"
          PROVE  Settled(i)'
      BY <1>0, <3>1, <3>2 DEF WorkerAccounts
    <3> QED
      BY <1>2, <3>1, <3>2
  <2>4. CASE Fail(v) \/ Complete(v)
    <3> DEFINE i == wk[v].msg.row
    <3>1. /\ DOMAIN rows' = DOMAIN rows /\ wk[v].pc \in {"lookup", "fail"} /\ i \in DOMAIN rows
          /\ rows'[i].status # "pending" \/ wk[v].snap.status # "pending"
      BY <2>4, OutcomeRows
    <3>2. PICK how \in {"complete", "failed"} : End(v, how)
      BY <2>4, OutcomeRows
    <3>3. PICK q : OneWorker(v, q) /\ q.pc = "clear" /\ q.msg = wk[v].msg /\ q.how = how
      BY <3>2, EndFacts
    <3>4. ASSUME NEW j, j = i
          PROVE  Settled(j)'
      <4>1. CASE rows'[j].status # "pending"
        BY <3>1, <3>4, <4>1 DEF Settled
      <4>2. CASE wk[v].snap.status # "pending"
        <5>1. Settled(j)
          BY <1>0, <3>1, <3>4, <4>2 DEF WorkerAccounts
        <5> QED
          BY <1>0, <5>1
      <4> QED
        BY <3>1, <3>4, <4>1, <4>2
    <3> QED
      BY <1>2, <3>3, <3>4
  <2>5. CASE Swallow(v)
    <3>1. PICK q : OneWorker(v, q) /\ q.pc = "clear" /\ q.how = "swallowed"
      BY <2>5, EndFacts DEF Swallow
    <3> QED
      BY <1>2, <3>1
  <2>6. CASE Clear(v)
    <3>1. PICK q : /\ OneWorker(v, q) /\ q.pc = "ack" /\ q.msg = wk[v].msg /\ q.how = wk[v].how
                   /\ wk[v].pc = "clear"
      BY <2>6, ClearFacts
    <3>2. ASSUME NEW i, i = q.msg.row, q.how \notin {"missing", "swallowed"}
          PROVE  q.how \in {"complete", "failed"} /\ Settled(i)'
      BY <1>0, <3>1, <3>2 DEF WorkerAccounts
    <3> QED
      BY <1>2, <3>1, <3>2
  <2>7. CASE Ack(v)
    <3>1. PICK q : OneWorker(v, q) /\ q.pc = "idle"
      BY <2>7, FreeFacts DEF Ack
    <3> QED
      BY <1>2, <3>1
  <2> QED
    BY <1>3, <2>1, <2>2, <2>3, <2>4, <2>5, <2>6, <2>7 DEF WorkerStep
<1>4. CASE Crash(v) \/ ProcessLost(v)
  <2>1. PICK q : OneWorker(v, q) /\ q.pc = "idle"
    BY <1>4, FreeFacts DEF Crash, ProcessLost
  <2> QED
    BY <1>2, <2>1
\* The step of another worker, or of none.
<1>5. ASSUME NEW w \in Workers, w # v, WorkerStep(w) \/ Crash(w) \/ ProcessLost(w)
      PROVE  wk'[v] = wk[v]
  BY <1>5, WorkerMoves DEF OneWorker
<1>6. UNCHANGED wk \/ \E w \in Workers : WorkerStep(w) \/ Crash(w) \/ ProcessLost(w)
  BY NextCases, RequestFrame, ApiFrame, FaultFrame
<1> QED
  BY <1>1, <1>3, <1>4, <1>5, <1>6

\* A new row is accounted for when it is committed.
LEMMA RowsAccounted ==
    ASSUME Typed, OwnTasks, AccountsInv, [Next]_vars, NEW i \in DOMAIN rows'
    PROVE  Accounted(i)'
<1>1. CASE i \in DOMAIN rows
  BY <1>1, AccountedStays DEF AccountsInv
<1>2. CASE i \notin DOMAIN rows
  <2>1. (\E r \in Requests : RequestStep(r)) \/ ApiStep
    <3>1. ASSUME NEW w \in Workers, WorkerStep(w)
          PROVE  DOMAIN rows' = DOMAIN rows
      BY <3>1, WorkerFrame, OutcomeRows
    <3> QED
      BY <1>2, <3>1, NextCases, FaultFrame
  <2>2. ASSUME NEW r \in Requests, RequestStep(r)
        PROVE  Accounted(i)'
    <3>1. PICK v \in req[r].new : req[r].pc = "commit" /\ i = NewRow(r, v)
      BY <1>2, <2>2, RequestFrame
    <3>2. Accounted(NewRow(r, v))
      BY <3>1 DEF AccountsInv, RequestAccounts
    <3> QED
      BY <3>1, <3>2, AccountedStays
  <2>3. CASE ApiStep
    BY <1>2, <2>3, ApiRows DEF Accounted
  <2> QED
    BY <2>1, <2>2, <2>3
<1> QED
  BY <1>1, <1>2

\* Every observable is accounted for, from before the COMMIT of its row on.
THEOREM AccountsInvariance == Spec => []AccountsInv
<1>1. ASSUME Init
      PROVE  AccountsInv
  <2>1. /\ \A r \in Requests : req[r] = IdleRequest
        /\ \A w \in Workers : wk[w] = IdleWorker
        /\ DOMAIN rows = {}
    BY <1>1 DEF Init
  <2>2. ASSUME NEW r \in Requests
        PROVE  RequestAccounts(r)
    <3>1. req[r].pc = "idle" /\ req[r].skipped = {}
      BY <2>1 DEF IdleRequest
    <3> QED
      BY <3>1 DEF RequestAccounts, Choosing
  <2>3. ASSUME NEW w \in Workers
        PROVE  WorkerAccounts(w)
    <3>1. wk[w].pc = "idle"
      BY <2>1 DEF IdleWorker
    <3> QED
      BY <3>1 DEF WorkerAccounts
  <2> QED
    BY <2>1, <2>2, <2>3 DEF AccountsInv
<1>2. Typed /\ InflightInv /\ AccountsInv /\ [Next]_vars => AccountsInv'
  <2> SUFFICES ASSUME Typed, InflightInv, AccountsInv, [Next]_vars
               PROVE  AccountsInv'
    OBVIOUS
  <2>1. OwnTasks
    BY DEF InflightInv
  <2> QED
    BY <2>1, RequestAccountsStep, WorkerAccountsStep, RowsAccounted DEF AccountsInv
<1> QED
  BY <1>1, <1>2, InflightInvariance, PTL DEF Spec

\* PendingExplained: an observable stays pending only for one of the reasons
\* the code has for it, so no task is forgotten.
THEOREM PendingIsExplained == Spec => []PendingExplained
<1>1. AccountsInv => PendingExplained
  BY DEF AccountsInv, Accounted, Coming, Excused, Settled, Edited, PendingExplained
<1> QED
  BY <1>1, AccountsInvariance, PTL
=============================================================================
