-------------------------- MODULE TriggerMatchProofs --------------------------
(***************************************************************************)
(* Proofs that match() lists exactly the triggered playbooks, once and in  *)
(* order, and that highest_priority_queue keeps an urgent batch urgent,    *)
(* for every registry, alert and set of conditions.                        *)
(***************************************************************************)
EXTENDS TriggerMatch, TLAPS

\* _condition_value_matches, case by case, is overlap of the two values.
LEMMA ValueOverlap ==
    ASSUME NEW e, NEW a, IsValue(e), IsValue(a)
    PROVE  ValueMatches(e, a) <=> e.items \cap a.items # {}
<1>1. CASE a.list /\ e.list
  BY <1>1 DEF ValueMatches
<1>2. CASE a.list /\ ~ e.list
  BY <1>2 DEF ValueMatches, IsValue
<1>3. CASE ~ a.list /\ e.list
  BY <1>3 DEF ValueMatches, IsValue
<1>4. CASE ~ a.list /\ ~ e.list
  BY <1>4 DEF ValueMatches, IsValue
<1> QED
  BY <1>1, <1>2, <1>3, <1>4

\* What the three trigger types contribute is what the alert triggers.
LEMMA CandidatesTriggered ==
    ASSUME TypeOK, NEW p \in DOMAIN registry
    PROVE  p \in Triggered <=> \E n \in 1 .. 3 : p \in Candidates(Types[n])
<1>1. ConditionsMatch(registry[p].conditions) <=> Overlap(p)
  <2>1. registry[p] \in Metas /\ data \in Payloads
    BY DEF TypeOK
  <2>2. ASSUME NEW k \in DOMAIN registry[p].conditions, k \in DOMAIN data
        PROVE  ValueMatches(registry[p].conditions[k], data[k]) <=>
                  registry[p].conditions[k].items \cap data[k].items # {}
    <3>1. IsValue(registry[p].conditions[k]) /\ IsValue(data[k])
      BY <2>1, <2>2, MatchAssumption
    <3> QED
      BY <3>1, ValueOverlap
  <2> QED
    BY <2>2 DEF ConditionsMatch, Overlap
<1> QED
  BY <1>1 DEF Triggered, Candidates

\* The invariant holds before the first loop.
LEMMA IInvInit == Init => IInv
<1> SUFFICES ASSUME Init PROVE IInv
  OBVIOUS
<1>1. PICK S \in SUBSET Playbooks : registry \in [S -> Metas]
  BY DEF Init
<1>2. matches = <<>> /\ Len(matches) = 0 /\ Listed = {}
  BY DEF Init, Listed
<1>3. TypeOK
  BY <1>1, <1>2 DEF Init, TypeOK, Queues
<1>4. OuterLoop /\ InnerLoop
  BY <1>2 DEF Init, OuterLoop, InnerLoop, Matched
<1>5. NoRepeats /\ ByTypeThenOrder /\ RouteLoop
  BY <1>2 DEF Init, NoRepeats, ByTypeThenOrder, RouteLoop
<1> QED
  BY <1>3, <1>4, <1>5 DEF IInv

\* The operators of the loops depend on the input only, which never changes.
LEMMA SameInput ==
    ASSUME UNCHANGED input
    PROVE  /\ Types' = Types
           /\ \A t : Candidates(t)' = Candidates(t)
           /\ \A p, q : Before(p, q)' = Before(p, q)
           /\ \A p : TypeRank(p)' = TypeRank(p)
BY DEF input, Types, Candidates, ConditionsMatch, Before, TypeRank

\* A playbook that is visited keeps the invariant, listed before or not.
LEMMA VisitInv ==
    ASSUME IInv, NEW p \in Playbooks, Visit(p)
    PROVE  IInv'
<1> USE DEF IInv
<1>0. /\ UNCHANGED <<registry, source, data, pc, i, j, best, queue>>
      /\ pc = "match" /\ i \in 1 .. 3 /\ visited' = visited \cup {p}
      /\ p \in Candidates(Types[i]) /\ p \notin visited
      /\ \A q \in Candidates(Types[i]) \ visited : q = p \/ Before(p, q)
      /\ p \in DOMAIN registry
  BY DEF Visit, input, IsNext, TypeOK, Candidates
<1>1. /\ Types' = Types /\ \A t : Candidates(t)' = Candidates(t)
      /\ \A m, n : Before(m, n)' = Before(m, n) /\ TypeRank(m)' = TypeRank(m)
  BY <1>0, SameInput DEF input
<1>2. InnerLoop'
  BY <1>0, <1>1 DEF InnerLoop
<1>3. CASE p \in seen
  <2>1. UNCHANGED <<matches, seen>> /\ Listed' = Listed
    BY <1>3 DEF Visit, Listed
  <2>2. TypeOK'
    BY <1>0, <2>1 DEF TypeOK
  <2>3. OuterLoop'
    BY <1>0, <1>1, <1>3, <2>1 DEF OuterLoop, Matched
  <2>4. NoRepeats' /\ ByTypeThenOrder' /\ RouteLoop'
    BY <1>0, <1>1, <2>1 DEF NoRepeats, ByTypeThenOrder, RouteLoop
  <2> QED
    BY <1>2, <2>2, <2>3, <2>4
<1>4. CASE p \notin seen
  <2> DEFINE l == Len(matches)
  <2>1. matches' = Append(matches, p) /\ seen' = seen \cup {p}
    BY <1>4 DEF Visit
  <2>2. /\ l \in Nat /\ Len(matches') = l + 1 /\ matches'[l + 1] = p
        /\ \A n \in 1 .. l : matches'[n] = matches[n] /\ matches[n] \in DOMAIN registry
        /\ matches' \in Seq(DOMAIN registry)
    BY <1>0, <2>1 DEF TypeOK
  <2>3. Listed' = Listed \cup {p}
    BY <2>2 DEF Listed
  <2>4. \A n \in 1 .. l : matches[n] \in seen /\ matches[n] # p
    BY <1>4, <2>2 DEF OuterLoop, Listed
  <2>5. TypeOK'
    BY <1>0, <2>1, <2>2 DEF TypeOK
  <2>6. OuterLoop'
    BY <1>0, <1>1, <2>1, <2>3 DEF OuterLoop, Matched
  <2>7. NoRepeats'
    BY <2>2, <2>4 DEF NoRepeats
  <2>8. ByTypeThenOrder'
    <3>1. TypeRank(p) = i
      <4>1. \A n \in 1 .. i - 1 : p \notin Candidates(Types[n])
        BY <1>0, <1>4 DEF OuterLoop
      <4>2. \A n \in 1 .. i - 1 : registry[p].trigger # Types[n]
        BY <1>0, <4>1 DEF Candidates
      <4>3. registry[p].trigger = Types[i]
        BY <1>0 DEF Candidates
      <4> QED
        BY <1>0, <4>2, <4>3 DEF TypeRank
    <3>2. ASSUME NEW n \in 1 .. l
          PROVE  \/ TypeRank(matches[n]) < i
                 \/ TypeRank(matches[n]) = i /\ Before(matches[n], p)
      <4> DEFINE q == matches[n]
      <4>1. q \in visited \/ \E k \in 1 .. i - 1 : q \in Candidates(Types[k])
        BY <2>2, <2>4, <3>2 DEF OuterLoop
      <4>2. CASE q \in visited
        <5>1. registry[q].trigger = Types[i] /\ Before(q, p)
          BY <1>0, <4>2 DEF InnerLoop, Candidates
        <5>2. TypeRank(q) <= i
          BY <1>0, <5>1 DEF TypeRank
        <5>3. TypeRank(q) \in 1 .. 3
          BY DEF TypeRank
        <5> QED
          BY <1>0, <5>1, <5>2, <5>3
      <4>3. CASE \E k \in 1 .. i - 1 : q \in Candidates(Types[k])
        <5>1. PICK k \in 1 .. i - 1 : registry[q].trigger = Types[k]
          BY <4>3 DEF Candidates
        <5>2. TypeRank(q) <= k
          BY <1>0, <5>1 DEF TypeRank
        <5>3. TypeRank(q) \in 1 .. 3
          BY DEF TypeRank
        <5> QED
          BY <1>0, <5>1, <5>2, <5>3
      <4> QED
        BY <4>1, <4>2, <4>3
    <3>3. ASSUME NEW m \in 1 .. l + 1, NEW n \in 1 .. l + 1, m < n
          PROVE  (\/ TypeRank(matches[m]) < TypeRank(matches[n])
                  \/ /\ TypeRank(matches[m]) = TypeRank(matches[n])
                     /\ Before(matches[m], matches[n]))'
      <4>1. CASE n = l + 1
        <5>1. m \in 1 .. l /\ matches'[m] = matches[m] /\ matches'[n] = p
          BY <2>2, <3>3, <4>1
        <5> QED
          BY <1>1, <3>1, <3>2, <5>1
      <4>2. CASE n \in 1 .. l
        <5>1. m \in 1 .. l /\ matches'[m] = matches[m] /\ matches'[n] = matches[n]
          BY <2>2, <3>3, <4>2
        <5> QED
          BY <1>1, <3>3, <4>2, <5>1 DEF ByTypeThenOrder
      <4> QED
        BY <2>2, <4>1, <4>2
    <3> QED
      BY <2>2, <3>3 DEF ByTypeThenOrder
  <2>9. RouteLoop'
    BY <1>0, <2>2 DEF RouteLoop
  <2> QED
    BY <1>2, <2>5, <2>6, <2>7, <2>8, <2>9
<1> QED
  BY <1>3, <1>4

\* The outer loop moves on when the inner one is through.
LEMMA NextTypeInv ==
    ASSUME IInv, NextType
    PROVE  IInv'
<1> USE DEF IInv
<1>0. /\ UNCHANGED <<registry, source, data, pc, matches, seen, j, best, queue>>
      /\ pc = "match" /\ i \in 1 .. 3 /\ i' = i + 1 /\ visited' = {}
      /\ Candidates(Types[i]) = visited
  <2>1. /\ UNCHANGED <<registry, source, data, pc, matches, seen, j, best, queue>>
        /\ pc = "match" /\ i <= 3 /\ i' = i + 1 /\ visited' = {}
        /\ Candidates(Types[i]) \subseteq visited
    BY DEF NextType, input
  <2>2. i \in 1 .. 3 /\ i < 4
    BY <2>1 DEF TypeOK
  <2>3. visited \subseteq Candidates(Types[i])
    BY <2>2 DEF InnerLoop
  <2> QED
    BY <2>1, <2>2, <2>3
<1>1. /\ Types' = Types /\ \A t : Candidates(t)' = Candidates(t)
      /\ \A m, n : Before(m, n)' = Before(m, n) /\ TypeRank(m)' = TypeRank(m)
  BY <1>0, SameInput DEF input
<1>2. TypeOK'
  BY <1>0 DEF TypeOK
<1>3. OuterLoop'
  <2>1. Listed' = Listed
    BY <1>0 DEF Listed
  <2>2. 1 .. i' - 1 = (1 .. i - 1) \cup {i}
    BY <1>0
  <2> QED
    BY <1>0, <1>1, <2>1, <2>2 DEF OuterLoop, Matched
<1>4. InnerLoop'
  BY <1>0, <1>1 DEF InnerLoop
<1>5. NoRepeats' /\ ByTypeThenOrder' /\ RouteLoop'
  BY <1>0, <1>1 DEF NoRepeats, ByTypeThenOrder, RouteLoop
<1> QED
  BY <1>2, <1>3, <1>4, <1>5

\* Steps that leave the matching alone: the start, the dispatch, the routing.
LEMMA RoutingInv ==
    ASSUME IInv, Match \/ Delay \/ Route \/ Send \/ (\E p \in Playbooks : SendOne(p))
    PROVE  IInv'
<1> USE DEF IInv
<1>0. UNCHANGED <<registry, source, data, i, visited, matches, seen>>
  BY DEF Match, Delay, Route, Send, SendOne, input
<1>1. /\ Types' = Types /\ \A t : Candidates(t)' = Candidates(t)
      /\ \A m, n : Before(m, n)' = Before(m, n) /\ TypeRank(m)' = TypeRank(m)
  BY <1>0, SameInput DEF input
<1>p. \A p \in DOMAIN registry : registry[p].priority \in Queues
  BY MatchAssumption DEF TypeOK, Queues
<1>2. Len(matches) \in Nat /\ \A n \in 1 .. Len(matches) : matches[n] \in DOMAIN registry
  BY DEF TypeOK
<1>3. TypeOK'
  <2>1. pc' \in {"start", "match", "route", "done", "manual"} /\ j' \in Nat \ {0}
    BY DEF Match, Delay, Route, Send, SendOne, TypeOK
  <2>2. best' \in Queues
    BY <1>p, <1>2 DEF Match, Delay, Route, Send, SendOne, TypeOK, QueueFor
  <2>3. queue' \subseteq Queues
    BY <1>p DEF Match, Delay, Route, Send, SendOne, TypeOK, QueueFor, Queues
  <2> QED
    BY <1>0, <2>1, <2>2, <2>3 DEF TypeOK
<1>4. OuterLoop'
  <2>1. Listed' = Listed
    BY <1>0 DEF Listed
  <2>2. Matched' => i = 4
    BY DEF Match, Delay, Route, Send, SendOne, Matched, OuterLoop, TypeOK
  <2> QED
    BY <1>0, <1>1, <2>1, <2>2 DEF OuterLoop
<1>5. InnerLoop'
  BY <1>0, <1>1 DEF InnerLoop
<1>6. NoRepeats' /\ ByTypeThenOrder'
  BY <1>0, <1>1 DEF NoRepeats, ByTypeThenOrder
<1>7. RouteLoop'
  <2>1. CASE Route
    <3>1. /\ j \in 1 .. Len(matches) /\ j' = j + 1 /\ UNCHANGED <<pc, queue>>
          /\ pc = "route" /\ matches[j] \in DOMAIN registry
          /\ best \in {"high", "default"} /\ 1 .. j' - 1 = (1 .. j - 1) \cup {j}
      BY <1>2, <2>1 DEF Route, TypeOK, RouteLoop
    <3>2. best' = IF registry[matches[j]].priority = "high" THEN "high" ELSE best
      <4>1. registry[matches[j]].priority \in Queues
        BY <1>p, <3>1
      <4> QED
        BY <2>1, <3>1, <4>1 DEF Route, QueueFor, Rank, Queues
    <3> QED
      BY <1>0, <1>2, <3>1, <3>2 DEF RouteLoop
  <2>2. CASE ~ Route
    BY <1>0, <1>2, <2>2 DEF Match, Delay, Send, SendOne, RouteLoop, TypeOK
  <2> QED
    BY <2>1, <2>2
<1> QED
  BY <1>3, <1>4, <1>5, <1>6, <1>7

\* Every step of the two loops keeps the invariant.
LEMMA IInvNext == IInv /\ [Next]_vars => IInv'
<1> SUFFICES ASSUME IInv, [Next]_vars PROVE IInv'
  OBVIOUS
<1>1. CASE Next
  BY <1>1, VisitInv, NextTypeInv, RoutingInv DEF Next
<1>2. CASE UNCHANGED vars
  <2>1. UNCHANGED <<registry, source, data, pc, i, visited, matches, seen, j, best, queue>>
    BY <1>2 DEF vars
  <2>2. /\ Types' = Types /\ \A t : Candidates(t)' = Candidates(t)
        /\ \A m, n : Before(m, n)' = Before(m, n) /\ TypeRank(m)' = TypeRank(m)
    BY <2>1, SameInput DEF input
  <2>3. Listed' = Listed /\ Matched' = Matched
    BY <2>1 DEF Listed, Matched
  <2> QED
    BY <2>1, <2>2, <2>3 DEF IInv, TypeOK, OuterLoop, InnerLoop, NoRepeats, ByTypeThenOrder,
                            RouteLoop
<1> QED
  BY <1>1, <1>2

\* The loop invariants hold in every reachable state.
THEOREM Invariance == Spec => []IInv
BY IInvInit, IInvNext, PTL DEF Spec

\* match() returns exactly the triggered playbooks, each once.
THEOREM MatchIsExact == Spec => []MatchExact
<1>1. IInv => MatchExact
  <2> SUFFICES ASSUME IInv, Matched PROVE MatchExact
    BY DEF MatchExact
  <2>1. i = 4 /\ visited = {}
    BY DEF IInv, OuterLoop, InnerLoop
  <2>2. 1 .. i - 1 = 1 .. 3
    BY <2>1
  <2>3. \A p \in DOMAIN registry : p \in Listed <=> p \in Triggered
    BY <2>1, <2>2, CandidatesTriggered DEF IInv, OuterLoop
  <2>4. Listed \subseteq DOMAIN registry /\ Triggered \subseteq DOMAIN registry
    BY DEF IInv, TypeOK, Listed, Triggered
  <2> QED
    BY <2>3, <2>4 DEF IInv, MatchExact, NoRepeats
<1> QED
  BY <1>1, Invariance, PTL

\* No sequence waits in a queue less urgent than that of one of its playbooks.
THEOREM SequencesUrgent == Spec => []NothingLingers
<1>1. IInv => NothingLingers
  <2> SUFFICES ASSUME IInv, pc = "done", NEW p \in Listed, NEW q \in queue
               PROVE  Rank(q) <= Rank(registry[p].priority)
    BY DEF NothingLingers
  <2>1. PICK n \in 1 .. Len(matches) : p = matches[n]
    BY DEF Listed
  <2>2. Len(matches) \in Nat /\ matches # <<>>
    BY <2>1 DEF IInv, TypeOK
  <2>3. j - 1 = Len(matches) /\ q = best
    BY <2>2 DEF IInv, RouteLoop, TypeOK
  <2>4. registry[p].priority \in Queues
    BY <2>1, MatchAssumption DEF IInv, TypeOK, Queues
  <2>5. CASE registry[p].priority = "high"
    <3>1. n \in 1 .. j - 1 /\ registry[matches[n]].priority = "high"
      BY <2>1, <2>3, <2>5
    <3>2. best = "high"
      BY <3>1 DEF IInv, RouteLoop
    <3> QED
      BY <2>3, <2>5, <3>2 DEF Rank
  <2>6. CASE registry[p].priority # "high"
    <3>1. Rank(q) <= 1
      BY <2>3 DEF IInv, RouteLoop, Rank
    <3>2. Rank(registry[p].priority) >= 1
      BY <2>4, <2>6 DEF Queues, Rank
    <3> QED
      BY <3>1, <3>2, <2>3, <2>4 DEF IInv, RouteLoop, Rank, Queues
  <2> QED
    BY <2>5, <2>6
<1> QED
  BY <1>1, Invariance, PTL
=============================================================================
