---------------------------- MODULE CaseWorkProofs ----------------------------
(***************************************************************************)
(* Proofs about CaseWork.                                                  *)
(***************************************************************************)
EXTENDS CaseWork, FiniteSetTheorems, SequenceTheorems, TLAPS

(***************************************************************************)
(* Sequences: the positions that Kept takes its elements from, and what    *)
(* concatenation and Kept do to the last element of some kind.             *)
(***************************************************************************)
IsSeq(s) == s \in Seq({s[n] : n \in DOMAIN s})

\* h takes the positions 1 .. Cardinality(keep) to those in keep, in order.
Order(h, keep) ==
    /\ Cardinality(keep) \in Nat
    /\ h \in [1 .. Cardinality(keep) -> keep]
    /\ \A n \in keep : \E k \in 1 .. Cardinality(keep) : h[k] = n
    /\ \A k, l \in 1 .. Cardinality(keep) : k < l <=> h[k] < h[l]

\* The elements of a finite set of positions can be put in order: each is
\* found by the number of those up to it.
LEMMA Ranked ==
  ASSUME NEW n \in Nat, NEW keep \in SUBSET (1 .. n)
  PROVE  Order([k \in 1 .. Cardinality(keep) |->
                  CHOOSE m \in keep : Cardinality({l \in keep : l <= m}) = k], keep)
<1> DEFINE upTo(m) == {l \in keep : l <= m}
           rank == [m \in keep |-> Cardinality(upTo(m))]
           K == 1 .. Cardinality(keep)
           h == [k \in K |-> CHOOSE m \in keep : Cardinality(upTo(m)) = k]
<1>1. IsFiniteSet(keep) /\ Cardinality(keep) \in Nat
  <2>1. IsFiniteSet(1 .. n)
    BY FS_Interval
  <2>2. IsFiniteSet(keep)
    BY <2>1, FS_Subset
  <2> QED
    BY <2>2, FS_CardinalityType
<1>2. ASSUME NEW m \in keep
      PROVE  Cardinality(upTo(m)) \in K
  <2>1. IsFiniteSet(upTo(m)) /\ Cardinality(upTo(m)) <= Cardinality(keep) /\ Cardinality(upTo(m)) \in Nat
    <3>1. upTo(m) \in SUBSET keep
      OBVIOUS
    <3> QED
      BY <3>1, <1>1, FS_Subset, FS_CardinalityType
  <2>2. upTo(m) # {}
    OBVIOUS
  <2>3. Cardinality(upTo(m)) # 0
    BY <2>1, <2>2, FS_EmptySet
  <2> HIDE DEF upTo
  <2> QED
    BY <2>1, <2>3, <1>1
<1>3. ASSUME NEW m \in keep, NEW l \in keep, m < l
      PROVE  Cardinality(upTo(m)) < Cardinality(upTo(l))
  <2>1. upTo(m) \in SUBSET upTo(l) /\ upTo(m) # upTo(l)
    <3>1. m \in Nat /\ l \in Nat /\ \A k \in keep : k \in Nat
      OBVIOUS
    <3>2. l \in upTo(l) /\ l \notin upTo(m)
      BY <1>3, <3>1
    <3>3. \A k \in keep : k <= m => k <= l
      BY <1>3, <3>1
    <3> QED
      BY <3>2, <3>3
  <2>2. upTo(l) \in SUBSET keep
    OBVIOUS
  <2>3. IsFiniteSet(upTo(l)) /\ IsFiniteSet(upTo(m))
    BY <1>1, <2>1, <2>2, FS_Subset
  <2>4. Cardinality(upTo(m)) \in Nat /\ Cardinality(upTo(l)) \in Nat
    BY <2>3, FS_CardinalityType
  <2>5. Cardinality(upTo(m)) <= Cardinality(upTo(l)) /\ Cardinality(upTo(m)) # Cardinality(upTo(l))
    BY <2>1, <2>3, FS_Subset
  <2> HIDE DEF upTo
  <2> QED
    BY <2>4, <2>5
<1> HIDE DEF upTo
<1>4. IsFiniteSet(K) /\ Cardinality(K) = Cardinality(keep)
  BY <1>1, FS_Interval
<1>5. rank \in Injection(keep, K)
  <2>1. rank \in [keep -> K]
    BY <1>2
  <2>2. \A m, l \in keep : rank[m] = rank[l] => m = l
    <3> SUFFICES ASSUME NEW m \in keep, NEW l \in keep, m # l
                 PROVE  rank[m] # rank[l]
      OBVIOUS
    <3>1. m < l \/ l < m
      OBVIOUS
    <3>2. Cardinality(upTo(m)) \in Int /\ Cardinality(upTo(l)) \in Int
      BY <1>2
    <3> QED
      BY <1>3, <3>1, <3>2
  <2> HIDE DEF rank, K
  <2> QED
    BY <2>1, <2>2 DEF Injection, IsInjective
<1>6. rank \in Surjection(keep, K)
  <2> HIDE DEF rank, K
  <2> QED
    BY <1>4, <1>5, FS_Injection
<1>7. \A k \in K : \E m \in keep : Cardinality(upTo(m)) = k
  BY <1>6 DEF Surjection
<1>8. \A k \in K : h[k] \in keep /\ Cardinality(upTo(h[k])) = k
  BY <1>7
<1>9. \A m \in keep : h[Cardinality(upTo(m))] = m
  <2> SUFFICES ASSUME NEW m \in keep
               PROVE  h[Cardinality(upTo(m))] = m
    OBVIOUS
  <2>1. PICK k \in K : k = Cardinality(upTo(m))
    BY <1>2
  <2>2. h[k] \in keep /\ Cardinality(upTo(h[k])) = Cardinality(upTo(m))
    BY <1>8, <2>1
  <2>3. rank[h[k]] = rank[m]
    BY <2>2
  <2> QED
    BY <1>5, <2>1, <2>2, <2>3 DEF Injection, IsInjective
<1>10. h \in [K -> keep]
  BY <1>8
<1>11. \A k, l \in K : k < l <=> h[k] < h[l]
  <2> SUFFICES ASSUME NEW k \in K, NEW l \in K
               PROVE  k < l <=> h[k] < h[l]
    OBVIOUS
  <2>1. h[k] \in 1 .. n /\ h[l] \in 1 .. n /\ h[k] \in keep /\ h[l] \in keep
    BY <1>8
  <2>2. Cardinality(upTo(h[k])) = k /\ Cardinality(upTo(h[l])) = l
    BY <1>8
  <2> HIDE DEF h
  <2>3. h[k] < h[l] => k < l
    BY <1>3, <2>1, <2>2
  <2>4. h[l] < h[k] => l < k
    BY <1>3, <2>1, <2>2
  <2>5. h[k] = h[l] => k = l
    BY <2>2
  <2> QED
    BY <2>1, <2>3, <2>4, <2>5
<1>12. \A m \in keep : \E k \in K : h[k] = m
  BY <1>2, <1>9
<1> QED
  <2> HIDE DEF h
  <2>1. Order(h, keep)
    BY <1>1, <1>10, <1>11, <1>12 DEF Order
  <2> QED
    BY <2>1 DEF h, upTo

\* Kept(s, keep) has at k what s has at h[k].
Picks(h, s, keep) ==
    /\ Order(h, keep)
    /\ DOMAIN Kept(s, keep) = 1 .. Cardinality(keep)
    /\ \A k \in DOMAIN Kept(s, keep) : Kept(s, keep)[k] = s[h[k]]

LEMMA KeptInOrder ==
  ASSUME NEW n \in Nat, NEW s, DOMAIN s = 1 .. n, NEW keep \in SUBSET (1 .. n)
  PROVE  /\ IsSeq(Kept(s, keep))
         /\ Len(Kept(s, keep)) = Cardinality(keep)
         /\ \E h : Picks(h, s, keep)
<1> DEFINE K == 1 .. Cardinality(keep)
           h == [k \in K |-> CHOOSE m \in keep : Cardinality({l \in keep : l <= m}) = k]
           t == Kept(s, keep)
<1>1. Order(h, keep)
  BY Ranked
<1>2. t = [k \in K |-> s[h[k]]]
  BY DEF Kept
<1> HIDE DEF h, t
<1>3. DOMAIN t = K /\ \A k \in K : t[k] = s[h[k]]
  BY <1>2
<1>4. Cardinality(keep) \in Nat
  BY <1>1 DEF Order
<1>5. t \in [K -> {t[m] : m \in DOMAIN t}]
  BY <1>2, <1>3
<1>6. IsSeq(t) /\ Len(t) = Cardinality(keep)
  BY <1>3, <1>4, <1>5 DEF IsSeq
<1> QED
  BY <1>1, <1>3, <1>6 DEF t, Picks

LEMMA SeqFacts ==
  ASSUME NEW s, IsSeq(s)
  PROVE  Len(s) \in Nat /\ DOMAIN s = 1 .. Len(s)
BY DEF IsSeq

LEMMA ConcatSeq ==
  ASSUME NEW s, NEW t, IsSeq(s), IsSeq(t)
  PROVE  /\ IsSeq(s \o t)
         /\ Len(s \o t) = Len(s) + Len(t)
         /\ DOMAIN (s \o t) = 1 .. (Len(s) + Len(t))
         /\ \A n \in 1 .. (Len(s) + Len(t)) :
               (s \o t)[n] = IF n <= Len(s) THEN s[n] ELSE t[n - Len(s)]
<1> DEFINE S == {s[n] : n \in DOMAIN s} \cup {t[n] : n \in DOMAIN t}
           u == s \o t
<1>1. s \in Seq(S) /\ t \in Seq(S)
  BY SeqMonotonic DEF IsSeq
<1> HIDE DEF S
<1>2. /\ u \in Seq(S)
      /\ Len(u) = Len(s) + Len(t)
      /\ \A n \in 1 .. (Len(s) + Len(t)) : u[n] = IF n <= Len(s) THEN s[n] ELSE t[n - Len(s)]
  BY <1>1, ConcatProperties
<1> HIDE DEF u
<1>3. Len(u) \in Nat /\ u \in [1 .. Len(u) -> S] /\ DOMAIN u = 1 .. Len(u)
  BY <1>2, LenProperties
<1>4. u \in [1 .. Len(u) -> {u[n] : n \in DOMAIN u}]
  BY <1>3
<1>5. IsSeq(u)
  BY <1>3, <1>4 DEF IsSeq
<1> QED
  BY <1>2, <1>3, <1>5 DEF u

(***************************************************************************)
(* The activities after a COMMIT: h gives the place each of them had in    *)
(* the old ones followed by those of the session.                          *)
(***************************************************************************)
Fields == {"alert", "incident", "kind", "old", "new", "at", "archived"}

IsEntry(e) == DOMAIN e = Fields /\ e.at \in Nat /\ e.archived \in Nat

IsLog(log) == IsSeq(log) /\ \A n \in DOMAIN log : IsEntry(log[n]) /\ log[n].at = 0 /\ log[n].archived = 0

Follows(new, old, log, gone, day, h) ==
    /\ IsSeq(new)
    /\ h \in [DOMAIN new -> 1 .. (Len(old) + Len(log))]
    /\ \A k, l \in DOMAIN new : k < l <=> h[k] < h[l]
    /\ \A k \in DOMAIN new : new[k] = IF h[k] <= Len(old) THEN old[h[k]]
                                      ELSE [log[h[k] - Len(old)] EXCEPT !.at = day]
    /\ \A n \in DOMAIN old : Refers(old[n]) \cap gone = {} => \E k \in DOMAIN new : h[k] = n
    /\ \A n \in DOMAIN log : Refers(log[n]) \cap gone = {} => \E k \in DOMAIN new : h[k] = Len(old) + n
    /\ \A k \in DOMAIN new : Refers(new[k]) \cap gone = {}

LEMMA ActsFollow ==
  ASSUME IsSeq(acts), NEW log, IsLog(log), NEW gone
  PROVE  \E h : Follows(ActsWithout(acts \o Stamped(log), gone), acts, log, gone, now, h)
<1> DEFINE st == Stamped(log)
           all == acts \o st
           N == Len(acts) + Len(log)
           keep == {n \in DOMAIN all : Refers(all[n]) \cap gone = {}}
           new == Kept(all, keep)
<1>1. Len(acts) \in Nat /\ DOMAIN acts = 1 .. Len(acts) /\ Len(log) \in Nat /\ DOMAIN log = 1 .. Len(log)
  BY SeqFacts DEF IsLog
<1>2. /\ DOMAIN st = 1 .. Len(log) /\ IsSeq(st) /\ Len(st) = Len(log)
      /\ \A n \in 1 .. Len(log) : st[n] = [log[n] EXCEPT !.at = now]
  <2>1. st = [n \in 1 .. Len(log) |-> [log[n] EXCEPT !.at = now]]
    BY <1>1 DEF Stamped
  <2> HIDE DEF st
  <2>2. DOMAIN st = 1 .. Len(log) /\ \A n \in 1 .. Len(log) : st[n] = [log[n] EXCEPT !.at = now]
    BY <2>1
  <2>3. st \in [1 .. Len(log) -> {st[n] : n \in DOMAIN st}]
    BY <2>1, <2>2
  <2> QED
    BY <1>1, <2>2, <2>3 DEF IsSeq
<1>3. \A n \in 1 .. Len(log) : Refers(st[n]) = Refers(log[n])
  BY <1>2, <1>1 DEF Refers, IsLog, IsEntry, Fields
<1> HIDE DEF st
<1>4. /\ N \in Nat /\ DOMAIN all = 1 .. N
      /\ \A n \in 1 .. N : all[n] = IF n <= Len(acts) THEN acts[n] ELSE st[n - Len(acts)]
  BY <1>1, <1>2, ConcatSeq
<1> HIDE DEF all
<1>5. keep \in SUBSET (1 .. N)
  BY <1>4
<1>6. \A n \in 1 .. N : n \in keep <=> Refers(all[n]) \cap gone = {}
  BY <1>4
<1> HIDE DEF keep
<1>7. PICK h : Picks(h, all, keep)
  BY <1>4, <1>5, KeptInOrder
<1>8. IsSeq(new)
  BY <1>4, <1>5, KeptInOrder
<1>9. new = ActsWithout(acts \o Stamped(log), gone)
  BY DEF ActsWithout, keep, all, st
<1> HIDE DEF new
<1>10. h \in [DOMAIN new -> keep] /\ (\A n \in keep : \E k \in DOMAIN new : h[k] = n)
       /\ (\A k, l \in DOMAIN new : k < l <=> h[k] < h[l])
  BY <1>7 DEF Order, Picks, new
<1>11. \A k \in DOMAIN new : h[k] \in 1 .. N /\ h[k] \in keep
  BY <1>5, <1>10
<1>12. \A k \in DOMAIN new : new[k] = IF h[k] <= Len(acts) THEN acts[h[k]]
                                      ELSE [log[h[k] - Len(acts)] EXCEPT !.at = now]
  <2> SUFFICES ASSUME NEW k \in DOMAIN new
               PROVE  new[k] = IF h[k] <= Len(acts) THEN acts[h[k]]
                               ELSE [log[h[k] - Len(acts)] EXCEPT !.at = now]
    OBVIOUS
  <2>1. new[k] = IF h[k] <= Len(acts) THEN acts[h[k]] ELSE st[h[k] - Len(acts)]
    BY <1>4, <1>7, <1>11 DEF Picks, new
  <2>2. h[k] > Len(acts) => h[k] - Len(acts) \in 1 .. Len(log)
    BY <1>1, <1>11
  <2>3. h[k] \in Int
    BY <1>11
  <2> QED
    BY <1>1, <1>2, <2>1, <2>2, <2>3
<1>13. \A n \in DOMAIN acts : Refers(acts[n]) \cap gone = {} => \E k \in DOMAIN new : h[k] = n
  BY <1>1, <1>4, <1>6, <1>10
<1>14. \A n \in DOMAIN log : Refers(log[n]) \cap gone = {} => \E k \in DOMAIN new : h[k] = Len(acts) + n
  <2> SUFFICES ASSUME NEW n \in DOMAIN log, Refers(log[n]) \cap gone = {}
               PROVE  \E k \in DOMAIN new : h[k] = Len(acts) + n
    OBVIOUS
  <2>1. Len(acts) + n \in 1 .. N /\ ~(Len(acts) + n <= Len(acts)) /\ (Len(acts) + n) - Len(acts) = n
    BY <1>1
  <2>2. all[Len(acts) + n] = st[n]
    BY <1>4, <2>1
  <2> QED
    BY <1>1, <1>3, <1>6, <1>10, <2>1, <2>2
<1>15. \A k \in DOMAIN new : Refers(new[k]) \cap gone = {}
  BY <1>4, <1>6, <1>7, <1>11 DEF Picks, new
<1>16. h \in [DOMAIN new -> 1 .. N]
  BY <1>10, <1>11
<1>17. Follows(new, acts, log, gone, now, h)
  BY <1>8, <1>10, <1>12, <1>13, <1>14, <1>15, <1>16 DEF Follows
<1> QED
  BY <1>9, <1>17

(***************************************************************************)
(* Rows, entries and sessions.                                             *)
(***************************************************************************)
Cols == {"status", "determination", "severity", "assigned", "stamp", "archived", "created"}

IsRow(r) ==
    /\ DOMAIN r = Cols
    /\ r.stamp \in Nat /\ r.archived \in Nat /\ r.created \in Nat
    /\ r.stamp # 0 => r.created <= r.stamp

SessionFields == {"pc", "snap", "want", "fresh", "log", "link", "unlink", "drop", "then"}

\* A session of call c: it loads and sets whole rows, never when they were
\* created or archived, inserts at most the row c and deletes alerts only.
WellFormed(c, s) ==
    /\ DOMAIN s = SessionFields
    /\ IsLog(s.log)
    /\ DOMAIN s.want = DOMAIN s.snap
    /\ \A id \in DOMAIN s.want :
          /\ IsRow(s.snap[id]) /\ IsRow(s.want[id])
          /\ s.want[id].created = s.snap[id].created
          /\ s.want[id].archived = s.snap[id].archived
    /\ DOMAIN s.fresh \subseteq {c} \cap Calls
    /\ \A id \in DOMAIN s.fresh : IsRow(s.fresh[id]) /\ s.fresh[id].archived = 0
    /\ s.drop \subseteq Alerts

LEMMA SessionFacts ==
  /\ DOMAIN Session = SessionFields
  /\ Session.pc = "loaded" /\ Session.snap = Nothing /\ Session.want = Nothing
  /\ Session.fresh = Nothing /\ Session.log = <<>> /\ Session.link = {}
  /\ Session.unlink = {} /\ Session.drop = {} /\ Session.then = <<>>
BY DEF Session, SessionFields

LEMMA NothingFacts == DOMAIN Nothing = {}
BY DEF Nothing

LEMMA EmptyLog == IsLog(<<>>) /\ DOMAIN <<>> = {} /\ IsSeq(<<>>)
BY DEF IsLog, IsSeq

HasEntry(e, a, i, kind, old, new) ==
    /\ IsEntry(e) /\ e.alert = a /\ e.incident = i /\ e.kind = kind /\ e.old = old /\ e.new = new
    /\ e.at = 0 /\ e.archived = 0

LEMMA EntryFacts ==
  ASSUME NEW a, NEW i, NEW kind, NEW old, NEW new
  PROVE  HasEntry(Entry(a, i, kind, old, new), a, i, kind, old, new)
BY DEF Entry, IsEntry, Fields, HasEntry

LEMMA SingleLog ==
  ASSUME NEW e, IsEntry(e), e.at = 0, e.archived = 0
  PROVE  IsLog(<<e>>) /\ DOMAIN <<e>> = {1} /\ Len(<<e>>) = 1 /\ <<e>>[1] = e
BY DEF IsLog, IsSeq

LEMMA RowFacts ==
  /\ IsRow(NewAlert) /\ NewAlert.archived = 0 /\ NewAlert.created = 1
  /\ NewAlert.status = "new" /\ NewAlert.determination = "unknown"
  /\ \A sev, day : day \in Nat =>
        LET r == NewIncident(sev, day)
        IN  IsRow(r) /\ r.archived = 0 /\ r.created = day
BY DEF NewAlert, NewIncident, IsRow, Cols

LEMMA IdleWellFormed == \A c : WellFormed(c, Session) /\ WellFormed(c, IdleCall)
BY SessionFacts, NothingFacts, EmptyLog DEF WellFormed, IdleCall, SessionFields

LEMMA MergedRow ==
  ASSUME NEW cur, NEW snap, NEW want, IsRow(cur), IsRow(snap), IsRow(want),
         want.archived = snap.archived, want.created = snap.created, snap.created = cur.created
  PROVE  LET m == Merge(cur, snap, want)
         IN  /\ IsRow(m) /\ m.archived = cur.archived /\ m.created = cur.created
             /\ \A f \in Cols : m[f] = IF want[f] # snap[f] THEN want[f] ELSE cur[f]
<1> DEFINE m == Merge(cur, snap, want)
<1>1. DOMAIN m = Cols /\ \A f \in Cols : m[f] = IF want[f] # snap[f] THEN want[f] ELSE cur[f]
  BY DEF Merge, IsRow
<1> HIDE DEF m
<1>2. m.archived = cur.archived /\ m.created = cur.created /\ m.stamp \in {want.stamp, cur.stamp}
  BY <1>1 DEF Cols
<1>3. IsRow(m)
  BY <1>1, <1>2 DEF IsRow
<1> QED
  BY <1>1, <1>2, <1>3 DEF m

\* A session that updates one row and logs.
RowSession(id, row, want, log) ==
    [Session EXCEPT !.snap = [x \in {id} |-> row], !.want = [x \in {id} |-> want], !.log = log]

HasRow(s, id, row, want, log) ==
    /\ DOMAIN s = SessionFields
    /\ s.pc = "loaded" /\ s.log = log /\ DOMAIN s.want = {id} /\ DOMAIN s.snap = {id}
    /\ s.snap[id] = row /\ s.want[id] = want
    /\ s.fresh = Nothing /\ s.link = {} /\ s.unlink = {} /\ s.drop = {} /\ s.then = <<>>

LEMMA RowWellFormed ==
  ASSUME NEW c, NEW id, NEW row, NEW want, NEW log, NEW s, HasRow(s, id, row, want, log),
         IsRow(row), IsRow(want), IsLog(log),
         want.created = row.created, want.archived = row.archived
  PROVE  WellFormed(c, s)
BY NothingFacts DEF WellFormed, HasRow

LEMMA OneRow ==
  ASSUME NEW c, NEW id, NEW row, NEW want, NEW log,
         IsRow(row), IsRow(want), IsLog(log),
         want.created = row.created, want.archived = row.archived
  PROVE  WellFormed(c, RowSession(id, row, want, log)) /\ HasRow(RowSession(id, row, want, log), id, row, want, log)
<1> DEFINE sn == [x \in {id} |-> row]
           wa == [x \in {id} |-> want]
           s == [Session EXCEPT !.snap = sn, !.want = wa, !.log = log]
<1>1. DOMAIN sn = {id} /\ sn[id] = row /\ DOMAIN wa = {id} /\ wa[id] = want
  OBVIOUS
<1> HIDE DEF sn, wa
<1>2. /\ DOMAIN s = SessionFields /\ s.snap = sn /\ s.want = wa /\ s.log = log /\ s.pc = "loaded"
      /\ s.fresh = Nothing /\ s.link = {} /\ s.unlink = {} /\ s.drop = {} /\ s.then = <<>>
  BY SessionFacts DEF SessionFields
<1> HIDE DEF s
<1>3. HasRow(s, id, row, want, log)
  BY <1>1, <1>2 DEF HasRow
<1>4. WellFormed(c, s)
  BY <1>3, RowWellFormed
<1> QED
  BY <1>3, <1>4 DEF RowSession, s, sn, wa

(***************************************************************************)
(* What the activities of a session say about the rows it writes.          *)
(***************************************************************************)
QuietEntry(e) ==
    \/ e.kind \in {"claimed", "ai_escalated", "endpoint_isolated", "ai_endpoint_assessment",
                   "ai_threat_hunt_report"}
    \/ e.kind = "assigned" /\ e.new = "playbook"

\* The entries of a kind about a row; about is the column that refers to it.
SaidOf(log, about, id, kind) ==
    {n \in DOMAIN log : log[n].kind = kind /\ log[n][about] = id}

\* A column is written exactly when an entry says so, and as the last one says.
Spoken(s, about, id, f, kind) ==
    LET said == SaidOf(s.log, about, id, kind)
    IN  \/ /\ id \in DOMAIN s.want /\ s.want[id][f] # s.snap[id][f]
           /\ \E n \in said : s.log[n].new = s.want[id][f] /\ \A m \in said : m <= n
        \/ /\ said = {}
           /\ id \in DOMAIN s.want => s.want[id][f] = s.snap[id][f]

TrailCols == {"status", "severity", "assigned"}
TrailKind == [status |-> "status_change", severity |-> "severity_change", assigned |-> "assigned"]

AlertSaid(s) ==
    \A a \in Alerts :
        \/ Spoken(s, "alert", a, "status", "status_change")
        \/ /\ a \in DOMAIN s.want /\ SaidOf(s.log, "alert", a, "status_change") = {}
           /\ s.want[a].status = "in_progress"
           /\ \E n \in DOMAIN s.log : s.log[n].alert = a /\ QuietEntry(s.log[n])

IncidentSaid(s) ==
    \A i \in RowIds \ Alerts : \A f \in TrailCols : Spoken(s, "incident", i, f, TrailKind[f])

\* Only an alert of known determination is resolved, and setting it back to
\* unknown leaves an entry.
DeterminationSaid(s) ==
    \A a \in Alerts \cap DOMAIN s.want :
        /\ s.want[a].status = "resolved" /\ s.snap[a].status # "resolved"
             => s.want[a].determination # "unknown"
        /\ s.want[a].determination = "unknown" /\ s.snap[a].determination # "unknown"
             => \E n \in DOMAIN s.log :
                   /\ s.log[n].kind \in {"determination_set", "ai_escalated"}
                   /\ s.log[n].alert = a /\ s.log[n].new = "unknown"

\* Only a call logs a creation, of its own incident, with the version of the
\* template whose playbooks it will dispatch.
CreationSaid(c, s) ==
    \A n \in DOMAIN s.log : s.log[n].kind = "incident_created" =>
        /\ s.log[n].incident = c
        /\ \A v \in Versions : s.log[n].new = v.name => s.then = v.playbooks

ResolutionSaid(s) ==
    \A n \in DOMAIN s.log : s.log[n].kind = "ai_auto_resolved" =>
        s.log[n].alert \in DOMAIN s.want /\ s.want[s.log[n].alert].status = "resolved"

LinkKinds == {"incident_linked", "alert_linked"}
PairOf(e) == <<e.incident, e.alert>>

\* Only a call inserts a link, with one entry, or deletes one, with one entry.
LinksSaid(c, s) ==
    \/ /\ s.link = {} /\ s.unlink = {}
       /\ \A n \in DOMAIN s.log : s.log[n].kind \notin LinkKinds \cup {"alert_unlinked"}
    \/ \E i \in RowIds \ Alerts, a \in Alerts :
          /\ c \in Calls
          /\ s.link = {[by |-> c, incident |-> i, alert |-> a]} /\ s.unlink = {}
          /\ \A n \in DOMAIN s.log : s.log[n].kind # "alert_unlinked"
          /\ \E n \in DOMAIN s.log :
                /\ s.log[n].incident = i /\ s.log[n].alert = a
                /\ \A m \in DOMAIN s.log : s.log[m].kind \in LinkKinds <=> m = n
    \/ \E l : /\ s.link = {} /\ s.unlink = {l}
              /\ \A n \in DOMAIN s.log : s.log[n].kind \notin LinkKinds
              /\ \E n \in DOMAIN s.log :
                    /\ s.log[n].incident = l.incident /\ s.log[n].alert = l.alert
                    /\ \A m \in DOMAIN s.log : s.log[m].kind = "alert_unlinked" <=> m = n

Placed(e) == e.alert \in Alerts \cup {NoRow} /\ e.incident \in (RowIds \ Alerts) \cup {NoRow}

TrailKinds == {"status_change", "severity_change", "assigned"}

\* An entry refers to an alert, to an incident, or to both where it is about a link.
Addressed(s) ==
    \A n \in DOMAIN s.log :
        /\ Placed(s.log[n])
        /\ s.log[n].kind \in TrailKinds => s.log[n].alert = NoRow \/ s.log[n].incident = NoRow

SessionOK(c, s) ==
    /\ WellFormed(c, s) /\ AlertSaid(s) /\ IncidentSaid(s) /\ DeterminationSaid(s)
    /\ CreationSaid(c, s) /\ ResolutionSaid(s) /\ LinksSaid(c, s) /\ Addressed(s)

(***************************************************************************)
(* Logs that are put together from optional entries.                       *)
(***************************************************************************)
About(log, a, i) == IsLog(log) /\ \A n \in DOMAIN log : log[n].alert = a /\ log[n].incident = i

Kinded(log, kinds) == \A n \in DOMAIN log : log[n].kind \in kinds

Mute(log, k) == \A n \in DOMAIN log : log[n].kind # k

Once(log, k, v) ==
    \E n \in DOMAIN log : /\ log[n].kind = k /\ log[n].new = v
                          /\ \A m \in DOMAIN log : log[m].kind = k => m = n

LEMMA ConcatAbout ==
  ASSUME NEW s, NEW t, NEW a, NEW i, About(s, a, i), About(t, a, i), NEW K, Kinded(s, K), Kinded(t, K)
  PROVE  /\ About(s \o t, a, i) /\ Kinded(s \o t, K)
         /\ \A k : Mute(s, k) /\ Mute(t, k) => Mute(s \o t, k)
         /\ \A k, v : (Once(s, k, v) /\ Mute(t, k)) \/ (Mute(s, k) /\ Once(t, k, v)) => Once(s \o t, k, v)
<1> DEFINE u == s \o t
<1>1. /\ IsSeq(s) /\ IsSeq(t) /\ Len(s) \in Nat /\ DOMAIN s = 1 .. Len(s)
      /\ Len(t) \in Nat /\ DOMAIN t = 1 .. Len(t)
  BY SeqFacts DEF About, IsLog
<1>2. /\ IsSeq(u) /\ DOMAIN u = 1 .. (Len(s) + Len(t))
      /\ \A n \in 1 .. (Len(s) + Len(t)) : u[n] = IF n <= Len(s) THEN s[n] ELSE t[n - Len(s)]
  BY <1>1, ConcatSeq
<1> HIDE DEF u
<1>3. \A n \in DOMAIN u : \/ n \in DOMAIN s /\ u[n] = s[n]
                          \/ n - Len(s) \in DOMAIN t /\ u[n] = t[n - Len(s)] /\ n > Len(s)
  BY <1>1, <1>2
<1>4. \A n \in DOMAIN s : n \in DOMAIN u /\ u[n] = s[n]
  BY <1>1, <1>2
<1>5. \A n \in DOMAIN t : Len(s) + n \in DOMAIN u /\ u[Len(s) + n] = t[n]
  <2> SUFFICES ASSUME NEW n \in DOMAIN t
               PROVE  Len(s) + n \in DOMAIN u /\ u[Len(s) + n] = t[n]
    OBVIOUS
  <2>1. Len(s) + n \in 1 .. (Len(s) + Len(t)) /\ ~(Len(s) + n <= Len(s)) /\ (Len(s) + n) - Len(s) = n
    BY <1>1
  <2> QED
    BY <1>2, <2>1
<1>6. About(u, a, i) /\ Kinded(u, K)
  BY <1>2, <1>3 DEF About, IsLog, Kinded
<1>7. \A k : Mute(s, k) /\ Mute(t, k) => Mute(u, k)
  BY <1>3 DEF Mute
<1>8. ASSUME NEW k, NEW v, Once(s, k, v), Mute(t, k)
      PROVE  Once(u, k, v)
  <2>1. PICK n \in DOMAIN s : /\ s[n].kind = k /\ s[n].new = v
                              /\ \A m \in DOMAIN s : s[m].kind = k => m = n
    BY <1>8 DEF Once
  <2>2. \A m \in DOMAIN u : u[m].kind = k => m = n
    BY <1>3, <1>8, <2>1 DEF Mute
  <2> QED
    BY <1>4, <2>1, <2>2 DEF Once
<1>9. ASSUME NEW k, NEW v, Mute(s, k), Once(t, k, v)
      PROVE  Once(u, k, v)
  <2>1. PICK n \in DOMAIN t : /\ t[n].kind = k /\ t[n].new = v
                              /\ \A m \in DOMAIN t : t[m].kind = k => m = n
    BY <1>9 DEF Once
  <2>2. \A m \in DOMAIN u : u[m].kind = k => m = Len(s) + n
    <3> SUFFICES ASSUME NEW m \in DOMAIN u, u[m].kind = k
                 PROVE  m = Len(s) + n
      OBVIOUS
    <3>1. m - Len(s) \in DOMAIN t /\ u[m] = t[m - Len(s)]
      BY <1>3, <1>9 DEF Mute
    <3>2. m - Len(s) = n
      BY <2>1, <3>1
    <3> QED
      BY <1>1, <1>2, <3>1, <3>2
  <2> QED
    BY <1>5, <2>1, <2>2 DEF Once
<1> QED
  BY <1>6, <1>7, <1>8, <1>9 DEF u

LEMMA OneEntry ==
  ASSUME NEW a, NEW i, NEW kind, NEW old, NEW new
  PROVE  LET log == <<Entry(a, i, kind, old, new)>>
         IN  /\ About(log, a, i) /\ Kinded(log, {kind}) /\ Once(log, kind, new)
             /\ \A k : k # kind => Mute(log, k)
             /\ 1 \in DOMAIN log /\ log[1] = Entry(a, i, kind, old, new)
<1> DEFINE e == Entry(a, i, kind, old, new)
<1>1. /\ IsEntry(e) /\ e.alert = a /\ e.incident = i /\ e.kind = kind
      /\ e.new = new /\ e.at = 0 /\ e.archived = 0
  BY EntryFacts DEF HasEntry
<1> HIDE DEF e
<1>2. IsLog(<<e>>) /\ DOMAIN <<e>> = {1} /\ <<e>>[1] = e
  BY <1>1, SingleLog
<1>3. About(<<e>>, a, i) /\ Kinded(<<e>>, {kind}) /\ Once(<<e>>, kind, new) /\ \A k : k # kind => Mute(<<e>>, k)
  BY <1>1, <1>2 DEF About, Kinded, Once, Mute
<1> QED
  BY <1>2, <1>3 DEF e

LEMMA NoEntry ==
  /\ \A a, i : About(<<>>, a, i)
  /\ \A K : Kinded(<<>>, K)
  /\ \A k : Mute(<<>>, k)
BY EmptyLog DEF About, Kinded, Mute

LEMMA ChangeLogSays ==
  ASSUME NEW a, NEW i, NEW row, NEW patch, NEW f, NEW kind
  PROVE  LET log == ChangeLog(a, i, row, patch, f, kind)
         IN  /\ About(log, a, i) /\ Kinded(log, {kind})
             /\ \A k : k # kind => Mute(log, k)
             /\ IF f \in DOMAIN patch /\ patch[f] # row[f] THEN Once(log, kind, patch[f]) ELSE Mute(log, kind)
<1>1. CASE f \in DOMAIN patch /\ patch[f] # row[f]
  <2>1. ChangeLog(a, i, row, patch, f, kind) = <<Entry(a, i, kind, row[f], patch[f])>>
    BY <1>1 DEF ChangeLog
  <2> QED
    BY <1>1, <2>1, OneEntry
<1>2. CASE ~(f \in DOMAIN patch /\ patch[f] # row[f])
  <2>1. ChangeLog(a, i, row, patch, f, kind) = <<>>
    BY <1>2 DEF ChangeLog
  <2> QED
    BY <1>2, <2>1, NoEntry
<1> QED
  BY <1>1, <1>2

(***************************************************************************)
(* Sessions of the handlers.                                               *)
(***************************************************************************)
\* Kinds of entries about an alert alone that come with the writing of its row.
RowKinds == {"status_change", "determination_set", "severity_change", "assigned", "claimed", "ai_escalated",
             "endpoint_isolated", "ai_endpoint_assessment", "ai_threat_hunt_report", "ai_auto_resolved"}

\* What is set on one row and logged, apart from when it is.
RowSaid(row, want, log) ==
    /\ \/ want.status = row.status /\ Mute(log, "status_change")
       \/ want.status # row.status /\ Once(log, "status_change", want.status)
       \/ /\ want.status = "in_progress" /\ Mute(log, "status_change")
          /\ \E n \in DOMAIN log : QuietEntry(log[n])
    /\ want.status = "resolved" /\ row.status # "resolved" => want.determination # "unknown"
    /\ want.determination = "unknown" /\ row.determination # "unknown"
         => \E n \in DOMAIN log : /\ log[n].kind \in {"determination_set", "ai_escalated"}
                                  /\ log[n].new = "unknown"
    /\ want.status = "resolved" \/ Mute(log, "ai_auto_resolved")

LEMMA AlertSession ==
  ASSUME NEW c, NEW a \in Alerts, NEW row, NEW want, NEW log,
         IsRow(row), IsRow(want), want.created = row.created, want.archived = row.archived,
         About(log, a, NoRow), Kinded(log, RowKinds), RowSaid(row, want, log),
         NEW s, HasRow(s, a, row, want, log)
  PROVE  SessionOK(c, s)
<1>1. /\ WellFormed(c, s)
      /\ s.log = log /\ DOMAIN s.want = {a} /\ s.snap[a] = row /\ s.want[a] = want
      /\ s.link = {} /\ s.unlink = {}
  <2>1. IsLog(log)
    BY DEF About
  <2>2. WellFormed(c, s)
    BY <2>1, RowWellFormed
  <2> QED
    BY <2>2 DEF HasRow
<1>2. \A n \in DOMAIN log : log[n].alert = a /\ log[n].incident = NoRow /\ log[n].kind \in RowKinds
  BY DEF About, Kinded
<1>3. NoRow \notin RowIds
  BY IdAssumption
<1>4. AlertSaid(s)
  <2> SUFFICES ASSUME NEW b \in Alerts
               PROVE  \/ Spoken(s, "alert", b, "status", "status_change")
                      \/ /\ b \in DOMAIN s.want /\ SaidOf(s.log, "alert", b, "status_change") = {}
                         /\ s.want[b].status = "in_progress"
                         /\ \E n \in DOMAIN s.log : s.log[n].alert = b /\ QuietEntry(s.log[n])
    BY DEF AlertSaid
  <2>1. CASE b # a
    <3>1. SaidOf(s.log, "alert", b, "status_change") = {}
      BY <1>1, <1>2, <2>1 DEF SaidOf
    <3> QED
      BY <1>1, <2>1, <3>1 DEF Spoken
  <2>2. CASE b = a
    <3>1. SaidOf(s.log, "alert", a, "status_change") = {n \in DOMAIN log : log[n].kind = "status_change"}
      BY <1>1, <1>2 DEF SaidOf
    <3>2. CASE want.status = row.status /\ Mute(log, "status_change")
      BY <1>1, <2>2, <3>1, <3>2 DEF Spoken, Mute
    <3>3. CASE want.status # row.status /\ Once(log, "status_change", want.status)
      <4>1. PICK n \in DOMAIN log : /\ log[n].kind = "status_change" /\ log[n].new = want.status
                                    /\ \A m \in DOMAIN log : log[m].kind = "status_change" => m = n
        BY <3>3 DEF Once
      <4>2. n \in Nat
        BY SeqFacts DEF About, IsLog
      <4> QED
        BY <1>1, <2>2, <3>1, <3>3, <4>1, <4>2 DEF Spoken
    <3>4. CASE want.status = "in_progress" /\ Mute(log, "status_change") /\ \E n \in DOMAIN log : QuietEntry(log[n])
      BY <1>1, <1>2, <2>2, <3>1, <3>4 DEF Mute
    <3> QED
      BY <3>2, <3>3, <3>4 DEF RowSaid
  <2> QED
    BY <2>1, <2>2
<1>5. IncidentSaid(s)
  <2> SUFFICES ASSUME NEW i \in RowIds \ Alerts, NEW f \in TrailCols
               PROVE  Spoken(s, "incident", i, f, TrailKind[f])
    BY DEF IncidentSaid
  <2>1. SaidOf(s.log, "incident", i, TrailKind[f]) = {}
    BY <1>1, <1>2, <1>3 DEF SaidOf
  <2> QED
    BY <1>1, <2>1 DEF Spoken
<1>6. DeterminationSaid(s)
  BY <1>1, <1>2 DEF DeterminationSaid, RowSaid
<1>7. CreationSaid(c, s)
  BY <1>1, <1>2 DEF CreationSaid, RowKinds
<1>8. ResolutionSaid(s)
  BY <1>1, <1>2 DEF ResolutionSaid, RowSaid, Mute
<1>9. LinksSaid(c, s)
  BY <1>1, <1>2 DEF LinksSaid, RowKinds, LinkKinds
<1>10. Addressed(s)
  BY <1>1, <1>2 DEF Addressed, Placed
<1> QED
  BY <1>1, <1>4, <1>5, <1>6, <1>7, <1>8, <1>9, <1>10 DEF SessionOK

\* The same for an incident: every change of a column has its entry.
LEMMA IncidentSession ==
  ASSUME NEW c, NEW i \in RowIds \ Alerts, NEW row, NEW want, NEW log,
         IsRow(row), IsRow(want), want.created = row.created, want.archived = row.archived,
         About(log, NoRow, i), Kinded(log, {"status_change", "severity_change", "assigned"}),
         \A f \in TrailCols : \/ want[f] = row[f] /\ Mute(log, TrailKind[f])
                              \/ want[f] # row[f] /\ Once(log, TrailKind[f], want[f])
  PROVE  SessionOK(c, RowSession(i, row, want, log))
<1> DEFINE s == RowSession(i, row, want, log)
<1>1. /\ WellFormed(c, s)
      /\ s.log = log /\ DOMAIN s.want = {i} /\ s.snap[i] = row /\ s.want[i] = want
      /\ s.link = {} /\ s.unlink = {}
  <2>1. IsLog(log)
    BY DEF About
  <2>2. WellFormed(c, s) /\ HasRow(s, i, row, want, log)
    BY <2>1, OneRow
  <2> HIDE DEF s
  <2> QED
    BY <2>2 DEF HasRow
<1> HIDE DEF s
<1>2. \A n \in DOMAIN log : /\ log[n].alert = NoRow /\ log[n].incident = i
                            /\ log[n].kind \in {"status_change", "severity_change", "assigned"}
  BY DEF About, Kinded
<1>3. NoRow \notin Alerts /\ i \notin Alerts
  BY IdAssumption DEF RowIds
<1>4. AlertSaid(s)
  <2> SUFFICES ASSUME NEW b \in Alerts
               PROVE  Spoken(s, "alert", b, "status", "status_change")
    BY DEF AlertSaid
  <2>1. SaidOf(s.log, "alert", b, "status_change") = {}
    BY <1>1, <1>2, <1>3 DEF SaidOf
  <2> QED
    BY <1>1, <1>3, <2>1 DEF Spoken
<1>5. IncidentSaid(s)
  <2> SUFFICES ASSUME NEW k \in RowIds \ Alerts, NEW f \in TrailCols
               PROVE  Spoken(s, "incident", k, f, TrailKind[f])
    BY DEF IncidentSaid
  <2>1. CASE k # i
    <3>1. SaidOf(s.log, "incident", k, TrailKind[f]) = {}
      BY <1>1, <1>2, <2>1 DEF SaidOf
    <3> QED
      BY <1>1, <2>1, <3>1 DEF Spoken
  <2>2. CASE k = i
    <3>1. SaidOf(s.log, "incident", i, TrailKind[f]) = {n \in DOMAIN log : log[n].kind = TrailKind[f]}
      BY <1>1, <1>2 DEF SaidOf
    <3>2. CASE want[f] = row[f] /\ Mute(log, TrailKind[f])
      BY <1>1, <2>2, <3>1, <3>2 DEF Spoken, Mute
    <3>3. CASE want[f] # row[f] /\ Once(log, TrailKind[f], want[f])
      <4>1. PICK n \in DOMAIN log : /\ log[n].kind = TrailKind[f] /\ log[n].new = want[f]
                                    /\ \A m \in DOMAIN log : log[m].kind = TrailKind[f] => m = n
        BY <3>3 DEF Once
      <4>2. n \in Nat
        BY SeqFacts DEF About, IsLog
      <4> QED
        BY <1>1, <2>2, <3>1, <3>3, <4>1, <4>2 DEF Spoken
    <3> QED
      BY <3>2, <3>3
  <2> QED
    BY <2>1, <2>2
<1>6. DeterminationSaid(s)
  BY <1>1, <1>3 DEF DeterminationSaid
<1>7. CreationSaid(c, s) /\ ResolutionSaid(s) /\ LinksSaid(c, s)
  BY <1>1, <1>2 DEF CreationSaid, ResolutionSaid, LinksSaid, LinkKinds
<1>8. Addressed(s)
  BY <1>1, <1>2 DEF Addressed, Placed
<1> QED
  BY <1>1, <1>4, <1>5, <1>6, <1>7, <1>8 DEF SessionOK, s

(***************************************************************************)
(* The handlers load rows as they are and set them as they log it.         *)
(***************************************************************************)
RowsOK ==
    /\ now \in Nat /\ DOMAIN rows \subseteq RowIds
    /\ \A id \in DOMAIN rows : IsRow(rows[id]) /\ rows[id].created <= now

FromRows(s) ==
    /\ DOMAIN s.snap \subseteq DOMAIN rows
    /\ \A id \in DOMAIN s.snap : s.snap[id] = rows[id]

\* Nothing in a session was created later than today.
Timely(s) ==
    /\ \A id \in DOMAIN s.want : s.want[id].created <= now
    /\ \A id \in DOMAIN s.fresh : s.fresh[id].created <= now

\* A handler has run up to its COMMIT with session s.
Opens(c, s) ==
    Load(c, s) /\ s.pc = "loaded" /\ SessionOK(c, s) /\ FromRows(s) /\ Timely(s)

PatchCols == {"status", "determination", "severity", "assigned"}

LEMMA PatchedRow ==
  ASSUME NEW row, IsRow(row), now \in Nat, row.created <= now, NEW patch, DOMAIN patch \subseteq PatchCols,
         NEW stamp, stamp \in {0, now, row.stamp}
  PROVE  LET want == [Set(row, patch) EXCEPT !.stamp = stamp]
         IN  /\ IsRow(want) /\ want.created = row.created /\ want.archived = row.archived
             /\ \A f \in PatchCols : want[f] = IF f \in DOMAIN patch THEN patch[f] ELSE row[f]
<1> DEFINE r == Set(row, patch)
           want == [r EXCEPT !.stamp = stamp]
<1>1. DOMAIN r = Cols /\ \A f \in Cols : r[f] = IF f \in DOMAIN patch THEN patch[f] ELSE row[f]
  BY DEF Set, IsRow
<1>2. r.created = row.created /\ r.archived = row.archived
  BY <1>1 DEF Cols, PatchCols
<1> HIDE DEF r
<1>3. DOMAIN want = Cols /\ want.stamp = stamp /\ want.created = row.created /\ want.archived = row.archived
      /\ \A f \in PatchCols : want[f] = r[f]
  BY <1>1, <1>2 DEF Cols, PatchCols
<1> HIDE DEF want
<1>4. IsRow(want)
  BY <1>3 DEF IsRow
<1>5. PatchCols \subseteq Cols
  BY DEF PatchCols, Cols
<1> QED
  BY <1>1, <1>3, <1>4, <1>5 DEF want, r

\* One loaded row, set and logged.
LEMMA AlertOpens ==
  ASSUME RowsOK, NEW c, NEW a \in Alerts, a \in DOMAIN rows, NEW row, row = rows[a], NEW want, NEW log,
         IsRow(want), want.created = row.created, want.archived = row.archived,
         About(log, a, NoRow), Kinded(log, RowKinds), RowSaid(row, want, log)
  PROVE  LET s == RowSession(a, row, want, log)
         IN  s.pc = "loaded" /\ SessionOK(c, s) /\ FromRows(s) /\ Timely(s)
<1> DEFINE s == RowSession(a, row, want, log)
<1>1. IsRow(row) /\ row.created <= now
  BY DEF RowsOK
<1>2. IsLog(log)
  BY DEF About
<1>3. HasRow(s, a, row, want, log)
  BY <1>1, <1>2, OneRow
<1> HIDE DEF s
<1>4. SessionOK(c, s)
  BY <1>1, <1>3, AlertSession
<1>5. s.pc = "loaded" /\ FromRows(s) /\ Timely(s)
  BY <1>1, <1>3, NothingFacts DEF HasRow, FromRows, Timely
<1> QED
  BY <1>4, <1>5 DEF s

LEMMA UpdateAlertOpens ==
  ASSUME RowsOK, NEW c, NEW a \in Alerts, UpdateAlert(c, a)
  PROVE  (call[c].pc = "idle" /\ Refuse(c)) \/ \E s : Opens(c, s)
<1> PICK patch \in Patches :
      LET row == rows[a]
          want == [Set(row, patch) EXCEPT !.stamp = ResolveStamp(row, patch)]
          assigned == IF Sent(patch, "assigned") \in Analysts
                      THEN <<Entry(a, NoRow, "assigned", "none", "none")>> ELSE <<>>
      IN  IF Sent(patch, "status") = "resolved" /\ ~MayResolve(row, Sent(patch, "determination"))
          THEN call[c].pc = "idle" /\ Refuse(c)
          ELSE Load(c, [Session EXCEPT
                 !.snap = [id \in {a} |-> row], !.want = [id \in {a} |-> want],
                 !.log = assigned
                    \o ChangeLog(a, NoRow, row, patch, "status", "status_change")
                    \o ChangeLog(a, NoRow, row, patch, "determination", "determination_set")
                    \o ChangeLog(a, NoRow, row, patch, "severity", "severity_change")])
  BY DEF UpdateAlert
<1> DEFINE stamp == ResolveStamp(rows[a], patch)
           assigned == IF Sent(patch, "assigned") \in Analysts
                       THEN <<Entry(a, NoRow, "assigned", "none", "none")>> ELSE <<>>
           log1 == ChangeLog(a, NoRow, rows[a], patch, "status", "status_change")
           log2 == ChangeLog(a, NoRow, rows[a], patch, "determination", "determination_set")
           log3 == ChangeLog(a, NoRow, rows[a], patch, "severity", "severity_change")
           log == assigned \o log1 \o log2 \o log3
<1>1. CASE Sent(patch, "status") = "resolved" /\ ~MayResolve(rows[a], Sent(patch, "determination"))
  BY <1>1
<1>2. CASE ~(Sent(patch, "status") = "resolved" /\ ~MayResolve(rows[a], Sent(patch, "determination")))
  <2> DEFINE want == [Set(rows[a], patch) EXCEPT !.stamp = stamp]
  <2>1. a \in DOMAIN rows /\ IsRow(rows[a]) /\ rows[a].created <= now /\ now \in Nat
    BY DEF UpdateAlert, Found, RowsOK
  <2>2. DOMAIN patch \subseteq PatchCols
    BY BodiesAssumption DEF PatchCols
  <2>3. stamp \in {0, now, rows[a].stamp}
    BY DEF ResolveStamp
  <2> HIDE DEF stamp
  <2>4. /\ IsRow(want) /\ want.created = rows[a].created /\ want.archived = rows[a].archived
        /\ \A f \in PatchCols : want[f] = IF f \in DOMAIN patch THEN patch[f] ELSE rows[a][f]
    BY <2>1, <2>2, <2>3, PatchedRow
  <2>5. Load(c, RowSession(a, rows[a], want, log))
    BY <1>2 DEF RowSession, stamp
  <2>6. About(assigned, a, NoRow) /\ Kinded(assigned, {"assigned"}) /\ \A k : k # "assigned" => Mute(assigned, k)
    <3>1. CASE Sent(patch, "assigned") \in Analysts
      <4>1. assigned = <<Entry(a, NoRow, "assigned", "none", "none")>>
        BY <3>1
      <4>2. LET one == <<Entry(a, NoRow, "assigned", "none", "none")>>
            IN  /\ About(one, a, NoRow) /\ Kinded(one, {"assigned"}) /\ Once(one, "assigned", "none")
                /\ \A k : k # "assigned" => Mute(one, k)
                /\ 1 \in DOMAIN one /\ one[1] = Entry(a, NoRow, "assigned", "none", "none")
        BY OneEntry
      <4> HIDE DEF assigned
      <4> QED
        BY <4>1, <4>2
    <3>2. CASE Sent(patch, "assigned") \notin Analysts
      <4>1. assigned = <<>>
        BY <3>2
      <4> HIDE DEF assigned
      <4> QED
        BY <4>1, NoEntry
    <3> QED
      BY <3>1, <3>2
  <2> HIDE DEF assigned, want
  <2>7. /\ About(log1, a, NoRow) /\ Kinded(log1, {"status_change"})
        /\ \A k : k # "status_change" => Mute(log1, k)
        /\ IF "status" \in DOMAIN patch /\ patch["status"] # rows[a]["status"]
           THEN Once(log1, "status_change", patch["status"]) ELSE Mute(log1, "status_change")
    BY ChangeLogSays
  <2>8. /\ About(log2, a, NoRow) /\ Kinded(log2, {"determination_set"})
        /\ \A k : k # "determination_set" => Mute(log2, k)
        /\ IF "determination" \in DOMAIN patch /\ patch["determination"] # rows[a]["determination"]
           THEN Once(log2, "determination_set", patch["determination"]) ELSE Mute(log2, "determination_set")
    BY ChangeLogSays
  <2>9. /\ About(log3, a, NoRow) /\ Kinded(log3, {"severity_change"})
        /\ \A k : k # "severity_change" => Mute(log3, k)
        /\ IF "severity" \in DOMAIN patch /\ patch["severity"] # rows[a]["severity"]
           THEN Once(log3, "severity_change", patch["severity"]) ELSE Mute(log3, "severity_change")
    BY ChangeLogSays
  <2> HIDE DEF log1, log2, log3
  <2>27. /\ Kinded(assigned, RowKinds) /\ Kinded(log1, RowKinds)
         /\ Kinded(log2, RowKinds) /\ Kinded(log3, RowKinds)
    BY <2>6, <2>7, <2>8, <2>9 DEF Kinded, RowKinds
  <2> DEFINE l1 == assigned \o log1
             l2 == l1 \o log2
  <2>10. /\ About(l1, a, NoRow) /\ Kinded(l1, RowKinds)
         /\ \A k : Mute(assigned, k) /\ Mute(log1, k) => Mute(l1, k)
         /\ \A k, v : Mute(assigned, k) /\ Once(log1, k, v) => Once(l1, k, v)
    BY <2>6, <2>7, <2>27, ConcatAbout
  <2> HIDE DEF l1
  <2>11. /\ About(l2, a, NoRow) /\ Kinded(l2, RowKinds)
         /\ \A k : Mute(l1, k) /\ Mute(log2, k) => Mute(l2, k)
         /\ \A k, v : (Once(l1, k, v) /\ Mute(log2, k)) \/ (Mute(l1, k) /\ Once(log2, k, v)) => Once(l2, k, v)
    BY <2>8, <2>10, <2>27, ConcatAbout
  <2> HIDE DEF l2
  <2> DEFINE l3 == l2 \o log3
  <2>12. log = l3
    BY DEF l1, l2
  <2> HIDE DEF log
  <2>13. /\ About(l3, a, NoRow)
         /\ Kinded(l3, RowKinds)
         /\ \A k : Mute(l2, k) /\ Mute(log3, k) => Mute(l3, k)
         /\ \A k, v : (Once(l2, k, v) /\ Mute(log3, k)) \/ (Mute(l2, k) /\ Once(log3, k, v)) => Once(l3, k, v)
    BY <2>9, <2>11, <2>27, ConcatAbout
  <2> HIDE DEF l3
  <2>14. Kinded(log, RowKinds)
    BY <2>12, <2>13 DEF Kinded, RowKinds
  <2>15. /\ \A v : Once(log1, "status_change", v) => Once(log, "status_change", v)
         /\ Mute(log1, "status_change") => Mute(log, "status_change")
    BY <2>6, <2>8, <2>9, <2>10, <2>11, <2>12, <2>13
  <2>16. /\ \A v : Once(log2, "determination_set", v) => Once(log, "determination_set", v)
    BY <2>6, <2>7, <2>9, <2>10, <2>11, <2>12, <2>13
  <2>17. Mute(log, "ai_auto_resolved")
    BY <2>6, <2>7, <2>8, <2>9, <2>10, <2>11, <2>12, <2>13
  <2>18. \/ want.status = rows[a].status /\ Mute(log, "status_change")
         \/ want.status # rows[a].status /\ Once(log, "status_change", want.status)
    BY <2>4, <2>7, <2>15 DEF PatchCols
  <2>19. want.status = "resolved" /\ rows[a].status # "resolved" => want.determination # "unknown"
    BY <1>2, <2>4 DEF PatchCols, Sent, MayResolve
  <2>20. want.determination = "unknown" /\ rows[a].determination # "unknown"
           => \E n \in DOMAIN log : log[n].kind \in {"determination_set", "ai_escalated"} /\ log[n].new = "unknown"
    <3> SUFFICES ASSUME want.determination = "unknown", rows[a].determination # "unknown"
                 PROVE  \E n \in DOMAIN log : /\ log[n].kind \in {"determination_set", "ai_escalated"}
                                              /\ log[n].new = "unknown"
      OBVIOUS
    <3>1. Once(log2, "determination_set", "unknown")
      BY <2>4, <2>8 DEF PatchCols
    <3>2. Once(log, "determination_set", "unknown")
      BY <2>16, <3>1
    <3> QED
      BY <3>2 DEF Once
  <2>21. RowSaid(rows[a], want, log)
    BY <2>17, <2>18, <2>19, <2>20 DEF RowSaid
  <2>22. \A row : row = rows[a] =>
           LET s == RowSession(a, row, want, log)
           IN  s.pc = "loaded" /\ SessionOK(c, s) /\ FromRows(s) /\ Timely(s)
    BY <2>1, <2>4, <2>12, <2>13, <2>14, <2>21, AlertOpens
  <2> QED
    BY <2>5, <2>22 DEF Opens
<1> QED
  BY <1>1, <1>2

LEMMA ClaimAlertOpens ==
  ASSUME RowsOK, NEW c, NEW a \in Alerts, ClaimAlert(c, a)
  PROVE  \E s : Opens(c, s)
<1> PICK who \in Analysts :
      LET row == rows[a]
          taken == [row EXCEPT !.assigned = who]
          claimed == Entry(a, NoRow, "claimed", "none", "none")
      IN  IF row.status = "new"
          THEN Load(c, [Session EXCEPT
                 !.snap = [id \in {a} |-> row],
                 !.want = [id \in {a} |-> [taken EXCEPT !.status = "in_progress"]],
                 !.log = <<claimed, Entry(a, NoRow, "status_change", "new", "in_progress")>>])
          ELSE Load(c, [Session EXCEPT
                 !.snap = [id \in {a} |-> row], !.want = [id \in {a} |-> taken],
                 !.log = <<claimed>>])
  BY DEF ClaimAlert
<1>1. a \in DOMAIN rows /\ IsRow(rows[a])
  BY DEF ClaimAlert, Found, RowsOK
<1> DEFINE taken == [rows[a] EXCEPT !.assigned = who]
           claimed == Entry(a, NoRow, "claimed", "none", "none")
           started == Entry(a, NoRow, "status_change", "new", "in_progress")
<1>2. \A f \in Cols : taken[f] = IF f = "assigned" THEN who ELSE rows[a][f]
  BY <1>1 DEF IsRow
<1>3. IsRow(taken) /\ taken.created = rows[a].created /\ taken.archived = rows[a].archived
      /\ taken.status = rows[a].status /\ taken.determination = rows[a].determination
  <2>1. DOMAIN taken = Cols
    BY <1>1 DEF IsRow
  <2> HIDE DEF taken
  <2> QED
    BY <1>1, <1>2, <2>1 DEF IsRow, Cols
<1> HIDE DEF taken
<1>4. /\ IsEntry(claimed) /\ claimed.alert = a /\ claimed.incident = NoRow /\ claimed.kind = "claimed"
      /\ claimed.at = 0 /\ claimed.archived = 0
  <2>1. HasEntry(claimed, a, NoRow, "claimed", "none", "none")
    BY EntryFacts, Zenon
  <2> QED
    BY <2>1, Zenon DEF HasEntry
<1>5. /\ IsEntry(started) /\ started.alert = a /\ started.incident = NoRow /\ started.kind = "status_change"
      /\ started.new = "in_progress" /\ started.at = 0 /\ started.archived = 0
  BY EntryFacts DEF HasEntry
<1>6. CASE rows[a].status = "new"
  <2> DEFINE want == [taken EXCEPT !.status = "in_progress"]
             log == <<claimed, started>>
  <2>1. Load(c, RowSession(a, rows[a], want, log))
    BY <1>6 DEF RowSession, taken
  <2>2. DOMAIN want = Cols /\ \A f \in Cols : want[f] = IF f = "status" THEN "in_progress" ELSE taken[f]
    BY <1>3 DEF IsRow
  <2> HIDE DEF want
  <2>3. IsRow(want) /\ want.created = rows[a].created /\ want.archived = rows[a].archived
        /\ want.status = "in_progress" /\ want.determination = rows[a].determination
    BY <1>3, <2>2 DEF IsRow, Cols
  <2> HIDE DEF claimed, started
  <2>4. IsSeq(log) /\ DOMAIN log = {1, 2} /\ log[1] = claimed /\ log[2] = started
    BY DEF IsSeq
  <2> HIDE DEF log
  <2>5. About(log, a, NoRow) /\ Kinded(log, RowKinds)
    BY <1>4, <1>5, <2>4 DEF About, IsLog, Kinded, RowKinds
  <2>6. Once(log, "status_change", "in_progress") /\ Mute(log, "ai_auto_resolved")
    BY <1>4, <1>5, <2>4 DEF Once, Mute
  <2>7. RowSaid(rows[a], want, log)
    BY <1>6, <2>3, <2>6 DEF RowSaid
  <2>8. \A row : row = rows[a] =>
          LET s == RowSession(a, row, want, log)
          IN  s.pc = "loaded" /\ SessionOK(c, s) /\ FromRows(s) /\ Timely(s)
    BY <1>1, <2>3, <2>5, <2>7, AlertOpens
  <2> QED
    BY <2>1, <2>8 DEF Opens
<1>7. CASE rows[a].status # "new"
  <2> DEFINE log == <<claimed>>
  <2>1. Load(c, RowSession(a, rows[a], taken, log))
    BY <1>7 DEF RowSession, taken
  <2> HIDE DEF claimed
  <2>2. IsLog(log) /\ DOMAIN log = {1} /\ log[1] = claimed
    BY <1>4, SingleLog
  <2> HIDE DEF log
  <2>3. About(log, a, NoRow) /\ Kinded(log, RowKinds) /\ Mute(log, "status_change") /\ Mute(log, "ai_auto_resolved")
    BY <1>4, <2>2 DEF About, Kinded, Mute, RowKinds
  <2>4. RowSaid(rows[a], taken, log)
    BY <1>3, <2>3 DEF RowSaid
  <2>5. \A row : row = rows[a] =>
          LET s == RowSession(a, row, taken, log)
          IN  s.pc = "loaded" /\ SessionOK(c, s) /\ FromRows(s) /\ Timely(s)
    BY <1>1, <1>3, <2>3, <2>4, AlertOpens
  <2> QED
    BY <2>1, <2>5 DEF Opens
<1> QED
  BY <1>6, <1>7

\* A session that updates no row.
LEMMA RowlessOpens ==
  ASSUME NEW c, NEW s, DOMAIN s = SessionFields, s.pc = "loaded", s.snap = Nothing, s.want = Nothing,
         IsLog(s.log), Kinded(s.log, {"incident_created"} \cup LinkKinds \cup {"alert_unlinked"}),
         \A n \in DOMAIN s.log : s.log[n].kind # "incident_created" \/ s.fresh # Nothing,
         \/ s.fresh = Nothing
         \/ DOMAIN s.fresh = {c} /\ c \in Calls /\ IsRow(s.fresh[c])
            /\ s.fresh[c].archived = 0 /\ s.fresh[c].created <= now,
         s.drop \subseteq Alerts, CreationSaid(c, s), LinksSaid(c, s),
         \A n \in DOMAIN s.log : Placed(s.log[n])
  PROVE  SessionOK(c, s) /\ FromRows(s) /\ Timely(s)
<1>1. WellFormed(c, s)
  BY NothingFacts DEF WellFormed
<1>2. \A n \in DOMAIN s.log : s.log[n].kind \notin {"status_change", "severity_change", "assigned", "ai_auto_resolved"}
  BY DEF Kinded, LinkKinds
<1>3. AlertSaid(s)
  BY <1>2, NothingFacts DEF AlertSaid, Spoken, SaidOf
<1>4. IncidentSaid(s)
  <2> SUFFICES ASSUME NEW i \in RowIds \ Alerts, NEW f \in TrailCols
               PROVE  Spoken(s, "incident", i, f, TrailKind[f])
    BY DEF IncidentSaid
  <2>1. TrailKind[f] \in {"status_change", "severity_change", "assigned"}
    BY DEF TrailCols, TrailKind
  <2>2. SaidOf(s.log, "incident", i, TrailKind[f]) = {}
    BY <1>2, <2>1 DEF SaidOf
  <2> QED
    BY <2>2, NothingFacts DEF Spoken
<1>5. DeterminationSaid(s) /\ ResolutionSaid(s)
  BY <1>2, NothingFacts DEF DeterminationSaid, ResolutionSaid
<1>6. FromRows(s) /\ Timely(s)
  BY NothingFacts DEF FromRows, Timely
<1>7. Addressed(s)
  BY <1>2 DEF Addressed, TrailKinds
<1> QED
  BY <1>1, <1>3, <1>4, <1>5, <1>6, <1>7 DEF SessionOK

LEMMA DeleteAlertOpens ==
  ASSUME RowsOK, NEW c, NEW a \in Alerts, DeleteAlert(c, a)
  PROVE  \E s : Opens(c, s)
<1> DEFINE s == [Session EXCEPT !.drop = {a}]
<1>1. Load(c, s)
  BY DEF DeleteAlert
<1>2. /\ DOMAIN s = SessionFields /\ s.pc = "loaded" /\ s.snap = Nothing /\ s.want = Nothing /\ s.fresh = Nothing
      /\ s.log = <<>> /\ s.drop = {a} /\ s.link = {} /\ s.unlink = {}
  BY SessionFacts DEF SessionFields
<1> HIDE DEF s
<1>3. IsLog(s.log) /\ DOMAIN s.log = {}
  BY <1>2, EmptyLog
<1>4. CreationSaid(c, s) /\ LinksSaid(c, s)
  BY <1>2, <1>3 DEF CreationSaid, LinksSaid
<1>5. SessionOK(c, s) /\ FromRows(s) /\ Timely(s)
  BY <1>2, <1>3, <1>4, RowlessOpens DEF Kinded
<1> QED
  BY <1>1, <1>2, <1>5 DEF Opens

\* A session that inserts a link with its entry.
LEMMA LinkOpens ==
  ASSUME NEW c \in Calls, NEW a \in Alerts, NEW i \in RowIds \ Alerts, NEW e, IsEntry(e),
         e.alert = a, e.incident = i, e.kind \in LinkKinds, e.at = 0, e.archived = 0,
         NEW s, s = [Session EXCEPT !.link = {[by |-> c, incident |-> i, alert |-> a]}, !.log = <<e>>]
  PROVE  s.pc = "loaded" /\ SessionOK(c, s) /\ FromRows(s) /\ Timely(s)
<1> DEFINE li == {[by |-> c, incident |-> i, alert |-> a]}
           log == <<e>>
<1>1. IsLog(log) /\ DOMAIN log = {1} /\ log[1] = e
  BY SingleLog
<1>2. s = [Session EXCEPT !.link = li, !.log = log]
  OBVIOUS
<1>3. li = {[by |-> c, incident |-> i, alert |-> a]}
  OBVIOUS
<1> HIDE DEF log, li
<1>4. /\ DOMAIN s = SessionFields /\ s.pc = "loaded" /\ s.snap = Nothing /\ s.want = Nothing /\ s.fresh = Nothing
      /\ s.log = log /\ s.drop = {} /\ s.link = li /\ s.unlink = {}
  BY <1>2, SessionFacts DEF SessionFields
<1>5. LinksSaid(c, s)
  BY <1>1, <1>3, <1>4 DEF LinksSaid, LinkKinds
<1>6. CreationSaid(c, s)
  BY <1>1, <1>4 DEF CreationSaid, LinkKinds
<1>7. Kinded(s.log, {"incident_created"} \cup LinkKinds \cup {"alert_unlinked"})
  BY <1>1, <1>4 DEF Kinded
<1>8. SessionOK(c, s) /\ FromRows(s) /\ Timely(s)
  BY <1>1, <1>4, <1>5, <1>6, <1>7, RowlessOpens DEF LinkKinds, Placed
<1> QED
  BY <1>4, <1>8

LEMMA LinkIncidentForOpens ==
  ASSUME NEW c \in Calls, NEW a \in Alerts, NEW i \in Incidents \cup Calls, LinkIncidentFor(c, a, i)
  PROVE  (call[c].pc = "idle" /\ Refuse(c)) \/ \E s : Opens(c, s)
<1> PICK e : e = Entry(a, i, "incident_linked", "none", "none") /\ HasEntry(e, a, i, "incident_linked", "none", "none")
  BY EntryFacts, Zenon
<1> DEFINE s == [Session EXCEPT !.link = {[by |-> c, incident |-> i, alert |-> a]}, !.log = <<e>>]
<1>1. i \in RowIds \ Alerts
  BY IdAssumption DEF RowIds
<1>2. IsEntry(e) /\ e.alert = a /\ e.incident = i /\ e.kind \in LinkKinds /\ e.at = 0 /\ e.archived = 0
  <2>1. IsEntry(e) /\ e.alert = a /\ e.incident = i /\ e.kind = "incident_linked" /\ e.at = 0 /\ e.archived = 0
    BY Zenon DEF HasEntry
  <2>2. "incident_linked" \in LinkKinds
    BY Zenon DEF LinkKinds
  <2> QED
    BY <2>1, <2>2, Zenon
<1>3. s.pc = "loaded" /\ SessionOK(c, s) /\ FromRows(s) /\ Timely(s)
  BY <1>1, <1>2, LinkOpens, Zenon
<1>4. (call[c].pc = "idle" /\ Refuse(c)) \/ Load(c, s)
  BY Zenon DEF LinkIncidentFor
<1> QED
  BY <1>3, <1>4, Zenon DEF Opens

LEMMA LinkAlertOpens ==
  ASSUME NEW c \in Calls, NEW a \in Alerts, NEW i \in Incidents \cup Calls, LinkAlert(c, i, a)
  PROVE  (call[c].pc = "idle" /\ Refuse(c)) \/ \E s : Opens(c, s)
<1> PICK e : e = Entry(a, i, "alert_linked", "none", "none") /\ HasEntry(e, a, i, "alert_linked", "none", "none")
  BY EntryFacts, Zenon
<1> DEFINE s == [Session EXCEPT !.link = {[by |-> c, incident |-> i, alert |-> a]}, !.log = <<e>>]
<1>1. i \in RowIds \ Alerts
  BY IdAssumption DEF RowIds
<1>2. IsEntry(e) /\ e.alert = a /\ e.incident = i /\ e.kind \in LinkKinds /\ e.at = 0 /\ e.archived = 0
  <2>1. IsEntry(e) /\ e.alert = a /\ e.incident = i /\ e.kind = "alert_linked" /\ e.at = 0 /\ e.archived = 0
    BY Zenon DEF HasEntry
  <2>2. "alert_linked" \in LinkKinds
    BY Zenon DEF LinkKinds
  <2> QED
    BY <2>1, <2>2, Zenon
<1>3. s.pc = "loaded" /\ SessionOK(c, s) /\ FromRows(s) /\ Timely(s)
  BY <1>1, <1>2, LinkOpens, Zenon
<1>4. (call[c].pc = "idle" /\ Refuse(c)) \/ Load(c, s)
  BY Zenon DEF LinkAlert
<1> QED
  BY <1>3, <1>4, Zenon DEF Opens

\* A session that deletes a link with its entry.
LEMMA UnlinkOpens ==
  ASSUME NEW c, NEW l, NEW e, IsEntry(e), Placed(e), e.alert = l.alert, e.incident = l.incident,
         e.kind = "alert_unlinked", e.at = 0, e.archived = 0,
         NEW s, s = [Session EXCEPT !.unlink = {l}, !.log = <<e>>]
  PROVE  s.pc = "loaded" /\ SessionOK(c, s) /\ FromRows(s) /\ Timely(s) /\ s.unlink = {l}
<1> DEFINE log == <<e>>
<1>1. IsLog(log) /\ DOMAIN log = {1} /\ log[1] = e
  BY SingleLog
<1>2. s = [Session EXCEPT !.unlink = {l}, !.log = log]
  OBVIOUS
<1> HIDE DEF log
<1>3. /\ DOMAIN s = SessionFields /\ s.pc = "loaded" /\ s.snap = Nothing /\ s.want = Nothing /\ s.fresh = Nothing
      /\ s.log = log /\ s.drop = {} /\ s.link = {} /\ s.unlink = {l}
  BY <1>2, SessionFacts DEF SessionFields
<1>4. LinksSaid(c, s)
  BY <1>1, <1>3 DEF LinksSaid, LinkKinds
<1>5. CreationSaid(c, s)
  BY <1>1, <1>3 DEF CreationSaid
<1>6. Kinded(s.log, {"incident_created"} \cup LinkKinds \cup {"alert_unlinked"})
  BY <1>1, <1>3 DEF Kinded
<1>7. SessionOK(c, s) /\ FromRows(s) /\ Timely(s)
  BY <1>1, <1>3, <1>4, <1>5, <1>6, RowlessOpens
<1> QED
  BY <1>3, <1>7

LEMMA UnlinkAlertOpens ==
  ASSUME IsFiniteSet(links), NEW c, NEW a \in Alerts, NEW i \in Incidents \cup Calls, UnlinkAlert(c, i, a)
  PROVE  (call[c].pc = "idle" /\ Refuse(c)) \/ \E s : Opens(c, s)
<1> PICK e : e = Entry(a, i, "alert_unlinked", "none", "none") /\ HasEntry(e, a, i, "alert_unlinked", "none", "none")
  BY EntryFacts, Zenon
<1>1. IsEntry(e) /\ e.alert = a /\ e.incident = i /\ e.kind = "alert_unlinked" /\ e.at = 0 /\ e.archived = 0
  BY Zenon DEF HasEntry
<1>4. Placed(e)
  BY <1>1, IdAssumption DEF Placed, RowIds
<1>2. CASE call[c].pc = "idle" /\ Refuse(c)
  BY <1>2, Zenon
<1>3. CASE Cardinality(LinksOf(i, a)) = 1 /\ Load(c, [Session EXCEPT !.unlink = LinksOf(i, a), !.log = <<e>>])
  <2>1. IsFiniteSet(LinksOf(i, a))
    <3>1. LinksOf(i, a) \in SUBSET links
      BY Zenon DEF LinksOf
    <3> QED
      BY <3>1, FS_Subset, Zenon
  <2>2. PICK l : LinksOf(i, a) = {l}
    BY <1>3, <2>1, FS_Singleton, Zenon
  <2>3. l.incident = i /\ l.alert = a
    BY <2>2, Zenon DEF LinksOf
  <2>4. Load(c, [Session EXCEPT !.unlink = {l}, !.log = <<e>>])
    BY <1>3, <2>2, Zenon
  <2> QED
    BY <1>1, <1>4, <2>3, <2>4, UnlinkOpens, Zenon DEF Opens
<1> QED
  BY <1>2, <1>3, Zenon DEF UnlinkAlert

\* A session that inserts an incident, and what it dispatches then.
HasFresh(s, fr, log, then) ==
    /\ DOMAIN s = SessionFields /\ s.pc = "loaded" /\ s.snap = Nothing /\ s.want = Nothing /\ s.fresh = fr
    /\ s.log = log /\ s.drop = {} /\ s.link = {} /\ s.unlink = {} /\ s.then = then

LEMMA FreshSession ==
  ASSUME NEW fr, NEW log, NEW then
  PROVE  /\ HasFresh([Session EXCEPT !.fresh = fr, !.log = log], fr, log, <<>>)
         /\ HasFresh([Session EXCEPT !.fresh = fr, !.log = log, !.then = then], fr, log, then)
BY SessionFacts DEF SessionFields, HasFresh

LEMMA CreationOpens ==
  ASSUME now \in Nat, NEW c \in Calls, NEW sev, NEW e, IsEntry(e), e.incident = c, e.alert = NoRow,
         e.kind = "incident_created", e.at = 0, e.archived = 0, NEW then,
         \A v \in Versions : e.new = v.name => then = v.playbooks,
         NEW s, HasFresh(s, [id \in {c} |-> NewIncident(sev, now)], <<e>>, then)
  PROVE  s.pc = "loaded" /\ SessionOK(c, s) /\ FromRows(s) /\ Timely(s)
<1> DEFINE fr == [id \in {c} |-> NewIncident(sev, now)]
           log == <<e>>
<1>1. IsLog(log) /\ DOMAIN log = {1} /\ log[1] = e
  BY SingleLog
<1>2. DOMAIN fr = {c} /\ IsRow(fr[c]) /\ fr[c].archived = 0 /\ fr[c].created = now
  BY RowFacts
<1>3. HasFresh(s, fr, log, then)
  OBVIOUS
<1> HIDE DEF log, fr
<1>4. /\ DOMAIN s = SessionFields /\ s.pc = "loaded" /\ s.snap = Nothing /\ s.want = Nothing /\ s.fresh = fr
      /\ s.log = log /\ s.drop = {} /\ s.link = {} /\ s.unlink = {} /\ s.then = then
  BY <1>3 DEF HasFresh
<1>5. LinksSaid(c, s) /\ CreationSaid(c, s)
  BY <1>1, <1>4 DEF LinksSaid, LinkKinds, CreationSaid
<1>6. Kinded(s.log, {"incident_created"} \cup LinkKinds \cup {"alert_unlinked"})
  BY <1>1, <1>4 DEF Kinded
<1>7. s.fresh # Nothing
  BY <1>2, <1>4, NothingFacts
<1>8. /\ DOMAIN s.fresh = {c} /\ c \in Calls /\ IsRow(s.fresh[c])
      /\ s.fresh[c].archived = 0 /\ s.fresh[c].created <= now
  BY <1>2, <1>4
<1>9. IsLog(s.log) /\ s.drop \subseteq Alerts /\ \A n \in DOMAIN s.log : s.log[n].kind # "incident_created" \/ s.fresh # Nothing
  BY <1>1, <1>4, <1>7
<1>10. \A n \in DOMAIN s.log : Placed(s.log[n])
  BY <1>1, <1>4, IdAssumption DEF Placed, RowIds
<1>11. SessionOK(c, s) /\ FromRows(s) /\ Timely(s)
  BY <1>4, <1>5, <1>6, <1>8, <1>9, <1>10, RowlessOpens
<1> QED
  BY <1>4, <1>11

LEMMA CreateIncidentOpens ==
  ASSUME now \in Nat, NEW c \in Calls, CreateIncident(c)
  PROVE  \E s : Opens(c, s)
<1> PICK e : e = Entry(NoRow, c, "incident_created", "none", "none") /\ HasEntry(e, NoRow, c, "incident_created", "none", "none")
  BY EntryFacts, Zenon
<1>1. IsEntry(e) /\ e.incident = c /\ e.alert = NoRow /\ e.kind = "incident_created" /\ e.at = 0 /\ e.archived = 0
  BY Zenon DEF HasEntry
<1>2. \A v \in Versions : e.new = v.name => <<>> = v.playbooks
  BY TemplateAssumption, Zenon DEF HasEntry
<1>3. PICK sev : Load(c, [Session EXCEPT !.fresh = [id \in {c} |-> NewIncident(sev, now)], !.log = <<e>>])
  BY Zenon DEF CreateIncident
<1> DEFINE s == [Session EXCEPT !.fresh = [id \in {c} |-> NewIncident(sev, now)], !.log = <<e>>]
<1>4. s.pc = "loaded" /\ SessionOK(c, s) /\ FromRows(s) /\ Timely(s)
  <2>1. HasFresh(s, [id \in {c} |-> NewIncident(sev, now)], <<e>>, <<>>)
    BY FreshSession, Zenon
  <2> HIDE DEF s
  <2> QED
    BY <1>1, <1>2, <2>1, CreationOpens, Zenon
<1> QED
  BY <1>3, <1>4, Zenon DEF Opens

LEMMA CreateFromTemplateOpens ==
  ASSUME now \in Nat, NEW c \in Calls, NEW t, CreateFromTemplate(c, t), t \in DOMAIN templates => templates[t] \in Versions
  PROVE  \E s : Opens(c, s)
<1>1. PICK sev : Load(c, [Session EXCEPT
             !.fresh = [id \in {c} |-> NewIncident(sev, now)],
             !.log = <<Entry(NoRow, c, "incident_created", t, templates[t].name)>>,
             !.then = templates[t].playbooks])
  BY Zenon DEF CreateFromTemplate
<1> DEFINE e == Entry(NoRow, c, "incident_created", t, templates[t].name)
           s == [Session EXCEPT !.fresh = [id \in {c} |-> NewIncident(sev, now)],
                                !.log = <<e>>, !.then = templates[t].playbooks]
<1>2. /\ IsEntry(e) /\ e.incident = c /\ e.alert = NoRow /\ e.kind = "incident_created"
      /\ e.new = templates[t].name /\ e.at = 0 /\ e.archived = 0
  BY EntryFacts DEF HasEntry
<1>3. \A v \in Versions : e.new = v.name => templates[t].playbooks = v.playbooks
  <2>1. templates[t] \in Versions
    BY Zenon DEF CreateFromTemplate
  <2> QED
    BY <1>2, <2>1, TemplateAssumption, Zenon
<1>4. Load(c, s)
  BY <1>1
<1> HIDE DEF e
<1>5. s.pc = "loaded" /\ SessionOK(c, s) /\ FromRows(s) /\ Timely(s)
  <2>1. HasFresh(s, [id \in {c} |-> NewIncident(sev, now)], <<e>>, templates[t].playbooks)
    BY FreshSession, Zenon
  <2> HIDE DEF s
  <2> QED
    BY <1>2, <1>3, <2>1, CreationOpens, Zenon
<1> QED
  BY <1>4, <1>5 DEF Opens

\* An incident created from an alert: a row, a link and two entries.
LEMMA CreateIncidentForOpens ==
  ASSUME now \in Nat, NEW c \in Calls, NEW a \in Alerts, CreateIncidentFor(c, a)
  PROVE  \E s : Opens(c, s)
<1> PICK e : e = Entry(NoRow, c, "incident_created", "none", "none") /\ HasEntry(e, NoRow, c, "incident_created", "none", "none")
  BY EntryFacts, Zenon
<1> PICK d : d = Entry(a, c, "incident_linked", "none", "none") /\ HasEntry(d, a, c, "incident_linked", "none", "none")
  BY EntryFacts, Zenon
<1>1. IsEntry(e) /\ e.incident = c /\ e.alert = NoRow /\ e.kind = "incident_created" /\ e.new = "none" /\ e.at = 0 /\ e.archived = 0
  BY Zenon DEF HasEntry
<1>2. IsEntry(d) /\ d.incident = c /\ d.alert = a /\ d.kind = "incident_linked" /\ d.at = 0 /\ d.archived = 0
  BY Zenon DEF HasEntry
<1>3. PICK sev : Load(c, [Session EXCEPT !.fresh = [id \in {c} |-> NewIncident(sev, now)],
                                        !.link = {[by |-> c, incident |-> c, alert |-> a]}, !.log = <<e, d>>])
  BY Zenon DEF CreateIncidentFor
<1> DEFINE fr == [id \in {c} |-> NewIncident(sev, now)]
           li == {[by |-> c, incident |-> c, alert |-> a]}
           log == <<e, d>>
           s == [Session EXCEPT !.fresh = fr, !.link = li, !.log = log]
<1>4. IsSeq(log) /\ DOMAIN log = {1, 2} /\ log[1] = e /\ log[2] = d
  BY DEF IsSeq
<1>5. DOMAIN fr = {c} /\ IsRow(fr[c]) /\ fr[c].archived = 0 /\ fr[c].created = now
  BY RowFacts
<1>6. li = {[by |-> c, incident |-> c, alert |-> a]}
  OBVIOUS
<1>7. Load(c, s)
  BY <1>3
<1> HIDE DEF log, fr, li
<1>8. /\ DOMAIN s = SessionFields /\ s.pc = "loaded" /\ s.snap = Nothing /\ s.want = Nothing /\ s.fresh = fr
      /\ s.log = log /\ s.drop = {} /\ s.link = li /\ s.unlink = {} /\ s.then = <<>>
  BY SessionFacts DEF SessionFields
<1> HIDE DEF s
<1>9. IsLog(log)
  BY <1>1, <1>2, <1>4 DEF IsLog
<1>10. c \in RowIds \ Alerts
  BY IdAssumption DEF RowIds
<1>11. CreationSaid(c, s)
  BY <1>1, <1>2, <1>4, <1>8, TemplateAssumption DEF CreationSaid
<1>12. LinksSaid(c, s)
  <2>1. \A n \in DOMAIN s.log : s.log[n].kind \in LinkKinds <=> n = 2
    BY <1>1, <1>2, <1>4, <1>8 DEF LinkKinds
  <2>2. \A n \in DOMAIN s.log : s.log[n].kind # "alert_unlinked"
    BY <1>1, <1>2, <1>4, <1>8
  <2>3. s.log[2].incident = c /\ s.log[2].alert = a /\ 2 \in DOMAIN s.log
    BY <1>2, <1>4, <1>8
  <2> QED
    BY <1>6, <1>8, <1>10, <2>1, <2>2, <2>3 DEF LinksSaid
<1>13. Kinded(s.log, {"incident_created"} \cup LinkKinds \cup {"alert_unlinked"})
  BY <1>1, <1>2, <1>4, <1>8 DEF Kinded, LinkKinds
<1>14. s.fresh # Nothing
  BY <1>5, <1>8, NothingFacts
<1>15. \A n \in DOMAIN s.log : Placed(s.log[n])
  BY <1>1, <1>2, <1>4, <1>8, <1>10 DEF Placed
<1>16. /\ DOMAIN s.fresh = {c} /\ c \in Calls /\ IsRow(s.fresh[c])
       /\ s.fresh[c].archived = 0 /\ s.fresh[c].created <= now
  BY <1>5, <1>8
<1>17. IsLog(s.log) /\ s.drop \subseteq Alerts /\ \A n \in DOMAIN s.log : s.log[n].kind # "incident_created" \/ s.fresh # Nothing
  BY <1>8, <1>9, <1>14
<1>18. SessionOK(c, s) /\ FromRows(s) /\ Timely(s)
  BY <1>8, <1>11, <1>12, <1>13, <1>15, <1>16, <1>17, RowlessOpens
<1> QED
  BY <1>7, <1>8, <1>18 DEF Opens

LEMMA UpdateIncidentOpens ==
  ASSUME RowsOK, NEW c, NEW i \in Incidents \cup Calls, UpdateIncident(c, i)
  PROVE  \E s : Opens(c, s)
<1> PICK patch \in IncidentPatches :
      Load(c, [Session EXCEPT
             !.snap = [id \in {i} |-> rows[i]],
             !.want = [id \in {i} |->
                [Set(rows[i], patch) EXCEPT !.stamp = CloseStamp(rows[i], patch)]],
             !.log = IncidentLog(i, rows[i], patch)])
  BY DEF UpdateIncident
<1> PICK row : row = rows[i]
  OBVIOUS
<1> DEFINE stamp == CloseStamp(row, patch)
           want == [Set(row, patch) EXCEPT !.stamp = stamp]
           log1 == ChangeLog(NoRow, i, row, patch, "status", "status_change")
           log2 == ChangeLog(NoRow, i, row, patch, "severity", "severity_change")
           log3 == ChangeLog(NoRow, i, row, patch, "assigned", "assigned")
           log == log1 \o log2 \o log3
           s == RowSession(i, row, want, log)
<1>1. i \in DOMAIN rows /\ IsRow(row) /\ row.created <= now /\ now \in Nat /\ i \in RowIds \ Alerts
  BY IdAssumption DEF UpdateIncident, Found, RowsOK, RowIds
<1>2. DOMAIN patch \subseteq {"status", "severity", "assigned"}
  BY IncidentPatchAssumption
<1>3. stamp \in {0, now, row.stamp}
  BY DEF CloseStamp
<1>4. Load(c, s)
  BY DEF RowSession, IncidentLog
<1> HIDE DEF stamp
<1>5. /\ IsRow(want) /\ want.created = row.created /\ want.archived = row.archived
      /\ \A f \in PatchCols : want[f] = IF f \in DOMAIN patch THEN patch[f] ELSE row[f]
  BY <1>1, <1>2, <1>3, PatchedRow DEF PatchCols
<1> HIDE DEF want
<1> DEFINE K == {"status_change", "severity_change", "assigned"}
<1>6. /\ About(log1, NoRow, i) /\ Kinded(log1, K) /\ (\A k : k # "status_change" => Mute(log1, k))
      /\ IF "status" \in DOMAIN patch /\ patch["status"] # row["status"]
         THEN Once(log1, "status_change", patch["status"]) ELSE Mute(log1, "status_change")
  BY ChangeLogSays DEF Kinded
<1>7. /\ About(log2, NoRow, i) /\ Kinded(log2, K) /\ (\A k : k # "severity_change" => Mute(log2, k))
      /\ IF "severity" \in DOMAIN patch /\ patch["severity"] # row["severity"]
         THEN Once(log2, "severity_change", patch["severity"]) ELSE Mute(log2, "severity_change")
  BY ChangeLogSays DEF Kinded
<1>8. /\ About(log3, NoRow, i) /\ Kinded(log3, K) /\ (\A k : k # "assigned" => Mute(log3, k))
      /\ IF "assigned" \in DOMAIN patch /\ patch["assigned"] # row["assigned"]
         THEN Once(log3, "assigned", patch["assigned"]) ELSE Mute(log3, "assigned")
  BY ChangeLogSays DEF Kinded
<1> HIDE DEF log1, log2, log3, K
<1> DEFINE log12 == log1 \o log2
<1>9. /\ About(log12, NoRow, i) /\ Kinded(log12, K)
      /\ (\A k : Mute(log1, k) /\ Mute(log2, k) => Mute(log12, k))
      /\ \A k, v : (Once(log1, k, v) /\ Mute(log2, k)) \/ (Mute(log1, k) /\ Once(log2, k, v)) => Once(log12, k, v)
  BY <1>6, <1>7, ConcatAbout
<1>10. log = log12 \o log3
  OBVIOUS
<1> HIDE DEF log12, log
<1>11. /\ About(log, NoRow, i) /\ Kinded(log, K)
       /\ (\A k : Mute(log12, k) /\ Mute(log3, k) => Mute(log, k))
       /\ \A k, v : (Once(log12, k, v) /\ Mute(log3, k)) \/ (Mute(log12, k) /\ Once(log3, k, v)) => Once(log, k, v)
  BY <1>8, <1>9, <1>10, ConcatAbout
<1>12. \A f \in TrailCols : \/ want[f] = row[f] /\ Mute(log, TrailKind[f])
                            \/ want[f] # row[f] /\ Once(log, TrailKind[f], want[f])
  <2>1. IF "status" \in DOMAIN patch /\ patch["status"] # row["status"] THEN Once(log, "status_change", patch["status"]) ELSE Mute(log, "status_change")
    <3>1. CASE "status" \in DOMAIN patch /\ patch["status"] # row["status"]
      BY <1>6, <1>7, <1>8, <1>9, <1>11, <3>1
    <3>2. CASE ~("status" \in DOMAIN patch /\ patch["status"] # row["status"])
      BY <1>6, <1>7, <1>8, <1>9, <1>11, <3>2
    <3> QED
      BY <3>1, <3>2
  <2>2. \/ want["status"] = row["status"] /\ Mute(log, "status_change")
        \/ want["status"] # row["status"] /\ Once(log, "status_change", want["status"])
    <3>1. want["status"] = IF "status" \in DOMAIN patch THEN patch["status"] ELSE row["status"]
      <4>1. "status" \in PatchCols
        BY DEF PatchCols
      <4> QED
        BY <1>5, <4>1
    <3> QED
      BY <2>1, <3>1
  <2>3. IF "severity" \in DOMAIN patch /\ patch["severity"] # row["severity"] THEN Once(log, "severity_change", patch["severity"]) ELSE Mute(log, "severity_change")
    <3>1. CASE "severity" \in DOMAIN patch /\ patch["severity"] # row["severity"]
      BY <1>6, <1>7, <1>8, <1>9, <1>11, <3>1
    <3>2. CASE ~("severity" \in DOMAIN patch /\ patch["severity"] # row["severity"])
      BY <1>6, <1>7, <1>8, <1>9, <1>11, <3>2
    <3> QED
      BY <3>1, <3>2
  <2>4. \/ want["severity"] = row["severity"] /\ Mute(log, "severity_change")
        \/ want["severity"] # row["severity"] /\ Once(log, "severity_change", want["severity"])
    <3>1. want["severity"] = IF "severity" \in DOMAIN patch THEN patch["severity"] ELSE row["severity"]
      <4>1. "severity" \in PatchCols
        BY DEF PatchCols
      <4> QED
        BY <1>5, <4>1
    <3> QED
      BY <2>3, <3>1
  <2>5. IF "assigned" \in DOMAIN patch /\ patch["assigned"] # row["assigned"] THEN Once(log, "assigned", patch["assigned"]) ELSE Mute(log, "assigned")
    <3>1. CASE "assigned" \in DOMAIN patch /\ patch["assigned"] # row["assigned"]
      BY <1>6, <1>7, <1>8, <1>9, <1>11, <3>1
    <3>2. CASE ~("assigned" \in DOMAIN patch /\ patch["assigned"] # row["assigned"])
      BY <1>6, <1>7, <1>8, <1>9, <1>11, <3>2
    <3> QED
      BY <3>1, <3>2
  <2>6. \/ want["assigned"] = row["assigned"] /\ Mute(log, "assigned")
        \/ want["assigned"] # row["assigned"] /\ Once(log, "assigned", want["assigned"])
    <3>1. want["assigned"] = IF "assigned" \in DOMAIN patch THEN patch["assigned"] ELSE row["assigned"]
      <4>1. "assigned" \in PatchCols
        BY DEF PatchCols
      <4> QED
        BY <1>5, <4>1
    <3> QED
      BY <2>5, <3>1
  <2> QED
    BY <2>2, <2>4, <2>6 DEF TrailCols, TrailKind
<1>13. SessionOK(c, s)
  BY <1>1, <1>5, <1>11, <1>12, IncidentSession DEF K
<1>14. HasRow(s, i, row, want, log)
  BY <1>1, <1>5, <1>11, OneRow DEF About
<1> HIDE DEF s
<1>15. s.pc = "loaded" /\ FromRows(s) /\ Timely(s)
  BY <1>1, <1>5, <1>14, NothingFacts DEF HasRow, FromRows, Timely
<1> QED
  BY <1>4, <1>13, <1>15 DEF Opens

(***************************************************************************)
(* The loop of a bulk call.                                                *)
(***************************************************************************)
\* s lists the elements of S, each once.
Lists(s, S) ==
    /\ Cardinality(S) \in Nat /\ DOMAIN s = 1 .. Cardinality(S)
    /\ \A n \in DOMAIN s : s[n] \in S
    /\ \A x \in S : \E n \in DOMAIN s : s[n] = x
    /\ \A m, n \in DOMAIN s : s[m] = s[n] => m = n

LEMMA ListIsSeq ==
  ASSUME NEW k \in Nat, NEW s, s \in [1 .. k -> {s[n] : n \in DOMAIN s}]
  PROVE  IsSeq(s)
<1>1. \A S : s \in [1 .. k -> S] => s \in Seq(S)
  OBVIOUS
<1> QED
  BY <1>1 DEF IsSeq

LEMMA SeqOfLists ==
  ASSUME NEW S, IsFiniteSet(S)
  PROVE  Lists(SeqOf(S), S)
<1> DEFINE n == Cardinality(S)
           s == SeqOf(S)
<1>1. n \in Nat /\ ExistsBijection(1 .. n, S)
  BY FS_CardinalityType
<1>2. PICK b \in Bijection(1 .. n, S) : TRUE
  BY <1>1 DEF ExistsBijection
<1>3. b \in [1 .. n -> S] /\ {b[i] : i \in DOMAIN b} = S
  BY <1>2 DEF Bijection, Surjection, Injection
<1>4. s \in [1 .. n -> S] /\ {s[i] : i \in DOMAIN s} = S
  BY <1>3 DEF SeqOf
<1> HIDE DEF s
<1>5. DOMAIN s = 1 .. n /\ (\A i \in DOMAIN s : s[i] \in S) /\ \A x \in S : \E i \in DOMAIN s : s[i] = x
  BY <1>4
<1>6. s \in Surjection(1 .. n, S)
  BY <1>4, <1>5 DEF Surjection
<1>7. IsFiniteSet(1 .. n) /\ Cardinality(1 .. n) = n
  BY <1>1, FS_Interval
<1>8. s \in Injection(1 .. n, S)
  BY <1>6, <1>7, FS_SurjSameCardinalityImpliesInj
<1>9. \A i, k \in DOMAIN s : s[i] = s[k] => i = k
  BY <1>5, <1>8 DEF Injection, IsInjective
<1>10. Lists(s, S)
  BY <1>1, <1>5, <1>9 DEF Lists
<1> QED
  BY <1>10 DEF s

\* What the loop sets on an alert that it accepts, and the entry it adds.
BulkSaid(row, want, e, a) ==
    /\ IsRow(want) /\ want.created = row.created /\ want.archived = row.archived
    /\ IsEntry(e) /\ e.alert = a /\ e.incident = NoRow /\ e.at = 0 /\ e.archived = 0
    /\ e.kind \in {"status_change", "claimed", "severity_change"}
    /\ \/ e.kind = "status_change" /\ e.new = want.status /\ want.status # row.status
       \/ e.kind # "status_change" /\ want.status = row.status
       \/ e.kind = "claimed" /\ want.status = "in_progress"
    /\ want.status = "resolved" /\ row.status # "resolved" => want.determination # "unknown"
    /\ want.determination = "unknown" => row.determination = "unknown"

LEMMA BulkRow ==
  ASSUME now \in Nat, NEW row, IsRow(row), row.created <= now, NEW a, NEW body, NEW who,
         BulkAccepts(body, row)
  PROVE  BulkSaid(row, BulkSet(body, row, who), BulkEntry(body, a, row), a)
<1>1. CASE body.action = "resolve"
  <2> DEFINE det == IF body.determination = "none" THEN row.determination ELSE body.determination
             want == [row EXCEPT !.status = "resolved", !.stamp = now, !.determination = det]
  <2>1. row.status # "resolved" /\ det # "unknown"
    BY <1>1 DEF BulkAccepts, MayResolve
  <2>2. BulkSet(body, row, who) = want
    BY <1>1 DEF BulkSet, IsRow, Cols
  <2> HIDE DEF det
  <2>3. /\ DOMAIN want = Cols /\ want.status = "resolved" /\ want.stamp = now /\ want.determination = det
        /\ want.created = row.created /\ want.archived = row.archived
    BY DEF IsRow, Cols
  <2> HIDE DEF want
  <2>4. PICK e : e = BulkEntry(body, a, row) /\ HasEntry(e, a, NoRow, "status_change", row.status, "resolved")
    BY <1>1, EntryFacts DEF BulkEntry
  <2>5. IsRow(want)
    BY <2>3 DEF IsRow
  <2>6. BulkSaid(row, want, e, a)
    BY <2>1, <2>3, <2>4, <2>5 DEF BulkSaid, HasEntry
  <2> QED
    BY <2>2, <2>4, <2>6
<1>2. CASE body.action = "assign"
  <2> DEFINE st == IF row.status = "new" THEN "in_progress" ELSE row.status
             want == [row EXCEPT !.assigned = who, !.status = st]
  <2>1. BulkSet(body, row, who) = want
    BY <1>2 DEF BulkSet, IsRow, Cols
  <2>2. st = row.status \/ st = "in_progress"
    OBVIOUS
  <2>3. st = "resolved" => row.status = "resolved"
    OBVIOUS
  <2> HIDE DEF st
  <2>4. /\ DOMAIN want = Cols /\ want.status = st /\ want.stamp = row.stamp /\ want.determination = row.determination
        /\ want.created = row.created /\ want.archived = row.archived
    BY DEF IsRow, Cols
  <2> HIDE DEF want
  <2>5. PICK e : e = BulkEntry(body, a, row) /\ HasEntry(e, a, NoRow, "claimed", "none", "none")
    BY <1>2, EntryFacts DEF BulkEntry
  <2>6. IsRow(want)
    BY <2>4 DEF IsRow
  <2>7. BulkSaid(row, want, e, a)
    BY <2>2, <2>3, <2>4, <2>5, <2>6 DEF BulkSaid, HasEntry
  <2> QED
    BY <2>1, <2>5, <2>7
<1>3. CASE body.action \notin {"resolve", "assign"}
  <2> DEFINE want == [row EXCEPT !.severity = body.severity]
  <2>1. BulkSet(body, row, who) = want
    BY <1>3 DEF BulkSet
  <2>2. /\ DOMAIN want = Cols /\ want.status = row.status /\ want.stamp = row.stamp
        /\ want.determination = row.determination
        /\ want.created = row.created /\ want.archived = row.archived
    BY DEF IsRow, Cols
  <2> HIDE DEF want
  <2>3. PICK e : e = BulkEntry(body, a, row) /\ HasEntry(e, a, NoRow, "severity_change", row.severity, body.severity)
    BY <1>3, EntryFacts DEF BulkEntry
  <2>4. IsRow(want)
    BY <2>2 DEF IsRow
  <2>5. BulkSaid(row, want, e, a)
    BY <2>2, <2>3, <2>4 DEF BulkSaid, HasEntry
  <2> QED
    BY <2>1, <2>3, <2>5
<1> QED
  BY <1>1, <1>2, <1>3

LEMMA BulkUpdateOpens ==
  ASSUME RowsOK, NEW c, BulkUpdate(c)
  PROVE  \E s : Opens(c, s)
<1> PICK body \in Bulks, who \in Analysts :
      LET ids == {a \in body.ids : Found(a) /\ BulkAccepts(body, rows[a])}
          todo == SeqOf(ids)
      IN  Load(c, [Session EXCEPT
             !.snap = [a \in ids |-> rows[a]],
             !.want = [a \in ids |-> BulkSet(body, rows[a], who)],
             !.log = [i \in DOMAIN todo |-> BulkEntry(body, todo[i], rows[todo[i]])]])
  BY DEF BulkUpdate
<1> DEFINE ids == {a \in body.ids : Found(a) /\ BulkAccepts(body, rows[a])}
           todo == SeqOf(ids)
           sn == [a \in ids |-> rows[a]]
           wa == [a \in ids |-> BulkSet(body, rows[a], who)]
           log == [i \in DOMAIN todo |-> BulkEntry(body, todo[i], rows[todo[i]])]
           s == [Session EXCEPT !.snap = sn, !.want = wa, !.log = log]
<1>1. ids \subseteq Alerts /\ IsFiniteSet(ids) /\ ids \subseteq DOMAIN rows
  <2>1. body.ids \in SUBSET Alerts
    BY BodiesAssumption DEF BulkBodies
  <2>2. ids \subseteq Alerts /\ ids \subseteq DOMAIN rows
    BY <2>1 DEF Found
  <2> QED
    BY <2>2, IdAssumption, FS_Subset
<1>2. \A a \in ids : BulkSaid(rows[a], wa[a], BulkEntry(body, a, rows[a]), a)
  <2> SUFFICES ASSUME NEW a \in ids
               PROVE  BulkSaid(rows[a], wa[a], BulkEntry(body, a, rows[a]), a)
    OBVIOUS
  <2>1. wa[a] = BulkSet(body, rows[a], who)
    OBVIOUS
  <2>2. IsRow(rows[a]) /\ rows[a].created <= now /\ now \in Nat /\ BulkAccepts(body, rows[a])
    BY <1>1 DEF RowsOK
  <2>3. \A row : row = rows[a] => BulkSaid(row, BulkSet(body, row, who), BulkEntry(body, a, row), a)
    BY <2>2, BulkRow
  <2> QED
    BY <2>1, <2>3
<1>3. Lists(todo, ids)
  BY <1>1, SeqOfLists
<1>4. DOMAIN sn = ids /\ DOMAIN wa = ids /\ \A a \in ids : sn[a] = rows[a]
  OBVIOUS
<1>5. Load(c, s)
  OBVIOUS
<1> HIDE DEF ids, todo, wa, sn
<1>6. DOMAIN log = DOMAIN todo /\ (\A n \in DOMAIN todo : log[n] = BulkEntry(body, todo[n], rows[todo[n]]))
  OBVIOUS
<1>7. log \in [1 .. Cardinality(ids) -> {log[n] : n \in DOMAIN log}]
  BY <1>3, <1>6 DEF Lists
<1> HIDE DEF log
<1>8. /\ DOMAIN s = SessionFields /\ s.pc = "loaded" /\ s.snap = sn /\ s.want = wa /\ s.fresh = Nothing
      /\ s.log = log /\ s.drop = {} /\ s.link = {} /\ s.unlink = {} /\ s.then = <<>>
  BY SessionFacts DEF SessionFields
<1> HIDE DEF s
<1>9. \A n \in DOMAIN log : todo[n] \in ids /\ BulkSaid(rows[todo[n]], wa[todo[n]], log[n], todo[n])
  BY <1>2, <1>3, <1>6 DEF Lists
<1>10. \A a \in ids : \E n \in DOMAIN log : todo[n] = a /\ \A m \in DOMAIN log : todo[m] = a => m = n
  BY <1>3, <1>6 DEF Lists
<1>11. IsSeq(log) /\ \A n \in DOMAIN log : n \in Nat
  <2>1. Cardinality(ids) \in Nat
    BY <1>3 DEF Lists
  <2>2. DOMAIN log = 1 .. Cardinality(ids)
    BY <1>7
  <2>3. IsSeq(log)
    BY <1>7, <2>1, ListIsSeq
  <2> QED
    BY <2>1, <2>2, <2>3
<1>12. \A n \in DOMAIN log : /\ IsEntry(log[n]) /\ log[n].alert = todo[n] /\ log[n].incident = NoRow
                             /\ log[n].at = 0 /\ log[n].archived = 0
                             /\ log[n].kind \in {"status_change", "claimed", "severity_change"}
  BY <1>9 DEF BulkSaid
<1>13. \A a \in ids : /\ IsRow(sn[a]) /\ IsRow(wa[a]) /\ wa[a].created = sn[a].created /\ wa[a].archived = sn[a].archived
                      /\ sn[a].created <= now
  BY <1>1, <1>2, <1>4 DEF BulkSaid, RowsOK
<1>14. WellFormed(c, s)
  BY <1>4, <1>8, <1>11, <1>12, <1>13, NothingFacts DEF WellFormed, IsLog
<1>15. NoRow \notin RowIds
  BY IdAssumption
<1>16. AlertSaid(s)
  <2> SUFFICES ASSUME NEW b \in Alerts
               PROVE  \/ Spoken(s, "alert", b, "status", "status_change")
                      \/ /\ b \in DOMAIN s.want /\ SaidOf(s.log, "alert", b, "status_change") = {}
                         /\ s.want[b].status = "in_progress"
                         /\ \E n \in DOMAIN s.log : s.log[n].alert = b /\ QuietEntry(s.log[n])
    BY DEF AlertSaid
  <2>1. CASE b \notin ids
    <3>1. SaidOf(s.log, "alert", b, "status_change") = {}
      BY <1>8, <1>9, <1>12, <2>1 DEF SaidOf
    <3> QED
      BY <1>4, <1>8, <2>1, <3>1 DEF Spoken
  <2>2. CASE b \in ids
    <3>1. PICK n \in DOMAIN log : todo[n] = b /\ \A m \in DOMAIN log : todo[m] = b => m = n
      BY <1>10, <2>2
    <3>2. BulkSaid(rows[b], wa[b], log[n], b) /\ sn[b] = rows[b] /\ n \in Nat
      BY <1>4, <1>9, <1>11, <2>2, <3>1
    <3>3. \A m \in DOMAIN log : log[m].alert = b => m = n
      BY <1>12, <3>1
    <3>4. CASE log[n].kind = "status_change" /\ log[n].new = wa[b].status /\ wa[b].status # rows[b].status
      <4>1. SaidOf(s.log, "alert", b, "status_change") = {n}
        BY <1>8, <1>12, <3>1, <3>3, <3>4 DEF SaidOf
      <4> QED
        BY <1>4, <1>8, <2>2, <3>1, <3>2, <3>4, <4>1 DEF Spoken
    <3>5. CASE log[n].kind # "status_change"
      <4>1. SaidOf(s.log, "alert", b, "status_change") = {}
        BY <1>8, <1>12, <3>1, <3>3, <3>5 DEF SaidOf
      <4>2. CASE wa[b].status = rows[b].status
        BY <1>4, <1>8, <2>2, <3>2, <4>1, <4>2 DEF Spoken
      <4>3. CASE log[n].kind = "claimed" /\ wa[b].status = "in_progress"
        BY <1>4, <1>8, <1>12, <2>2, <3>1, <4>1, <4>3 DEF QuietEntry
      <4> QED
        BY <3>2, <3>5, <4>2, <4>3 DEF BulkSaid
    <3> QED
      BY <3>2, <3>4, <3>5 DEF BulkSaid
  <2> QED
    BY <2>1, <2>2
<1>17. IncidentSaid(s)
  <2> SUFFICES ASSUME NEW i \in RowIds \ Alerts, NEW f \in TrailCols
               PROVE  Spoken(s, "incident", i, f, TrailKind[f])
    BY DEF IncidentSaid
  <2>1. SaidOf(s.log, "incident", i, TrailKind[f]) = {}
    BY <1>8, <1>12, <1>15 DEF SaidOf
  <2>2. i \notin DOMAIN s.want
    BY <1>1, <1>4, <1>8
  <2> QED
    BY <2>1, <2>2 DEF Spoken
<1>18. DeterminationSaid(s)
  BY <1>2, <1>4, <1>8 DEF DeterminationSaid, BulkSaid
<1>19. CreationSaid(c, s) /\ ResolutionSaid(s) /\ LinksSaid(c, s)
  BY <1>8, <1>12 DEF CreationSaid, ResolutionSaid, LinksSaid, LinkKinds
<1>20. Addressed(s)
  BY <1>1, <1>8, <1>9, <1>12 DEF Addressed, Placed
<1>21. FromRows(s) /\ Timely(s)
  BY <1>1, <1>4, <1>8, <1>13, NothingFacts DEF FromRows, Timely
<1> QED
  BY <1>5, <1>8, <1>14, <1>16, <1>17, <1>18, <1>19, <1>20, <1>21 DEF Opens, SessionOK

(***************************************************************************)
(* The sessions of playbook runs.                                          *)
(***************************************************************************)
\* A run or an action of it that leaves the status or sets "in_progress",
\* with an entry of its own.
LEMMA QuietRowSaid ==
  ASSUME NEW row, NEW want, NEW e, IsEntry(e), e.at = 0, e.archived = 0, NEW a, e.alert = a, e.incident = NoRow,
         QuietEntry(e), e.kind \in RowKinds,
         want.status = row.status \/ want.status = "in_progress",
         want.determination = "unknown" /\ row.determination # "unknown"
           => e.kind = "ai_escalated" /\ e.new = "unknown"
  PROVE  About(<<e>>, a, NoRow) /\ Kinded(<<e>>, RowKinds) /\ RowSaid(row, want, <<e>>)
<1> DEFINE log == <<e>>
<1>1. IsLog(log) /\ DOMAIN log = {1} /\ log[1] = e
  BY SingleLog
<1> HIDE DEF log
<1>2. About(log, a, NoRow) /\ Kinded(log, RowKinds)
  BY <1>1 DEF About, Kinded
<1>3. e.kind # "status_change" /\ e.kind # "ai_auto_resolved"
  BY DEF QuietEntry
<1>4. Mute(log, "status_change") /\ Mute(log, "ai_auto_resolved")
  BY <1>1, <1>3 DEF Mute
<1>5. RowSaid(row, want, log)
  <2>1. want.status # row.status => \E n \in DOMAIN log : QuietEntry(log[n])
    BY <1>1
  <2>2. want.determination = "unknown" /\ row.determination # "unknown"
         => \E n \in DOMAIN log : /\ log[n].kind \in {"determination_set", "ai_escalated"}
                                  /\ log[n].new = "unknown"
    BY <1>1
  <2> QED
    BY <1>4, <2>1, <2>2 DEF RowSaid
<1> QED
  BY <1>2, <1>5 DEF log

LEMMA OwnSessionOpens ==
  ASSUME RowsOK, NEW j \in Jobs, NEW row, Found(Subject[j]), row = rows[Subject[j]], NEW want, NEW kind, NEW said,
         OwnSession(j, want, kind, said),
         IsRow(want), want.created = row.created, want.archived = row.archived,
         want.status = row.status \/ want.status = "in_progress",
         kind \in {"ai_escalated", "endpoint_isolated", "ai_endpoint_assessment", "ai_threat_hunt_report"},
         want.determination = "unknown" /\ row.determination # "unknown"
           => kind = "ai_escalated" /\ said = "unknown"
  PROVE  \E s : Opens(j, s)
<1> DEFINE a == Subject[j]
<1>1. a \in Alerts /\ a \in DOMAIN rows
  BY SubjectAssumption DEF Found
<1> PICK e : e = Entry(a, NoRow, kind, "none", said) /\ HasEntry(e, a, NoRow, kind, "none", said)
  BY EntryFacts, Zenon
<1>2. Load(j, RowSession(a, row, want, <<e>>))
  BY DEF OwnSession, RowSession
<1>3. IsEntry(e) /\ e.at = 0 /\ e.archived = 0 /\ e.alert = a /\ e.incident = NoRow /\ e.kind = kind /\ e.new = said
  BY Zenon DEF HasEntry
<1> HIDE DEF a
<1>4. QuietEntry(e) /\ e.kind \in RowKinds
  BY <1>3 DEF QuietEntry, RowKinds
<1>5. About(<<e>>, a, NoRow) /\ Kinded(<<e>>, RowKinds) /\ RowSaid(row, want, <<e>>)
  BY <1>3, <1>4, QuietRowSaid
<1>6. row = rows[a]
  BY DEF a
<1>7. LET s == RowSession(a, row, want, <<e>>)
      IN  s.pc = "loaded" /\ SessionOK(j, s) /\ FromRows(s) /\ Timely(s)
  BY <1>1, <1>5, <1>6, AlertOpens
<1> QED
  BY <1>2, <1>7 DEF Opens

LEMMA StartedRow ==
  ASSUME NEW row, IsRow(row)
  PROVE  LET r == Started(row)
         IN  /\ IsRow(r) /\ r.created = row.created /\ r.archived = row.archived
             /\ r.status = row.status \/ r.status = "in_progress"
             /\ r.determination = row.determination
<1> DEFINE st == IF row.status = "new" THEN "in_progress" ELSE row.status
           r == [row EXCEPT !.status = st]
<1>1. st = row.status \/ st = "in_progress"
  OBVIOUS
<1>2. Started(row) = r
  BY DEF Started, IsRow, Cols
<1> HIDE DEF st
<1>3. /\ DOMAIN r = Cols /\ r.status = st /\ r.determination = row.determination /\ r.stamp = row.stamp
      /\ r.created = row.created /\ r.archived = row.archived
  BY DEF IsRow, Cols
<1> HIDE DEF r
<1>4. IsRow(r)
  BY <1>3 DEF IsRow
<1> QED
  BY <1>1, <1>2, <1>3, <1>4

\* The actions of playbooks that open a session of their own.
LEMMA OwnActionOpens ==
  ASSUME RowsOK, NEW j \in Jobs, Found(Subject[j]),
         EscalatePhishing(j) \/ IsolateEndpoint(j) \/ LogEndpointAssessment(j) \/ SaveHuntReport(j)
  PROVE  (\E s : Opens(j, s)) /\ UNCHANGED job
<1> PICK row : row = rows[Subject[j]]
  OBVIOUS
<1>1. IsRow(row)
  BY DEF RowsOK, Found
<1> DEFINE r == Started(row)
<1>2. /\ IsRow(r) /\ r.created = row.created /\ r.archived = row.archived
      /\ r.status = row.status \/ r.status = "in_progress"
      /\ r.determination = row.determination
  BY <1>1, StartedRow
<1>3. CASE EscalatePhishing(j)
  <2> DEFINE want == [r EXCEPT !.determination = job[j].verdict]
  <2>1. OwnSession(j, want, "ai_escalated", job[j].verdict) /\ UNCHANGED job
    BY <1>3 DEF EscalatePhishing, OwnSession
  <2> HIDE DEF r
  <2>2. /\ DOMAIN want = Cols /\ want.status = r.status /\ want.stamp = r.stamp
        /\ want.determination = job[j].verdict /\ want.created = r.created /\ want.archived = r.archived
    BY <1>2 DEF IsRow, Cols
  <2> HIDE DEF want
  <2>3. IsRow(want)
    BY <1>2, <2>2 DEF IsRow
  <2> QED
    BY <1>2, <2>1, <2>2, <2>3, OwnSessionOpens
<1>4. CASE IsolateEndpoint(j)
  <2> DEFINE want == [row EXCEPT !.status = "in_progress", !.determination = "malicious"]
  <2>1. OwnSession(j, want, "endpoint_isolated", "malicious") /\ UNCHANGED job
    BY <1>4 DEF IsolateEndpoint, OwnSession
  <2>2. /\ DOMAIN want = Cols /\ want.status = "in_progress" /\ want.stamp = row.stamp
        /\ want.determination = "malicious" /\ want.created = row.created /\ want.archived = row.archived
    BY <1>1 DEF IsRow, Cols
  <2> HIDE DEF want
  <2>3. IsRow(want)
    BY <1>1, <2>2 DEF IsRow
  <2> QED
    BY <2>1, <2>2, <2>3, OwnSessionOpens
<1>5. CASE LogEndpointAssessment(j)
  <2>1. OwnSession(j, r, "ai_endpoint_assessment", "none") /\ UNCHANGED job
    BY <1>5 DEF LogEndpointAssessment, OwnSession
  <2> HIDE DEF r
  <2> QED
    BY <1>2, <2>1, OwnSessionOpens
<1>6. CASE SaveHuntReport(j)
  <2>1. OwnSession(j, r, "ai_threat_hunt_report", "none") /\ UNCHANGED job
    BY <1>6 DEF SaveHuntReport, OwnSession
  <2> HIDE DEF r
  <2> QED
    BY <1>2, <2>1, OwnSessionOpens
<1> QED
  BY <1>3, <1>4, <1>5, <1>6

(***************************************************************************)
(* Tasks.  Loaded: the session of a run whose actions have written nothing *)
(* yet; Written: a run that has flushed what it will commit.               *)
(***************************************************************************)
JobFields == {"pc", "at", "mine", "verdict", "who", "tries", "again"}

Over == {"idle", "finished", "failed"}
Acting == {"body", "resolve", "escalate", "isolate", "log", "report", "assign"}

\* The session of a run of j: only its alert, and what was logged about it.
Mine(j, s) ==
    /\ \E row, want, log : HasRow(s, Subject[j], row, want, log) /\ About(log, Subject[j], NoRow)
    /\ SessionOK(j, s) /\ Timely(s)

Fresh(j, s) == \E row : HasRow(s, Subject[j], row, row, <<>>)

\* Between two runs a task has a session as new, or as its last run left it.
Rests(j, s) == s = Session \/ (Mine(j, s) /\ Fresh(j, s))

JobOK(j) ==
    /\ DOMAIN job[j] = JobFields
    /\ job[j].pc \in Over \cup Acting \cup {"end"}
    /\ IF job[j].pc \in Over THEN Rests(j, job[j].mine)
       ELSE Mine(j, job[j].mine) /\ Found(Subject[j]) /\ "respond" \in desk
    /\ job[j].pc \in Acting => Fresh(j, job[j].mine)

LEMMA QueuedFacts ==
  /\ DOMAIN Queued = JobFields /\ Queued.pc = "idle" /\ Queued.mine = Session
  /\ Queued.at = 1 /\ Queued.again = 0 /\ Queued.tries = 0
BY DEF Queued, JobFields

\* The session of a run at its start.
LEMMA HeldRun ==
  ASSUME now \in Nat, NEW j \in Jobs, NEW row, IsRow(row), row.created <= now, NEW s, NEW sn,
         s = Holding(sn), DOMAIN sn = {Subject[j]}, sn[Subject[j]] = row
  PROVE  Mine(j, s) /\ Fresh(j, s) /\ s.snap = sn
<1> DEFINE a == Subject[j]
<1>1. a \in Alerts /\ DOMAIN sn = {a} /\ sn[a] = row
  BY SubjectAssumption
<1>2. s = [Session EXCEPT !.snap = sn, !.want = sn]
  BY DEF Holding
<1>3. HasRow(s, a, row, row, <<>>) /\ s.snap = sn
  BY <1>1, <1>2, SessionFacts DEF HasRow, SessionFields
<1>4. About(<<>>, a, NoRow) /\ Kinded(<<>>, RowKinds) /\ Mute(<<>>, "status_change") /\ Mute(<<>>, "ai_auto_resolved")
  BY NoEntry
<1>5. RowSaid(row, row, <<>>)
  BY <1>4 DEF RowSaid
<1> HIDE DEF a
<1>6. SessionOK(j, s)
  BY <1>1, <1>3, <1>4, <1>5, AlertSession
<1>7. Timely(s)
  BY <1>1, <1>3, NothingFacts DEF HasRow, Timely
<1> QED
  BY <1>3, <1>4, <1>6, <1>7 DEF Mine, Fresh, a

LEMMA LoadedRun ==
  ASSUME RowsOK, NEW j \in Jobs, Found(Subject[j]), NEW s, NEW sn,
         s = Holding(sn), sn = [id \in {Subject[j]} |-> rows[id]]
  PROVE  Mine(j, s) /\ Fresh(j, s) /\ FromRows(s)
<1> PICK row : row = rows[Subject[j]]
  OBVIOUS
<1>1. Subject[j] \in DOMAIN rows /\ IsRow(row) /\ row.created <= now /\ now \in Nat
  BY DEF Found, RowsOK
<1>2. DOMAIN sn = {Subject[j]} /\ sn[Subject[j]] = row
  OBVIOUS
<1>3. Mine(j, s) /\ Fresh(j, s) /\ s.snap = sn
  BY <1>1, <1>2, HeldRun
<1>4. FromRows(s)
  BY <1>1, <1>2, <1>3 DEF FromRows
<1> QED
  BY <1>3, <1>4

\* What a run has flushed.
LEMMA WrittenRun ==
  ASSUME now \in Nat, NEW j \in Jobs, NEW s, NEW row, HasRow(s, Subject[j], row, row, <<>>), Mine(j, s), NEW t, NEW want, NEW log, NEW wa,
         wa = [id \in {Subject[j]} |-> want],
         DOMAIN t = DOMAIN s, t.want = wa, t.log = log, \A f \in DOMAIN s : f \notin {"want", "log"} => t[f] = s[f],
         IsRow(want), want.created = row.created, want.archived = row.archived,
         About(log, Subject[j], NoRow), Kinded(log, RowKinds), RowSaid(row, want, log)
  PROVE  Mine(j, t) /\ t.snap = s.snap /\ HasRow(t, Subject[j], row, want, log)
<1> DEFINE a == Subject[j]
<1>1. a \in Alerts
  BY SubjectAssumption
<1>2. HasRow(t, a, row, want, log)
  BY DEF HasRow, SessionFields
<1>3. IsRow(row) /\ row.created <= now
  BY DEF Mine, HasRow, SessionOK, WellFormed, Timely
<1> HIDE DEF a
<1>4. SessionOK(j, t)
  BY <1>1, <1>2, <1>3, AlertSession DEF a
<1>5. Timely(t)
  BY <1>2, <1>3, NothingFacts DEF HasRow, Timely
<1>6. t.snap = s.snap
  BY DEF HasRow, SessionFields
<1> QED
  BY <1>2, <1>4, <1>5, <1>6 DEF Mine, a

\* Where a step takes a task: the others stay where they are.
JobStepTo(j, x) == job' = [job EXCEPT ![j] = x]

\* A run has come to its end with a session that it has flushed.
Wrote(j, x) ==
    /\ JobStepTo(j, x) /\ DOMAIN x = JobFields /\ x.pc = "end"
    /\ Mine(j, x.mine) /\ x.mine.snap = job[j].mine.snap

LEMMA UpdateWrites ==
  ASSUME now \in Nat, NEW j \in Jobs, DOMAIN job = Jobs, DOMAIN job[j] = JobFields, Mine(j, job[j].mine),
         NEW row, HasRow(job[j].mine, Subject[j], row, row, <<>>), NEW want, NEW log,
         Update(j, want, log),
         IsRow(want), want.created = row.created, want.archived = row.archived,
         About(log, Subject[j], NoRow), Kinded(log, RowKinds), RowSaid(row, want, log)
  PROVE  \E x : Wrote(j, x)
<1> DEFINE wa == [id \in {Subject[j]} |-> want]
           m == job[j].mine
           t == [m EXCEPT !.want = wa, !.log = log]
           x == [job[j] EXCEPT !.pc = "end", !.mine = t]
<1>1. DOMAIN m = SessionFields
  BY DEF HasRow
<1>2. job' = [job EXCEPT ![j].pc = "end", ![j].mine.want = wa, ![j].mine.log = log]
  BY DEF Update
<1>7. wa = [id \in {Subject[j]} |-> want]
  OBVIOUS
<1> HIDE DEF wa
<1>3. /\ DOMAIN t = DOMAIN m /\ t.want = wa /\ t.log = log
      /\ \A f \in DOMAIN m : f \notin {"want", "log"} => t[f] = m[f]
  BY <1>1 DEF SessionFields
<1>4. JobStepTo(j, x)
  BY <1>1, <1>2 DEF JobStepTo, JobFields, SessionFields
<1> HIDE DEF t
<1>5. DOMAIN x = JobFields /\ x.pc = "end" /\ x.mine = t
  BY DEF JobFields
<1>6. Mine(j, t) /\ t.snap = m.snap
  <2> HIDE DEF m, x
  <2>1. HasRow(m, Subject[j], row, row, <<>>) /\ Mine(j, m)
    BY DEF m
  <2> QED
    BY <1>1, <1>3, <1>7, <2>1, WrittenRun
<1> HIDE DEF x
<1> QED
  BY <1>4, <1>5, <1>6 DEF Wrote

\* What resolve_current_alert sets and logs.
Resolves(row, want, log, a) ==
    /\ IsRow(want) /\ want.created = row.created /\ want.archived = row.archived
    /\ About(log, a, NoRow) /\ Kinded(log, RowKinds) /\ RowSaid(row, want, log)

LEMMA ResolvedRow ==
  ASSUME now \in Nat, NEW row, IsRow(row), row.created <= now, NEW a, NEW patch,
         DOMAIN patch = {"status", "determination"}, patch["status"] = "resolved", patch["determination"] = "benign"
  PROVE  Resolves(row, [Set(row, patch) EXCEPT !.stamp = ResolveStamp(row, patch)],
                  ChangeLog(a, NoRow, row, patch, "status", "status_change")
                    \o ChangeLog(a, NoRow, row, patch, "determination", "determination_set")
                    \o <<Entry(a, NoRow, "ai_auto_resolved", "none", "benign")>>, a)
<1> DEFINE stamp == ResolveStamp(row, patch)
           want == [Set(row, patch) EXCEPT !.stamp = stamp]
           log1 == ChangeLog(a, NoRow, row, patch, "status", "status_change")
           log2 == ChangeLog(a, NoRow, row, patch, "determination", "determination_set")
           last3 == <<Entry(a, NoRow, "ai_auto_resolved", "none", "benign")>>
           log == log1 \o log2 \o last3
<1>1. stamp \in {0, now, row.stamp}
  BY DEF ResolveStamp
<1>2. DOMAIN patch \subseteq PatchCols
  BY DEF PatchCols
<1> HIDE DEF stamp
<1>6. /\ IsRow(want) /\ want.created = row.created /\ want.archived = row.archived
      /\ \A f \in PatchCols : want[f] = IF f \in DOMAIN patch THEN patch[f] ELSE row[f]
  BY <1>1, <1>2, PatchedRow
<1>7. want["status"] = "resolved" /\ want["determination"] = "benign"
  BY <1>6 DEF PatchCols
<1> HIDE DEF want
<1>8. /\ About(log1, a, NoRow) /\ Kinded(log1, RowKinds) /\ (\A k : k # "status_change" => Mute(log1, k))
      /\ IF "status" \in DOMAIN patch /\ patch["status"] # row["status"]
         THEN Once(log1, "status_change", patch["status"]) ELSE Mute(log1, "status_change")
  BY ChangeLogSays DEF Kinded, RowKinds
<1>9. /\ About(log2, a, NoRow) /\ Kinded(log2, RowKinds) /\ (\A k : k # "determination_set" => Mute(log2, k))
  BY ChangeLogSays DEF Kinded, RowKinds
<1>10. About(last3, a, NoRow) /\ Kinded(last3, RowKinds) /\ \A k : k # "ai_auto_resolved" => Mute(last3, k)
  <2>1. LET one == <<Entry(a, NoRow, "ai_auto_resolved", "none", "benign")>>
        IN  /\ About(one, a, NoRow) /\ Kinded(one, {"ai_auto_resolved"}) /\ Once(one, "ai_auto_resolved", "benign")
            /\ \A k : k # "ai_auto_resolved" => Mute(one, k)
            /\ 1 \in DOMAIN one /\ one[1] = Entry(a, NoRow, "ai_auto_resolved", "none", "benign")
    BY OneEntry
  <2> QED
    BY <2>1 DEF Kinded, RowKinds
<1> HIDE DEF log1, log2, last3
<1> DEFINE log12 == log1 \o log2
<1>11. /\ About(log12, a, NoRow) /\ Kinded(log12, RowKinds)
       /\ (\A k : Mute(log1, k) /\ Mute(log2, k) => Mute(log12, k))
       /\ \A k, v : (Once(log1, k, v) /\ Mute(log2, k)) \/ (Mute(log1, k) /\ Once(log2, k, v)) => Once(log12, k, v)
  BY <1>8, <1>9, ConcatAbout
<1>12. log = log12 \o last3
  OBVIOUS
<1> HIDE DEF log12, log
<1>13. /\ About(log, a, NoRow) /\ Kinded(log, RowKinds)
       /\ (\A k : Mute(log12, k) /\ Mute(last3, k) => Mute(log, k))
       /\ \A k, v : (Once(log12, k, v) /\ Mute(last3, k)) \/ (Mute(log12, k) /\ Once(last3, k, v)) => Once(log, k, v)
  BY <1>10, <1>11, <1>12, ConcatAbout
<1>14. RowSaid(row, want, log)
  <2>1. CASE row["status"] = "resolved"
    <3>1. Mute(log, "status_change")
      BY <1>8, <1>9, <1>10, <1>11, <1>13, <2>1
    <3> QED
      BY <1>7, <2>1, <3>1 DEF RowSaid
  <2>2. CASE row["status"] # "resolved"
    <3>1. Once(log, "status_change", "resolved")
      BY <1>8, <1>9, <1>10, <1>11, <1>13, <2>2
    <3> QED
      BY <1>7, <2>2, <3>1 DEF RowSaid
  <2> QED
    BY <2>1, <2>2
<1>15. Resolves(row, want, log, a)
  BY <1>6, <1>13, <1>14 DEF Resolves
<1> QED
  BY <1>15 DEF want, log, log1, log2, last3, stamp

LEMMA ResolveWrites ==
  ASSUME now \in Nat, NEW j \in Jobs, DOMAIN job = Jobs, DOMAIN job[j] = JobFields, Mine(j, job[j].mine),
         Fresh(j, job[j].mine), ResolveCurrentAlert(j, "benign", "ai_auto_resolved")
  PROVE  \E x : Wrote(j, x)
<1> PICK row : HasRow(job[j].mine, Subject[j], row, row, <<>>)
  BY DEF Fresh
<1> DEFINE a == Subject[j]
           patch == [status |-> "resolved", determination |-> "benign"]
           want == [Set(row, patch) EXCEPT !.stamp = ResolveStamp(row, patch)]
           log == ChangeLog(a, NoRow, row, patch, "status", "status_change")
                    \o ChangeLog(a, NoRow, row, patch, "determination", "determination_set")
                    \o <<Entry(a, NoRow, "ai_auto_resolved", "none", "benign")>>
<1>1. job[j].mine.snap[a] = row
  BY DEF HasRow
<1>2. Update(j, want, log)
  BY <1>1 DEF ResolveCurrentAlert
<1>3. IsRow(row) /\ row.created <= now
  BY DEF Mine, HasRow, SessionOK, WellFormed, Timely
<1>4. DOMAIN patch = {"status", "determination"} /\ patch["status"] = "resolved" /\ patch["determination"] = "benign"
  OBVIOUS
<1> HIDE DEF patch
<1>5. Resolves(row, want, log, a)
  BY <1>3, <1>4, ResolvedRow
<1> HIDE DEF want, log
<1> QED
  BY <1>2, <1>5, UpdateWrites DEF Resolves

LEMMA AssignWrites ==
  ASSUME now \in Nat, NEW j \in Jobs, DOMAIN job = Jobs, DOMAIN job[j] = JobFields, Mine(j, job[j].mine),
         Fresh(j, job[j].mine), NEW who, AssignCurrentAlert(j, who)
  PROVE  \E x : Wrote(j, x)
<1> PICK a : a = Subject[j]
  OBVIOUS
<1> PICK row : HasRow(job[j].mine, a, row, row, <<>>)
  BY DEF Fresh
<1> PICK e : e = Entry(a, NoRow, "assigned", "none", "playbook") /\ HasEntry(e, a, NoRow, "assigned", "none", "playbook")
  BY EntryFacts, Zenon
<1> DEFINE r == Started(row)
           want == [r EXCEPT !.assigned = who]
<1>1. job[j].mine.snap[a] = row
  BY DEF HasRow
<1>2. Update(j, want, <<e>>)
  BY <1>1 DEF AssignCurrentAlert
<1>3. IsRow(row)
  BY DEF Mine, HasRow, SessionOK, WellFormed
<1>4. /\ IsRow(r) /\ r.created = row.created /\ r.archived = row.archived
      /\ r.status = row.status \/ r.status = "in_progress"
      /\ r.determination = row.determination
  BY <1>3, StartedRow
<1> HIDE DEF r
<1>5. /\ DOMAIN want = Cols /\ want.status = r.status /\ want.stamp = r.stamp
      /\ want.determination = r.determination /\ want.created = r.created /\ want.archived = r.archived
  BY <1>4 DEF IsRow, Cols
<1> HIDE DEF want
<1>6. IsRow(want)
  BY <1>4, <1>5 DEF IsRow
<1>7. IsEntry(e) /\ e.at = 0 /\ e.archived = 0 /\ e.alert = a /\ e.incident = NoRow /\ e.kind = "assigned" /\ e.new = "playbook"
  BY Zenon DEF HasEntry
<1>8. QuietEntry(e) /\ e.kind \in RowKinds
  BY <1>7 DEF QuietEntry, RowKinds
<1>9. About(<<e>>, a, NoRow) /\ Kinded(<<e>>, RowKinds) /\ RowSaid(row, want, <<e>>)
  BY <1>4, <1>5, <1>7, <1>8, QuietRowSaid
<1> QED
  BY <1>2, <1>4, <1>5, <1>6, <1>9, UpdateWrites

(***************************************************************************)
(* The shape of all reachable states: what the rows, the entries and the   *)
(* sessions that are open satisfy whatever calls and runs overlap.         *)
(***************************************************************************)
\* A session that writes nothing.
Empty(s) ==
    /\ DOMAIN s = SessionFields
    /\ s.snap = Nothing /\ s.want = Nothing /\ s.fresh = Nothing /\ s.log = <<>>
    /\ s.link = {} /\ s.unlink = {} /\ s.drop = {}

\* Ids that are taken for good: the row may have been deleted since.
Born == Alerts \cup Incidents \cup {c \in Calls : call[c].pc \notin {"idle", "loaded"}}

\* A loaded row was committed, and is the one that still has its id.
Recalled(s) ==
    /\ DOMAIN s.snap \subseteq Born
    /\ \A id \in DOMAIN s.snap \cap DOMAIN rows : s.snap[id].created = rows[id].created

CallOK(c) ==
    /\ SessionOK(c, call[c]) /\ Timely(call[c]) /\ Recalled(call[c])
    /\ call[c].pc # "loaded" => Empty(call[c])

EntryIn(e, ids) ==
    /\ IsEntry(e) /\ Placed(e) /\ Refers(e) \subseteq ids
    /\ e.kind \in TrailKinds => e.alert = NoRow \/ e.incident = NoRow

TablesOK ==
    /\ RowsOK /\ DOMAIN rows \subseteq Born
    /\ IsSeq(acts) /\ \A n \in DOMAIN acts : EntryIn(acts[n], DOMAIN rows)
    /\ IsFiniteSet(links) /\ runs \subseteq Alerts

Own == {"escalate", "isolate", "log", "report"}

SessionsOK ==
    /\ DOMAIN call = Calls \cup Jobs /\ \A c \in Calls \cup Jobs : CallOK(c)
    /\ DOMAIN job = Jobs
    /\ \A j \in Jobs : /\ JobOK(j) /\ Recalled(job[j].mine)
                       /\ call[j].pc # "idle" => job[j].pc \in Own

Shape ==
    /\ TablesOK /\ SessionsOK
    /\ \A t \in DOMAIN templates : templates[t] \in Versions
    /\ desk \in Desks

LEMMA EmptyOK ==
  ASSUME NEW c, NEW s, Empty(s)
  PROVE  SessionOK(c, s) /\ Timely(s) /\ Recalled(s) /\ FromRows(s)
<1>1. WellFormed(c, s)
  BY NothingFacts, EmptyLog DEF Empty, WellFormed
<1>2. AlertSaid(s) /\ IncidentSaid(s) /\ DeterminationSaid(s)
  BY NothingFacts, EmptyLog DEF Empty, AlertSaid, IncidentSaid, DeterminationSaid, Spoken, SaidOf
<1>3. CreationSaid(c, s) /\ ResolutionSaid(s) /\ LinksSaid(c, s) /\ Addressed(s)
  BY EmptyLog DEF Empty, CreationSaid, ResolutionSaid, LinksSaid, Addressed
<1>4. Timely(s) /\ Recalled(s) /\ FromRows(s)
  BY NothingFacts DEF Empty, Timely, Recalled, FromRows
<1> QED
  BY <1>1, <1>2, <1>3, <1>4 DEF SessionOK

LEMMA SessionEmpty ==
  /\ Empty(Session) /\ Empty(IdleCall) /\ IdleCall.pc = "idle"
  /\ \A pc, then : /\ Empty([Session EXCEPT !.pc = pc]) /\ [Session EXCEPT !.pc = pc].pc = pc
                   /\ Empty([Session EXCEPT !.pc = pc, !.then = then])
                   /\ [Session EXCEPT !.pc = pc, !.then = then].pc = pc
<1>1. Empty(Session)
  BY SessionFacts DEF Empty
<1>2. \A pc, then : /\ Empty([Session EXCEPT !.pc = pc]) /\ [Session EXCEPT !.pc = pc].pc = pc
                    /\ Empty([Session EXCEPT !.pc = pc, !.then = then])
                    /\ [Session EXCEPT !.pc = pc, !.then = then].pc = pc
  BY SessionFacts DEF Empty, SessionFields
<1>3. Empty(IdleCall) /\ IdleCall.pc = "idle"
  BY <1>2 DEF IdleCall
<1> QED
  BY <1>1, <1>2, <1>3

LEMMA ShapeInit == Init => Shape
<1> SUFFICES ASSUME Init
             PROVE  Shape
  OBVIOUS
<1>1. /\ rows = [id \in Alerts \cup Incidents |-> IF id \in Alerts THEN NewAlert ELSE NewIncident("medium", 1)]
      /\ links = {} /\ acts = <<>> /\ runs = {} /\ now = 1
      /\ call = [c \in Calls \cup Jobs |-> IdleCall]
  BY DEF Init, CaseInit
<1>2. DOMAIN rows = Alerts \cup Incidents /\ \A id \in DOMAIN rows : IsRow(rows[id]) /\ rows[id].created = 1
  BY <1>1, RowFacts
<1>3. RowsOK /\ DOMAIN rows \subseteq Born
  <2>1. now = 1
    BY <1>1
  <2>2. RowsOK
    BY <1>2, <2>1 DEF RowsOK, RowIds
  <2>3. DOMAIN rows \subseteq Born
    BY <1>2 DEF Born
  <2> QED
    BY <2>2, <2>3
<1>4. TablesOK
  <2>1. IsSeq(acts) /\ DOMAIN acts = {} /\ runs \subseteq Alerts
    BY <1>1, EmptyLog
  <2>2. IsFiniteSet(links)
    BY <1>1, FS_EmptySet, Zenon
  <2> QED
    BY <1>3, <2>1, <2>2 DEF TablesOK
<1>5. DOMAIN call = Calls \cup Jobs /\ \A c \in Calls \cup Jobs : call[c] = IdleCall
  BY <1>1
<1>6. \A c \in Calls \cup Jobs : CallOK(c)
  BY <1>5, SessionEmpty, EmptyOK DEF CallOK
<1>7. job = [j \in Jobs |-> Queued]
  BY DEF Init, RespondersInit
<1>8. DOMAIN job = Jobs /\ \A j \in Jobs : JobOK(j) /\ Recalled(job[j].mine)
  BY <1>7, QueuedFacts, SessionEmpty, EmptyOK DEF JobOK, Over, Acting, Rests
<1>9. SessionsOK
  BY <1>5, <1>6, <1>8, SessionEmpty DEF SessionsOK
<1>10. \A t \in DOMAIN templates : templates[t] \in Versions
  BY DEF Init, IncidentInit
<1> QED
  BY <1>4, <1>9, <1>10 DEF Init, Shape

(***************************************************************************)
(* The steps, as they are seen from the rows.                              *)
(***************************************************************************)
\* A call is over or starts over, with nothing left to write.
Closes(c, t) ==
    /\ c \in Calls \cup Jobs /\ Empty(t) /\ t.pc # "loaded"
    /\ c \in Calls => t.pc # "idle"
    /\ call' = [call EXCEPT ![c] = t]
    /\ UNCHANGED <<rows, links, acts, comments, runs, now>>

\* The session of c, of a call or of a run, is committed.
Writes(c, s) ==
    /\ c \in Calls \cup Jobs
    /\ SessionOK(c, s) /\ Timely(s) /\ Recalled(s) /\ DOMAIN s.fresh \cap Born = {}
    /\ ~Stale(s) /\ ~Dangling(s) /\ ~Blocked(s.drop)
    /\ Apply(s) /\ now' = now /\ runs \subseteq runs' /\ runs' \subseteq Alerts
    /\ \A j \in Jobs : Underway(j) => Subject[j] \notin s.drop

Commits(c, t) ==
    /\ Writes(c, call[c]) /\ call[c].pc = "loaded"
    /\ call' = [call EXCEPT ![c] = t] /\ Empty(t) /\ t.pc \in {"done", "after"} /\ runs' = runs

Ends(j) == Writes(j, job[j].mine) /\ call' = call

\* No row changes.
Stays ==
    /\ UNCHANGED <<rows, links, acts, call>>
    /\ now' \in {now, now + 1} /\ runs \subseteq runs' /\ runs' \subseteq Alerts

RowStep ==
    \/ Stays
    \/ \E c \in Calls \cup Jobs : \E s : Opens(c, s)
    \/ \E c, t : Closes(c, t)
    \/ \E c, t : Commits(c, t)
    \/ \E j \in Jobs : Ends(j)
    \/ "purge" \in desk /\ PurgeCommits

\* Where a task goes.
Moves(j, x) ==
    /\ JobStepTo(j, x) /\ DOMAIN x = JobFields /\ x.pc \in Over \cup Acting \cup {"end"}
    /\ IF x.pc \in Over THEN Rests(j, x.mine)
       ELSE Mine(j, x.mine) /\ Found(Subject[j]) /\ "respond" \in desk
    /\ x.pc \in Acting => Fresh(j, x.mine)
    /\ \/ x.mine.snap = job[j].mine.snap \/ FromRows(x.mine)
       \/ job[j].pc = "end" /\ x.mine.snap = job[j].mine.want    \* kept for the next run

JobsStep ==
    \/ job' = job
    \/ \E j \in Jobs : \E x : Moves(j, x) /\ (Ends(j) \/ (job[j].pc # "end" /\ UNCHANGED rows))

LEMMA RefuseCloses ==
  ASSUME Shape, NEW c \in Calls, call[c].pc = "idle", Refuse(c)
  PROVE  \E t : Closes(c, t)
<1> DEFINE t == [call[c] EXCEPT !.pc = "refused"]
<1>1. Empty(call[c])
  BY DEF Shape, SessionsOK, CallOK
<1>2. Empty(t) /\ t.pc = "refused"
  BY <1>1 DEF Empty, SessionFields
<1>3. call' = [call EXCEPT ![c] = t] /\ UNCHANGED <<rows, links, acts, comments, runs, now>>
  BY DEF Refuse
<1> HIDE DEF t
<1> QED
  BY <1>2, <1>3 DEF Closes

LEMMA AlertRequestSteps ==
  ASSUME Shape, NEW c \in Calls, AlertRequest(c)
  PROVE  RowStep /\ UNCHANGED <<incidentVars, talkVars, purgeVars, jobVars, desk>> /\ comments' = comments
<1>1. RowsOK /\ now \in Nat /\ c \in Calls \cup Jobs
  BY DEF Shape, TablesOK, RowsOK
<1>2. (call[c].pc = "idle" /\ Refuse(c)) \/ \E s : Opens(c, s)
  <2>1. ASSUME NEW a \in Alerts, UpdateAlert(c, a)
        PROVE  (call[c].pc = "idle" /\ Refuse(c)) \/ \E s : Opens(c, s)
    BY <1>1, <2>1, UpdateAlertOpens
  <2>2. ASSUME NEW a \in Alerts, ClaimAlert(c, a)
        PROVE  \E s : Opens(c, s)
    BY <1>1, <2>2, ClaimAlertOpens
  <2>3. ASSUME BulkUpdate(c)
        PROVE  \E s : Opens(c, s)
    BY <1>1, <2>3, BulkUpdateOpens
  <2>4. ASSUME NEW a \in Alerts, DeleteAlert(c, a)
        PROVE  \E s : Opens(c, s)
    BY <1>1, <2>4, DeleteAlertOpens
  <2>5. ASSUME NEW a \in Alerts, CreateIncidentFor(c, a)
        PROVE  \E s : Opens(c, s)
    BY <1>1, <2>5, CreateIncidentForOpens
  <2>6. ASSUME NEW a \in Alerts, NEW i \in Incidents \cup Calls, LinkIncidentFor(c, a, i)
        PROVE  (call[c].pc = "idle" /\ Refuse(c)) \/ \E s : Opens(c, s)
    BY <2>6, LinkIncidentForOpens
  <2> QED
    BY <2>1, <2>2, <2>3, <2>4, <2>5, <2>6, Zenon DEF AlertRequest
<1>3. UNCHANGED <<incidentVars, talkVars, purgeVars, jobVars, desk>>
  BY Zenon DEF AlertRequest
<1>4. CASE call[c].pc = "idle" /\ Refuse(c)
  <2>1. \E t : Closes(c, t)
    BY <1>4, RefuseCloses
  <2>2. comments' = comments
    BY <1>4 DEF Refuse
  <2> QED
    BY <1>3, <2>1, <2>2 DEF RowStep
<1>5. CASE \E s : Opens(c, s)
  <2>1. comments' = comments
    BY <1>5 DEF Opens, Load
  <2>2. RowStep
    BY <1>1, <1>5, Zenon DEF RowStep
  <2> QED
    BY <1>3, <2>1, <2>2
<1> QED
  BY <1>2, <1>4, <1>5

LEMMA IncidentRequestSteps ==
  ASSUME Shape, NEW c \in Calls, IncidentRequest(c)
  PROVE  /\ RowStep /\ UNCHANGED <<talkVars, purgeVars, jobVars, desk>> /\ comments' = comments
         /\ \A t \in DOMAIN templates' : templates'[t] \in Versions
<1>1. /\ RowsOK /\ now \in Nat /\ c \in Calls \cup Jobs /\ IsFiniteSet(links)
      /\ \A t \in DOMAIN templates : templates[t] \in Versions
  BY DEF Shape, TablesOK, RowsOK
<1>2. UNCHANGED <<talkVars, purgeVars, jobVars, desk>>
  BY Zenon DEF IncidentRequest
<1> DEFINE Same == \A t \in DOMAIN templates' : templates'[t] \in Versions
<1>3. UNCHANGED incidentVars => Same
  BY <1>1 DEF incidentVars
<1>4. ASSUME CreateIncident(c)
      PROVE  Same /\ \E s : Opens(c, s)
  BY <1>1, <1>3, <1>4, CreateIncidentOpens DEF CreateIncident
<1>5. ASSUME NEW i \in Incidents \cup Calls, UpdateIncident(c, i)
      PROVE  Same /\ \E s : Opens(c, s)
  BY <1>1, <1>3, <1>5, UpdateIncidentOpens DEF UpdateIncident
<1>6. ASSUME NEW i \in Incidents \cup Calls, NEW a \in Alerts, LinkAlert(c, i, a)
      PROVE  Same /\ ((call[c].pc = "idle" /\ Refuse(c)) \/ \E s : Opens(c, s))
  <2>1. Same
    BY <1>3, <1>6, Zenon DEF LinkAlert
  <2> QED
    BY <1>6, <2>1, LinkAlertOpens
<1>7. ASSUME NEW i \in Incidents \cup Calls, NEW a \in Alerts, UnlinkAlert(c, i, a)
      PROVE  Same /\ ((call[c].pc = "idle" /\ Refuse(c)) \/ \E s : Opens(c, s))
  <2>1. Same
    BY <1>3, <1>7, Zenon DEF UnlinkAlert
  <2> QED
    BY <1>1, <1>7, <2>1, UnlinkAlertOpens
<1>8. ASSUME NEW t \in Templates, CreateFromTemplate(c, t)
      PROVE  Same /\ \E s : Opens(c, s)
  BY <1>1, <1>3, <1>8, CreateFromTemplateOpens DEF CreateFromTemplate
<1>9. ASSUME call[c].pc = "idle", call' = [call EXCEPT ![c].pc = "done"],
             UNCHANGED <<rows, links, acts, comments, runs, now>>
      PROVE  \E t : Closes(c, t)
  <2> DEFINE t == [call[c] EXCEPT !.pc = "done"]
  <2>1. Empty(call[c])
    BY <1>9 DEF Shape, SessionsOK, CallOK
  <2>2. Empty(t) /\ t.pc = "done"
    BY <2>1 DEF Empty, SessionFields
  <2>3. call' = [call EXCEPT ![c] = t]
    BY <1>9
  <2> HIDE DEF t
  <2> QED
    BY <1>9, <2>2, <2>3 DEF Closes
<1>10. ASSUME NEW t \in Templates, SaveTemplate(c, t)
       PROVE  Same /\ \E u : Closes(c, u)
  <2>1. PICK v \in Versions : templates' = [u \in DOMAIN templates \cup {t} |-> IF u = t THEN v ELSE templates[u]]
    BY <1>10 DEF SaveTemplate
  <2>2. Same
    BY <1>1, <2>1
  <2> QED
    BY <1>9, <1>10, <2>2 DEF SaveTemplate
<1>11. ASSUME NEW t \in Templates, DeleteTemplate(c, t)
       PROVE  Same /\ \E u : Closes(c, u)
  <2>1. Same
    BY <1>1, <1>11 DEF DeleteTemplate
  <2> QED
    BY <1>9, <1>11, <2>1 DEF DeleteTemplate
<1> HIDE DEF Same
<1>12. Same /\ ((call[c].pc = "idle" /\ Refuse(c)) \/ (\E s : Opens(c, s)) \/ (\E u : Closes(c, u)))
  BY <1>4, <1>5, <1>6, <1>7, <1>8, <1>10, <1>11, Zenon DEF IncidentRequest
<1>13. (\E s : Opens(c, s)) \/ (\E u : Closes(c, u))
  BY <1>12, RefuseCloses
<1>14. CASE \E s : Opens(c, s)
  <2>1. comments' = comments
    BY <1>14 DEF Opens, Load
  <2>2. RowStep
    BY <1>1, <1>14, Zenon DEF RowStep
  <2> QED
    BY <1>2, <1>12, <2>1, <2>2 DEF Same
<1>15. CASE \E u : Closes(c, u)
  <2>1. comments' = comments
    BY <1>15 DEF Closes
  <2>2. RowStep
    BY <1>15, Zenon DEF RowStep
  <2> QED
    BY <1>2, <1>12, <2>1, <2>2 DEF Same
<1> QED
  BY <1>13, <1>14, <1>15

\* The COMMIT of a call or of an action.
LEMMA CommitSteps ==
  ASSUME Shape, NEW c \in Calls \cup Jobs, Commit(c), ~Waits(call[c])
  PROVE  (\E t : Commits(c, t)) /\ comments' = CommentsWithout(call[c].drop)
<1> DEFINE s == call[c]
           t == [Session EXCEPT !.pc = IF s.then = <<>> THEN "done" ELSE "after", !.then = s.then]
<1>1. s.pc = "loaded" /\ ~CommitFails(s) /\ Apply(s) /\ call' = [call EXCEPT ![c] = t] /\ runs' = runs /\ now' = now
  BY DEF Commit
<1>2. SessionOK(c, s) /\ Timely(s) /\ Recalled(s)
  BY DEF Shape, SessionsOK, CallOK
<1>3. Empty(t) /\ t.pc \in {"done", "after"}
  <2> DEFINE pc == IF s.then = <<>> THEN "done" ELSE "after"
  <2>1. pc \in {"done", "after"}
    OBVIOUS
  <2> HIDE DEF pc
  <2>2. \A then : LET u == [Session EXCEPT !.pc = pc, !.then = then] IN Empty(u) /\ u.pc = pc
    BY SessionEmpty
  <2>3. t = [Session EXCEPT !.pc = pc, !.then = s.then]
    BY DEF pc
  <2> HIDE DEF t, s
  <2> QED
    BY <2>1, <2>2, <2>3
<1>4. DOMAIN s.fresh \cap Born = {}
  <2>1. DOMAIN s.fresh \subseteq {c} \cap Calls
    BY <1>2 DEF SessionOK, WellFormed
  <2>2. c \in Calls => c \notin Born
    BY <1>1, IdAssumption DEF Born
  <2> QED
    BY <2>1, <2>2
<1>5. ~Stale(s) /\ ~Dangling(s) /\ ~Blocked(s.drop)
  BY <1>1 DEF CommitFails
<1>6. \A j \in Jobs : Underway(j) => Subject[j] \notin s.drop
  BY DEF Waits
<1>7. runs \subseteq Alerts
  BY DEF Shape, TablesOK
<1>8. comments' = CommentsWithout(s.drop)
  BY <1>1 DEF Apply
<1> HIDE DEF t
<1>9. Commits(c, t)
  <2>1. Writes(c, s)
    <3> HIDE DEF s
    <3> QED
      BY <1>1, <1>2, <1>4, <1>5, <1>6, <1>7 DEF Writes
  <2> QED
    BY <1>1, <1>3, <2>1 DEF Commits
<1> QED
  BY <1>8, <1>9

LEMMA EndRequestSteps ==
  ASSUME Shape, NEW c \in Calls, EndRequest(c)
  PROVE  /\ RowStep /\ UNCHANGED <<talkVars, purgeVars, jobVars, desk, templates>>
         /\ (comments' = comments \/ \E gone : comments' = CommentsWithout(gone))
<1>1. UNCHANGED <<talkVars, purgeVars, jobVars, desk, templates>>
  <2>1. UNCHANGED <<talkVars, purgeVars, jobVars, desk>>
    BY Zenon DEF EndRequest
  <2>2. TriggerTemplatePlaybooks(c) => UNCHANGED templates
    BY DEF TriggerTemplatePlaybooks, SendNext
  <2>3. TriggerFails(c) => UNCHANGED templates
    BY DEF TriggerFails, incidentVars
  <2>4. UNCHANGED incidentVars => UNCHANGED templates
    BY DEF incidentVars
  <2> QED
    BY <2>1, <2>2, <2>3, <2>4, Zenon DEF EndRequest
<1>2. CASE ~Waits(call[c]) /\ Commit(c)
  <2>1. (\E t : Commits(c, t)) /\ comments' = CommentsWithout(call[c].drop)
    BY <1>2, CommitSteps
  <2>2. RowStep
    BY <2>1, Zenon DEF RowStep
  <2> QED
    BY <1>1, <2>1, <2>2
<1>3. CASE Rollback(c)
  <2> DEFINE t == [Session EXCEPT !.pc = "failed"]
  <2>1. Empty(t) /\ t.pc = "failed"
    BY SessionEmpty
  <2>2. call' = [call EXCEPT ![c] = t] /\ UNCHANGED <<rows, links, acts, comments, runs, now>>
    BY <1>3 DEF Rollback
  <2> HIDE DEF t
  <2>3. Closes(c, t)
    BY <2>1, <2>2 DEF Closes
  <2>4. RowStep
    BY <2>3, Zenon DEF RowStep
  <2> QED
    BY <1>1, <2>2, <2>4
<1>4. /\ TriggerTemplatePlaybooks(c) \/ TriggerFails(c) => call[c].pc = "after" /\ UNCHANGED <<rows, links, acts, comments, runs, now>>
      /\ TriggerTemplatePlaybooks(c) => UNCHANGED call \/ call' = [call EXCEPT ![c].pc = "done"]
      /\ TriggerFails(c) => call' = [call EXCEPT ![c].pc = "failed"]
  BY DEF TriggerTemplatePlaybooks, SendNext, TriggerFails
<1>5. CASE TriggerTemplatePlaybooks(c) /\ UNCHANGED call
  <2>1. UNCHANGED <<rows, links, acts, call, now, runs>> /\ comments' = comments
    BY <1>4, <1>5
  <2>2. runs \subseteq Alerts
    BY DEF Shape, TablesOK
  <2>3. Stays
    BY <2>1, <2>2 DEF Stays
  <2> QED
    BY <1>1, <2>1, <2>3, Zenon DEF RowStep
<1>6. ASSUME NEW pc \in {"done", "failed"}, call' = [call EXCEPT ![c].pc = pc], call[c].pc = "after",
             UNCHANGED <<rows, links, acts, comments, runs, now>>
      PROVE  RowStep /\ comments' = comments
  <2> DEFINE t == [call[c] EXCEPT !.pc = pc]
  <2>1. Empty(call[c])
    BY <1>6 DEF Shape, SessionsOK, CallOK
  <2>2. Empty(t) /\ t.pc = pc
    BY <2>1 DEF Empty, SessionFields
  <2>3. call' = [call EXCEPT ![c] = t] /\ UNCHANGED <<rows, links, acts, comments, runs, now>>
    BY <1>6
  <2> HIDE DEF t
  <2>4. Closes(c, t)
    BY <2>2, <2>3 DEF Closes
  <2>5. RowStep
    BY <2>4, Zenon DEF RowStep
  <2> QED
    BY <2>3, <2>5
<1>7. CASE TriggerTemplatePlaybooks(c) \/ TriggerFails(c)
  BY <1>1, <1>4, <1>5, <1>6, <1>7
<1> QED
  BY <1>2, <1>3, <1>7 DEF EndRequest

\* The commit at the end of a run.
LEMMA EndRunSteps ==
  ASSUME Shape, NEW j \in Jobs, EndRun(j)
  PROVE  /\ Ends(j) /\ (\E x : Moves(j, x)) /\ comments' = CommentsWithout({})
<1> DEFINE s == job[j].mine
<1>1. /\ job[j].pc = "end" /\ Apply(s) /\ runs' = runs \cup {Subject[j]} /\ call' = call /\ now' = now
  BY DEF EndRun
<1>2. /\ DOMAIN job = Jobs /\ DOMAIN job[j] = JobFields /\ Mine(j, s) /\ Found(Subject[j]) /\ Recalled(s)
      /\ "respond" \in desk
  BY <1>1 DEF Shape, SessionsOK, JobOK, Over
<1>3. PICK row, want, log : HasRow(s, Subject[j], row, want, log) /\ About(log, Subject[j], NoRow)
  BY <1>2 DEF Mine
<1>4. Subject[j] \in Alerts
  BY SubjectAssumption
<1> HIDE DEF s
<1>5. ~Stale(s) /\ ~Blocked(s.drop) /\ DOMAIN s.fresh \cap Born = {}
  BY <1>2, <1>3, NothingFacts DEF Stale, Blocked, HasRow
<1>6. ~Dangling(s)
  <2>1. \A n \in DOMAIN s.log : Refers(s.log[n]) \subseteq {Subject[j]}
    BY <1>3 DEF HasRow, About, Refers
  <2> QED
    BY <1>2, <1>3, <2>1 DEF Dangling, HasRow, Found
<1>7. s.drop = {}
  BY <1>3 DEF HasRow
<1>8. SessionOK(j, s) /\ Timely(s)
  BY <1>2 DEF Mine
<1>9. runs \subseteq Alerts
  BY DEF Shape, TablesOK
<1>10. Writes(j, s)
  BY <1>1, <1>2, <1>4, <1>5, <1>6, <1>7, <1>8, <1>9 DEF Writes
<1>11. comments' = CommentsWithout({})
  BY <1>1, <1>7 DEF Apply
<1>12. \E x : Moves(j, x)
  <2> DEFINE over == [Queued EXCEPT !.at = job[j].at, !.again = job[j].again]
             held == Holding(s.want)
             x == IF over.at < Len(script[j]) THEN [over EXCEPT !.at = @ + 1, !.mine = held]
                  ELSE [over EXCEPT !.pc = "finished"]
  <2>1. job' = [job EXCEPT ![j] = x]
    BY DEF EndRun, s
  <2>2. DOMAIN over = JobFields /\ over.pc = "idle" /\ over.mine = Session
    BY QueuedFacts DEF JobFields
  <2> HIDE DEF over, held
  <2>3. DOMAIN x = JobFields /\ x.pc \in {"idle", "finished"} /\ x.mine \in {Session, held}
    BY <2>2 DEF JobFields
  <2> HIDE DEF x
  <2>4. FromRows(Session)
    BY SessionEmpty, EmptyOK
  <2>5. Mine(j, held) /\ Fresh(j, held) /\ held.snap = s.want
    <3>1. DOMAIN s.want = {Subject[j]} /\ s.want[Subject[j]] = want /\ IsRow(want) /\ want.created <= now
      BY <1>2, <1>3 DEF Mine, HasRow, SessionOK, WellFormed, Timely
    <3>2. now \in Nat
      BY DEF Shape, TablesOK, RowsOK
    <3> PICK sn : sn = s.want
      OBVIOUS
    <3>3. held = Holding(sn)
      BY DEF held
    <3> QED
      BY <3>1, <3>2, <3>3, HeldRun
  <2>6. job[j].mine = s
    BY DEF s
  <2> QED
    BY <1>1, <2>1, <2>3, <2>4, <2>5, <2>6 DEF Moves, JobStepTo, Over, Acting, Rests
<1> QED
  BY <1>1, <1>10, <1>11, <1>12 DEF Ends, s

(***************************************************************************)
(* Steps of tasks.                                                         *)
(***************************************************************************)
\* An action of a run that is waited for is one with a session of its own.
OwnKept == \A k \in Jobs : call'[k].pc # "idle" => job'[k].pc \in Own

\* A step of a task that leaves the tables alone.
LEMMA MoveSteps ==
  ASSUME Shape, NEW j \in Jobs, NEW x, Moves(j, x), UNCHANGED caseVars, job[j].pc \notin Own \cup {"end"}
  PROVE  RowStep /\ JobsStep /\ OwnKept
<1>1. UNCHANGED <<rows, links, acts, call, now, runs>>
  BY DEF caseVars
<1>2. runs \subseteq Alerts
  BY DEF Shape, TablesOK
<1>3. Stays
  BY <1>1, <1>2 DEF Stays
<1>4. \A k \in Jobs : call[k].pc # "idle" => job[k].pc \in Own
  BY DEF Shape, SessionsOK
<1>5. call[j].pc = "idle"
  BY <1>4
<1>6. job' = [job EXCEPT ![j] = x]
  BY DEF Moves, JobStepTo
<1>7. OwnKept
  BY <1>1, <1>4, <1>5, <1>6 DEF OwnKept, Shape, SessionsOK
<1>8. job[j].pc # "end" /\ UNCHANGED rows
  BY <1>1
<1>9. JobsStep
  BY <1>8, Zenon DEF JobsStep
<1> QED
  BY <1>3, <1>7, <1>9, Zenon DEF RowStep

LEMMA JobFacts ==
  ASSUME Shape, NEW j \in Jobs
  PROVE  /\ DOMAIN job = Jobs /\ DOMAIN job[j] = JobFields /\ Recalled(job[j].mine) /\ now \in Nat /\ RowsOK
         /\ job[j].pc \notin Over => Mine(j, job[j].mine) /\ Found(Subject[j]) /\ "respond" \in desk
         /\ job[j].pc \in Over => Rests(j, job[j].mine)
         /\ job[j].mine.drop = {} /\ DOMAIN job[j].mine.want = DOMAIN job[j].mine.snap
         /\ job[j].pc \in Acting => Fresh(j, job[j].mine)
         /\ job[j].pc \in Over \cup Acting \cup {"end"}
         /\ call[j].pc # "idle" => job[j].pc \in Own
<1>1. SessionsOK /\ TablesOK /\ JobOK(j)
  BY DEF Shape, SessionsOK
<1>2. job[j].mine = Session \/ Mine(j, job[j].mine)
  BY <1>1 DEF JobOK, Rests
<1>3. job[j].mine.drop = {} /\ DOMAIN job[j].mine.want = DOMAIN job[j].mine.snap
  BY <1>2, SessionFacts DEF Mine, HasRow
<1> QED
  BY <1>1, <1>3 DEF SessionsOK, JobOK, TablesOK, RowsOK

LEMMA StartRunMoves ==
  ASSUME Shape, NEW j \in Jobs, StartRun(j), "respond" \in desk
  PROVE  \E x : Moves(j, x)
<1> DEFINE sn == [id \in {Subject[j]} |-> rows[id]]
           m == Holding(sn)
<1>1. DOMAIN job[j] = JobFields /\ RowsOK /\ Found(Subject[j]) /\ DOMAIN job = Jobs /\ job[j].pc = "idle"
  BY JobFacts DEF StartRun
<1>2. CASE job' = [job EXCEPT ![j].pc = "body", ![j].mine = m]
  <2> DEFINE x == [job[j] EXCEPT !.pc = "body", !.mine = m]
  <2>1. Mine(j, m) /\ Fresh(j, m) /\ FromRows(m)
    BY <1>1, LoadedRun
  <2> HIDE DEF m
  <2>2. job' = [job EXCEPT ![j] = x]
    BY <1>1, <1>2 DEF JobFields
  <2>3. DOMAIN x = JobFields /\ x.pc = "body" /\ x.mine = m
    BY <1>1 DEF JobFields
  <2> HIDE DEF x
  <2> QED
    BY <1>1, <2>1, <2>2, <2>3 DEF Moves, JobStepTo, Over, Acting
<1>3. CASE Subject[j] \in DOMAIN job[j].mine.snap /\ job' = [job EXCEPT ![j].pc = "body"]
  <2> DEFINE x == [job[j] EXCEPT !.pc = "body"]
  <2>1. job[j].mine # Session /\ Rests(j, job[j].mine)
    BY <1>1, <1>3, SessionFacts, NothingFacts, JobFacts DEF Over
  <2>2. Mine(j, job[j].mine) /\ Fresh(j, job[j].mine)
    BY <2>1 DEF Rests
  <2>3. job' = [job EXCEPT ![j] = x]
    BY <1>3
  <2>4. DOMAIN x = JobFields /\ x.pc = "body" /\ x.mine = job[j].mine
    BY <1>1 DEF JobFields
  <2> HIDE DEF x
  <2> QED
    BY <1>1, <2>2, <2>3, <2>4 DEF Moves, JobStepTo, Over, Acting
<1> HIDE DEF m
<1>4. \/ job' = [job EXCEPT ![j].pc = "body", ![j].mine = m]
      \/ Subject[j] \in DOMAIN job[j].mine.snap /\ job' = [job EXCEPT ![j].pc = "body"]
  BY DEF StartRun, m
<1> QED
  BY <1>2, <1>3, <1>4 DEF m

LEMMA TaskFailsMoves ==
  ASSUME Shape, NEW j \in Jobs, TaskFails(j)
  PROVE  \E x : Moves(j, x)
<1> DEFINE x == IF job[j].again < TaskRetries THEN [Queued EXCEPT !.again = job[j].again + 1]
                ELSE [job[j] EXCEPT !.pc = "failed", !.mine = Session]
<1>1. DOMAIN job[j] = JobFields
  BY JobFacts
<1>2. job' = [job EXCEPT ![j] = x]
  BY DEF TaskFails
<1>3. DOMAIN x = JobFields /\ x.pc \in {"idle", "failed"} /\ x.mine = Session
  <2>1. CASE job[j].again < TaskRetries
    <3> DEFINE y == [Queued EXCEPT !.again = job[j].again + 1]
    <3>1. DOMAIN y = JobFields /\ y.pc = "idle" /\ y.mine = Session
      BY QueuedFacts DEF JobFields
    <3> QED
      BY <2>1, <3>1
  <2>2. CASE ~(job[j].again < TaskRetries)
    BY <1>1, <2>2 DEF JobFields
  <2> QED
    BY <2>1, <2>2
<1> HIDE DEF x
<1>4. FromRows(Session)
  BY SessionEmpty, EmptyOK
<1> QED
  BY <1>2, <1>3, <1>4 DEF Moves, JobStepTo, Over, Acting, Rests

\* A run that goes on within its body, to an action or to its end.
LEMMA GoesOnMoves ==
  ASSUME Shape, NEW j \in Jobs, job[j].pc \in Acting, NEW x, job' = [job EXCEPT ![j] = x],
         DOMAIN x = JobFields, x.pc \in Acting \cup {"end"}, x.mine = job[j].mine
  PROVE  Moves(j, x)
<1>1. job[j].pc \notin Over
  BY DEF Acting, Over
<1>2. x.pc \notin Over
  BY DEF Acting, Over
<1> QED
  BY <1>1, <1>2, JobFacts DEF Moves, JobStepTo

LEMMA ProceedMoves ==
  ASSUME Shape, NEW j \in Jobs, job[j].pc \in Acting, NEW pc \in Acting \cup {"end"},
         job' = [job EXCEPT ![j].pc = pc]
  PROVE  \E x : Moves(j, x)
<1> DEFINE x == [job[j] EXCEPT !.pc = pc]
<1>1. DOMAIN job[j] = JobFields
  BY JobFacts
<1>2. DOMAIN x = JobFields /\ x.pc = pc /\ x.mine = job[j].mine
  BY <1>1 DEF JobFields
<1>3. job' = [job EXCEPT ![j] = x]
  OBVIOUS
<1> HIDE DEF x
<1> QED
  BY <1>2, <1>3, GoesOnMoves

LEMMA WroteMoves ==
  ASSUME Shape, NEW j \in Jobs, job[j].pc \in Acting, NEW x, Wrote(j, x)
  PROVE  Moves(j, x)
<1>1. job[j].pc \notin Over /\ "end" \notin Over /\ "end" \notin Acting
  BY DEF Acting, Over
<1> QED
  BY <1>1, JobFacts DEF Moves, Wrote

\* Steps in the body of a run that write nothing.
LEMMA BodySteps ==
  ASSUME Shape, NEW j \in Jobs,
         \/ BodyRaises(j) \/ AutoEnrichIocs(j) \/ TriageHighSeverity(j) \/ AiPhishingTriage(j)
         \/ AiEndpointContainment(j) \/ AiThreatHunt(j) \/ EscalationWorkflow(j)
  PROVE  (\E x : Moves(j, x)) /\ UNCHANGED caseVars /\ job[j].pc \notin Own \cup {"end"}
<1>1. job[j].pc = "body"
  BY DEF BodyRaises, AutoEnrichIocs, TriageHighSeverity, AiPhishingTriage, AiEndpointContainment,
         AiThreatHunt, EscalationWorkflow, Body
<1>2. job[j].pc \in Acting /\ job[j].pc \notin Own \cup {"end"}
  BY <1>1 DEF Acting, Own
<1>3. DOMAIN job[j] = JobFields /\ DOMAIN job = Jobs
  BY JobFacts
<1>4. ASSUME NEW pc \in Acting \cup {"end"}, Proceed(j, pc)
      PROVE  (\E x : Moves(j, x)) /\ UNCHANGED caseVars
  BY <1>2, <1>4, ProceedMoves DEF Proceed
<1>5. CASE BodyRaises(j) \/ AutoEnrichIocs(j) \/ TriageHighSeverity(j)
  BY <1>2, <1>4, <1>5 DEF BodyRaises, AutoEnrichIocs, TriageHighSeverity
<1>6. CASE AiEndpointContainment(j) \/ AiThreatHunt(j)
  BY <1>2, <1>4, <1>6 DEF AiEndpointContainment, AiThreatHunt, AssessEndpoint, Acting
<1>7. CASE AiPhishingTriage(j)
  <2> PICK answer \in AnalyzePhishing :
        job' = [job EXCEPT ![j].verdict = answer.verdict,
                           ![j].pc = IF answer.verdict = "benign" /\ answer.confident
                                     THEN "resolve" ELSE "escalate"]
    BY <1>7 DEF AiPhishingTriage
  <2> DEFINE pc == IF answer.verdict = "benign" /\ answer.confident THEN "resolve" ELSE "escalate"
             x == [job[j] EXCEPT !.verdict = answer.verdict, !.pc = pc]
  <2>1. pc \in Acting \cup {"end"}
    BY DEF Acting
  <2>2. job' = [job EXCEPT ![j].verdict = answer.verdict, ![j].pc = pc]
    OBVIOUS
  <2> HIDE DEF pc
  <2>3. job' = [job EXCEPT ![j] = x]
    BY <1>3, <2>2 DEF JobFields
  <2>4. DOMAIN x = JobFields /\ x.pc = pc /\ x.mine = job[j].mine
    BY <1>3 DEF JobFields
  <2> HIDE DEF x
  <2> QED
    BY <1>2, <1>7, <2>1, <2>3, <2>4, GoesOnMoves DEF AiPhishingTriage
<1>8. CASE EscalationWorkflow(j)
  <2>1. CASE Proceed(j, "end")
    BY <1>2, <1>4, <2>1
  <2>2. CASE (\E who \in Analysts : job' = [job EXCEPT ![j].pc = "assign", ![j].who = who]) /\ UNCHANGED caseVars
    <3> PICK who : job' = [job EXCEPT ![j].pc = "assign", ![j].who = who]
      BY <2>2
    <3> DEFINE x == [job[j] EXCEPT !.pc = "assign", !.who = who]
    <3>1. job' = [job EXCEPT ![j] = x]
      BY <1>3 DEF JobFields
    <3>2. DOMAIN x = JobFields /\ x.pc = "assign" /\ x.mine = job[j].mine
      BY <1>3 DEF JobFields
    <3> HIDE DEF x
    <3>3. Moves(j, x)
      BY <1>2, <3>1, <3>2, GoesOnMoves DEF Acting
    <3> QED
      BY <1>2, <2>2, <3>3
  <2> QED
    BY <1>8, <2>1, <2>2 DEF EscalationWorkflow
<1> QED
  BY <1>2, <1>5, <1>6, <1>7, <1>8

\* The end of an action with a session of its own.
LEMMA ActionEndSteps ==
  ASSUME Shape, NEW j \in Jobs, ActionReturns(j) \/ ActionTimesOut(j)
  PROVE  (\E t : Closes(j, t)) /\ JobsStep /\ OwnKept
<1>1. /\ DOMAIN job = Jobs /\ DOMAIN job[j] = JobFields /\ call[j].pc # "idle" /\ job[j].pc \in Own
  <2>1. call[j].pc # "idle"
    BY DEF ActionReturns, ActionTimesOut
  <2> QED
    BY <2>1, JobFacts
<1>2. call' = [call EXCEPT ![j] = IdleCall] /\ UNCHANGED <<rows, links, acts, comments, runs, now>>
  BY DEF ActionReturns, ActionTimesOut
<1>3. Closes(j, IdleCall)
  <2>1. j \notin Calls
    BY IdAssumption
  <2> QED
    BY <1>2, <2>1, SessionEmpty DEF Closes
<1>4. job[j].pc \in Acting
  BY <1>1 DEF Own, Acting
<1>5. \E x : Moves(j, x) /\ job' = [job EXCEPT ![j] = x]
  <2>1. CASE ActionReturns(j) \/ ~(job[j].pc = "escalate" /\ job[j].tries = 0)
    <3> DEFINE x == [job[j] EXCEPT !.pc = "end"]
    <3>1. job' = [job EXCEPT ![j] = x]
      BY <1>1, <2>1 DEF ActionReturns, ActionTimesOut
    <3>2. DOMAIN x = JobFields /\ x.pc = "end" /\ x.mine = job[j].mine
      BY <1>1 DEF JobFields
    <3> HIDE DEF x
    <3> QED
      BY <1>4, <3>1, <3>2, GoesOnMoves
  <2>2. CASE ActionTimesOut(j) /\ job[j].pc = "escalate" /\ job[j].tries = 0
    <3> DEFINE x == [job[j] EXCEPT !.tries = 1]
    <3>1. job' = [job EXCEPT ![j] = x]
      BY <1>1, <2>2 DEF ActionTimesOut
    <3>2. DOMAIN x = JobFields /\ x.pc = "escalate" /\ x.mine = job[j].mine
      BY <1>1, <2>2 DEF JobFields
    <3> HIDE DEF x
    <3> QED
      BY <1>4, <3>1, <3>2, GoesOnMoves DEF Acting
  <2> QED
    BY <2>1, <2>2
<1>6. OwnKept
  <2>1. \A k \in Jobs : call[k].pc # "idle" => job[k].pc \in Own
    BY JobFacts
  <2>2. DOMAIN call = Calls \cup Jobs
    BY DEF Shape, SessionsOK
  <2> QED
    BY <1>1, <1>2, <1>5, <2>1, <2>2, SessionEmpty DEF OwnKept
<1>7. job[j].pc # "end" /\ UNCHANGED rows
  BY <1>2, <1>4 DEF Acting
<1>8. JobsStep
  BY <1>5, <1>7, Zenon DEF JobsStep
<1> QED
  BY <1>3, <1>6, <1>8

LEMMA JobStepSteps ==
  ASSUME Shape, NEW j \in Jobs, JobStep(j), "respond" \in desk
  PROVE  /\ RowStep /\ JobsStep /\ OwnKept
         /\ (comments' = comments \/ \E gone : comments' = CommentsWithout(gone))
<1>1. UNCHANGED caseVars => comments' = comments
  BY DEF caseVars
<1>2. CASE StartRun(j)
  <2>1. UNCHANGED caseVars /\ job[j].pc \notin Own \cup {"end"}
    BY <1>2 DEF StartRun, Own
  <2>2. \E x : Moves(j, x)
    BY <1>2, StartRunMoves
  <2> QED
    BY <1>1, <2>1, <2>2, MoveSteps
<1>3. CASE StartFails(j) \/ FlushTimesOut(j)
  <2>1. TaskFails(j) /\ UNCHANGED caseVars /\ job[j].pc \notin Own \cup {"end"}
    BY <1>3 DEF StartFails, FlushTimesOut, TaskFails, Own
  <2>2. \E x : Moves(j, x)
    BY <2>1, TaskFailsMoves
  <2> QED
    BY <1>1, <2>1, <2>2, MoveSteps
<1>4. CASE EndRun(j)
  <2>1. /\ Ends(j) /\ (\E x : Moves(j, x)) /\ comments' = CommentsWithout({})
    BY <1>4, EndRunSteps
  <2>2. call' = call /\ job[j].pc \notin Own
    BY <1>4 DEF EndRun, Own
  <2>3. OwnKept
    <3>1. \A k \in Jobs : call[k].pc # "idle" => job[k].pc \in Own
      BY JobFacts
    <3>2. PICK x : job' = [job EXCEPT ![j] = x]
      BY <2>1 DEF Moves, JobStepTo
    <3>3. DOMAIN job = Jobs
      BY JobFacts
    <3> QED
      BY <2>2, <3>1, <3>2, <3>3 DEF OwnKept
  <2> QED
    BY <2>1, <2>3, Zenon DEF RowStep, JobsStep
<1>5. CASE \/ BodyRaises(j) \/ AutoEnrichIocs(j) \/ TriageHighSeverity(j) \/ AiPhishingTriage(j)
           \/ AiEndpointContainment(j) \/ AiThreatHunt(j) \/ EscalationWorkflow(j)
  <2>1. (\E x : Moves(j, x)) /\ UNCHANGED caseVars /\ job[j].pc \notin Own \cup {"end"}
    BY <1>5, BodySteps
  <2> QED
    BY <1>1, <2>1, MoveSteps
<1>6. CASE AutoResolveBenign(j)
  <2>1. job[j].pc = "resolve" /\ ResolveCurrentAlert(j, "benign", "ai_auto_resolved")
    BY <1>6 DEF AutoResolveBenign, On
  <2>2. job[j].pc \in Acting /\ job[j].pc \notin Own \cup {"end"} /\ job[j].pc \notin Over
    BY <2>1 DEF Acting, Own, Over
  <2>3. PICK x : Wrote(j, x)
    BY <2>1, <2>2, JobFacts, ResolveWrites
  <2>4. UNCHANGED caseVars
    BY <2>1 DEF ResolveCurrentAlert, Update
  <2>5. Moves(j, x)
    BY <2>2, <2>3, WroteMoves
  <2> QED
    BY <1>1, <2>2, <2>4, <2>5, MoveSteps
<1>7. CASE AssignAlert(j)
  <2>1. job[j].pc = "assign" /\ (AssignCurrentAlert(j, job[j].who) \/ Proceed(j, "end"))
    BY <1>7 DEF AssignAlert, On
  <2>2. job[j].pc \in Acting /\ job[j].pc \notin Own \cup {"end"} /\ job[j].pc \notin Over
    BY <2>1 DEF Acting, Own, Over
  <2>3. CASE AssignCurrentAlert(j, job[j].who)
    <3>1. PICK x : Wrote(j, x)
      BY <2>2, <2>3, JobFacts, AssignWrites
    <3>2. UNCHANGED caseVars
      BY <2>3 DEF AssignCurrentAlert, Update
    <3>3. Moves(j, x)
      BY <2>2, <3>1, WroteMoves
    <3> QED
      BY <1>1, <2>2, <3>2, <3>3, MoveSteps
  <2>4. CASE Proceed(j, "end")
    <3>1. (\E x : Moves(j, x)) /\ UNCHANGED caseVars
      BY <2>2, <2>4, ProceedMoves DEF Proceed
    <3> QED
      BY <1>1, <2>2, <3>1, MoveSteps
  <2> QED
    BY <2>1, <2>3, <2>4
<1>8. CASE EscalatePhishing(j) \/ IsolateEndpoint(j) \/ LogEndpointAssessment(j) \/ SaveHuntReport(j)
  <2>1. job[j].pc \in Own
    BY <1>8 DEF EscalatePhishing, IsolateEndpoint, LogEndpointAssessment, SaveHuntReport, On, Own
  <2>2. Found(Subject[j]) /\ RowsOK
    BY <2>1, JobFacts DEF Own, Over
  <2>3. PICK s : Opens(j, s)
    BY <1>8, <2>2, OwnActionOpens
  <2>4. UNCHANGED job
    BY <1>8, <2>2, OwnActionOpens
  <2>5. comments' = comments /\ call' = [call EXCEPT ![j] = s]
    BY <2>3 DEF Opens, Load
  <2>6. OwnKept
    <3>1. \A k \in Jobs : call[k].pc # "idle" => job[k].pc \in Own
      BY JobFacts
    <3>2. DOMAIN call = Calls \cup Jobs
      BY DEF Shape, SessionsOK
    <3> QED
      BY <2>1, <2>4, <2>5, <3>1, <3>2 DEF OwnKept
  <2>7. RowStep
    BY <2>3, Zenon DEF RowStep
  <2> QED
    BY <2>4, <2>5, <2>6, <2>7 DEF JobsStep
<1>9. CASE OwnCommit(j)
  <2>1. (\E t : Commits(j, t)) /\ comments' = CommentsWithout(call[j].drop)
    BY <1>9, CommitSteps DEF OwnCommit
  <2>2. UNCHANGED job
    BY <1>9 DEF OwnCommit
  <2>3. PICK t : call' = [call EXCEPT ![j] = t] /\ call[j].pc = "loaded"
    BY <2>1 DEF Commits
  <2>4. OwnKept
    <3>1. \A k \in Jobs : call[k].pc # "idle" => job[k].pc \in Own
      BY JobFacts
    <3>2. DOMAIN call = Calls \cup Jobs
      BY DEF Shape, SessionsOK
    <3> QED
      BY <2>2, <2>3, <3>1, <3>2 DEF OwnKept
  <2>5. RowStep
    BY <2>1, Zenon DEF RowStep
  <2> QED
    BY <2>1, <2>2, <2>4, <2>5 DEF JobsStep
<1>10. CASE ActionReturns(j) \/ ActionTimesOut(j)
  <2>1. (\E t : Closes(j, t)) /\ JobsStep /\ OwnKept
    BY <1>10, ActionEndSteps
  <2>2. comments' = comments
    BY <2>1 DEF Closes
  <2>3. RowStep
    BY <2>1, Zenon DEF RowStep
  <2> QED
    BY <2>1, <2>2, <2>3
<1> QED
  BY <1>2, <1>3, <1>4, <1>5, <1>6, <1>7, <1>8, <1>9, <1>10 DEF JobStep

(***************************************************************************)
(* All steps.                                                              *)
(***************************************************************************)
\* Comments are at most deleted or archived.
Weeded ==
    \A w \in DOMAIN comments' :
        w \in DOMAIN comments /\ (comments'[w] = comments[w] \/ comments'[w] = Archive(comments[w]))

\* What every step is, seen from the rows, the tasks and the comments.
StepOK ==
    /\ RowStep /\ JobsStep /\ OwnKept /\ desk' = desk
    /\ \A t \in DOMAIN templates' : templates'[t] \in Versions
    /\ Talk \/ (UNCHANGED talkVars /\ Weeded)
    /\ Purge \/ UNCHANGED purgeVars

LEMMA WithoutWeeded ==
  ASSUME NEW gone, comments' = CommentsWithout(gone)
  PROVE  Weeded
BY DEF CommentsWithout, Weeded

LEMMA SameWeeded == comments' = comments => Weeded
BY DEF Weeded

LEMMA TalkSteps ==
  ASSUME Talk
  PROVE  UNCHANGED <<rows, links, acts, runs, call, now>>
<1>1. (\E w \in Writers : WriterStep(w)) \/ (\E u \in Analysts : SetActive(u))
  BY DEF Talk
<1>2. ASSUME NEW w \in Writers, WriterStep(w)
      PROVE  UNCHANGED <<rows, links, acts, runs, call, now>>
  <2>1. UNCHANGED caseVars => UNCHANGED <<rows, links, acts, runs, call, now>>
    BY DEF caseVars
  <2>2. ASSUME NEW id \in RowIds, AddComment(w, id)
        PROVE  UNCHANGED caseVars
    BY <2>2 DEF AddComment
  <2>3. ASSUME NEW v \in Writers, EditComment(w, v)
        PROVE  UNCHANGED caseVars
    BY <2>3 DEF EditComment
  <2>4. CommitAdd(w) \/ CommitEdit(w) => UNCHANGED <<rows, links, acts, runs, call, now>>
    BY DEF CommitAdd, CommitEdit
  <2>5. CommentFails(w) \/ DieBeforeNotify(w) => UNCHANGED caseVars
    BY DEF CommentFails, DieBeforeNotify
  <2>6. Notify(w) => UNCHANGED caseVars
    BY DEF Notify, caseVars
  <2> QED
    BY <1>2, <2>1, <2>2, <2>3, <2>4, <2>5, <2>6, Zenon DEF WriterStep
<1>3. ASSUME NEW u \in Analysts, SetActive(u)
      PROVE  UNCHANGED <<rows, links, acts, runs, call, now>>
  BY <1>3 DEF SetActive, caseVars
<1> QED
  BY <1>1, <1>2, <1>3

LEMMA PurgeSteps ==
  ASSUME Shape, Purge
  PROVE  RowStep /\ Weeded /\ UNCHANGED call
<1>1. "purge" \in desk /\ now \in Nat /\ runs \subseteq Alerts
  BY DEF Purge, Shape, TablesOK, RowsOK
<1>2. CASE PurgeCommits
  <2>1. RowStep
    BY <1>1, <1>2, Zenon DEF RowStep
  <2>2. UNCHANGED call
    BY <1>2 DEF PurgeCommits
  <2>3. Weeded
    <3> DEFINE gone == Overdue
               quiet == {w \in DOMAIN CommentsWithout(gone) : ~PastGrace(SweptEntry(comments[w]))}
    <3>1. comments' = [w \in quiet |-> SweptEntry(comments[w])]
      BY <1>2 DEF PurgeCommits
    <3>2. quiet \subseteq DOMAIN comments
      BY DEF CommentsWithout
    <3> QED
      BY <3>1, <3>2 DEF Weeded, SweptEntry
  <2> QED
    BY <2>1, <2>2, <2>3
<1>3. CASE UNCHANGED <<rows, links, acts, comments, runs, call>> /\ now' \in {now, now + 1}
  <2>1. Stays
    BY <1>1, <1>3 DEF Stays
  <2> QED
    BY <1>3, <2>1, SameWeeded DEF RowStep
<1>4. UNCHANGED caseVars => UNCHANGED <<rows, links, acts, comments, runs, call>> /\ now' \in {now, now + 1}
  BY DEF caseVars
<1>5. TaskPurges => PurgeCommits
  BY DEF TaskPurges
<1>6. TaskRaises => UNCHANGED caseVars
  BY DEF TaskRaises, PurgeBlocked
<1>7. AdminPurges => PurgeCommits \/ UNCHANGED caseVars
  BY DEF AdminPurges, PurgeBlocked
<1>8. NextDay => UNCHANGED <<rows, links, acts, comments, runs, call>> /\ now' \in {now, now + 1}
  BY DEF NextDay
<1> QED
  BY <1>2, <1>3, <1>4, <1>5, <1>6, <1>7, <1>8 DEF Purge, PurgeStep

LEMMA StepsOK ==
  ASSUME Shape, [Next]_vars
  PROVE  StepOK
<1>1. \A k \in Jobs : call[k].pc # "idle" => job[k].pc \in Own
  BY JobFacts
<1>2. DOMAIN call = Calls \cup Jobs /\ (\A t \in DOMAIN templates : templates[t] \in Versions) /\ runs \subseteq Alerts
  BY DEF Shape, SessionsOK, TablesOK
\* Of requests, only the session of the call changes.
<1>3. ASSUME NEW c \in Calls, NEW t, call' = [call EXCEPT ![c] = t], UNCHANGED job
      PROVE  OwnKept
  <2>1. c \notin Jobs
    BY IdAssumption
  <2> QED
    BY <1>1, <1>2, <1>3, <2>1 DEF OwnKept
<1>4. ASSUME UNCHANGED <<call, job>>
      PROVE  OwnKept
  BY <1>1, <1>4 DEF OwnKept
<1>5. UNCHANGED incidentVars => \A t \in DOMAIN templates' : templates'[t] \in Versions
  BY <1>2 DEF incidentVars
<1>6. UNCHANGED jobVars => UNCHANGED job /\ JobsStep
  BY DEF jobVars, JobsStep
<1>7. ASSUME NEW c \in Calls, AlertRequest(c) \/ IncidentRequest(c) \/ EndRequest(c)
      PROVE  StepOK
  <2>1. /\ RowStep /\ UNCHANGED <<talkVars, purgeVars, jobVars, desk>>
        /\ (comments' = comments \/ \E gone : comments' = CommentsWithout(gone))
        /\ \A t \in DOMAIN templates' : templates'[t] \in Versions
    <3>1. CASE AlertRequest(c)
      <4>1. RowStep /\ UNCHANGED <<incidentVars, talkVars, purgeVars, jobVars, desk>> /\ comments' = comments
        BY <3>1, AlertRequestSteps
      <4> QED
        BY <1>5, <4>1
    <3>2. CASE IncidentRequest(c)
      BY <3>2, IncidentRequestSteps
    <3>3. CASE EndRequest(c)
      BY <1>2, <3>3, EndRequestSteps
    <3> QED
      BY <1>7, <3>1, <3>2, <3>3
  <2>2. call' = call \/ \E t : call' = [call EXCEPT ![c] = t]
    <3>1. ASSUME NEW s, Load(c, s)
          PROVE  \E t : call' = [call EXCEPT ![c] = t]
      BY <3>1 DEF Load
    <3>2. Refuse(c) => \E t : call' = [call EXCEPT ![c] = t]
      <4> SUFFICES ASSUME Refuse(c)
                   PROVE  \E t : call' = [call EXCEPT ![c] = t]
        OBVIOUS
      <4>1. call' = [call EXCEPT ![c] = [call[c] EXCEPT !.pc = "refused"]]
        BY DEF Refuse
      <4> QED
        BY <4>1
    <3>3. CASE AlertRequest(c)
      <4>1. RowsOK /\ now \in Nat
        BY DEF Shape, TablesOK, RowsOK
      <4>2. Refuse(c) \/ \E s : Load(c, s)
        BY <3>3, Zenon DEF AlertRequest, UpdateAlert, ClaimAlert, BulkUpdate, DeleteAlert, CreateIncidentFor, LinkIncidentFor
      <4> QED
        BY <3>1, <3>2, <4>2
    <3>4. CASE IncidentRequest(c)
      <4>1. CASE Refuse(c) \/ \E s : Load(c, s)
        BY <3>1, <3>2, <4>1
      <4>2. CASE \E t : SaveTemplate(c, t) \/ DeleteTemplate(c, t)
        <5>1. call' = [call EXCEPT ![c] = [call[c] EXCEPT !.pc = "done"]]
          BY <4>2 DEF SaveTemplate, DeleteTemplate
        <5> QED
          BY <5>1
      <4> QED
        BY <3>4, <4>1, <4>2, Zenon DEF IncidentRequest, CreateIncident, UpdateIncident, LinkAlert, UnlinkAlert, CreateFromTemplate
    <3>5. CASE EndRequest(c)
      <4>1. CASE Commit(c) \/ Rollback(c)
        BY <4>1 DEF Commit, Rollback
      <4>2. CASE TriggerTemplatePlaybooks(c)
        <5>1. UNCHANGED call \/ call' = [call EXCEPT ![c] = [call[c] EXCEPT !.pc = "done"]]
          BY <4>2 DEF TriggerTemplatePlaybooks, SendNext
        <5>2. CASE UNCHANGED call
          BY <5>2
        <5>3. CASE call' = [call EXCEPT ![c] = [call[c] EXCEPT !.pc = "done"]]
          BY <5>3
        <5> QED
          BY <5>1, <5>2, <5>3
      <4>3. CASE TriggerFails(c)
        <5>1. call' = [call EXCEPT ![c] = [call[c] EXCEPT !.pc = "failed"]]
          BY <4>3 DEF TriggerFails
        <5> QED
          BY <5>1
      <4> QED
        BY <3>5, <4>1, <4>2, <4>3, Zenon DEF EndRequest
    <3> QED
      BY <1>7, <3>3, <3>4, <3>5
  <2>3. JobsStep /\ OwnKept
    BY <1>3, <1>4, <1>6, <2>1, <2>2
  <2>4. Weeded
    BY <2>1, WithoutWeeded, SameWeeded
  <2> QED
    BY <2>1, <2>3, <2>4 DEF StepOK
<1>8. CASE Talk
  <2>1. UNCHANGED <<rows, links, acts, runs, call, now>>
    BY <1>8, TalkSteps
  <2>2. UNCHANGED <<incidentVars, purgeVars, jobVars, desk>>
    BY <1>8, Zenon DEF Talk
  <2>3. Stays
    BY <1>2, <2>1 DEF Stays
  <2> QED
    BY <1>4, <1>5, <1>6, <1>8, <2>1, <2>2, <2>3 DEF StepOK, RowStep
<1>9. CASE Purge
  <2>1. RowStep /\ Weeded /\ UNCHANGED call
    BY <1>9, PurgeSteps
  <2>2. UNCHANGED <<incidentVars, talkVars, jobVars, desk>>
    BY <1>9, Zenon DEF Purge
  <2> QED
    BY <1>4, <1>5, <1>6, <1>9, <2>1, <2>2 DEF StepOK
<1>10. CASE RunOf
  <2>1. PICK a \in Alerts : RunInserted(a)
    BY <1>10 DEF RunOf
  <2>2. UNCHANGED <<incidentVars, talkVars, purgeVars, jobVars, desk>>
    BY <1>10, Zenon DEF RunOf
  <2>3. Stays /\ comments' = comments
    BY <1>2, <2>1 DEF RunInserted, Stays
  <2>4. UNCHANGED call
    BY <2>1 DEF RunInserted
  <2> QED
    BY <1>4, <1>5, <1>6, <2>2, <2>3, <2>4, SameWeeded DEF StepOK, RowStep
<1>11. CASE Respond
  <2>1. PICK j \in Jobs : JobStep(j)
    BY <1>11 DEF Respond
  <2>2. UNCHANGED <<incidentVars, talkVars, purgeVars, desk>> /\ "respond" \in desk
    BY <1>11, Zenon DEF Respond
  <2>3. /\ RowStep /\ JobsStep /\ OwnKept
        /\ (comments' = comments \/ \E gone : comments' = CommentsWithout(gone))
    BY <2>1, <2>2, JobStepSteps
  <2>4. Weeded
    BY <2>3, WithoutWeeded, SameWeeded
  <2> QED
    BY <1>5, <2>2, <2>3, <2>4 DEF StepOK
<1>12. CASE UNCHANGED vars
  <2>1. UNCHANGED <<caseVars, incidentVars, talkVars, purgeVars, jobVars, desk>>
    BY <1>12, Zenon DEF vars
  <2>2. UNCHANGED <<rows, links, acts, comments, runs, call, now>>
    BY <2>1 DEF caseVars
  <2>3. Stays
    BY <1>2, <2>2 DEF Stays
  <2> QED
    BY <1>4, <1>5, <1>6, <2>1, <2>2, <2>3, SameWeeded DEF StepOK, RowStep
<1> QED
  BY <1>7, <1>8, <1>9, <1>10, <1>11, <1>12 DEF Next

(***************************************************************************)
(* The shape is kept.                                                      *)
(***************************************************************************)
\* What a COMMIT does to the rows.
Inserts(s) ==
    \A id \in DOMAIN s.fresh : rows'[id] = s.fresh[id] /\ IsRow(s.fresh[id]) /\ s.fresh[id].archived = 0

Merges(s) ==
    \A id \in DOMAIN rows' \ DOMAIN s.fresh :
        /\ id \in DOMAIN rows /\ id \notin s.drop
        /\ id \notin DOMAIN s.want => rows'[id] = rows[id]
        /\ id \in DOMAIN s.want =>
              \A f \in Cols : rows'[id][f] = IF s.want[id][f] # s.snap[id][f] THEN s.want[id][f] ELSE rows[id][f]
        /\ IsRow(rows'[id]) /\ rows'[id].created = rows[id].created /\ rows'[id].archived = rows[id].archived

LEMMA CommitRows ==
  ASSUME Shape, NEW c, NEW s, Writes(c, s)
  PROVE  /\ DOMAIN rows' = (DOMAIN rows \ s.drop) \cup DOMAIN s.fresh
         /\ DOMAIN s.fresh \subseteq {c} \cap Calls /\ DOMAIN s.fresh \cap Born = {}
         /\ DOMAIN s.want = DOMAIN s.snap
         /\ Inserts(s) /\ Merges(s)
<1>1. /\ WellFormed(c, s) /\ Recalled(s) /\ DOMAIN s.fresh \cap Born = {}
      /\ RowsOK
  BY DEF Writes, SessionOK, Shape, TablesOK
<1>2. rows' = [id \in (DOMAIN rows \ s.drop) \cup DOMAIN s.fresh |->
                  IF id \in DOMAIN s.fresh THEN s.fresh[id]
                  ELSE IF id \in DOMAIN s.want THEN Merge(rows[id], s.snap[id], s.want[id]) ELSE rows[id]]
  BY DEF Writes, Apply
<1>3. DOMAIN rows' = (DOMAIN rows \ s.drop) \cup DOMAIN s.fresh
  BY <1>2
<1>4. \A id \in DOMAIN s.fresh : rows'[id] = s.fresh[id]
  BY <1>2
<1>5. ASSUME NEW id \in DOMAIN rows' \ DOMAIN s.fresh
      PROVE  rows'[id] = IF id \in DOMAIN s.want THEN Merge(rows[id], s.snap[id], s.want[id]) ELSE rows[id]
  BY <1>2
<1>6. ASSUME NEW id \in DOMAIN rows' \ DOMAIN s.fresh
      PROVE  /\ id \in DOMAIN rows /\ id \notin s.drop
             /\ id \notin DOMAIN s.want => rows'[id] = rows[id]
             /\ id \in DOMAIN s.want =>
                     \A f \in Cols : rows'[id][f] = IF s.want[id][f] # s.snap[id][f] THEN s.want[id][f] ELSE rows[id][f]
             /\ IsRow(rows'[id]) /\ rows'[id].created = rows[id].created /\ rows'[id].archived = rows[id].archived
  <2>1. id \in DOMAIN rows /\ id \notin s.drop /\ IsRow(rows[id])
    BY <1>1, <1>3 DEF RowsOK
  <2>2. CASE id \notin DOMAIN s.want
    BY <1>5, <2>1, <2>2
  <2>3. CASE id \in DOMAIN s.want
    <3>1. /\ IsRow(s.snap[id]) /\ IsRow(s.want[id]) /\ s.want[id].created = s.snap[id].created
          /\ s.want[id].archived = s.snap[id].archived /\ id \in DOMAIN s.snap
      BY <1>1, <2>3 DEF WellFormed
    <3>2. s.snap[id].created = rows[id].created
      BY <1>1, <2>1, <3>1 DEF Recalled
    <3> PICK cur, snap, want : cur = rows[id] /\ snap = s.snap[id] /\ want = s.want[id]
      OBVIOUS
    <3>3. LET m == Merge(cur, snap, want)
          IN  /\ IsRow(m) /\ m.archived = cur.archived /\ m.created = cur.created
              /\ \A f \in Cols : m[f] = IF want[f] # snap[f] THEN want[f] ELSE cur[f]
      BY <2>1, <3>1, <3>2, MergedRow
    <3>4. rows'[id] = Merge(cur, snap, want)
      BY <1>5, <2>3
    <3> QED
      BY <2>1, <2>3, <3>3, <3>4
  <2> QED
    BY <2>2, <2>3
<1> QED
  BY <1>1, <1>3, <1>4, <1>6 DEF WellFormed, Inserts, Merges

\* Ids are never given back.
LEMMA BornGrows ==
  ASSUME Shape, StepOK
  PROVE  Born \subseteq Born'
<1> SUFFICES ASSUME NEW c \in Calls, call[c].pc \notin {"idle", "loaded"}
             PROVE  call'[c].pc \notin {"idle", "loaded"}
  BY DEF Born
<1>1. DOMAIN call = Calls \cup Jobs
  BY DEF Shape, SessionsOK
<1>2. ASSUME NEW d, NEW s, Opens(d, s)
      PROVE  call'[c].pc \notin {"idle", "loaded"}
  BY <1>1, <1>2 DEF Opens, Load
<1>3. ASSUME NEW d, NEW t, Closes(d, t)
      PROVE  call'[c].pc \notin {"idle", "loaded"}
  BY <1>1, <1>3 DEF Closes
<1>4. ASSUME NEW d, NEW t, Commits(d, t)
      PROVE  call'[c].pc \notin {"idle", "loaded"}
  BY <1>1, <1>4 DEF Commits
<1>5. CASE call' = call
  BY <1>5
<1>6. Stays \/ (\E j \in Jobs : Ends(j)) \/ PurgeCommits => call' = call
  BY DEF Stays, Ends, PurgeCommits
<1> QED
  BY <1>2, <1>3, <1>4, <1>5, <1>6 DEF StepOK, RowStep

\* What a step does to the rows that it keeps, and which rows it adds.
RowsMove ==
    /\ now' \in {now, now + 1}
    /\ \A id \in DOMAIN rows' :
          /\ IsRow(rows'[id]) /\ rows'[id].created <= now'
          /\ id \in DOMAIN rows => rows'[id].created = rows[id].created
          /\ id \notin DOMAIN rows => id \notin Born /\ id \in Calls /\ id \in Born'

LEMMA RowsMoved ==
  ASSUME Shape, StepOK
  PROVE  RowsMove
<1>1. RowsOK /\ now \in Nat /\ DOMAIN rows \subseteq RowIds
  BY DEF Shape, TablesOK, RowsOK
<1>2. ASSUME UNCHANGED rows, now' \in {now, now + 1}
      PROVE  RowsMove
  <2>1. \A id \in DOMAIN rows : IsRow(rows[id]) /\ rows[id].created \in Nat /\ rows[id].created <= now
    BY <1>1 DEF RowsOK, IsRow
  <2> QED
    BY <1>1, <1>2, <2>1 DEF RowsMove
<1>3. ASSUME NEW c, NEW s, Writes(c, s), c \in Calls => c \in Born'
      PROVE  RowsMove
  <2>1. /\ DOMAIN s.fresh \subseteq {c} \cap Calls /\ DOMAIN s.fresh \cap Born = {}
        /\ \A id \in DOMAIN s.fresh : rows'[id] = s.fresh[id] /\ IsRow(s.fresh[id])
        /\ \A id \in DOMAIN rows' \ DOMAIN s.fresh :
               id \in DOMAIN rows /\ IsRow(rows'[id]) /\ rows'[id].created = rows[id].created
    BY <1>3, CommitRows DEF Inserts, Merges
  <2>2. now' = now /\ \A id \in DOMAIN s.fresh : s.fresh[id].created <= now
    BY <1>3 DEF Writes, Timely
  <2>3. DOMAIN rows \subseteq Born /\ \A id \in DOMAIN rows : rows[id].created <= now
    BY <1>1 DEF Shape, TablesOK, RowsOK
  <2> QED
    BY <1>3, <2>1, <2>2, <2>3 DEF RowsMove
<1>4. ASSUME PurgeCommits
      PROVE  RowsMove
  <2>1. /\ now' = now
        /\ rows' = [id \in DOMAIN rows \ Overdue |-> Swept(id)]
    BY <1>4 DEF PurgeCommits
  <2>2. ASSUME NEW id \in DOMAIN rows
        PROVE  IsRow(Archive(rows[id])) /\ Archive(rows[id]).created = rows[id].created /\ IsRow(rows[id])
               /\ rows[id].created <= now
    <3> PICK r : r = rows[id]
      OBVIOUS
    <3>1. IsRow(r) /\ r.created <= now
      BY <1>1 DEF RowsOK
    <3>2. IsRow([r EXCEPT !.archived = now]) /\ [r EXCEPT !.archived = now].created = r.created
      BY <1>1, <3>1 DEF IsRow, Cols
    <3> QED
      BY <3>1, <3>2 DEF Archive
  <2> QED
    BY <2>1, <2>2 DEF RowsMove, Swept
<1>5. ASSUME NEW c, NEW t, Commits(c, t)
      PROVE  RowsMove
  <2>1. c \in Calls => c \in Born'
    BY <1>5 DEF Commits, Born, Shape, SessionsOK
  <2> QED
    BY <1>3, <1>5, <2>1 DEF Commits
<1>6. ASSUME NEW j \in Jobs, Ends(j)
      PROVE  RowsMove
  <2>1. j \notin Calls
    BY IdAssumption
  <2> QED
    BY <1>3, <1>6, <2>1 DEF Ends
<1>7. Stays => UNCHANGED rows /\ now' \in {now, now + 1}
  BY DEF Stays
<1>8. ASSUME NEW c, NEW s, Opens(c, s) \/ Closes(c, s)
      PROVE  UNCHANGED rows /\ now' \in {now, now + 1}
  BY <1>8 DEF Opens, Closes, Load
<1> QED
  BY <1>2, <1>4, <1>5, <1>6, <1>7, <1>8, Zenon DEF StepOK, RowStep

\* The elements of a sequence that are kept, by the places they had.
KeepsOf(t, s, keep, h) ==
    /\ IsSeq(t) /\ h \in [DOMAIN t -> keep]
    /\ \A k, l \in DOMAIN t : k < l <=> h[k] < h[l]
    /\ \A k \in DOMAIN t : t[k] = s[h[k]]
    /\ \A n \in keep : \E k \in DOMAIN t : h[k] = n

LEMMA KeptFrom ==
  ASSUME NEW s, IsSeq(s), NEW keep \in SUBSET DOMAIN s
  PROVE  \E h : KeepsOf(Kept(s, keep), s, keep, h)
<1>1. Len(s) \in Nat /\ DOMAIN s = 1 .. Len(s)
  BY SeqFacts
<1>2. /\ IsSeq(Kept(s, keep))
      /\ \E h : Picks(h, s, keep)
  BY <1>1, KeptInOrder
<1>3. PICK h : Picks(h, s, keep)
  BY <1>2
<1>4. KeepsOf(Kept(s, keep), s, keep, h)
  BY <1>2, <1>3 DEF Picks, Order, KeepsOf
<1> QED
  BY <1>4

\* The activities after a purge.
Thinned(new, old, h) ==
    /\ IsSeq(new) /\ h \in [DOMAIN new -> DOMAIN old]
    /\ \A k, l \in DOMAIN new : k < l <=> h[k] < h[l]
    /\ \A k \in DOMAIN new :
          LET e == old[h[k]]
          IN  /\ new[k] = SweptEntry(e)
              /\ Refers(e) \cap Overdue = {} /\ ~PastGrace(SweptEntry(e))
    /\ \A n \in DOMAIN old : Refers(old[n]) \cap Overdue = {} /\ ~PastGrace(SweptEntry(old[n]))
                               => \E k \in DOMAIN new : h[k] = n

LEMMA PurgeThins ==
  ASSUME IsSeq(acts), PurgeCommits
  PROVE  \E h : Thinned(acts', acts, h)
<1> DEFINE keep == {n \in DOMAIN acts : Refers(acts[n]) \cap Overdue = {}}
           rest == Kept(acts, keep)
           fine == {n \in DOMAIN rest : ~PastGrace(SweptEntry(rest[n]))}
           kept == Kept(rest, fine)
<1>1. acts' = [i \in DOMAIN kept |-> SweptEntry(kept[i])]
  BY DEF PurgeCommits, ActsWithout
<1>2. PICK g : KeepsOf(rest, acts, keep, g)
  BY KeptFrom
<1> HIDE DEF rest
<1>3. IsSeq(rest)
  BY <1>2 DEF KeepsOf
<1>4. PICK f : KeepsOf(kept, rest, fine, f)
  BY <1>3, KeptFrom
<1> HIDE DEF kept
<1> DEFINE h == [k \in DOMAIN kept |-> g[f[k]]]
<1>5. DOMAIN acts' = DOMAIN kept
  BY <1>1
<1>6. IsSeq(acts')
  <2>1. IsSeq(kept)
    BY <1>4 DEF KeepsOf
  <2>2. Len(kept) \in Nat /\ DOMAIN kept = 1 .. Len(kept)
    BY <2>1, SeqFacts
  <2>3. acts' \in [1 .. Len(kept) -> {acts'[n] : n \in DOMAIN acts'}]
    BY <1>1, <1>5, <2>2
  <2> QED
    BY <2>2, <2>3 DEF IsSeq
<1>7. /\ g \in [DOMAIN rest -> keep] /\ f \in [DOMAIN kept -> fine]
      /\ \A k, l \in DOMAIN rest : k < l <=> g[k] < g[l]
      /\ \A k, l \in DOMAIN kept : k < l <=> f[k] < f[l]
      /\ \A k \in DOMAIN rest : rest[k] = acts[g[k]]
      /\ \A k \in DOMAIN kept : kept[k] = rest[f[k]]
      /\ \A n \in keep : \E k \in DOMAIN rest : g[k] = n
      /\ \A n \in fine : \E k \in DOMAIN kept : f[k] = n
  BY <1>2, <1>4 DEF KeepsOf
<1>8. \A k \in DOMAIN kept : h[k] = g[f[k]] /\ f[k] \in DOMAIN rest /\ ~PastGrace(SweptEntry(rest[f[k]])) /\ h[k] \in keep
  BY <1>7
<1>9. h \in [DOMAIN acts' -> DOMAIN acts]
  BY <1>5, <1>8
<1>10. \A k, l \in DOMAIN acts' : k < l <=> h[k] < h[l]
  BY <1>5, <1>7, <1>8
<1>11. \A k \in DOMAIN kept : kept[k] = acts[h[k]] /\ ~PastGrace(SweptEntry(acts[h[k]])) /\ Refers(acts[h[k]]) \cap Overdue = {}
  BY <1>7, <1>8
<1>12. ASSUME NEW n \in DOMAIN acts, Refers(acts[n]) \cap Overdue = {}, ~PastGrace(SweptEntry(acts[n]))
       PROVE  \E k \in DOMAIN acts' : h[k] = n
  <2>1. PICK m \in DOMAIN rest : g[m] = n
    BY <1>7, <1>12
  <2>2. m \in fine
    BY <1>7, <1>12, <2>1
  <2>3. PICK k \in DOMAIN kept : f[k] = m
    BY <1>7, <2>2
  <2> QED
    BY <1>5, <1>8, <2>1, <2>3
<1> HIDE DEF h, keep, fine
<1>13. \A k \in DOMAIN acts' : acts'[k] = SweptEntry(acts[h[k]])
  BY <1>1, <1>5, <1>11
<1>14. Thinned(acts', acts, h)
  BY <1>5, <1>6, <1>9, <1>10, <1>11, <1>12, <1>13 DEF Thinned
<1> QED
  BY <1>14

\* An entry of which only a date has changed.
Redated(d, e) ==
    /\ IsEntry(d) /\ Refers(d) = Refers(e) /\ (Placed(e) => Placed(d))
    /\ d.alert = e.alert /\ d.incident = e.incident /\ d.kind = e.kind /\ d.new = e.new

LEMMA DatedEntry ==
  ASSUME NEW e, IsEntry(e), now \in Nat, NEW d, d = [e EXCEPT !.at = now]
  PROVE  Redated(d, e) /\ d.at = now /\ d.archived = e.archived
<1>1. /\ DOMAIN d = Fields /\ d.at = now /\ d.archived = e.archived
      /\ d.alert = e.alert /\ d.incident = e.incident /\ d.kind = e.kind /\ d.new = e.new
  BY DEF IsEntry, Fields
<1>2. IsEntry(d)
  BY <1>1 DEF IsEntry
<1> QED
  BY <1>1, <1>2 DEF Redated, Placed, Refers

LEMMA ArchivedEntry ==
  ASSUME NEW e, IsEntry(e), now \in Nat
  PROVE  Redated(Archive(e), e) /\ Archive(e).archived = now /\ Archive(e).at = e.at
<1> DEFINE d == [e EXCEPT !.archived = now]
<1>1. /\ DOMAIN d = Fields /\ d.at = e.at /\ d.archived = now
      /\ d.alert = e.alert /\ d.incident = e.incident /\ d.kind = e.kind /\ d.new = e.new
  BY DEF IsEntry, Fields
<1> HIDE DEF d
<1>2. IsEntry(d)
  BY <1>1 DEF IsEntry
<1>3. Redated(d, e)
  BY <1>1, <1>2 DEF Redated, Placed, Refers
<1> QED
  BY <1>1, <1>3 DEF Archive, d

\* The entries after a step are as those before.
LEMMA EntriesKept ==
  ASSUME Shape, StepOK
  PROVE  IsSeq(acts') /\ \A n \in DOMAIN acts' : EntryIn(acts'[n], DOMAIN rows')
<1>1. RowsOK /\ now \in Nat /\ IsSeq(acts) /\ \A n \in DOMAIN acts : EntryIn(acts[n], DOMAIN rows)
  BY DEF Shape, TablesOK, RowsOK
<1>2. ASSUME UNCHANGED <<rows, acts>>
      PROVE  IsSeq(acts') /\ \A n \in DOMAIN acts' : EntryIn(acts'[n], DOMAIN rows')
  BY <1>1, <1>2 DEF EntryIn
<1>3. ASSUME NEW c, NEW s, Writes(c, s)
      PROVE  IsSeq(acts') /\ \A n \in DOMAIN acts' : EntryIn(acts'[n], DOMAIN rows')
  <2> DEFINE log == s.log
             gone == s.drop
  <2>1. IsLog(log) /\ Addressed(s) /\ ~Dangling(s)
    BY <1>3 DEF Writes, SessionOK, WellFormed
  <2>2. acts' = ActsWithout(acts \o Stamped(log), gone)
    BY <1>3 DEF Writes, Apply
  <2>3. PICK h : Follows(acts', acts, log, gone, now, h)
    BY <1>1, <2>1, <2>2, ActsFollow
  <2>4. DOMAIN rows' = (DOMAIN rows \ gone) \cup DOMAIN s.fresh
    BY <1>3, CommitRows
  <2>5. Len(acts) \in Nat /\ DOMAIN acts = 1 .. Len(acts) /\ Len(log) \in Nat /\ DOMAIN log = 1 .. Len(log)
    BY <1>1, <2>1, SeqFacts DEF IsLog
  <2>6. ASSUME NEW k \in DOMAIN acts'
        PROVE  EntryIn(acts'[k], DOMAIN rows')
    <3>1. h[k] \in 1 .. (Len(acts) + Len(log)) /\ Refers(acts'[k]) \cap gone = {}
          /\ acts'[k] = IF h[k] <= Len(acts) THEN acts[h[k]] ELSE [log[h[k] - Len(acts)] EXCEPT !.at = now]
      BY <2>3 DEF Follows
    <3>2. CASE h[k] <= Len(acts)
      <4>1. EntryIn(acts[h[k]], DOMAIN rows)
        BY <1>1, <2>5, <3>1, <3>2
      <4> QED
        BY <2>4, <3>1, <3>2, <4>1 DEF EntryIn
    <3>3. CASE h[k] > Len(acts)
      <4> DEFINE m == h[k] - Len(acts)
      <4>1. m \in DOMAIN log
        BY <2>5, <3>1, <3>3
      <4> PICK e : e = log[m]
        OBVIOUS
      <4>2. IsEntry(e) /\ Placed(e) /\ (e.kind \in TrailKinds => e.alert = NoRow \/ e.incident = NoRow)
            /\ Refers(e) \subseteq DOMAIN rows \cup DOMAIN s.fresh
        BY <2>1, <4>1 DEF IsLog, Addressed, Dangling
      <4>3. acts'[k] = [e EXCEPT !.at = now]
        BY <2>5, <3>1, <3>3
      <4> PICK d : d = [e EXCEPT !.at = now]
        OBVIOUS
      <4>4. Redated(d, e)
        BY <1>1, <4>2, DatedEntry
      <4>5. acts'[k] = d
        BY <4>3
      <4> QED
        BY <2>4, <3>1, <4>2, <4>4, <4>5 DEF EntryIn, Redated
    <3> QED
      BY <2>5, <3>1, <3>2, <3>3
  <2> QED
    BY <2>3, <2>6 DEF Follows
<1>4. ASSUME PurgeCommits
      PROVE  IsSeq(acts') /\ \A n \in DOMAIN acts' : EntryIn(acts'[n], DOMAIN rows')
  <2>1. PICK h : Thinned(acts', acts, h)
    BY <1>1, <1>4, PurgeThins
  <2>2. DOMAIN rows' = DOMAIN rows \ Overdue
    BY <1>4 DEF PurgeCommits
  <2>3. ASSUME NEW k \in DOMAIN acts'
        PROVE  EntryIn(acts'[k], DOMAIN rows')
    <3> PICK e : e = acts[h[k]]
      OBVIOUS
    <3>1. h[k] \in DOMAIN acts /\ acts'[k] \in {e, Archive(e)} /\ Refers(e) \cap Overdue = {}
      BY <2>1 DEF Thinned, SweptEntry
    <3>2. EntryIn(e, DOMAIN rows)
      BY <1>1, <3>1
    <3>3. Redated(Archive(e), e)
      BY <1>1, <3>2, ArchivedEntry DEF EntryIn
    <3>4. Refers(e) \subseteq DOMAIN rows'
      BY <2>2, <3>1, <3>2 DEF EntryIn
    <3>5. CASE acts'[k] = e
      BY <3>2, <3>4, <3>5 DEF EntryIn
    <3>6. CASE acts'[k] = Archive(e)
      BY <3>2, <3>3, <3>4, <3>6 DEF EntryIn, Redated
    <3> QED
      BY <3>1, <3>5, <3>6
  <2> QED
    BY <2>1, <2>3 DEF Thinned
<1>5. ASSUME NEW c, NEW s, Opens(c, s) \/ Closes(c, s)
      PROVE  UNCHANGED <<rows, acts>>
  BY <1>5 DEF Opens, Closes, Load
<1>6. Stays => UNCHANGED <<rows, acts>>
  BY DEF Stays
<1>7. (\E c, t : Commits(c, t)) => \E c, s : Writes(c, s)
  BY Zenon DEF Commits
<1>8. (\E j \in Jobs : Ends(j)) => \E c, s : Writes(c, s)
  BY Zenon DEF Ends
<1> QED
  BY <1>2, <1>3, <1>4, <1>5, <1>6, <1>7, <1>8, Zenon DEF StepOK, RowStep

LEMMA TablesKept ==
  ASSUME Shape, StepOK
  PROVE  TablesOK'
<1>1. /\ now \in Nat /\ DOMAIN rows \subseteq RowIds /\ DOMAIN rows \subseteq Born
      /\ IsFiniteSet(links) /\ runs \subseteq Alerts
  BY DEF Shape, TablesOK, RowsOK
<1>2. RowsMove /\ Born \subseteq Born'
  BY RowsMoved, BornGrows
<1>3. RowsOK' /\ DOMAIN rows' \subseteq Born'
  <2>1. now' \in Nat
    BY <1>1, <1>2 DEF RowsMove
  <2>2. \A id \in DOMAIN rows' : id \in RowIds /\ id \in Born'
    BY <1>1, <1>2 DEF RowsMove, RowIds
  <2> QED
    BY <1>2, <2>1, <2>2 DEF RowsMove, RowsOK
<1>4. IsSeq(acts') /\ \A n \in DOMAIN acts' : EntryIn(acts'[n], DOMAIN rows')
  BY EntriesKept
<1>5. IsFiniteSet(links') /\ runs' \subseteq Alerts
  <2>1. ASSUME NEW c, NEW s, Writes(c, s)
        PROVE  IsFiniteSet(links') /\ runs' \subseteq Alerts
    <3>1. LinksSaid(c, s) /\ runs' \subseteq Alerts /\ links' = LinksWithout((links \cup s.link) \ s.unlink, s.drop)
      BY <2>1 DEF Writes, SessionOK, Apply
    <3>2. links' \subseteq links \cup s.link
      BY <3>1 DEF LinksWithout
    <3>3. s.link = {} \/ \E l : s.link = {l}
      BY <3>1 DEF LinksSaid
    <3>4. IsFiniteSet(s.link)
      BY <3>3, FS_EmptySet, FS_Singleton, Zenon
    <3>5. IsFiniteSet(links \cup s.link)
      BY <1>1, <3>4, FS_Union
    <3> QED
      BY <3>1, <3>2, <3>5, FS_Subset
  <2>2. ASSUME PurgeCommits
        PROVE  IsFiniteSet(links') /\ runs' \subseteq Alerts
    <3>1. links' \subseteq links /\ runs' = runs
      BY <2>2 DEF PurgeCommits, LinksWithout
    <3> QED
      BY <1>1, <3>1, FS_Subset
  <2>3. ASSUME NEW c, NEW s, Opens(c, s) \/ Closes(c, s)
        PROVE  UNCHANGED <<links, runs>>
    BY <2>3 DEF Opens, Closes, Load
  <2>4. Stays => UNCHANGED links /\ runs' \subseteq Alerts
    BY DEF Stays
  <2>5. (\E c, t : Commits(c, t)) => \E c, s : Writes(c, s)
    BY Zenon DEF Commits
  <2>6. (\E j \in Jobs : Ends(j)) => \E c, s : Writes(c, s)
    BY Zenon DEF Ends
  <2>7. CASE UNCHANGED <<links, runs>>
    BY <1>1, <2>7
  <2>8. CASE Stays
    BY <1>1, <2>4, <2>8
  <2> QED
    BY <2>1, <2>2, <2>3, <2>5, <2>6, <2>7, <2>8, Zenon DEF StepOK, RowStep
<1> QED
  BY <1>3, <1>4, <1>5 DEF TablesOK

\* An open session stays as good as it was.
LEMMA SessionKept ==
  ASSUME Shape, StepOK, NEW c, NEW s, SessionOK(c, s), Timely(s), Recalled(s)
  PROVE  Timely(s)' /\ Recalled(s)'
<1>1. RowsMove /\ Born \subseteq Born'
  BY RowsMoved, BornGrows
<1>2. now \in Nat /\ DOMAIN rows \subseteq Born
  BY DEF Shape, TablesOK, RowsOK
<1>3. /\ \A id \in DOMAIN s.want : IsRow(s.want[id])
      /\ \A id \in DOMAIN s.fresh : IsRow(s.fresh[id])
  BY DEF SessionOK, WellFormed
<1>4. /\ \A id \in DOMAIN s.want : s.want[id].created \in Nat /\ s.want[id].created <= now'
      /\ \A id \in DOMAIN s.fresh : s.fresh[id].created \in Nat /\ s.fresh[id].created <= now'
  BY <1>1, <1>2, <1>3 DEF IsRow, Timely, RowsMove
<1>5. ASSUME NEW id \in DOMAIN s.snap, id \in DOMAIN rows'
      PROVE  s.snap[id].created = rows'[id].created
  <2>1. id \in Born
    BY DEF Recalled
  <2>2. id \in DOMAIN rows
    BY <1>1, <1>5, <2>1 DEF RowsMove
  <2> QED
    BY <1>1, <1>5, <2>2 DEF RowsMove, Recalled
<1>6. DOMAIN s.snap \subseteq Born'
  BY <1>1 DEF Recalled
<1> QED
  BY <1>4, <1>5, <1>6 DEF Timely, Recalled

LEMMA FromRowsRecalled ==
  ASSUME Shape, NEW s, FromRows(s)
  PROVE  Recalled(s)
BY DEF Shape, TablesOK, FromRows, Recalled

LEMMA CallsKept ==
  ASSUME Shape, StepOK
  PROVE  DOMAIN call' = Calls \cup Jobs /\ \A c \in Calls \cup Jobs : CallOK(c)'
<1>1. DOMAIN call = Calls \cup Jobs /\ \A c \in Calls \cup Jobs : CallOK(c)
  BY DEF Shape, SessionsOK
<1>2. ASSUME NEW c \in Calls \cup Jobs, NEW s, SessionOK(c, s), Timely(s), Recalled(s), s.pc # "loaded" => Empty(s),
             call'[c] = s
      PROVE  CallOK(c)'
  <2>1. Timely(s)' /\ Recalled(s)'
    BY <1>2, SessionKept
  <2>2. Timely(call[c])' /\ Recalled(call[c])'
    BY <1>2, <2>1 DEF Timely, Recalled
  <2> QED
    BY <1>2, <2>2 DEF CallOK
<1>3. ASSUME NEW c \in Calls \cup Jobs, call'[c] = call[c]
      PROVE  CallOK(c)'
  <2> PICK s : s = call[c]
    OBVIOUS
  <2>1. SessionOK(c, s) /\ Timely(s) /\ Recalled(s) /\ (s.pc # "loaded" => Empty(s))
    BY <1>1 DEF CallOK
  <2> QED
    BY <1>2, <1>3, <2>1
<1>4. ASSUME NEW d \in Calls \cup Jobs, NEW s, SessionOK(d, s), Timely(s), Recalled(s), s.pc # "loaded" => Empty(s),
             call' = [call EXCEPT ![d] = s]
      PROVE  DOMAIN call' = Calls \cup Jobs /\ \A c \in Calls \cup Jobs : CallOK(c)'
  <2>1. DOMAIN call' = Calls \cup Jobs /\ call'[d] = s /\ \A c \in Calls \cup Jobs : c # d => call'[c] = call[c]
    BY <1>1, <1>4
  <2>2. CallOK(d)'
    BY <1>2, <1>4, <2>1
  <2>3. \A c \in Calls \cup Jobs : c # d => CallOK(c)'
    BY <1>3, <2>1
  <2> QED
    BY <2>1, <2>2, <2>3
<1>5. ASSUME call' = call
      PROVE  DOMAIN call' = Calls \cup Jobs /\ \A c \in Calls \cup Jobs : CallOK(c)'
  BY <1>1, <1>3, <1>5
<1>6. ASSUME NEW c \in Calls \cup Jobs, NEW s, Opens(c, s)
      PROVE  \E d \in Calls \cup Jobs : \E t : /\ SessionOK(d, t) /\ Timely(t) /\ Recalled(t) /\ (t.pc # "loaded" => Empty(t))
                                               /\ call' = [call EXCEPT ![d] = t]
  BY <1>6, FromRowsRecalled DEF Opens, Load
<1>7. ASSUME NEW c, NEW s, Closes(c, s)
      PROVE  \E d \in Calls \cup Jobs : \E t : /\ SessionOK(d, t) /\ Timely(t) /\ Recalled(t) /\ (t.pc # "loaded" => Empty(t))
                                               /\ call' = [call EXCEPT ![d] = t]
  BY <1>7, EmptyOK DEF Closes
<1>8. ASSUME NEW c, NEW s, Commits(c, s)
      PROVE  \E d \in Calls \cup Jobs : \E t : /\ SessionOK(d, t) /\ Timely(t) /\ Recalled(t) /\ (t.pc # "loaded" => Empty(t))
                                               /\ call' = [call EXCEPT ![d] = t]
  BY <1>8, EmptyOK DEF Commits, Writes
<1>9. Stays \/ (\E j \in Jobs : Ends(j)) \/ PurgeCommits => call' = call
  BY DEF Stays, Ends, PurgeCommits
<1> QED
  BY <1>4, <1>5, <1>6, <1>7, <1>8, <1>9, Zenon DEF StepOK, RowStep

\* The alert of a run that is under way is not deleted.
LEMMA SubjectKept ==
  ASSUME Shape, StepOK, NEW j \in Jobs, job[j].pc \notin Over
  PROVE  Found(Subject[j])'
<1>1. Found(Subject[j]) /\ "respond" \in desk /\ Underway(j)
  BY JobFacts DEF Over, Underway
<1>2. "purge" \notin desk
  <2>1. desk \in Desks
    BY DEF Shape
  <2> QED
    BY <1>1, <2>1, DeskAssumption
<1>3. ASSUME NEW c, NEW s, Writes(c, s)
      PROVE  Found(Subject[j])'
  <2>1. DOMAIN rows' = (DOMAIN rows \ s.drop) \cup DOMAIN s.fresh
    BY <1>3, CommitRows
  <2> QED
    BY <1>1, <1>3, <2>1 DEF Writes, Found
<1>4. ASSUME NEW c, NEW s, Opens(c, s) \/ Closes(c, s)
      PROVE  UNCHANGED rows
  BY <1>4 DEF Opens, Closes, Load
<1>5. Stays => UNCHANGED rows
  BY DEF Stays
<1>6. (\E c, t : Commits(c, t)) => \E c, s : Writes(c, s)
  BY Zenon DEF Commits
<1>7. (\E k \in Jobs : Ends(k)) => \E c, s : Writes(c, s)
  BY Zenon DEF Ends
<1>8. CASE UNCHANGED rows
  BY <1>1, <1>8 DEF Found
<1> QED
  BY <1>2, <1>3, <1>4, <1>5, <1>6, <1>7, <1>8, Zenon DEF StepOK, RowStep

LEMMA JobsKept ==
  ASSUME Shape, StepOK
  PROVE  /\ DOMAIN job' = Jobs
         /\ \A j \in Jobs : JobOK(j)' /\ Recalled(job[j].mine)'
<1>1. DOMAIN job = Jobs
  BY JobFacts DEF Shape, SessionsOK
<1>2. desk' = desk
  BY DEF StepOK
<1>3. ASSUME NEW j \in Jobs, NEW s, Mine(j, s), Recalled(s)
      PROVE  Mine(j, s)' /\ Recalled(s)'
  <2>1. SessionOK(j, s) /\ Timely(s)
    BY <1>3 DEF Mine
  <2>2. Timely(s)' /\ Recalled(s)'
    BY <1>3, <2>1, SessionKept
  <2> QED
    BY <1>3, <2>2 DEF Mine
<1>4. Recalled(Session)'
  BY SessionEmpty, EmptyOK, SessionFacts, NothingFacts DEF Recalled
<1>5. ASSUME NEW j \in Jobs, NEW x, job'[j] = x, DOMAIN x = JobFields, x.pc \in Over \cup Acting \cup {"end"},
             x.pc \in Over => Rests(j, x.mine), Recalled(x.mine),
             x.pc \notin Over => Mine(j, x.mine) /\ Found(Subject[j])' /\ "respond" \in desk,
             x.pc \in Acting => Fresh(j, x.mine)
      PROVE  JobOK(j)' /\ Recalled(job[j].mine)'
  <2> PICK m : m = x.mine
    OBVIOUS
  <2>1. CASE x.pc \in Over
    <3>1. job'[j].mine = m /\ job'[j] = x
      BY <1>5
    <3>2. CASE m = Session
      <4>1. Rests(j, job[j].mine)' /\ Recalled(job[j].mine)'
        BY <1>4, <3>1, <3>2 DEF Recalled, Rests
      <4> QED
        BY <1>5, <2>1, <3>1, <4>1 DEF JobOK, Over, Acting
    <3>3. CASE Mine(j, m) /\ Fresh(j, m)
      <4>1. Mine(j, m)' /\ Recalled(m)'
        BY <1>3, <1>5, <3>3
      <4>2. Mine(j, job[j].mine)' /\ Recalled(job[j].mine)'
        BY <3>1, <4>1 DEF Mine, Timely, Recalled
      <4>3. Rests(j, job[j].mine)'
        BY <3>1, <3>3, <4>2 DEF Rests, Fresh
      <4> QED
        BY <1>5, <2>1, <3>1, <4>2, <4>3 DEF JobOK, Over, Acting
    <3> QED
      BY <1>5, <2>1, <3>2, <3>3 DEF Rests
  <2>2. CASE x.pc \notin Over
    <3>1. Mine(j, m)' /\ Recalled(m)'
      BY <1>3, <1>5, <2>2
    <3>2. job'[j].mine = m /\ job'[j] = x
      BY <1>5
    <3>3. Mine(j, job[j].mine)' /\ Recalled(job[j].mine)'
      BY <3>1, <3>2 DEF Mine, Timely, Recalled
    <3> QED
      BY <1>2, <1>5, <2>2, <3>2, <3>3 DEF JobOK
  <2> QED
    BY <2>1, <2>2
<1>6. ASSUME NEW j \in Jobs, job'[j] = job[j]
      PROVE  JobOK(j)' /\ Recalled(job[j].mine)'
  BY <1>5, <1>6, JobFacts, SubjectKept
<1>7. ASSUME NEW j \in Jobs, NEW x, Moves(j, x), Ends(j) \/ (job[j].pc # "end" /\ UNCHANGED rows)
      PROVE  JobOK(j)' /\ Recalled(job[j].mine)'
  <2>1. /\ job'[j] = x /\ DOMAIN x = JobFields /\ x.pc \in Over \cup Acting \cup {"end"}
        /\ x.pc \in Over => Rests(j, x.mine)
        /\ x.pc \notin Over => Mine(j, x.mine) /\ Found(Subject[j]) /\ "respond" \in desk
        /\ x.pc \in Acting => Fresh(j, x.mine)
    BY <1>1, <1>7 DEF Moves, JobStepTo
  <2>2. Recalled(x.mine)
    <3>1. CASE x.mine.snap = job[j].mine.snap
      BY <3>1, JobFacts DEF Recalled
    <3>2. CASE FromRows(x.mine)
      BY <3>2, FromRowsRecalled
    <3>3. CASE job[j].pc = "end" /\ x.mine.snap = job[j].mine.want
      <4> PICK m : m = job[j].mine
        OBVIOUS
      <4>1. Mine(j, m) /\ Recalled(m) /\ x.mine.snap = m.want
        BY <3>3, JobFacts DEF Over
      <4>2. DOMAIN m.want = DOMAIN m.snap /\ \A id \in DOMAIN m.want : m.want[id].created = m.snap[id].created
        BY <4>1 DEF Mine, SessionOK, WellFormed
      <4> QED
        BY <4>1, <4>2 DEF Recalled
    <3> QED
      BY <1>7, <3>1, <3>2, <3>3 DEF Moves
  <2>3. Found(Subject[j]) => Found(Subject[j])'
    <3>1. CASE Ends(j)
      <4>1. /\ Writes(j, job[j].mine)
            /\ DOMAIN rows' = (DOMAIN rows \ job[j].mine.drop) \cup DOMAIN job[j].mine.fresh
        BY <3>1, CommitRows DEF Ends
      <4>2. job[j].mine.drop = {}
        BY JobFacts
      <4> QED
        BY <4>1, <4>2 DEF Found
    <3>2. CASE UNCHANGED rows
      BY <3>2 DEF Found
    <3> QED
      BY <1>7, <3>1, <3>2
  <2> QED
    BY <1>5, <2>1, <2>2, <2>3
<1>8. ASSUME NEW j \in Jobs, NEW x, Moves(j, x)
      PROVE  DOMAIN job' = Jobs /\ \A k \in Jobs : k # j => job'[k] = job[k]
  BY <1>1, <1>8 DEF Moves, JobStepTo
<1>9. CASE job' = job
  BY <1>1, <1>6, <1>9
<1>10. CASE \E j \in Jobs : \E x : Moves(j, x) /\ (Ends(j) \/ (job[j].pc # "end" /\ UNCHANGED rows))
  <2>1. PICK j \in Jobs : \E x : Moves(j, x) /\ (Ends(j) \/ (job[j].pc # "end" /\ UNCHANGED rows))
    BY <1>10
  <2>2. PICK x : Moves(j, x) /\ (Ends(j) \/ (job[j].pc # "end" /\ UNCHANGED rows))
    BY <2>1
  <2>3. JobOK(j)' /\ Recalled(job[j].mine)'
    BY <1>7, <2>2
  <2>4. DOMAIN job' = Jobs /\ \A k \in Jobs : k # j => JobOK(k)' /\ Recalled(job[k].mine)'
    BY <1>6, <1>8, <2>2
  <2> QED
    BY <2>3, <2>4
<1> QED
  BY <1>9, <1>10, Zenon DEF StepOK, JobsStep

LEMMA ShapeStep ==
  ASSUME Shape, StepOK
  PROVE  Shape'
<1>1. TablesOK'
  BY TablesKept
<1>2. SessionsOK'
  <2>1. \A j \in Jobs : call'[j].pc # "idle" => job'[j].pc \in Own
    BY DEF StepOK, OwnKept
  <2> QED
    BY <2>1, CallsKept, JobsKept DEF SessionsOK
<1> QED
  BY <1>1, <1>2 DEF Shape, StepOK

\* In every reachable state the rows, the entries and the open sessions are
\* well formed and say what they write.
THEOREM ShapeInvariance == Spec => []Shape
<1>1. Shape /\ [Next]_vars => Shape'
  BY StepsOK, ShapeStep
<1> QED
  BY ShapeInit, <1>1, PTL DEF Spec

(***************************************************************************)
(* Comments: the text a comment was posted with, and who was told of it.   *)
(***************************************************************************)
CommentCols == {"on", "author", "text", "history", "mentions", "first", "at", "archived"}
TalkFields == {"pc", "target", "snap", "want", "left"}

\* A comment that was never edited has its first text; one that was has it
\* at the head of its history.
TextOK(x) ==
    /\ DOMAIN x = CommentCols
    /\ x.history = <<>> => x.text = x.first
    /\ x.history # <<>> => x.history[1] = x.first

\* Writer v has had its comment committed, or given up.
Posted(v) == talk[v].pc \notin {"idle", "add"}

\* u was told that comment v mentions it, or v's writers have yet to.
Heard(v, u) ==
    \/ <<v, u>> \in notified
    \/ \E w \in Writers : talk[w].pc \in {"notify", "died"} /\ talk[w].target = v /\ u \in talk[w].left

AddOK(t) ==
    t.pc = "add" => /\ TextOK(t.want) /\ t.want.history = <<>> /\ t.want.mentions = t.left

\* An edit has seen an earlier state of its comment.
EditOK(t) ==
    t.pc = "edit" =>
        /\ t.target \in Writers /\ Posted(t.target)
        /\ TextOK(t.snap) /\ TextOK(t.want) /\ t.want.first = t.snap.first
        /\ t.want.history = IF t.snap.history = <<>> THEN <<t.snap.text>> ELSE t.snap.history
        /\ t.target \in DOMAIN comments =>
              /\ comments[t.target].first = t.snap.first
              /\ t.snap.history # <<>> => comments[t.target].history # <<>>
        /\ \A u \in t.snap.mentions : Heard(t.target, u)
        /\ t.want.mentions \subseteq t.snap.mentions \cup t.left

CommentOK(v) ==
    /\ v \in Writers /\ Posted(v) /\ TextOK(comments[v])
    /\ \A u \in comments[v].mentions : Heard(v, u)

TalkInv ==
    /\ DOMAIN talk = Writers
    /\ \A v \in DOMAIN comments : CommentOK(v)
    /\ \A w \in Writers : DOMAIN talk[w] = TalkFields /\ AddOK(talk[w]) /\ EditOK(talk[w])

LEMMA SilentFacts ==
  /\ DOMAIN Silent = TalkFields /\ Silent.pc = "idle" /\ Silent.left = {}
BY DEF Silent, TalkFields

\* What a writer moves to: no one it was to tell is forgotten.
TalkTo(w, t) ==
    /\ talk' = [talk EXCEPT ![w] = t] /\ DOMAIN t = TalkFields
    /\ Posted(w) => t.pc \notin {"idle", "add"}
    /\ notified \subseteq notified'
    /\ talk[w].pc \in {"notify", "died"} =>
          \A u \in talk[w].left : \/ <<talk[w].target, u>> \in notified'
                                  \/ t.pc \in {"notify", "died"} /\ t.target = talk[w].target /\ u \in t.left

LEMMA HeardKept ==
  ASSUME TalkInv, NEW w \in Writers, NEW t, TalkTo(w, t)
  PROVE  /\ \A v \in Writers : Posted(v) => Posted(v)'
         /\ \A v, u : Heard(v, u) => Heard(v, u)'
         /\ DOMAIN talk' = Writers /\ talk'[w] = t /\ \A v \in Writers : v # w => talk'[v] = talk[v]
<1>1. DOMAIN talk = Writers
  BY DEF TalkInv
<1>2. DOMAIN talk' = Writers /\ talk'[w] = t /\ \A v \in Writers : v # w => talk'[v] = talk[v]
  BY <1>1 DEF TalkTo
<1>3. \A v \in Writers : Posted(v) => Posted(v)'
  BY <1>2 DEF TalkTo, Posted
<1>4. ASSUME NEW v, NEW u, Heard(v, u)
      PROVE  Heard(v, u)'
  <2>1. CASE <<v, u>> \in notified
    BY <2>1 DEF TalkTo, Heard
  <2>2. CASE \E x \in Writers : talk[x].pc \in {"notify", "died"} /\ talk[x].target = v /\ u \in talk[x].left
    <3>1. PICK x \in Writers : talk[x].pc \in {"notify", "died"} /\ talk[x].target = v /\ u \in talk[x].left
      BY <2>2
    <3>2. CASE x # w
      <4>1. talk'[x] = talk[x]
        BY <1>2, <3>2
      <4> QED
        BY <3>1, <4>1 DEF Heard
    <3>3. CASE x = w
      <4>1. \/ <<v, u>> \in notified'
            \/ talk'[w].pc \in {"notify", "died"} /\ talk'[w].target = v /\ u \in talk'[w].left
        BY <1>2, <3>1, <3>3 DEF TalkTo
      <4> QED
        BY <4>1 DEF Heard
    <3> QED
      BY <3>2, <3>3
  <2> QED
    BY <1>4, <2>1, <2>2 DEF Heard
<1> QED
  BY <1>2, <1>3, <1>4

\* A writer moves, and the comments stay.
LEMMA TalkMoved ==
  ASSUME TalkInv, NEW w \in Writers, NEW t, TalkTo(w, t), AddOK(t), EditOK(t), UNCHANGED comments
  PROVE  TalkInv'
<1>1. /\ \A v \in Writers : Posted(v) => Posted(v)'
      /\ \A v, u : Heard(v, u) => Heard(v, u)'
      /\ DOMAIN talk' = Writers /\ talk'[w] = t /\ \A v \in Writers : v # w => talk'[v] = talk[v]
  BY HeardKept
<1>2. \A v \in DOMAIN comments' : CommentOK(v)'
  BY <1>1 DEF TalkInv, CommentOK
<1>3. ASSUME NEW x, EditOK(x)
      PROVE  EditOK(x)'
  BY <1>1, <1>3 DEF EditOK
<1>4. ASSUME NEW v \in Writers
      PROVE  DOMAIN talk'[v] = TalkFields /\ AddOK(talk'[v]) /\ EditOK(talk[v])'
  <2> PICK x : x = talk'[v]
    OBVIOUS
  <2>1. DOMAIN x = TalkFields /\ AddOK(x) /\ EditOK(x)
    BY <1>1 DEF TalkInv, TalkTo
  <2>2. EditOK(x)'
    BY <1>3, <2>1
  <2> QED
    BY <2>1, <2>2 DEF EditOK
<1> QED
  BY <1>1, <1>2, <1>4 DEF TalkInv

LEMMA CommentFacts ==
  ASSUME NEW on, NEW author, NEW text, NEW mentions
  PROVE  LET x == Comment(on, author, text, mentions)
         IN  TextOK(x) /\ x.history = <<>> /\ x.mentions = mentions
BY DEF Comment, TextOK, CommentCols

LEMMA AddCommentKeeps ==
  ASSUME TalkInv, NEW w \in Writers, NEW id, AddComment(w, id)
  PROVE  TalkInv'
<1> PICK author \in Analysts, text \in Texts :
      talk' = [talk EXCEPT ![w] = [Silent EXCEPT
         !.pc = "add", !.target = id,
         !.want = Comment(id, author, text, Resolve(text)), !.left = Resolve(text)]]
  BY DEF AddComment
<1> DEFINE x == Comment(id, author, text, Resolve(text))
           m == Resolve(text)
           t == [Silent EXCEPT !.pc = "add", !.target = id, !.want = x, !.left = m]
<1>1. TextOK(x) /\ x.history = <<>> /\ x.mentions = m
  BY CommentFacts
<1>2. talk' = [talk EXCEPT ![w] = t]
  OBVIOUS
<1> HIDE DEF x, m
<1>3. DOMAIN t = TalkFields /\ t.pc = "add" /\ t.want = x /\ t.left = m
  BY SilentFacts DEF TalkFields
<1> HIDE DEF t
<1>4. talk[w].pc = "idle" /\ UNCHANGED comments /\ UNCHANGED notified
  BY DEF AddComment, caseVars
<1>5. TalkTo(w, t)
  BY <1>2, <1>3, <1>4 DEF TalkTo, Posted
<1>6. AddOK(t) /\ EditOK(t)
  BY <1>1, <1>3 DEF AddOK, EditOK
<1> QED
  BY <1>4, <1>5, <1>6, TalkMoved

LEMMA EditCommentKeeps ==
  ASSUME TalkInv, NEW w \in Writers, NEW v \in Writers, EditComment(w, v)
  PROVE  TalkInv'
<1> PICK snap : snap = comments[v]
  OBVIOUS
<1>1. /\ talk[w].pc = "idle" /\ v \in DOMAIN comments /\ UNCHANGED comments /\ UNCHANGED notified
      /\ \E who \in Analysts, text \in Texts :
             talk' = [talk EXCEPT ![w] =
               IF who # snap.author THEN [Silent EXCEPT !.pc = "refused"]
               ELSE [Silent EXCEPT
                  !.pc = "edit", !.target = v, !.snap = snap,
                  !.want = [snap EXCEPT !.text = text, !.mentions = Resolve(text),
                                        !.history = HistoryAfter(snap, text)],
                  !.left = NewMentions(snap, text)]]
  BY DEF EditComment, caseVars
<1>2. PICK who \in Analysts, text \in Texts :
             talk' = [talk EXCEPT ![w] =
               IF who # snap.author THEN [Silent EXCEPT !.pc = "refused"]
               ELSE [Silent EXCEPT
                  !.pc = "edit", !.target = v, !.snap = snap,
                  !.want = [snap EXCEPT !.text = text, !.mentions = Resolve(text),
                                        !.history = HistoryAfter(snap, text)],
                  !.left = NewMentions(snap, text)]]
  BY <1>1
<1>3. CASE who # snap.author
  <2> DEFINE t == [Silent EXCEPT !.pc = "refused"]
  <2>1. DOMAIN t = TalkFields /\ t.pc = "refused"
    BY SilentFacts DEF TalkFields
  <2>2. talk' = [talk EXCEPT ![w] = t]
    BY <1>2, <1>3
  <2> HIDE DEF t
  <2>3. TalkTo(w, t) /\ AddOK(t) /\ EditOK(t)
    BY <1>1, <2>1, <2>2 DEF TalkTo, Posted, AddOK, EditOK
  <2> QED
    BY <1>1, <2>3, TalkMoved
<1>4. CASE who = snap.author
  <2> DEFINE h == HistoryAfter(snap, text)
             m == Resolve(text)
             l == NewMentions(snap, text)
             want == [snap EXCEPT !.text = text, !.mentions = m, !.history = h]
             t == [Silent EXCEPT !.pc = "edit", !.target = v, !.snap = snap, !.want = want, !.left = l]
  <2>1. h = (IF snap.history = <<>> THEN <<snap.text>> ELSE snap.history) /\ m \subseteq snap.mentions \cup l
    BY DEF HistoryAfter, NewMentions
  <2>2. talk' = [talk EXCEPT ![w] = t]
    BY <1>2, <1>4
  <2> HIDE DEF h, m, l
  <2>3. CommentOK(v)
    BY <1>1 DEF TalkInv
  <2>4. TextOK(snap) /\ Posted(v) /\ \A u \in snap.mentions : Heard(v, u)
    BY <2>3 DEF CommentOK
  <2>5. TextOK(want) /\ want.first = snap.first /\ want.mentions = m /\ want.history = h
    <3>1. DOMAIN want = CommentCols /\ want.first = snap.first /\ want.mentions = m /\ want.history = h
      BY <2>4 DEF TextOK, CommentCols
    <3> HIDE DEF want
    <3>2. h # <<>> /\ h[1] = snap.first
      BY <2>1, <2>4 DEF TextOK
    <3> QED
      BY <3>1, <3>2 DEF TextOK
  <2> HIDE DEF want
  <2>6. DOMAIN t = TalkFields /\ t.pc = "edit" /\ t.target = v /\ t.snap = snap /\ t.want = want /\ t.left = l
    BY SilentFacts DEF TalkFields
  <2> HIDE DEF t
  <2>7. TalkTo(w, t) /\ AddOK(t)
    BY <1>1, <2>2, <2>6 DEF TalkTo, Posted, AddOK
  <2>8. EditOK(t)
    BY <1>1, <2>1, <2>4, <2>5, <2>6 DEF EditOK
  <2> QED
    BY <1>1, <2>7, <2>8, TalkMoved
<1> QED
  BY <1>3, <1>4

LEMMA EndCommentKeeps ==
  ASSUME TalkInv, NEW w \in Writers, CommentFails(w) \/ Notify(w) \/ DieBeforeNotify(w)
  PROVE  TalkInv'
<1>1. UNCHANGED comments /\ DOMAIN talk[w] = TalkFields
  BY DEF CommentFails, Notify, DieBeforeNotify, caseVars, TalkInv
<1>2. CASE CommentFails(w)
  <2> DEFINE t == [Silent EXCEPT !.pc = "failed"]
  <2>1. DOMAIN t = TalkFields /\ t.pc = "failed"
    BY SilentFacts DEF TalkFields
  <2>2. talk' = [talk EXCEPT ![w] = t] /\ UNCHANGED notified /\ talk[w].pc \in {"add", "edit"}
    BY <1>2 DEF CommentFails
  <2> HIDE DEF t
  <2>3. TalkTo(w, t) /\ AddOK(t) /\ EditOK(t)
    BY <2>1, <2>2 DEF TalkTo, Posted, AddOK, EditOK
  <2> QED
    BY <1>1, <2>3, TalkMoved
<1>3. ASSUME talk[w].pc = "notify", NEW u \in talk[w].left, notified' = notified \cup {<<talk[w].target, u>>},
             talk' = [talk EXCEPT ![w].left = @ \ {u}]
      PROVE  TalkInv'
  <2> DEFINE t == [talk[w] EXCEPT !.left = @ \ {u}]
  <2>1. DOMAIN t = TalkFields /\ t.pc = "notify" /\ t.left = talk[w].left \ {u} /\ t.target = talk[w].target
    BY <1>1, <1>3 DEF TalkFields
  <2>2. talk' = [talk EXCEPT ![w] = t]
    BY <1>3
  <2> HIDE DEF t
  <2>3. TalkTo(w, t) /\ AddOK(t) /\ EditOK(t)
    BY <1>3, <2>1, <2>2 DEF TalkTo, Posted, AddOK, EditOK
  <2> QED
    BY <1>1, <2>3, TalkMoved
<1>4. ASSUME talk[w].pc = "notify", NEW pc \in {"done", "died"}, pc = "done" => talk[w].left = {}, UNCHANGED notified,
             talk' = [talk EXCEPT ![w].pc = pc]
      PROVE  TalkInv'
  <2> DEFINE t == [talk[w] EXCEPT !.pc = pc]
  <2>1. DOMAIN t = TalkFields /\ t.pc = pc /\ t.left = talk[w].left /\ t.target = talk[w].target
    BY <1>1, <1>4 DEF TalkFields
  <2>2. talk' = [talk EXCEPT ![w] = t]
    BY <1>4
  <2> HIDE DEF t
  <2>3. TalkTo(w, t) /\ AddOK(t) /\ EditOK(t)
    BY <1>4, <2>1, <2>2 DEF TalkTo, Posted, AddOK, EditOK
  <2> QED
    BY <1>1, <2>3, TalkMoved
<1>5. CASE Notify(w)
  BY <1>3, <1>4, <1>5 DEF Notify
<1>6. CASE DieBeforeNotify(w)
  BY <1>4, <1>6 DEF DieBeforeNotify
<1> QED
  BY <1>2, <1>5, <1>6

\* After the COMMIT, the mentions that are new are still to be told of.
Tells(w, v) ==
    talk' = [talk EXCEPT ![w] = [Silent EXCEPT !.pc = "notify", !.target = v, !.left = talk[w].left]]

LEMMA Committed ==
  ASSUME TalkInv, NEW w \in Writers, NEW v, talk[w].pc \in {"add", "edit"}, UNCHANGED notified, Tells(w, v)
  PROVE  /\ \A x \in Writers : Posted(x) => Posted(x)'
         /\ \A x, u : Heard(x, u) => Heard(x, u)'
         /\ DOMAIN talk' = Writers /\ \A x \in Writers : x # w => talk'[x] = talk[x]
         /\ \A u \in talk[w].left : Heard(v, u)'
         /\ DOMAIN talk'[w] = TalkFields /\ talk'[w].pc = "notify"
<1> DEFINE l == talk[w].left
           t == [Silent EXCEPT !.pc = "notify", !.target = v, !.left = l]
<1>1. talk' = [talk EXCEPT ![w] = t]
  BY DEF Tells
<1> HIDE DEF l
<1>2. DOMAIN t = TalkFields /\ t.pc = "notify" /\ t.target = v /\ t.left = l
  BY SilentFacts DEF TalkFields
<1> HIDE DEF t
<1>3. TalkTo(w, t)
  BY <1>1, <1>2 DEF TalkTo
<1>4. talk'[w] = t
  BY <1>3, HeardKept
<1>5. \A u \in l : Heard(v, u)'
  BY <1>2, <1>4 DEF Heard
<1> QED
  BY <1>2, <1>3, <1>4, <1>5, HeardKept DEF l

LEMMA CommitAddKeeps ==
  ASSUME TalkInv, NEW w \in Writers, CommitAdd(w)
  PROVE  TalkInv'
<1> DEFINE want == talk[w].want
<1>1. /\ talk[w].pc = "add" /\ UNCHANGED notified
      /\ comments' = [v \in DOMAIN comments \cup {w} |-> IF v = w THEN want ELSE comments[v]]
      /\ Tells(w, w)
  BY DEF CommitAdd, Tells
<1>2. /\ \A x \in Writers : Posted(x) => Posted(x)'
      /\ \A x, u : Heard(x, u) => Heard(x, u)'
      /\ DOMAIN talk' = Writers /\ \A x \in Writers : x # w => talk'[x] = talk[x]
      /\ \A u \in talk[w].left : Heard(w, u)'
      /\ DOMAIN talk'[w] = TalkFields /\ talk'[w].pc = "notify"
  BY <1>1, Committed
<1>3. TextOK(want) /\ want.mentions = talk[w].left
  BY <1>1 DEF TalkInv, AddOK
<1>4. ~Posted(w) /\ w \notin DOMAIN comments
  BY <1>1 DEF Posted, TalkInv, CommentOK
<1> HIDE DEF want
<1>5. DOMAIN comments' = DOMAIN comments \cup {w} /\ comments'[w] = want /\ \A v \in DOMAIN comments : comments'[v] = comments[v]
  BY <1>1, <1>4
<1>6. Posted(w)'
  BY <1>2 DEF Posted
<1>7. \A v \in DOMAIN comments' : CommentOK(v)'
  <2>1. CommentOK(w)'
    BY <1>2, <1>3, <1>5, <1>6 DEF CommentOK
  <2>2. \A v \in DOMAIN comments : CommentOK(v)'
    BY <1>2, <1>5 DEF CommentOK, TalkInv
  <2> QED
    BY <1>5, <2>1, <2>2
<1>8. ASSUME NEW x, EditOK(x)
      PROVE  EditOK(x)'
  <2> SUFFICES ASSUME x.pc = "edit"
               PROVE  EditOK(x)'
    BY DEF EditOK
  <2> PICK y : y = x.target
    OBVIOUS
  <2>1. /\ y \in Writers /\ Posted(y) /\ \A u \in x.snap.mentions : Heard(y, u)
        /\ y \in DOMAIN comments =>
              /\ comments[y].first = x.snap.first
              /\ x.snap.history # <<>> => comments[y].history # <<>>
    BY <1>8 DEF EditOK
  <2>2. Posted(y)' /\ \A u \in x.snap.mentions : Heard(y, u)'
    BY <1>2, <2>1
  <2>3. y \in DOMAIN comments' =>
              /\ comments'[y].first = x.snap.first
              /\ x.snap.history # <<>> => comments'[y].history # <<>>
    BY <1>4, <1>5, <2>1
  <2> QED
    BY <1>8, <2>2, <2>3 DEF EditOK
<1>9. ASSUME NEW v \in Writers
      PROVE  DOMAIN talk'[v] = TalkFields /\ AddOK(talk'[v]) /\ EditOK(talk[v])'
  <2>1. CASE v = w
    BY <1>2, <2>1 DEF AddOK, EditOK
  <2>2. CASE v # w
    <3> PICK x : x = talk[v]
      OBVIOUS
    <3>1. DOMAIN x = TalkFields /\ AddOK(x) /\ EditOK(x)' /\ talk'[v] = x
      BY <1>2, <1>8, <2>2 DEF TalkInv
    <3> QED
      BY <3>1 DEF EditOK
  <2> QED
    BY <2>1, <2>2
<1> QED
  BY <1>2, <1>7, <1>9 DEF TalkInv

LEMMA CommitEditKeeps ==
  ASSUME TalkInv, NEW w \in Writers, CommitEdit(w)
  PROVE  TalkInv'
<1> PICK v, snap, want, cur : v = talk[w].target /\ snap = talk[w].snap /\ want = talk[w].want /\ cur = comments[v]
  OBVIOUS
<1> DEFINE m == Merge(cur, snap, want)
<1>1. /\ talk[w].pc = "edit" /\ v \in DOMAIN comments /\ UNCHANGED notified
      /\ comments' = [comments EXCEPT ![v] = m]
      /\ Tells(w, v)
  BY DEF CommitEdit, Tells
<1>2. /\ \A x \in Writers : Posted(x) => Posted(x)'
      /\ \A x, u : Heard(x, u) => Heard(x, u)'
      /\ DOMAIN talk' = Writers /\ \A x \in Writers : x # w => talk'[x] = talk[x]
      /\ \A u \in talk[w].left : Heard(v, u)'
      /\ DOMAIN talk'[w] = TalkFields /\ talk'[w].pc = "notify"
  BY <1>1, Committed
<1>3. EditOK(talk[w]) /\ CommentOK(v)
  BY <1>1 DEF TalkInv
<1>4. /\ TextOK(snap) /\ TextOK(want) /\ want.first = snap.first /\ Posted(v) /\ v \in Writers
      /\ want.history = IF snap.history = <<>> THEN <<snap.text>> ELSE snap.history
      /\ cur.first = snap.first /\ (snap.history # <<>> => cur.history # <<>>)
      /\ \A u \in snap.mentions : Heard(v, u)
      /\ want.mentions \subseteq snap.mentions \cup talk[w].left
      /\ TextOK(cur) /\ \A u \in cur.mentions : Heard(v, u)
  BY <1>1, <1>3 DEF EditOK, CommentOK
<1>5. DOMAIN m = CommentCols /\ \A f \in CommentCols : m[f] = IF want[f] # snap[f] THEN want[f] ELSE cur[f]
  BY <1>4 DEF Merge, TextOK
<1> HIDE DEF m
<1>6. /\ m.first = IF want.first # snap.first THEN want.first ELSE cur.first
      /\ m.history = IF want.history # snap.history THEN want.history ELSE cur.history
      /\ m.mentions = IF want.mentions # snap.mentions THEN want.mentions ELSE cur.mentions
  BY <1>5 DEF CommentCols
<1>7. m.first = cur.first /\ m.history # <<>> /\ m.history[1] = m.first
  <2>1. m.first = cur.first
    BY <1>4, <1>6
  <2>2. CASE snap.history = <<>>
    <3>1. m.history = <<snap.text>> /\ snap.text = snap.first
      BY <1>4, <1>6, <2>2 DEF TextOK
    <3> QED
      BY <1>4, <2>1, <3>1
  <2>3. CASE snap.history # <<>>
    BY <1>4, <1>6, <2>1, <2>3 DEF TextOK
  <2> QED
    BY <2>2, <2>3, <2>1
<1>8. TextOK(m)
  BY <1>5, <1>7 DEF TextOK
<1>9. \A u \in m.mentions : Heard(v, u)'
  BY <1>2, <1>4, <1>6
<1>10. DOMAIN comments' = DOMAIN comments /\ comments'[v] = m /\ \A x \in DOMAIN comments : x # v => comments'[x] = comments[x]
  BY <1>1
<1>11. \A x \in DOMAIN comments' : CommentOK(x)'
  <2>1. CommentOK(v)'
    BY <1>2, <1>4, <1>8, <1>9, <1>10 DEF CommentOK
  <2>2. \A x \in DOMAIN comments : x # v => CommentOK(x)'
    BY <1>2, <1>10 DEF CommentOK, TalkInv
  <2> QED
    BY <1>10, <2>1, <2>2
<1>12. ASSUME NEW x, EditOK(x)
       PROVE  EditOK(x)'
  <2> SUFFICES ASSUME x.pc = "edit"
               PROVE  EditOK(x)'
    BY DEF EditOK
  <2> PICK y : y = x.target
    OBVIOUS
  <2>1. /\ y \in Writers /\ Posted(y) /\ \A u \in x.snap.mentions : Heard(y, u)
        /\ y \in DOMAIN comments =>
              /\ comments[y].first = x.snap.first
              /\ x.snap.history # <<>> => comments[y].history # <<>>
    BY <1>12 DEF EditOK
  <2>2. Posted(y)' /\ \A u \in x.snap.mentions : Heard(y, u)'
    BY <1>2, <2>1
  <2>3. y \in DOMAIN comments' =>
              /\ comments'[y].first = x.snap.first
              /\ x.snap.history # <<>> => comments'[y].history # <<>>
    BY <1>4, <1>7, <1>10, <2>1
  <2> QED
    BY <1>12, <2>2, <2>3 DEF EditOK
<1>13. ASSUME NEW y \in Writers
       PROVE  DOMAIN talk'[y] = TalkFields /\ AddOK(talk'[y]) /\ EditOK(talk[y])'
  <2>1. CASE y = w
    BY <1>2, <2>1 DEF AddOK, EditOK
  <2>2. CASE y # w
    <3> PICK x : x = talk[y]
      OBVIOUS
    <3>1. DOMAIN x = TalkFields /\ AddOK(x) /\ EditOK(x)' /\ talk'[y] = x
      BY <1>2, <1>12, <2>2 DEF TalkInv
    <3> QED
      BY <3>1 DEF EditOK
  <2> QED
    BY <2>1, <2>2
<1> QED
  BY <1>2, <1>11, <1>13 DEF TalkInv

\* Everyone else at most deletes or archives comments.
LEMMA WeededKeeps ==
  ASSUME TalkInv, UNCHANGED <<talk, notified>>, Weeded
  PROVE  TalkInv'
<1>1. ASSUME NEW v \in DOMAIN comments'
      PROVE  /\ v \in DOMAIN comments /\ TextOK(comments'[v]) /\ comments'[v].mentions = comments[v].mentions
             /\ comments'[v].first = comments[v].first /\ comments'[v].history = comments[v].history
  <2> PICK x : x = comments[v]
    OBVIOUS
  <2>1. v \in DOMAIN comments /\ comments'[v] \in {x, Archive(x)}
    BY DEF Weeded
  <2>2. TextOK(x)
    BY <2>1 DEF TalkInv, CommentOK
  <2> DEFINE y == [x EXCEPT !.archived = now]
  <2>3. /\ DOMAIN y = CommentCols /\ y.text = x.text /\ y.mentions = x.mentions /\ y.first = x.first
        /\ y.history = x.history
    BY <2>2 DEF TextOK, CommentCols
  <2>4. Archive(x) = y
    BY DEF Archive
  <2> HIDE DEF y
  <2>5. TextOK(y)
    BY <2>2, <2>3 DEF TextOK
  <2> QED
    BY <2>1, <2>2, <2>3, <2>4, <2>5
<1>2. /\ \A v : Posted(v) <=> Posted(v)'
      /\ \A v, u : Heard(v, u) <=> Heard(v, u)'
  BY DEF Posted, Heard
<1>3. \A v \in DOMAIN comments' : CommentOK(v)'
  BY <1>1, <1>2 DEF TalkInv, CommentOK
<1>4. ASSUME NEW x, EditOK(x)
      PROVE  EditOK(x)'
  BY <1>1, <1>2, <1>4 DEF EditOK
<1>5. ASSUME NEW w \in Writers
      PROVE  DOMAIN talk'[w] = TalkFields /\ AddOK(talk'[w]) /\ EditOK(talk[w])'
  <2> PICK x : x = talk[w]
    OBVIOUS
  <2>1. DOMAIN x = TalkFields /\ AddOK(x) /\ EditOK(x)' /\ talk'[w] = x
    BY <1>4 DEF TalkInv
  <2> QED
    BY <2>1 DEF EditOK
<1> QED
  BY <1>3, <1>5 DEF TalkInv

LEMMA TalkStep ==
  ASSUME TalkInv, StepOK
  PROVE  TalkInv'
<1>1. ASSUME Talk
      PROVE  TalkInv'
  <2>1. ASSUME NEW w \in Writers, WriterStep(w)
        PROVE  TalkInv'
    <3>1. CASE \E id \in RowIds : AddComment(w, id)
      BY <3>1, AddCommentKeeps
    <3>2. CASE \E v \in Writers : EditComment(w, v)
      BY <3>2, EditCommentKeeps
    <3>3. CASE CommitAdd(w)
      BY <3>3, CommitAddKeeps
    <3>4. CASE CommitEdit(w)
      BY <3>4, CommitEditKeeps
    <3>5. CASE CommentFails(w) \/ Notify(w) \/ DieBeforeNotify(w)
      BY <3>5, EndCommentKeeps
    <3> QED
      BY <2>1, <3>1, <3>2, <3>3, <3>4, <3>5, Zenon DEF WriterStep
  <2>2. ASSUME NEW u \in Analysts, SetActive(u)
        PROVE  TalkInv'
    <3>1. UNCHANGED <<talk, notified>> /\ comments' = comments
      BY <2>2 DEF SetActive, caseVars
    <3> QED
      BY <3>1, SameWeeded, WeededKeeps
  <2> QED
    BY <1>1, <2>1, <2>2, Zenon DEF Talk
<1>2. UNCHANGED talkVars => UNCHANGED <<talk, notified>>
  BY DEF talkVars
<1> QED
  BY <1>1, <1>2, WeededKeeps DEF StepOK

LEMMA TalkInvInit == Init => TalkInv
<1> SUFFICES ASSUME Init
             PROVE  TalkInv
  OBVIOUS
<1>1. DOMAIN comments = {} /\ talk = [w \in Writers |-> Silent]
  BY DEF Init, CaseInit, TalkInit
<1>2. \A w \in Writers : talk[w] = Silent
  BY <1>1
<1> QED
  BY <1>1, <1>2, SilentFacts DEF TalkInv, AddOK, EditOK

THEOREM TalkInvariance == Spec => []TalkInv
<1>1. Shape /\ TalkInv /\ [Next]_vars => TalkInv'
  BY StepsOK, TalkStep
<1> QED
  BY TalkInvInit, ShapeInvariance, <1>1, PTL DEF Spec

\* The text a comment was posted with is never lost: it is the text, or the
\* head of the history, however many edits overlap (edit_comment).
THEOREM TextsKept == Spec => []OriginalTextKept
<1>1. TalkInv => OriginalTextKept
  BY DEF TalkInv, CommentOK, TextOK, OriginalTextKept
<1> QED
  BY TalkInvariance, <1>1, PTL

\* Whoever a committed comment mentions has been notified, or one of its
\* writers is about to, or has died before it could.
THEOREM MentionsTold == Spec => []MentionsNotified
<1>1. TalkInv => MentionsNotified
  BY DEF TalkInv, CommentOK, Heard, MentionsNotified
<1> QED
  BY TalkInvariance, <1>1, PTL

(***************************************************************************)
(* The purge.                                                              *)
(***************************************************************************)
\* A row was archived after its retention.
Ripe(id) == rows[id].archived # 0 => rows[id].archived >= rows[id].created + Wait(Days(id))

PurgeInv ==
    /\ \A id \in DOMAIN rows : Ripe(id) /\ rows[id].archived <= now
    /\ GraceDays # 0 /\ last = "blocked" => Overdue \cap runs # {}

\* What lies before a cutoff has waited for so many days.
LEMMA OlderWaited ==
  ASSUME NEW at \in Nat, NEW days \in Nat, now \in Nat, at <= now, Older(at, days)
  PROVE  now >= at + Wait(days)
BY DEF Older, Wait

\* With a grace period, a row that is overdue has been archived before.
LEMMA OverdueBefore ==
  ASSUME now \in Nat, GraceDays \in Nat, GraceDays # 0, NEW id \in DOMAIN rows, IsRow(rows[id])
  PROVE  id \in Overdue <=> rows[id].archived # 0 /\ rows[id].archived < now - GraceDays
<1>1. CASE Expired(id)
  <2>1. rows[id].archived = 0 /\ Swept(id) = [rows[id] EXCEPT !.archived = now]
    BY <1>1 DEF Expired, Swept, Archive
  <2>2. Swept(id).archived = now
    BY <2>1 DEF IsRow, Cols
  <2>3. ~Older(now, GraceDays)
    BY DEF Older
  <2> QED
    BY <2>1, <2>2, <2>3 DEF Overdue, PastGrace
<1>2. CASE ~Expired(id)
  <2>1. Swept(id) = rows[id]
    BY <1>2 DEF Swept
  <2> QED
    BY <2>1 DEF Overdue, PastGrace, Older
<1> QED
  BY <1>1, <1>2

\* What a step does to an alert that a run refers to, or to any row.
LEMMA RowsAged ==
  ASSUME Shape, StepOK
  PROVE  \/ PurgeCommits
         \/ /\ \A id \in DOMAIN rows' :
                  \/ id \notin DOMAIN rows /\ rows'[id].archived = 0
                  \/ /\ id \in DOMAIN rows /\ rows'[id].archived = rows[id].archived
                     /\ rows'[id].created = rows[id].created
            /\ DOMAIN rows \cap runs \subseteq DOMAIN rows'
            /\ call' = call => DOMAIN rows \subseteq DOMAIN rows'
<1> DEFINE AsBefore ==
      /\ \A id \in DOMAIN rows' :
             \/ id \notin DOMAIN rows /\ rows'[id].archived = 0
             \/ /\ id \in DOMAIN rows /\ rows'[id].archived = rows[id].archived
                /\ rows'[id].created = rows[id].created
      /\ DOMAIN rows \cap runs \subseteq DOMAIN rows'
<1>1. ASSUME UNCHANGED rows
      PROVE  AsBefore /\ DOMAIN rows \subseteq DOMAIN rows'
  BY <1>1
<1>2. ASSUME NEW c, NEW s, Writes(c, s)
      PROVE  AsBefore /\ (s.drop = {} => DOMAIN rows \subseteq DOMAIN rows')
  <2>1. /\ DOMAIN rows' = (DOMAIN rows \ s.drop) \cup DOMAIN s.fresh
        /\ DOMAIN s.fresh \cap Born = {}
        /\ \A id \in DOMAIN s.fresh : rows'[id] = s.fresh[id] /\ s.fresh[id].archived = 0
        /\ \A id \in DOMAIN rows' \ DOMAIN s.fresh :
               id \in DOMAIN rows /\ rows'[id].created = rows[id].created /\ rows'[id].archived = rows[id].archived
    <3>1. DOMAIN rows' = (DOMAIN rows \ s.drop) \cup DOMAIN s.fresh /\ DOMAIN s.fresh \cap Born = {}
          /\ Inserts(s) /\ Merges(s)
      BY <1>2, CommitRows
    <3> QED
      BY <3>1 DEF Inserts, Merges
  <2>2. s.drop \cap runs = {}
    BY <1>2 DEF Writes, Blocked
  <2>3. DOMAIN rows \subseteq Born
    BY DEF Shape, TablesOK
  <2> QED
    BY <2>1, <2>2, <2>3
<1>3. ASSUME NEW c, NEW t, Commits(c, t)
      PROVE  AsBefore /\ call' # call
  <2>1. call'[c] = t /\ call[c].pc = "loaded" /\ t.pc \in {"done", "after"}
    <3>1. c \in Calls \cup Jobs
      BY <1>3, Zenon DEF Commits, Writes
    <3>2. DOMAIN call = Calls \cup Jobs
      BY DEF Shape, SessionsOK
    <3> QED
      BY <1>3, <3>1, <3>2 DEF Commits
  <2>2. call' # call
    BY <2>1
  <2>3. AsBefore
    BY <1>2, <1>3 DEF Commits
  <2> QED
    BY <2>2, <2>3
<1>4. ASSUME NEW j \in Jobs, Ends(j)
      PROVE  AsBefore /\ DOMAIN rows \subseteq DOMAIN rows'
  <2>1. job[j].mine.drop = {}
    BY JobFacts
  <2> QED
    BY <1>2, <1>4, <2>1 DEF Ends
<1>5. ASSUME NEW c, NEW s, Opens(c, s) \/ Closes(c, s)
      PROVE  UNCHANGED rows
  BY <1>5 DEF Opens, Closes, Load
<1>6. Stays => UNCHANGED rows
  BY DEF Stays
<1> HIDE DEF AsBefore
<1>7. PurgeCommits \/ (AsBefore /\ (call' = call => DOMAIN rows \subseteq DOMAIN rows'))
  BY <1>1, <1>3, <1>4, <1>5, <1>6, Zenon DEF StepOK, RowStep
<1> QED
  BY <1>7 DEF AsBefore

LEMMA PurgeStepKeeps ==
  ASSUME Shape, PurgeInv, [Next]_vars
  PROVE  PurgeInv' /\ (GraceDays # 0 /\ last = "blocked" => last' # "ok")
<1>1. StepOK /\ RowsMove /\ now \in Nat
  BY StepsOK, RowsMoved DEF Shape, TablesOK, RowsOK
<1>2. \A id : Days(id) \in Nat
  BY RetentionAssumption DEF Days
<1>3. runs \subseteq runs' \/ runs' = runs
  BY <1>1 DEF StepOK, RowStep, Stays, Opens, Load, Closes, Commits, Ends, Writes, PurgeCommits
<1>4. CASE PurgeCommits
  <2>1. /\ Overdue \cap runs = {} /\ now' = now
        /\ rows' = [id \in DOMAIN rows \ Overdue |-> Swept(id)]
    BY <1>4 DEF PurgeCommits, Blocked
  <2>2. GraceDays # 0 => last # "blocked"
    BY <2>1 DEF PurgeInv
  <2>3. GraceDays # 0 => last' # "blocked"
    <3>1. ~PurgeBlocked
      BY <2>1 DEF PurgeBlocked, Blocked
    <3>2. CASE Purge
      <4>1. TaskRaises /\ last' = "blocked" => PurgeBlocked
        BY DEF TaskRaises
      <4>2. TaskPurges => last' = "ok"
        BY DEF TaskPurges
      <4>3. AdminPurges => last' = "ok" \/ PurgeBlocked
        BY DEF AdminPurges
      <4>4. NextDay => last' = last
        BY DEF NextDay
      <4> QED
        BY <2>2, <3>1, <3>2, <4>1, <4>2, <4>3, <4>4 DEF Purge, PurgeStep
    <3>3. CASE UNCHANGED purgeVars
      BY <2>2, <3>3 DEF purgeVars
    <3> QED
      BY <1>1, <3>2, <3>3 DEF StepOK
  <2>4. ASSUME NEW id \in DOMAIN rows'
        PROVE  Ripe(id)' /\ rows'[id].archived <= now'
    <3> PICK r : r = rows[id]
      OBVIOUS
    <3>1. /\ id \in DOMAIN rows /\ IsRow(r) /\ r.created <= now /\ Ripe(id) /\ rows'[id] = Swept(id)
          /\ r.archived <= now
      BY <2>1 DEF Shape, TablesOK, RowsOK, PurgeInv
    <3>2. CASE Expired(id)
      <4> PICK since : since = IF r.stamp # 0 THEN r.stamp ELSE r.created
        OBVIOUS
      <4>1. Older(since, Days(id))
        BY <3>2 DEF Expired
      <4>2. /\ r.created \in Nat /\ r.stamp \in Nat /\ (r.stamp # 0 => r.created <= r.stamp) /\ DOMAIN r = Cols
            /\ r.created <= since /\ since \in Nat
        BY <3>1 DEF IsRow
      <4>3. Older(r.created, Days(id))
        BY <1>1, <1>2, <4>1, <4>2 DEF Older
      <4>4. r.created + Wait(Days(id)) <= now
        BY <1>1, <1>2, <3>1, <4>2, <4>3, OlderWaited
      <4>5. rows'[id] = [r EXCEPT !.archived = now]
        BY <3>1, <3>2 DEF Archive, Swept
      <4>6. rows'[id].archived = now /\ rows'[id].created = r.created
        BY <4>2, <4>5 DEF Cols
      <4> QED
        BY <1>1, <2>1, <4>4, <4>6 DEF Ripe
    <3>3. CASE ~Expired(id)
      BY <2>1, <3>1, <3>3 DEF Ripe, Swept
    <3> QED
      BY <3>2, <3>3
  <2> QED
    BY <2>2, <2>3, <2>4 DEF PurgeInv
<1>5. CASE ~PurgeCommits
  <2>1. /\ \A id \in DOMAIN rows' :
              \/ id \notin DOMAIN rows /\ rows'[id].archived = 0
              \/ /\ id \in DOMAIN rows /\ rows'[id].archived = rows[id].archived
                 /\ rows'[id].created = rows[id].created
        /\ DOMAIN rows \cap runs \subseteq DOMAIN rows'
    BY <1>1, <1>5, RowsAged
  <2>2. ASSUME NEW id \in DOMAIN rows'
        PROVE  Ripe(id)' /\ rows'[id].archived <= now'
    <3>1. now' \in Nat /\ now <= now'
      BY <1>1 DEF RowsMove
    <3>2. CASE id \notin DOMAIN rows
      BY <2>1, <3>1, <3>2 DEF Ripe
    <3>3. CASE id \in DOMAIN rows
      <4>1. rows[id].archived \in Nat /\ rows[id].archived <= now /\ Ripe(id)
        BY <3>3 DEF PurgeInv, Shape, TablesOK, RowsOK, IsRow
      <4> QED
        BY <1>1, <2>1, <3>1, <3>3, <4>1 DEF Ripe
    <3> QED
      BY <3>2, <3>3
  <2>3. GraceDays # 0 /\ Overdue \cap runs # {} => (Overdue \cap runs)' # {}
    <3> SUFFICES ASSUME GraceDays # 0, NEW a \in Overdue \cap runs
                 PROVE  a \in Overdue' \cap runs'
      OBVIOUS
    <3> PICK r, rn : r = rows[a] /\ rn = rows'[a]
      OBVIOUS
    <3>1. a \in DOMAIN rows /\ IsRow(r) /\ GraceDays \in Nat
      BY RetentionAssumption DEF Overdue, Shape, TablesOK, RowsOK
    <3>2. r.archived # 0 /\ r.archived < now - GraceDays
      BY <1>1, <3>1, OverdueBefore
    <3>3. a \in DOMAIN rows' /\ rn.archived = r.archived
      BY <2>1, <3>1
    <3>4. r.archived \in Nat /\ now' \in Nat /\ now <= now'
      BY <1>1, <3>1 DEF IsRow, RowsMove
    <3>5. rn.archived # 0 /\ rn.archived < now' - GraceDays
      BY <1>1, <3>1, <3>2, <3>3, <3>4
    <3>6. ~Expired(a)'
      BY <3>5 DEF Expired
    <3>7. Swept(a)' = rn
      BY <3>6 DEF Swept
    <3>8. PastGrace(Swept(a))'
      BY <3>5, <3>7 DEF PastGrace, Older
    <3> QED
      BY <1>3, <3>3, <3>8 DEF Overdue
  <2>4. /\ last' # last => last' # "ok"
        /\ last' = "blocked" => last = "blocked" \/ Overdue \cap runs # {}
    <3>1. CASE Purge
      <4>1. TaskRaises => last' \in {"blocked", "error"} /\ (last' = "blocked" => PurgeBlocked)
        BY DEF TaskRaises
      <4>2. ~TaskPurges
        BY <1>5 DEF TaskPurges
      <4>3. AdminPurges => last' = "blocked" /\ PurgeBlocked
        BY <1>5 DEF AdminPurges
      <4>4. NextDay => last' = last
        BY DEF NextDay
      <4>5. PurgeBlocked => Overdue \cap runs # {}
        BY DEF PurgeBlocked, Blocked
      <4> QED
        BY <3>1, <4>1, <4>2, <4>3, <4>4, <4>5 DEF Purge, PurgeStep
    <3>2. CASE UNCHANGED purgeVars
      BY <3>2 DEF purgeVars
    <3> QED
      BY <1>1, <3>1, <3>2 DEF StepOK
  <2> QED
    BY <2>2, <2>3, <2>4 DEF PurgeInv
<1> QED
  BY <1>4, <1>5

LEMMA PurgeInvInit == Init => PurgeInv
<1> SUFFICES ASSUME Init
             PROVE  PurgeInv
  OBVIOUS
<1>1. last = "none" /\ rows = [id \in Alerts \cup Incidents |-> IF id \in Alerts THEN NewAlert ELSE NewIncident("medium", 1)]
  BY DEF Init, CaseInit, PurgeInit
<1>2. \A id \in DOMAIN rows : rows[id].archived = 0
  BY <1>1, RowFacts
<1>3. now = 1
  BY DEF Init, CaseInit
<1> QED
  BY <1>1, <1>2, <1>3 DEF PurgeInv, Ripe

THEOREM PurgeInvariance == Spec => []PurgeInv
<1>1. Shape /\ PurgeInv /\ [Next]_vars => PurgeInv'
  BY PurgeStepKeeps
<1> QED
  BY PurgeInvInit, ShapeInvariance, <1>1, PTL DEF Spec

\* With a grace period, once the foreign key of a run has refused a purge, no
\* purge succeeds (run_retention_purge).
THEOREM NoPurgeOnceBlocked == Spec => BlockedForGood
<1>1. Shape /\ PurgeInv /\ [Next]_vars => [GraceDays # 0 /\ last = "blocked" => last' # "ok"]_vars
  BY PurgeStepKeeps
<1> QED
  BY ShapeInvariance, PurgeInvariance, <1>1, PTL DEF Spec, BlockedForGood

\* No purge deletes an alert or an incident before its retention and the
\* grace period are over.
THEOREM NonePurgedYoung == Spec => NotPurgedYoung
<1> DEFINE Old ==
      \A id \in DOMAIN rows \ DOMAIN rows' :
          call' = call => now >= rows[id].created + Wait(Days(id)) + Wait(GraceDays)
<1>1. ASSUME Shape, PurgeInv, [Next]_vars
      PROVE  Old
  <2> SUFFICES ASSUME NEW id \in DOMAIN rows \ DOMAIN rows', call' = call
               PROVE  now >= rows[id].created + Wait(Days(id)) + Wait(GraceDays)
    OBVIOUS
  <2> PICK r : r = rows[id]
    OBVIOUS
  <2>1. StepOK /\ now \in Nat /\ IsRow(r) /\ r.created <= now /\ Ripe(id)
    BY <1>1, StepsOK DEF Shape, TablesOK, RowsOK, PurgeInv
  <2>2. PurgeCommits
    BY <1>1, <2>1, RowsAged
  <2>3. PastGrace(Swept(id))
    BY <2>2 DEF PurgeCommits, Overdue
  <2>4. /\ r.archived \in Nat /\ r.created \in Nat /\ r.stamp \in Nat /\ DOMAIN r = Cols
        /\ r.stamp # 0 => r.created <= r.stamp
    BY <2>1 DEF IsRow
  <2>5. GraceDays \in Nat /\ Days(id) \in Nat
    BY RetentionAssumption DEF Days
  <2>6. Wait(GraceDays) \in Nat /\ Wait(Days(id)) \in Nat
    BY <2>5 DEF Wait
  <2>7. CASE Expired(id)
    <3>1. Swept(id) = [r EXCEPT !.archived = now]
      BY <2>7 DEF Swept, Archive
    <3>2. Swept(id).archived = now
      BY <2>4, <3>1 DEF Cols
    <3>3. GraceDays = 0 /\ Wait(GraceDays) = 0
      BY <2>1, <2>3, <2>5, <3>2 DEF PastGrace, Older, Wait
    <3> PICK since : since = IF r.stamp # 0 THEN r.stamp ELSE r.created
      OBVIOUS
    <3>4. Older(since, Days(id)) /\ since \in Nat /\ r.created <= since
      BY <2>4, <2>7 DEF Expired
    <3>5. Older(r.created, Days(id))
      BY <2>1, <2>4, <2>5, <3>4 DEF Older
    <3>6. now >= r.created + Wait(Days(id))
      BY <2>1, <2>4, <2>5, <3>5, OlderWaited
    <3> QED
      BY <2>1, <2>4, <2>6, <3>3, <3>6
  <2>8. CASE ~Expired(id)
    <3>1. r.archived # 0 /\ Older(r.archived, GraceDays)
      BY <2>3, <2>8 DEF Swept, PastGrace
    <3>2. r.archived >= r.created + Wait(Days(id))
      BY <2>1, <3>1 DEF Ripe
    <3>3. r.archived <= now
      BY <1>1, <2>1 DEF PurgeInv
    <3>4. now >= r.archived + Wait(GraceDays)
      BY <2>1, <2>4, <2>5, <3>1, <3>3, OlderWaited
    <3> QED
      BY <2>1, <2>4, <2>6, <3>2, <3>4
  <2> QED
    BY <2>7, <2>8
<1>2. Shape /\ PurgeInv /\ [Next]_vars => [Old]_vars
  BY <1>1
<1> QED
  BY ShapeInvariance, PurgeInvariance, <1>2, PTL DEF Spec, NotPurgedYoung

(***************************************************************************)
(* A run that resolves its alert.                                          *)
(***************************************************************************)
\* A resolution that a run has flushed is in the row once the run is over,
\* unless the run had found the alert resolved.
THEOREM ResolutionsLand == Spec => ResolutionLands
<1> DEFINE Lands ==
      \A j \in Jobs :
          LET s == job[j].mine
              a == Subject[j]
          IN  /\ job[j].pc = "end" /\ job'[j].pc # "end"
              /\ \E n \in DOMAIN s.log : s.log[n].kind = "ai_auto_resolved"
              => rows'[a].status = "resolved" \/ s.snap[a].status = "resolved"
<1>1. ASSUME Shape, [Next]_vars
      PROVE  Lands
  <2> SUFFICES ASSUME NEW j \in Jobs, NEW s, s = job[j].mine, NEW a, a = Subject[j],
                      job[j].pc = "end", job'[j].pc # "end",
                      NEW n \in DOMAIN s.log, s.log[n].kind = "ai_auto_resolved",
                      s.snap[a].status # "resolved"
               PROVE  rows'[a].status = "resolved"
    OBVIOUS
  <2>1. JobsStep /\ DOMAIN job = Jobs /\ Mine(j, s) /\ Found(a)
    BY <1>1, StepsOK, JobFacts DEF StepOK, Over
  <2>2. Ends(j)
    <3>1. job' # job
      BY <2>1
    <3>2. PICK k \in Jobs : \E x : Moves(k, x) /\ (Ends(k) \/ (job[k].pc # "end" /\ UNCHANGED rows))
      BY <2>1, <3>1, Zenon DEF JobsStep
    <3>3. PICK x : JobStepTo(k, x)
      BY <3>2 DEF Moves
    <3>4. k = j
      BY <2>1, <3>3 DEF JobStepTo
    <3> QED
      BY <3>2, <3>4
  <2>3. Writes(j, s)
    BY <2>2 DEF Ends
  <2>4. PICK row, want, log : HasRow(s, a, row, want, log) /\ About(log, a, NoRow)
    BY <2>1 DEF Mine
  <2>5. s.log[n].alert = a /\ DOMAIN s.want = {a} /\ s.drop = {} /\ DOMAIN s.fresh = {}
    BY <2>4, NothingFacts DEF HasRow, About
  <2>6. s.want[a].status = "resolved"
    BY <2>1, <2>5 DEF Mine, SessionOK, ResolutionSaid
  <2>7. a \in DOMAIN rows'
    <3>1. DOMAIN rows' = (DOMAIN rows \ s.drop) \cup DOMAIN s.fresh
      BY <1>1, <2>3, CommitRows
    <3> QED
      BY <2>1, <2>5, <3>1 DEF Found
  <2>8. Merges(s)
    BY <1>1, <2>3, CommitRows
  <2>9. \A f \in Cols : rows'[a][f] = IF s.want[a][f] # s.snap[a][f] THEN s.want[a][f] ELSE rows[a][f]
    BY <2>5, <2>7, <2>8 DEF Merges
  <2>10. rows'[a]["status"] = "resolved"
    BY <2>6, <2>9 DEF Cols
  <2> QED
    BY <2>10
<1>2. Shape /\ [Next]_vars => [Lands]_vars
  BY <1>1
<1> QED
  BY ShapeInvariance, <1>2, PTL DEF Spec, ResolutionLands

(***************************************************************************)
(* Playbooks of templates.                                                 *)
(***************************************************************************)
\* How a call gets on: refused or opened, committed, failed, or as it was.
Advances(c) ==
    \/ call'[c] = call[c]
    \/ call[c].pc = "idle"
    \/ call'[c].pc = "failed"
    \/ /\ call[c].pc = "loaded" /\ call'[c].then = call[c].then
       /\ call'[c].pc = IF call[c].then = <<>> THEN "done" ELSE "after"

\* The next playbook is sent, and nothing else.
Dispatches(c) ==
    /\ call[c].pc = "after" /\ Len(dispatched[c]) < Len(Tasks(call[c].then))
    /\ dispatched' = [dispatched EXCEPT ![c] = Append(@, Tasks(call[c].then)[Len(dispatched[c]) + 1])]
    /\ UNCHANGED <<call, acts>>

\* All of them have been.
HasSent(c) ==
    /\ call[c].pc = "after" /\ ~(Len(dispatched[c]) < Len(Tasks(call[c].then)))
    /\ call'[c].pc = "done" /\ \A d \in Calls : d # c => call'[d] = call[d]
    /\ UNCHANGED <<dispatched, acts>>

CallsStep ==
    \/ UNCHANGED dispatched /\ \A c \in Calls : Advances(c)
    \/ \E c \in Calls : Dispatches(c) \/ HasSent(c)

LEMMA CallSteps ==
  ASSUME Shape, [Next]_vars
  PROVE  CallsStep
<1>1. DOMAIN call = Calls \cup Jobs
  BY DEF Shape, SessionsOK
<1>2. ASSUME UNCHANGED <<call, dispatched>>
      PROVE  CallsStep
  BY <1>2 DEF CallsStep, Advances
<1>3. UNCHANGED incidentVars => UNCHANGED dispatched
  BY DEF incidentVars
<1>4. ASSUME NEW c \in Calls, NEW t, call' = [call EXCEPT ![c] = t], UNCHANGED dispatched,
             call[c].pc = "idle" \/ t.pc = "failed" \/
             (/\ call[c].pc = "loaded" /\ t.then = call[c].then
              /\ t.pc = IF call[c].then = <<>> THEN "done" ELSE "after")
      PROVE  CallsStep
  BY <1>1, <1>4 DEF CallsStep, Advances
<1>5. ASSUME NEW c \in Calls, Refuse(c) \/ \E s : Load(c, s), call[c].pc = "idle", UNCHANGED dispatched
      PROVE  CallsStep
  <2>1. PICK t : call' = [call EXCEPT ![c] = t]
    <3>1. Refuse(c) => \E t : call' = [call EXCEPT ![c] = t]
      <4> DEFINE t == [call[c] EXCEPT !.pc = "refused"]
      <4>1. Refuse(c) => call' = [call EXCEPT ![c] = t]
        BY DEF Refuse
      <4> QED
        BY <4>1
    <3>2. ASSUME NEW s, Load(c, s)
          PROVE  \E t : call' = [call EXCEPT ![c] = t]
      BY <3>2 DEF Load
    <3> QED
      BY <1>5, <3>1, <3>2
  <2> QED
    BY <1>4, <1>5, <2>1
<1>6. ASSUME NEW c \in Calls, AlertRequest(c)
      PROVE  CallsStep
  <2>1. (Refuse(c) /\ call[c].pc = "idle") \/ \E s : Load(c, s)
    BY <1>6, Zenon DEF AlertRequest, UpdateAlert, ClaimAlert, BulkUpdate, DeleteAlert, CreateIncidentFor, LinkIncidentFor
  <2>2. (\E s : Load(c, s)) => call[c].pc = "idle"
    BY DEF Load
  <2>3. UNCHANGED dispatched
    BY <1>3, <1>6, Zenon DEF AlertRequest
  <2> QED
    BY <1>5, <2>1, <2>2, <2>3
<1>7. ASSUME NEW c \in Calls, IncidentRequest(c)
      PROVE  CallsStep
  <2>1. CASE \E t \in Templates : SaveTemplate(c, t) \/ DeleteTemplate(c, t)
    <3> DEFINE u == [call[c] EXCEPT !.pc = "done"]
    <3>1. call[c].pc = "idle" /\ call' = [call EXCEPT ![c] = u] /\ UNCHANGED dispatched
      BY <2>1 DEF SaveTemplate, DeleteTemplate
    <3> HIDE DEF u
    <3> QED
      BY <1>4, <3>1
  <2>2. CASE ~\E t \in Templates : SaveTemplate(c, t) \/ DeleteTemplate(c, t)
    <3>1. (Refuse(c) /\ call[c].pc = "idle") \/ \E s : Load(c, s)
      BY <1>7, <2>2, Zenon DEF IncidentRequest, CreateIncident, UpdateIncident, LinkAlert, UnlinkAlert, CreateFromTemplate
    <3>2. (\E s : Load(c, s)) => call[c].pc = "idle"
      BY DEF Load
    <3>3. UNCHANGED dispatched
      BY <1>3, <1>7, <2>2, Zenon DEF IncidentRequest, CreateIncident, UpdateIncident, LinkAlert, UnlinkAlert, CreateFromTemplate
    <3> QED
      BY <1>5, <3>1, <3>2, <3>3
  <2> QED
    BY <2>1, <2>2
<1>8. ASSUME NEW c \in Calls, EndRequest(c)
      PROVE  CallsStep
  <2>1. CASE Commit(c) /\ UNCHANGED incidentVars
    <3> PICK then : then = call[c].then
      OBVIOUS
    <3> DEFINE pc == IF then = <<>> THEN "done" ELSE "after"
               t == [Session EXCEPT !.pc = pc, !.then = then]
    <3>1. call[c].pc = "loaded" /\ call' = [call EXCEPT ![c] = t]
      BY <2>1 DEF Commit
    <3> HIDE DEF pc
    <3>2. t.pc = pc /\ t.then = then
      BY SessionFacts DEF SessionFields
    <3> HIDE DEF t
    <3> QED
      BY <1>3, <1>4, <2>1, <3>1, <3>2 DEF pc
  <2>2. CASE Rollback(c) /\ UNCHANGED incidentVars
    <3> DEFINE t == [Session EXCEPT !.pc = "failed"]
    <3>1. t.pc = "failed" /\ call' = [call EXCEPT ![c] = t]
      BY <2>2, SessionFacts DEF Rollback, SessionFields
    <3> HIDE DEF t
    <3> QED
      BY <1>3, <1>4, <2>2, <3>1
  <2>3. CASE TriggerTemplatePlaybooks(c)
    <3>1. CASE Len(dispatched[c]) < Len(Tasks(call[c].then))
      <4>1. Dispatches(c)
        BY <2>3, <3>1 DEF TriggerTemplatePlaybooks, SendNext, Dispatches
      <4> QED
        BY <4>1 DEF CallsStep
    <3>2. CASE ~(Len(dispatched[c]) < Len(Tasks(call[c].then)))
      <4>1. /\ call[c].pc = "after" /\ call' = [call EXCEPT ![c].pc = "done"] /\ UNCHANGED <<dispatched, acts>>
        BY <2>3, <3>2 DEF TriggerTemplatePlaybooks, SendNext
      <4>2. DOMAIN call[c] = SessionFields
        BY <1>1 DEF Shape, SessionsOK, CallOK, SessionOK, WellFormed
      <4>3. call'[c].pc = "done" /\ \A d \in Calls : d # c => call'[d] = call[d]
        BY <1>1, <4>1, <4>2 DEF SessionFields
      <4>4. HasSent(c)
        BY <3>2, <4>1, <4>3 DEF HasSent
      <4> QED
        BY <4>4 DEF CallsStep
    <3> QED
      BY <3>1, <3>2
  <2>4. CASE TriggerFails(c)
    <3> DEFINE t == [call[c] EXCEPT !.pc = "failed"]
    <3>1. call' = [call EXCEPT ![c] = t] /\ UNCHANGED dispatched
      BY <2>4 DEF TriggerFails, incidentVars
    <3>2. DOMAIN call[c] = SessionFields
      BY <1>1 DEF Shape, SessionsOK, CallOK, SessionOK, WellFormed
    <3>3. t.pc = "failed"
      BY <3>2 DEF SessionFields
    <3> HIDE DEF t
    <3> QED
      BY <1>4, <3>1, <3>3
  <2> QED
    BY <1>8, <2>1, <2>2, <2>3, <2>4, Zenon DEF EndRequest
<1>9. CASE Talk
  <2>1. UNCHANGED call
    BY <1>9, TalkSteps
  <2> QED
    BY <1>2, <1>3, <1>9, <2>1, Zenon DEF Talk
<1>10. CASE Purge
  <2>1. UNCHANGED call
    BY <1>10, PurgeSteps
  <2> QED
    BY <1>2, <1>3, <1>10, <2>1, Zenon DEF Purge
<1>11. CASE RunOf
  <2>1. UNCHANGED call
    BY <1>11 DEF RunOf, RunInserted
  <2> QED
    BY <1>2, <1>3, <1>11, <2>1, Zenon DEF RunOf
<1>12. CASE Respond
  <2>1. PICK j \in Jobs : JobStep(j)
    BY <1>12 DEF Respond
  <2>2. UNCHANGED dispatched
    BY <1>3, <1>12, Zenon DEF Respond
  <2>3. \E t : call' = [call EXCEPT ![j] = t] \/ call' = call
    <3>1. UNCHANGED caseVars => call' = call
      BY DEF caseVars
    <3>2. ASSUME NEW s, Load(j, s)
          PROVE  \E t : call' = [call EXCEPT ![j] = t]
      BY <3>2 DEF Load
    <3>3. CASE StartRun(j) \/ StartFails(j) \/ BodyRaises(j) \/ AutoEnrichIocs(j) \/ TriageHighSeverity(j)
               \/ AiPhishingTriage(j) \/ AiEndpointContainment(j) \/ AiThreatHunt(j) \/ EscalationWorkflow(j)
               \/ AutoResolveBenign(j) \/ AssignAlert(j) \/ FlushTimesOut(j)
      <4>1. UNCHANGED caseVars
        BY <3>3, Zenon DEF StartRun, StartFails, TaskFails, BodyRaises, AutoEnrichIocs, TriageHighSeverity, Proceed,
               AiPhishingTriage, AiEndpointContainment, AiThreatHunt, EscalationWorkflow, AutoResolveBenign,
               ResolveCurrentAlert, AssignAlert, AssignCurrentAlert, Update, FlushTimesOut
      <4> QED
        BY <3>1, <4>1
    <3>4. CASE EscalatePhishing(j) \/ IsolateEndpoint(j) \/ LogEndpointAssessment(j) \/ SaveHuntReport(j)
      <4>1. \E s : Load(j, s)
        BY <3>4, Zenon DEF EscalatePhishing, IsolateEndpoint, LogEndpointAssessment, SaveHuntReport, OwnSession
      <4> QED
        BY <3>2, <4>1
    <3>5. CASE EndRun(j)
      BY <3>5 DEF EndRun
    <3>6. CASE OwnCommit(j)
      BY <3>6 DEF OwnCommit, Commit
    <3>7. CASE ActionReturns(j) \/ ActionTimesOut(j)
      BY <3>7 DEF ActionReturns, ActionTimesOut
    <3> QED
      BY <2>1, <3>3, <3>4, <3>5, <3>6, <3>7 DEF JobStep
  <2>4. \A c \in Calls : call'[c] = call[c]
    BY <1>1, <2>3, IdAssumption
  <2> QED
    BY <2>2, <2>4 DEF CallsStep, Advances
<1>13. CASE UNCHANGED vars
  <2>1. UNCHANGED caseVars /\ UNCHANGED incidentVars
    BY <1>13, Zenon DEF vars
  <2> QED
    BY <1>2, <1>3, <2>1 DEF caseVars
<1> QED
  BY <1>6, <1>7, <1>8, <1>9, <1>10, <1>11, <1>12, <1>13 DEF Next

\* The activities after a COMMIT of session s: those of before, then those of
\* the session, dated.
Lands(s, h) ==
    /\ h \in [DOMAIN acts' -> 1 .. (Len(acts) + Len(s.log))]
    /\ \A k, l \in DOMAIN acts' : k < l <=> h[k] < h[l]
    /\ \A k \in DOMAIN acts' :
          IF h[k] <= Len(acts) THEN acts'[k] = acts[h[k]]
          ELSE /\ Redated(acts'[k], s.log[h[k] - Len(acts)])
               /\ acts'[k].at = now /\ acts'[k].archived = 0
    /\ \A n \in DOMAIN acts : Refers(acts[n]) \cap s.drop = {} => \E k \in DOMAIN acts' : h[k] = n
    /\ \A n \in DOMAIN s.log : Refers(s.log[n]) \cap s.drop = {} => \E k \in DOMAIN acts' : h[k] = Len(acts) + n

Lengths(s) ==
    /\ Len(acts) \in Nat /\ DOMAIN acts = 1 .. Len(acts)
    /\ Len(s.log) \in Nat /\ DOMAIN s.log = 1 .. Len(s.log)

LEMMA Landed ==
  ASSUME Shape, NEW c, NEW s, Writes(c, s)
  PROVE  Lengths(s) /\ IsSeq(acts') /\ \E h : Lands(s, h)
<1>1. now \in Nat /\ IsSeq(acts)
  BY DEF Shape, TablesOK, RowsOK
<1> DEFINE log == s.log
           gone == s.drop
<1>2. IsLog(log)
  BY DEF Writes, SessionOK, WellFormed
<1>3. acts' = ActsWithout(acts \o Stamped(log), gone)
  BY DEF Writes, Apply
<1>4. PICK h : Follows(acts', acts, log, gone, now, h)
  BY <1>1, <1>2, <1>3, ActsFollow
<1>5. Len(acts) \in Nat /\ DOMAIN acts = 1 .. Len(acts) /\ Len(log) \in Nat /\ DOMAIN log = 1 .. Len(log)
  BY <1>1, <1>2, SeqFacts DEF IsLog
<1>6. ASSUME NEW k \in DOMAIN acts', ~(h[k] <= Len(acts))
      PROVE  Redated(acts'[k], log[h[k] - Len(acts)]) /\ acts'[k].at = now /\ acts'[k].archived = 0
  <2>1. h[k] \in 1 .. (Len(acts) + Len(log)) /\ acts'[k] = [log[h[k] - Len(acts)] EXCEPT !.at = now]
    BY <1>4, <1>6 DEF Follows
  <2>2. h[k] - Len(acts) \in DOMAIN log
    BY <1>5, <1>6, <2>1
  <2> PICK e : e = log[h[k] - Len(acts)]
    OBVIOUS
  <2> PICK d : d = [e EXCEPT !.at = now]
    OBVIOUS
  <2>3. IsEntry(e) /\ e.archived = 0
    BY <1>2, <2>2 DEF IsLog
  <2>4. Redated(d, e) /\ d.at = now /\ d.archived = e.archived
    BY <1>1, <2>3, DatedEntry
  <2> QED
    BY <2>1, <2>3, <2>4
<1>7. Lands(s, h)
  BY <1>4, <1>6 DEF Lands, Follows
<1> QED
  BY <1>4, <1>5, <1>7 DEF Lengths, Follows

\* Where an entry of after a step comes from.
Before(e) == \E m \in DOMAIN acts : Redated(e, acts[m])

Logged(c, s, e) ==
    /\ Writes(c, s) /\ (c \in Calls => s = call[c] /\ call[c].pc = "loaded" /\ call'[c].pc \in {"done", "after"})
    /\ \E m \in DOMAIN s.log : Redated(e, s.log[m])

LEMMA EntryOrigin ==
  ASSUME Shape, StepOK, NEW n \in DOMAIN acts'
  PROVE  Before(acts'[n]) \/ \E c, s : Logged(c, s, acts'[n])
<1>1. /\ IsSeq(acts) /\ now \in Nat /\ DOMAIN call = Calls \cup Jobs
      /\ \A m \in DOMAIN acts : IsEntry(acts[m])
  BY DEF Shape, TablesOK, RowsOK, SessionsOK, EntryIn
<1>2. \A m \in DOMAIN acts : Redated(acts[m], acts[m])
  BY <1>1 DEF Redated
<1>3. CASE UNCHANGED acts
  BY <1>2, <1>3 DEF Before
<1>4. ASSUME NEW c, NEW s, Writes(c, s),
             c \in Calls => s = call[c] /\ call[c].pc = "loaded" /\ call'[c].pc \in {"done", "after"}
      PROVE  Before(acts'[n]) \/ Logged(c, s, acts'[n])
  <2>1. PICK h : Lands(s, h)
    BY <1>4, Landed
  <2>2. Lengths(s)
    BY <1>4, Landed
  <2>3. h[n] \in 1 .. (Len(acts) + Len(s.log))
    BY <2>1 DEF Lands
  <2>4. CASE h[n] <= Len(acts)
    <3>1. acts'[n] = acts[h[n]] /\ h[n] \in DOMAIN acts
      BY <2>1, <2>2, <2>3, <2>4 DEF Lands, Lengths
    <3> QED
      BY <1>2, <3>1 DEF Before
  <2>5. CASE ~(h[n] <= Len(acts))
    <3>1. Redated(acts'[n], s.log[h[n] - Len(acts)]) /\ h[n] - Len(acts) \in DOMAIN s.log
      BY <2>1, <2>2, <2>3, <2>5 DEF Lands, Lengths
    <3> QED
      BY <1>4, <3>1 DEF Logged
  <2> QED
    BY <2>4, <2>5
<1>5. CASE PurgeCommits
  <2>1. PICK h : Thinned(acts', acts, h)
    BY <1>1, <1>5, PurgeThins
  <2> PICK e : e = acts[h[n]]
    OBVIOUS
  <2>2. h[n] \in DOMAIN acts /\ acts'[n] \in {e, Archive(e)}
    BY <2>1 DEF Thinned, SweptEntry
  <2>3. IsEntry(e) /\ Redated(e, e)
    BY <1>1, <1>2, <2>2
  <2>4. Redated(Archive(e), e)
    BY <1>1, <2>3, ArchivedEntry
  <2> QED
    BY <2>2, <2>3, <2>4 DEF Before
<1>6. ASSUME NEW c, NEW s, Opens(c, s) \/ Closes(c, s)
      PROVE  UNCHANGED acts
  BY <1>6 DEF Opens, Closes, Load
<1>7. Stays => UNCHANGED acts
  BY DEF Stays
<1>8. ASSUME NEW c, NEW t, Commits(c, t)
      PROVE  Before(acts'[n]) \/ \E s : Logged(c, s, acts'[n])
  <2>1. Writes(c, call[c]) /\ (c \in Calls => call[c].pc = "loaded" /\ call'[c].pc \in {"done", "after"})
    BY <1>1, <1>8 DEF Commits
  <2> QED
    BY <1>4, <2>1
<1>9. ASSUME NEW j \in Jobs, Ends(j)
      PROVE  Before(acts'[n]) \/ \E s : Logged(j, s, acts'[n])
  <2>1. Writes(j, job[j].mine) /\ j \notin Calls
    BY <1>9, IdAssumption DEF Ends
  <2> QED
    BY <1>4, <2>1
<1> QED
  BY <1>3, <1>5, <1>6, <1>7, <1>8, <1>9, Zenon DEF StepOK, RowStep

LEMMA NoTasks == Tasks(<<>>) = <<>>
<1> DEFINE keep == {n \in DOMAIN <<>> : <<>>[n] \in Defined}
<1>1. keep = {}
  OBVIOUS
<1>2. Cardinality(keep) = 0
  BY <1>1, FS_EmptySet, Zenon
<1>3. Tasks(<<>>) = Kept(<<>>, keep)
  BY DEF Tasks
<1> HIDE DEF keep
<1> QED
  BY <1>2, <1>3 DEF Kept

\* An entry about a creation, and what it promises of the call.
Creates(e, c) == e.kind = "incident_created" /\ e.incident = c

\* s is a beginning of t.
Begins(s, t) == Len(s) <= Len(t) /\ \A k \in 1 .. Len(s) : s[k] = t[k]

Promised(c, e) ==
    \A v \in Versions : e.new = v.name =>
        /\ call[c].pc = "after" => call[c].then = v.playbooks
        /\ Begins(dispatched[c], Tasks(v.playbooks))
        /\ call[c].pc = "done" => Len(dispatched[c]) = Len(Tasks(v.playbooks))

TemplateInv ==
    /\ DOMAIN dispatched = Calls
    /\ \A c \in Calls : /\ IsSeq(dispatched[c])
                        /\ call[c].pc \in {"idle", "loaded"} => dispatched[c] = <<>>
    /\ \A c \in Calls : \A n \in DOMAIN acts :
          Creates(acts[n], c) => call[c].pc \notin {"idle", "loaded"} /\ Promised(c, acts[n])

\* One more element.
LEMMA AppendSeq ==
  ASSUME NEW s, IsSeq(s), NEW x
  PROVE  /\ IsSeq(Append(s, x)) /\ Len(Append(s, x)) = Len(s) + 1 /\ Len(s) \in Nat
         /\ \A k \in 1 .. Len(s) : Append(s, x)[k] = s[k]
         /\ Append(s, x)[Len(s) + 1] = x
<1> DEFINE S == {s[n] : n \in DOMAIN s} \cup {x}
           u == Append(s, x)
<1>1. s \in Seq(S) /\ x \in S
  BY DEF IsSeq
<1> HIDE DEF S
<1>2. /\ u \in Seq(S) /\ Len(u) = Len(s) + 1 /\ Len(s) \in Nat
      /\ \A k \in 1 .. Len(s) : u[k] = s[k]
      /\ u[Len(s) + 1] = x
  BY <1>1, AppendProperties
<1> HIDE DEF u
<1>3. Len(u) \in Nat /\ u \in [1 .. Len(u) -> S] /\ DOMAIN u = 1 .. Len(u)
  BY <1>2, LenProperties
<1>4. u \in [1 .. Len(u) -> {u[n] : n \in DOMAIN u}]
  BY <1>3
<1>5. IsSeq(u)
  BY <1>3, <1>4 DEF IsSeq
<1> QED
  BY <1>2, <1>5 DEF u

LEMMA TaskSeq ==
  ASSUME NEW v \in Versions
  PROVE  Len(Tasks(v.playbooks)) \in Nat
<1> DEFINE n == Len(v.playbooks)
           keep == {m \in DOMAIN v.playbooks : v.playbooks[m] \in Defined}
<1>1. n \in Nat /\ DOMAIN v.playbooks = 1 .. n
  BY TemplateAssumption
<1>2. keep \in SUBSET (1 .. n)
  BY <1>1
<1>3. Tasks(v.playbooks) = Kept(v.playbooks, keep)
  BY DEF Tasks
<1>4. Cardinality(keep) \in Nat
  <2>1. IsFiniteSet(keep)
    <3>1. IsFiniteSet(1 .. n)
      BY <1>1, FS_Interval
    <3> HIDE DEF n, keep
    <3> QED
      BY <1>2, <3>1, FS_Subset
  <2> HIDE DEF keep
  <2> QED
    BY <2>1, FS_CardinalityType
<1>5. Len(Kept(v.playbooks, keep)) = Cardinality(keep)
  <2> HIDE DEF n, keep
  <2> QED
    BY <1>1, <1>2, KeptInOrder
<1> QED
  BY <1>3, <1>4, <1>5

LEMMA TemplateInit == Init => TemplateInv
<1> SUFFICES ASSUME Init
             PROVE  TemplateInv
  OBVIOUS
<1>1. dispatched = [c \in Calls |-> <<>>] /\ acts = <<>>
  BY DEF Init, IncidentInit, CaseInit
<1> QED
  BY <1>1, EmptyLog DEF TemplateInv

LEMMA TemplateStep ==
  ASSUME Shape, TemplateInv, [Next]_vars
  PROVE  TemplateInv'
<1>1. StepOK /\ CallsStep
  BY StepsOK, CallSteps
<1>2. DOMAIN dispatched' = Calls
  BY <1>1 DEF TemplateInv, CallsStep, Dispatches, HasSent
<1>3. ASSUME NEW c \in Calls
      PROVE  /\ IsSeq(dispatched'[c])
             /\ call'[c].pc \in {"idle", "loaded"} => dispatched'[c] = <<>>
  <2>1. CASE UNCHANGED dispatched /\ Advances(c)
    BY <2>1 DEF TemplateInv, Advances
  <2>2. ASSUME NEW d \in Calls, Dispatches(d)
        PROVE  /\ IsSeq(dispatched'[c])
               /\ call'[c].pc \in {"idle", "loaded"} => dispatched'[c] = <<>>
    <3>1. CASE d = c
      <4>1. PICK x : dispatched'[c] = Append(dispatched[c], x)
        BY <2>2, <3>1 DEF Dispatches, TemplateInv
      <4>2. IsSeq(dispatched'[c])
        BY <4>1, AppendSeq DEF TemplateInv
      <4> QED
        BY <2>2, <3>1, <4>2 DEF Dispatches
    <3>2. CASE d # c
      BY <2>2, <3>2 DEF Dispatches, TemplateInv
    <3> QED
      BY <3>1, <3>2
  <2>3. ASSUME NEW d \in Calls, HasSent(d)
        PROVE  /\ IsSeq(dispatched'[c])
               /\ call'[c].pc \in {"idle", "loaded"} => dispatched'[c] = <<>>
    BY <2>3 DEF HasSent, TemplateInv
  <2> QED
    BY <1>1, <2>1, <2>2, <2>3 DEF CallsStep
<1>4. ASSUME NEW c \in Calls, NEW n \in DOMAIN acts', Creates(acts'[n], c)
      PROVE  call'[c].pc \notin {"idle", "loaded"} /\ Promised(c, acts[n])'
  <2> PICK e : e = acts'[n]
    OBVIOUS
  <2> DEFINE OK == /\ call'[c].pc \notin {"idle", "loaded"}
                   /\ \A v \in Versions : e.new = v.name =>
                        /\ call'[c].pc = "after" => call'[c].then = v.playbooks
                        /\ Begins(dispatched'[c], Tasks(v.playbooks))
                        /\ call'[c].pc = "done" => Len(dispatched'[c]) = Len(Tasks(v.playbooks))
  <2> SUFFICES OK
    BY DEF Promised, Begins, Tasks, Kept
  <2>1. CASE Before(e)
    <3>1. PICK m \in DOMAIN acts : Redated(e, acts[m])
      BY <2>1 DEF Before
    <3>2. Creates(acts[m], c) /\ acts[m].new = e.new
      BY <1>4, <3>1 DEF Redated, Creates
    <3>3. call[c].pc \notin {"idle", "loaded"} /\ Promised(c, acts[m])
      BY <3>2 DEF TemplateInv
    <3>4. /\ call[c].pc \notin {"idle", "loaded"}
          /\ \A v \in Versions : e.new = v.name =>
               /\ call[c].pc = "after" => call[c].then = v.playbooks
               /\ Begins(dispatched[c], Tasks(v.playbooks))
               /\ call[c].pc = "done" => Len(dispatched[c]) = Len(Tasks(v.playbooks))
      BY <3>2, <3>3 DEF Promised
    <3>5. CASE UNCHANGED dispatched /\ Advances(c)
      BY <3>4, <3>5 DEF Advances
    <3>6. ASSUME NEW d \in Calls, Dispatches(d)
          PROVE  OK
      <4>1. CASE d = c
        <5> SUFFICES ASSUME NEW v \in Versions, e.new = v.name
                     PROVE  /\ call'[c].pc = "after" => call'[c].then = v.playbooks
                            /\ Begins(dispatched'[c], Tasks(v.playbooks))
                            /\ call'[c].pc # "done"
          BY <3>4, <3>6, <4>1 DEF Dispatches
        <5> PICK tasks : tasks = Tasks(v.playbooks)
          OBVIOUS
        <5> PICK sent : sent = dispatched[c]
          OBVIOUS
        <5>1. call[c].pc = "after" /\ call'[c] = call[c] /\ call[c].then = v.playbooks /\ Begins(sent, tasks)
          BY <3>4, <3>6, <4>1 DEF Dispatches
        <5>2. Len(sent) < Len(tasks) /\ dispatched'[c] = Append(sent, tasks[Len(sent) + 1])
          BY <3>6, <4>1, <5>1 DEF Dispatches, TemplateInv
        <5>3. IsSeq(sent) /\ Len(tasks) \in Nat
          BY TaskSeq DEF TemplateInv
        <5> PICK longer : longer = Append(sent, tasks[Len(sent) + 1])
          OBVIOUS
        <5>4. /\ Len(longer) = Len(sent) + 1 /\ Len(sent) \in Nat
              /\ \A k \in 1 .. Len(sent) : longer[k] = sent[k]
              /\ longer[Len(sent) + 1] = tasks[Len(sent) + 1]
          BY <5>3, AppendSeq
        <5>5. Begins(longer, tasks)
          BY <5>1, <5>2, <5>3, <5>4 DEF Begins
        <5> QED
          BY <5>1, <5>2, <5>5
      <4>2. CASE d # c
        <5>1. call'[c] = call[c] /\ dispatched'[c] = dispatched[c]
          BY <3>6, <4>2 DEF Dispatches, TemplateInv
        <5> QED
          BY <3>4, <5>1
      <4> QED
        BY <4>1, <4>2
    <3>7. ASSUME NEW d \in Calls, HasSent(d)
          PROVE  OK
      <4>1. CASE d = c
        <5> SUFFICES ASSUME NEW v \in Versions, e.new = v.name
                     PROVE  /\ Begins(dispatched[c], Tasks(v.playbooks))
                            /\ Len(dispatched[c]) = Len(Tasks(v.playbooks))
          BY <3>7, <4>1, <3>4 DEF HasSent
        <5>1. Begins(dispatched[c], Tasks(v.playbooks)) /\ ~(Len(dispatched[c]) < Len(Tasks(v.playbooks)))
          BY <3>4, <3>7, <4>1 DEF HasSent
        <5>2. Len(dispatched[c]) \in Nat /\ Len(Tasks(v.playbooks)) \in Nat
          BY TaskSeq, SeqFacts DEF TemplateInv
        <5>3. Len(dispatched[c]) <= Len(Tasks(v.playbooks))
          BY <5>1 DEF Begins
        <5> QED
          BY <5>1, <5>2, <5>3
      <4>2. CASE d # c
        BY <3>4, <3>7, <4>2 DEF HasSent
      <4> QED
        BY <4>1, <4>2
    <3> QED
      BY <1>1, <3>5, <3>6, <3>7 DEF CallsStep
  <2>2. ASSUME NEW d, NEW s, Logged(d, s, e)
        PROVE  OK
    <3>1. PICK m \in DOMAIN s.log : Redated(e, s.log[m])
      BY <2>2 DEF Logged
    <3>2. s.log[m].kind = "incident_created" /\ s.log[m].incident = c /\ s.log[m].new = e.new
      BY <1>4, <3>1 DEF Redated, Creates
    <3>3. CreationSaid(d, s)
      BY <2>2 DEF Logged, Writes, SessionOK
    <3>4. d = c /\ \A v \in Versions : e.new = v.name => s.then = v.playbooks
      BY <3>2, <3>3 DEF CreationSaid
    <3>5. s = call[c] /\ call[c].pc = "loaded" /\ call'[c].pc \in {"done", "after"}
      BY <2>2, <3>4 DEF Logged
    <3>6. CASE UNCHANGED dispatched /\ Advances(c)
      <4>1. call'[c].then = call[c].then /\ call'[c].pc = (IF call[c].then = <<>> THEN "done" ELSE "after")
        BY <3>5, <3>6 DEF Advances
      <4>2. dispatched'[c] = <<>>
        BY <3>5, <3>6 DEF TemplateInv
      <4>3. call'[c].pc = "done" => call[c].then = <<>>
        BY <4>1
      <4>4. ASSUME NEW v \in Versions
            PROVE  Begins(<<>>, Tasks(v.playbooks)) /\ Len(<<>>) = 0
        BY TaskSeq DEF Begins
      <4> QED
        BY <3>4, <3>5, <4>1, <4>2, <4>3, <4>4, NoTasks
    <3>7. ASSUME NEW b \in Calls, Dispatches(b) \/ HasSent(b)
          PROVE  FALSE
      <4>1. UNCHANGED acts /\ call[b].pc = "after" /\ \A f \in Calls : f # b => call'[f] = call[f]
        BY <3>7 DEF Dispatches, HasSent
      <4> QED
        BY <3>5, <4>1
    <3> QED
      BY <1>1, <3>6, <3>7 DEF CallsStep
  <2>3. Before(e) \/ \E d, s : Logged(d, s, e)
    BY <1>1, EntryOrigin
  <2> QED
    BY <2>1, <2>2, <2>3
<1> QED
  BY <1>2, <1>3, <1>4 DEF TemplateInv

\* The creation entry of an incident, the playbooks its call has still to
\* dispatch and those it has dispatched are of one version of the template.
THEOREM TemplateInvariance == Spec => []TemplateInv
<1>1. Init => TemplateInv
  BY TemplateInit
<1>2. Shape /\ TemplateInv /\ [Next]_vars => TemplateInv'
  BY TemplateStep
<1> QED
  BY <1>1, <1>2, ShapeInvariance, PTL DEF Spec

\* The playbooks sent for an incident are the first ones of the version of
\* the template it was created from, and all of them once the call is done,
\* though the template is changed or deleted between the dispatches
\* (create_incident, _trigger_template_playbooks).
THEOREM TemplatesConsistent == Spec => []TemplateConsistent
<1>1. TemplateInv => TemplateConsistent
  <2> SUFFICES ASSUME TemplateInv, NEW c \in Calls, NEW n \in Told(c, {"incident_created"}), NEW v \in Versions,
                      acts[n].new = v.name
               PROVE  /\ Begins(dispatched[c], Tasks(v.playbooks))
                      /\ call[c].pc = "done" => Len(dispatched[c]) = Len(Tasks(v.playbooks))
    BY DEF TemplateConsistent, Begins
  <2>1. c \notin Alerts
    BY IdAssumption
  <2>2. n \in DOMAIN acts /\ acts[n].kind \in {"incident_created"}
        /\ acts[n][IF c \in Alerts THEN "alert" ELSE "incident"] = c
    BY DEF Told
  <2>3. acts[n]["incident"] = c
    BY <2>1, <2>2
  <2>4. Creates(acts[n], c)
    BY <2>2, <2>3 DEF Creates
  <2>5. Promised(c, acts[n])
    BY <2>2, <2>4 DEF TemplateInv
  <2> QED
    BY <2>5 DEF Promised
<1> QED
  BY <1>1, TemplateInvariance, PTL

(***************************************************************************)
(* Trails.                                                                 *)
(***************************************************************************)
\* The last entry of a kind about a row says v.
EndsWith(log, about, id, kind, v) ==
    \E n \in SaidOf(log, about, id, kind) :
       log[n].new = v /\ \A m \in SaidOf(log, about, id, kind) : m <= n

Ways == {"alert", "incident"}

LEMMA NotCascaded ==
  ASSUME NEW e, NEW gone \in SUBSET Alerts, NEW id \in RowIds \ gone, Placed(e), NEW about \in Ways,
         about = "alert" <=> id \in Alerts, e[about] = id,
         about = "alert" \/ (e.kind \in TrailKinds /\ (e.kind \in TrailKinds => e.alert = NoRow \/ e.incident = NoRow))
  PROVE  Refers(e) \cap gone = {}
<1>1. id # NoRow /\ NoRow \notin Alerts
  BY IdAssumption DEF RowIds
<1>2. CASE about = "alert"
  <2>1. e.alert = id
    BY <1>2
  <2> QED
    BY <1>1, <2>1 DEF Refers, Placed, RowIds
<1>3. CASE about = "incident"
  <2>1. e.incident = id
    BY <1>3
  <2> QED
    BY <1>1, <1>3, <2>1 DEF Refers, Placed, RowIds
<1> QED
  BY <1>2, <1>3 DEF Ways

\* What happens to the entries of a trail about a row that stays.
LEMMA TrailLands ==
  ASSUME Shape, NEW c, NEW s, Writes(c, s), NEW h, Lands(s, h), NEW about \in Ways, NEW kind \in TrailKinds,
         NEW id \in RowIds \ s.drop, about = "alert" <=> id \in Alerts
  PROVE  /\ \A v : EndsWith(s.log, about, id, kind, v) => EndsWith(acts', about, id, kind, v)
         /\ SaidOf(s.log, about, id, kind) = {} =>
              /\ \A k \in SaidOf(acts', about, id, kind) : h[k] \in SaidOf(acts, about, id, kind)
              /\ \A v : EndsWith(acts, about, id, kind, v) => EndsWith(acts', about, id, kind, v)
<1> DEFINE log == s.log
<1>1. Lengths(s)
  BY Landed
<1>2. s.drop \in SUBSET Alerts
  BY DEF Writes, SessionOK, WellFormed
<1>3. ASSUME NEW n \in SaidOf(acts, about, id, kind)
      PROVE  \E k \in DOMAIN acts' : h[k] = n
  <2> PICK e : e = acts[n]
    OBVIOUS
  <2>1. n \in DOMAIN acts /\ e.kind = kind /\ e[about] = id
    BY DEF SaidOf
  <2>2. Placed(e) /\ (e.kind \in TrailKinds => e.alert = NoRow \/ e.incident = NoRow)
    BY <2>1 DEF Shape, TablesOK, EntryIn
  <2>3. Refers(e) \cap s.drop = {}
    BY <1>2, <2>1, <2>2, NotCascaded
  <2> QED
    BY <2>1, <2>3 DEF Lands
<1>4. ASSUME NEW n \in SaidOf(log, about, id, kind)
      PROVE  \E k \in DOMAIN acts' : h[k] = Len(acts) + n
  <2> PICK e : e = log[n]
    OBVIOUS
  <2>1. n \in DOMAIN log /\ e.kind = kind /\ e[about] = id
    BY DEF SaidOf
  <2>2. Placed(e) /\ (e.kind \in TrailKinds => e.alert = NoRow \/ e.incident = NoRow)
    BY <2>1 DEF Writes, SessionOK, Addressed
  <2>3. Refers(e) \cap s.drop = {}
    BY <1>2, <2>1, <2>2, NotCascaded
  <2> QED
    BY <2>1, <2>3 DEF Lands
<1>5. ASSUME NEW k \in DOMAIN acts'
      PROVE  /\ h[k] \in Nat /\ h[k] >= 1
             /\ h[k] <= Len(acts) =>
                  /\ acts'[k] = acts[h[k]] /\ h[k] \in DOMAIN acts
                  /\ k \in SaidOf(acts', about, id, kind) <=> h[k] \in SaidOf(acts, about, id, kind)
             /\ h[k] > Len(acts) =>
                  /\ h[k] - Len(acts) \in DOMAIN log /\ acts'[k].new = log[h[k] - Len(acts)].new
                  /\ k \in SaidOf(acts', about, id, kind) <=> h[k] - Len(acts) \in SaidOf(log, about, id, kind)
  <2>1. h[k] \in 1 .. (Len(acts) + Len(log)) /\ h[k] \in Nat
    BY <1>1 DEF Lands, Lengths
  <2>2. CASE h[k] <= Len(acts)
    <3>1. acts'[k] = acts[h[k]] /\ h[k] \in DOMAIN acts
      BY <1>1, <2>1, <2>2 DEF Lands, Lengths
    <3> QED
      BY <1>1, <2>1, <2>2, <3>1 DEF SaidOf, Lengths
  <2>3. CASE h[k] > Len(acts)
    <3> DEFINE m == h[k] - Len(acts)
    <3>1. m \in DOMAIN log /\ ~(h[k] <= Len(acts))
      BY <1>1, <2>1, <2>3 DEF Lengths
    <3>2. Redated(acts'[k], log[m])
      BY <3>1 DEF Lands
    <3>3. acts'[k].kind = log[m].kind /\ acts'[k].new = log[m].new /\ acts'[k][about] = log[m][about]
      BY <3>2 DEF Redated, Ways
    <3> QED
      BY <1>1, <2>1, <2>3, <3>1, <3>3 DEF SaidOf, Lengths
  <2> QED
    BY <1>1, <2>1, <2>2, <2>3 DEF Lengths
<1>6. \A k, l \in DOMAIN acts' : k < l <=> h[k] < h[l]
  BY DEF Lands
<1>7. \A k \in DOMAIN acts' : k \in Nat
  BY Landed, SeqFacts
<1>8. ASSUME NEW v, EndsWith(log, about, id, kind, v)
      PROVE  EndsWith(acts', about, id, kind, v)
  <2>1. PICK n \in SaidOf(log, about, id, kind) : log[n].new = v /\ \A m \in SaidOf(log, about, id, kind) : m <= n
    BY <1>8 DEF EndsWith
  <2>2. PICK k \in DOMAIN acts' : h[k] = Len(acts) + n
    BY <1>4
  <2>3. n \in DOMAIN log /\ n \in Nat /\ n >= 1 /\ h[k] > Len(acts) /\ h[k] - Len(acts) = n
    BY <1>1, <2>1, <2>2 DEF SaidOf, Lengths
  <2>4. k \in SaidOf(acts', about, id, kind) /\ acts'[k].new = v
    BY <1>5, <2>1, <2>3
  <2>5. ASSUME NEW m \in SaidOf(acts', about, id, kind)
        PROVE  m <= k
    <3>1. m \in DOMAIN acts'
      BY DEF SaidOf
    <3>2. h[m] <= h[k]
      <4>1. CASE h[m] <= Len(acts)
        BY <1>1, <1>5, <2>3, <3>1, <4>1 DEF Lengths
      <4>2. CASE h[m] > Len(acts)
        <5>1. h[m] - Len(acts) \in SaidOf(log, about, id, kind)
          BY <1>5, <3>1, <4>2
        <5>2. h[m] - Len(acts) <= n
          BY <2>1, <5>1
        <5> QED
          BY <1>1, <1>5, <2>3, <3>1, <5>2 DEF Lengths
      <4> QED
        BY <1>1, <1>5, <3>1, <4>1, <4>2 DEF Lengths
    <3> QED
      BY <1>5, <1>6, <1>7, <3>1, <3>2
  <2> QED
    BY <2>4, <2>5 DEF EndsWith
<1>9. ASSUME SaidOf(log, about, id, kind) = {}, NEW k \in SaidOf(acts', about, id, kind)
      PROVE  h[k] \in SaidOf(acts, about, id, kind) /\ k \in DOMAIN acts' /\ acts'[k] = acts[h[k]]
  <2>1. k \in DOMAIN acts'
    BY DEF SaidOf
  <2> QED
    BY <1>1, <1>5, <1>9, <2>1 DEF Lengths
<1>10. ASSUME SaidOf(log, about, id, kind) = {}, NEW v, EndsWith(acts, about, id, kind, v)
       PROVE  EndsWith(acts', about, id, kind, v)
  <2>1. PICK n \in SaidOf(acts, about, id, kind) : acts[n].new = v /\ \A m \in SaidOf(acts, about, id, kind) : m <= n
    BY <1>10 DEF EndsWith
  <2>2. PICK k \in DOMAIN acts' : h[k] = n
    BY <1>3
  <2>3. n \in DOMAIN acts /\ n <= Len(acts)
    BY <1>1, <2>1 DEF SaidOf, Lengths
  <2>4. k \in SaidOf(acts', about, id, kind) /\ acts'[k].new = v
    BY <1>5, <2>1, <2>2, <2>3
  <2>5. ASSUME NEW m \in SaidOf(acts', about, id, kind)
        PROVE  m <= k
    <3>1. h[m] <= h[k] /\ m \in DOMAIN acts'
      BY <1>9, <1>10, <2>1, <2>2
    <3> QED
      BY <1>5, <1>6, <1>7, <3>1
  <2> QED
    BY <2>4, <2>5 DEF EndsWith
<1> QED
  BY <1>8, <1>9, <1>10

\* Entries are dated in their order, and those of one trail are archived and
\* purged from its beginning.
Dated ==
    /\ now \in Nat /\ \A n \in DOMAIN acts : acts[n].at <= now /\ acts[n].archived <= now
    /\ \A m, n \in DOMAIN acts : m < n =>
          /\ acts[m].at <= acts[n].at
          /\ acts[n].archived # 0 => acts[m].archived # 0 /\ acts[m].archived <= acts[n].archived

IncidentTold(i, f) ==
    \/ SaidOf(acts, "incident", i, TrailKind[f]) = {}
    \/ EndsWith(acts, "incident", i, TrailKind[f], rows[i][f])

AlertTold(a) ==
    \/ SaidOf(acts, "alert", a, "status_change") = {} /\ rows[a].status = "new"
    \/ EndsWith(acts, "alert", a, "status_change", rows[a].status)
    \/ /\ rows[a].status = "in_progress"
       /\ \E k \in DOMAIN acts : /\ acts[k].alert = a /\ QuietEntry(acts[k])
                                 /\ \A m \in SaidOf(acts, "alert", a, "status_change") : m < k

TrailInv ==
    /\ Dated
    /\ \A i \in DOMAIN rows \ Alerts : \A f \in TrailCols : IncidentTold(i, f)
    /\ "purge" \notin desk => \A a \in Alerts \cap DOMAIN rows : AlertTold(a)

LEMMA TrailInit == Init => TrailInv
<1> SUFFICES ASSUME Init
             PROVE  TrailInv
  OBVIOUS
<1>1. acts = <<>> /\ now = 1
  BY DEF Init, CaseInit
<1>2. Dated /\ \A about, id, kind : SaidOf(acts, about, id, kind) = {}
  BY <1>1, EmptyLog DEF Dated, SaidOf
<1>3. \A a \in Alerts \cap DOMAIN rows : rows[a] = NewAlert
  BY DEF Init, CaseInit
<1> QED
  BY <1>2, <1>3, RowFacts DEF TrailInv, IncidentTold, AlertTold

LEMMA DatedWrites ==
  ASSUME Shape, Dated, NEW c, NEW s, Writes(c, s)
  PROVE  Dated'
<1>1. now' = now /\ now \in Nat
  BY DEF Writes, Dated
<1>2. PICK h : Lands(s, h)
  BY Landed
<1>3. Lengths(s)
  BY Landed
<1>4. \A n \in DOMAIN acts : acts[n].at \in Nat /\ acts[n].archived \in Nat
  BY DEF Shape, TablesOK, EntryIn, IsEntry
<1>5. ASSUME NEW k \in DOMAIN acts'
      PROVE  /\ h[k] \in Nat
             /\ \/ h[k] \in DOMAIN acts /\ acts'[k] = acts[h[k]]
                \/ h[k] > Len(acts) /\ acts'[k].at = now /\ acts'[k].archived = 0
  BY <1>2, <1>3 DEF Lands, Lengths
<1>6. \A k, l \in DOMAIN acts' : k < l => h[k] < h[l]
  BY <1>2 DEF Lands
<1>7. ASSUME NEW k \in DOMAIN acts', NEW l \in DOMAIN acts', k < l
      PROVE  /\ acts'[k].at <= acts'[l].at
             /\ acts'[l].archived # 0 => acts'[k].archived # 0 /\ acts'[k].archived <= acts'[l].archived
  <2>1. CASE h[l] > Len(acts) /\ acts'[l].at = now /\ acts'[l].archived = 0
    <3>1. acts'[k].at <= now
      BY <1>1, <1>5 DEF Dated
    <3> QED
      BY <2>1, <3>1
  <2>2. CASE h[l] \in DOMAIN acts /\ acts'[l] = acts[h[l]]
    <3>1. h[k] < h[l]
      BY <1>6, <1>7
    <3>2. h[k] \in DOMAIN acts /\ acts'[k] = acts[h[k]]
      BY <1>3, <1>5, <2>2, <3>1 DEF Lengths
    <3> QED
      BY <2>2, <3>1, <3>2 DEF Dated
  <2> QED
    BY <1>5, <2>1, <2>2
<1>8. \A k \in DOMAIN acts' : acts'[k].at <= now /\ acts'[k].archived <= now
  BY <1>1, <1>5 DEF Dated
<1> QED
  BY <1>1, <1>7, <1>8 DEF Dated

LEMMA DatedPurge ==
  ASSUME Shape, Dated, PurgeCommits
  PROVE  Dated'
<1>1. now' = now /\ now \in Nat /\ IsSeq(acts) /\ ActivityDays \in Nat
  BY RetentionAssumption DEF PurgeCommits, Dated, Shape, TablesOK
<1>2. PICK h : Thinned(acts', acts, h)
  BY <1>1, PurgeThins
<1>3. ASSUME NEW k \in DOMAIN acts'
      PROVE  /\ h[k] \in DOMAIN acts /\ acts'[k].at = acts[h[k]].at
             /\ acts'[k].archived = IF acts[h[k]].archived = 0 /\ Older(acts[h[k]].at, ActivityDays)
                                    THEN now ELSE acts[h[k]].archived
             /\ acts[h[k]].at \in Nat /\ acts[h[k]].archived \in Nat
  <2> PICK e : e = acts[h[k]]
    OBVIOUS
  <2>1. h[k] \in DOMAIN acts /\ acts'[k] = SweptEntry(e)
    BY <1>2 DEF Thinned
  <2>2. IsEntry(e)
    BY <2>1 DEF Shape, TablesOK, EntryIn
  <2>3. Archive(e).archived = now /\ Archive(e).at = e.at
    BY <1>1, <2>2, ArchivedEntry
  <2> QED
    BY <2>1, <2>2, <2>3 DEF SweptEntry, IsEntry
<1>4. \A k, l \in DOMAIN acts' : k < l => h[k] < h[l]
  BY <1>2 DEF Thinned
<1>5. \A k \in DOMAIN acts' : acts'[k].at <= now /\ acts'[k].archived <= now
  BY <1>1, <1>3 DEF Dated
<1>6. ASSUME NEW k \in DOMAIN acts', NEW l \in DOMAIN acts', k < l
      PROVE  /\ acts'[k].at <= acts'[l].at
             /\ acts'[l].archived # 0 => acts'[k].archived # 0 /\ acts'[k].archived <= acts'[l].archived
  <2> PICK x, y : x = acts[h[k]] /\ y = acts[h[l]]
    OBVIOUS
  <2>1. /\ x.at <= y.at /\ x.archived <= now
        /\ y.archived # 0 => x.archived # 0 /\ x.archived <= y.archived
    BY <1>3, <1>4, <1>6 DEF Dated
  <2>2. /\ acts'[k].at = x.at /\ x.at \in Nat /\ x.archived \in Nat
        /\ acts'[k].archived = IF x.archived = 0 /\ Older(x.at, ActivityDays) THEN now ELSE x.archived
        /\ acts'[l].at = y.at /\ y.at \in Nat /\ y.archived \in Nat
        /\ acts'[l].archived = IF y.archived = 0 /\ Older(y.at, ActivityDays) THEN now ELSE y.archived
    BY <1>3
  <2>3. Older(y.at, ActivityDays) => Older(x.at, ActivityDays)
    BY <1>1, <2>1, <2>2 DEF Older
  <2> QED
    BY <1>1, <2>1, <2>2, <2>3
<1> QED
  BY <1>1, <1>5, <1>6 DEF Dated

\* A COMMIT and the columns of a row that stays.
LEMMA SpokenLands ==
  ASSUME Shape, NEW c, NEW s, Writes(c, s), NEW h, Lands(s, h), NEW about \in Ways, NEW f \in TrailCols,
         NEW id \in DOMAIN rows' \cap DOMAIN rows, about = "alert" <=> id \in Alerts,
         Spoken(s, about, id, f, TrailKind[f])
  PROVE  \/ EndsWith(acts', about, id, TrailKind[f], rows'[id][f])
         \/ rows'[id][f] = rows[id][f] /\ SaidOf(s.log, about, id, TrailKind[f]) = {}
<1> DEFINE kind == TrailKind[f]
<1>1. kind \in TrailKinds /\ f \in Cols
  BY DEF TrailCols, TrailKind, TrailKinds, Cols
<1>2. id \in RowIds /\ DOMAIN rows \subseteq Born
  BY DEF Shape, TablesOK, RowsOK
<1>3. /\ DOMAIN rows' = (DOMAIN rows \ s.drop) \cup DOMAIN s.fresh /\ DOMAIN s.fresh \cap Born = {}
      /\ Merges(s)
  BY CommitRows
<1>4. /\ id \notin DOMAIN s.fresh /\ id \notin s.drop
      /\ id \notin DOMAIN s.want => rows'[id] = rows[id]
      /\ id \in DOMAIN s.want =>
            rows'[id][f] = IF s.want[id][f] # s.snap[id][f] THEN s.want[id][f] ELSE rows[id][f]
  BY <1>1, <1>2, <1>3 DEF Merges
<1>5. CASE /\ id \in DOMAIN s.want /\ s.want[id][f] # s.snap[id][f]
           /\ EndsWith(s.log, about, id, kind, s.want[id][f])
  <2>1. EndsWith(acts', about, id, kind, s.want[id][f])
    BY <1>1, <1>2, <1>4, <1>5, TrailLands
  <2> QED
    BY <1>4, <1>5, <2>1
<1>6. CASE SaidOf(s.log, about, id, kind) = {} /\ (id \in DOMAIN s.want => s.want[id][f] = s.snap[id][f])
  BY <1>4, <1>6
<1> QED
  BY <1>5, <1>6 DEF Spoken, EndsWith

LEMMA IncidentToldWrites ==
  ASSUME Shape, TrailInv, NEW c, NEW s, Writes(c, s), NEW i \in DOMAIN rows' \ Alerts, NEW f \in TrailCols
  PROVE  IncidentTold(i, f)'
<1> DEFINE kind == TrailKind[f]
<1>1. kind \in TrailKinds
  BY DEF TrailCols, TrailKind, TrailKinds
<1>2. /\ DOMAIN rows' = (DOMAIN rows \ s.drop) \cup DOMAIN s.fresh /\ DOMAIN s.fresh \cap Born = {}
      /\ DOMAIN s.fresh \subseteq Calls /\ DOMAIN s.want = DOMAIN s.snap
  BY CommitRows
<1>3. DOMAIN rows \subseteq RowIds /\ DOMAIN rows \subseteq Born /\ s.drop \subseteq Alerts
  BY DEF Shape, TablesOK, RowsOK, Writes, SessionOK, WellFormed
<1>4. i \in RowIds \ s.drop /\ i \notin Alerts
  BY <1>2, <1>3 DEF RowIds
<1>5. Spoken(s, "incident", i, f, kind)
  BY <1>4 DEF Writes, SessionOK, IncidentSaid
<1>6. PICK h : Lands(s, h)
  BY Landed
<1>7. CASE i \in DOMAIN rows
  <2>1. \/ EndsWith(acts', "incident", i, kind, rows'[i][f])
        \/ rows'[i][f] = rows[i][f] /\ SaidOf(s.log, "incident", i, kind) = {}
    BY <1>4, <1>5, <1>6, <1>7, SpokenLands DEF Ways
  <2>2. ASSUME SaidOf(s.log, "incident", i, kind) = {}
        PROVE  /\ \A k \in SaidOf(acts', "incident", i, kind) : h[k] \in SaidOf(acts, "incident", i, kind)
               /\ \A v : EndsWith(acts, "incident", i, kind, v) => EndsWith(acts', "incident", i, kind, v)
    BY <1>1, <1>4, <1>6, <2>2, TrailLands DEF Ways
  <2>3. \/ SaidOf(acts, "incident", i, kind) = {}
        \/ EndsWith(acts, "incident", i, kind, rows[i][f])
    BY <1>4, <1>7 DEF TrailInv, IncidentTold
  <2>4. \/ SaidOf(acts', "incident", i, kind) = {}
        \/ EndsWith(acts', "incident", i, kind, rows'[i][f])
    BY <2>1, <2>2, <2>3
  <2> QED
    BY <2>4 DEF IncidentTold
<1>8. CASE i \notin DOMAIN rows
  \* A new incident: nothing was said about it before it was there.
  <2>1. i \in DOMAIN s.fresh /\ i \notin Born
    BY <1>2, <1>8
  <2>2. DOMAIN s.snap \subseteq Born
    BY DEF Writes, Recalled
  <2>3. SaidOf(s.log, "incident", i, kind) = {}
    BY <1>2, <1>5, <2>1, <2>2 DEF Spoken
  <2>4. \A n \in DOMAIN acts : Refers(acts[n]) \subseteq DOMAIN rows
    BY DEF Shape, TablesOK, EntryIn
  <2>5. SaidOf(acts, "incident", i, kind) = {}
    <3> SUFFICES ASSUME NEW n \in SaidOf(acts, "incident", i, kind)
                 PROVE  FALSE
      OBVIOUS
    <3>1. n \in DOMAIN acts /\ acts[n].incident = i
      BY DEF SaidOf
    <3>2. i # NoRow
      BY <1>4, IdAssumption
    <3> QED
      BY <1>8, <2>4, <3>1, <3>2 DEF Refers
  <2>6. SaidOf(acts', "incident", i, kind) = {}
    BY <1>1, <1>4, <1>6, <2>3, <2>5, TrailLands DEF Ways
  <2> QED
    BY <2>6 DEF IncidentTold
<1> QED
  BY <1>7, <1>8

LEMMA AlertToldWrites ==
  ASSUME Shape, TrailInv, NEW c, NEW s, Writes(c, s), NEW a \in Alerts \cap DOMAIN rows', "purge" \notin desk
  PROVE  AlertTold(a)'
<1> DEFINE kind == "status_change"
<1>1. kind \in TrailKinds /\ kind = TrailKind["status"] /\ "status" \in TrailCols /\ "status" \in Cols
  BY DEF TrailCols, TrailKind, TrailKinds, Cols
<1>2. /\ DOMAIN rows' = (DOMAIN rows \ s.drop) \cup DOMAIN s.fresh /\ DOMAIN s.fresh \cap Born = {}
      /\ DOMAIN s.fresh \subseteq Calls /\ Merges(s)
  BY CommitRows
<1>3. a \in DOMAIN rows /\ a \in RowIds \ s.drop /\ a \notin DOMAIN s.fresh
  BY <1>2, IdAssumption DEF RowIds
<1>4. PICK h : Lands(s, h)
  BY Landed
<1>5. Lengths(s)
  BY Landed
<1>6. ASSUME SaidOf(s.log, "alert", a, kind) = {}
      PROVE  /\ \A k \in SaidOf(acts', "alert", a, kind) : h[k] \in SaidOf(acts, "alert", a, kind)
             /\ \A v : EndsWith(acts, "alert", a, kind, v) => EndsWith(acts', "alert", a, kind, v)
  BY <1>1, <1>3, <1>4, <1>6, TrailLands DEF Ways
<1>7. \A k, l \in DOMAIN acts' : k < l <=> h[k] < h[l]
  BY <1>4 DEF Lands
<1>8. ASSUME SaidOf(s.log, "alert", a, kind) = {}, NEW k \in DOMAIN acts',
             \A m \in SaidOf(acts, "alert", a, kind) : m < h[k]
      PROVE  \A m \in SaidOf(acts', "alert", a, kind) : m < k
  <2>1. \A m \in SaidOf(acts', "alert", a, kind) : m \in DOMAIN acts' /\ h[m] < h[k]
    BY <1>6, <1>8 DEF SaidOf
  <2> QED
    BY <1>7, <2>1
<1>9. AlertTold(a)
  BY <1>3 DEF TrailInv
\* The status is not written: what told it before tells it still.
<1>10. ASSUME SaidOf(s.log, "alert", a, kind) = {}, rows'[a].status = rows[a].status
       PROVE  AlertTold(a)'
  <2>1. CASE SaidOf(acts, "alert", a, kind) = {} /\ rows[a].status = "new"
    BY <1>6, <1>10, <2>1 DEF AlertTold
  <2>2. CASE EndsWith(acts, "alert", a, kind, rows[a].status)
    <3>1. EndsWith(acts', "alert", a, kind, rows'[a].status)
      BY <1>6, <1>10, <2>2
    <3> QED
      BY <3>1 DEF AlertTold
  <2>3. ASSUME rows[a].status = "in_progress", NEW n \in DOMAIN acts, acts[n].alert = a, QuietEntry(acts[n]),
               \A m \in SaidOf(acts, "alert", a, kind) : m < n
        PROVE  AlertTold(a)'
    <3> PICK e : e = acts[n]
      OBVIOUS
    <3>1. Placed(e) /\ e["alert"] = a /\ s.drop \in SUBSET Alerts
      BY <2>3 DEF Shape, TablesOK, EntryIn, Writes, SessionOK, WellFormed
    <3>2. Refers(e) \cap s.drop = {}
      BY <1>3, <3>1, NotCascaded DEF Ways
    <3>3. PICK k \in DOMAIN acts' : h[k] = n
      BY <1>4, <2>3, <3>2 DEF Lands
    <3>4. acts'[k] = acts[n]
      BY <1>4, <1>5, <2>3, <3>3 DEF Lands, Lengths
    <3>5. \A m \in SaidOf(acts', "alert", a, kind) : m < k
      BY <1>8, <1>10, <2>3, <3>3
    <3> QED
      BY <1>10, <2>3, <3>4, <3>5 DEF AlertTold
  <2> QED
    BY <1>9, <2>1, <2>2, <2>3 DEF AlertTold
<1>11. CASE Spoken(s, "alert", a, "status", kind)
  <2>1. \/ EndsWith(acts', "alert", a, kind, rows'[a]["status"])
        \/ rows'[a]["status"] = rows[a]["status"] /\ SaidOf(s.log, "alert", a, kind) = {}
    BY <1>1, <1>3, <1>4, <1>11, SpokenLands DEF Ways
  <2> QED
    BY <1>10, <2>1 DEF AlertTold
\* The status is set to in_progress, with an entry that does not say so.
<1>12. ASSUME a \in DOMAIN s.want, SaidOf(s.log, "alert", a, kind) = {}, s.want[a].status = "in_progress",
              NEW n \in DOMAIN s.log, s.log[n].alert = a, QuietEntry(s.log[n])
       PROVE  AlertTold(a)'
  <2>1. rows'[a]["status"] = IF s.want[a]["status"] # s.snap[a]["status"] THEN s.want[a]["status"] ELSE rows[a]["status"]
    BY <1>1, <1>2, <1>3, <1>12 DEF Merges
  <2>2. CASE rows'[a].status = rows[a].status
    BY <1>10, <1>12, <2>2
  <2>3. CASE rows'[a].status = "in_progress"
    <3> PICK e : e = s.log[n]
      OBVIOUS
    <3>1. Placed(e) /\ e["alert"] = a /\ s.drop \in SUBSET Alerts
      BY <1>12 DEF Writes, SessionOK, WellFormed, Addressed
    <3>2. Refers(e) \cap s.drop = {}
      BY <1>3, <3>1, NotCascaded DEF Ways
    <3>3. PICK k \in DOMAIN acts' : h[k] = Len(acts) + n
      BY <1>4, <1>12, <3>2 DEF Lands
    <3>4. Redated(acts'[k], e)
      <4>1. ~(h[k] <= Len(acts)) /\ h[k] - Len(acts) = n
        BY <1>5, <1>12, <3>3 DEF Lengths
      <4> QED
        BY <1>4, <4>1 DEF Lands
    <3>5. acts'[k].alert = a /\ QuietEntry(acts'[k])
      BY <1>12, <3>4 DEF Redated, QuietEntry
    <3>6. \A m \in SaidOf(acts, "alert", a, kind) : m < h[k]
      BY <1>5, <1>12, <3>3 DEF SaidOf, Lengths
    <3>7. \A m \in SaidOf(acts', "alert", a, kind) : m < k
      BY <1>8, <1>12, <3>6
    <3> QED
      BY <2>3, <3>5, <3>7 DEF AlertTold
  <2> QED
    BY <1>12, <2>1, <2>2, <2>3
<1> QED
  BY <1>11, <1>12 DEF Writes, SessionOK, AlertSaid

\* An entry that a purge removes takes those before it along.
LEMMA OlderGoFirst ==
  ASSUME Shape, Dated, NEW k \in DOMAIN acts, NEW n \in DOMAIN acts, k < n, PastGrace(SweptEntry(acts[n]))
  PROVE  PastGrace(SweptEntry(acts[k]))
<1> PICK x, y : x = acts[k] /\ y = acts[n]
  OBVIOUS
<1>1. IsEntry(x) /\ IsEntry(y) /\ now \in Nat /\ ActivityDays \in Nat /\ GraceDays \in Nat
  BY RetentionAssumption DEF Shape, TablesOK, RowsOK, EntryIn
<1>2. /\ x.at \in Nat /\ y.at \in Nat /\ x.archived \in Nat /\ y.archived \in Nat
  BY <1>1 DEF IsEntry
<1>3. /\ x.at <= y.at /\ x.archived <= now
      /\ y.archived # 0 => x.archived # 0 /\ x.archived <= y.archived
  BY DEF Dated
<1>4. Archive(x).archived = now /\ Archive(y).archived = now
  BY <1>1, ArchivedEntry
<1>5. CASE y.archived # 0
  <2>1. SweptEntry(y) = y /\ SweptEntry(x) = x
    BY <1>3, <1>5 DEF SweptEntry
  <2> QED
    BY <1>1, <1>2, <1>3, <1>5, <2>1 DEF PastGrace, Older
<1>6. CASE y.archived = 0
  <2>1. SweptEntry(y) = Archive(y) /\ Older(y.at, ActivityDays)
    BY <1>6 DEF SweptEntry, PastGrace
  <2>2. GraceDays = 0
    BY <1>1, <1>4, <2>1 DEF PastGrace, Older
  <2>3. now # 0
    BY <1>4, <2>1 DEF PastGrace
  <2>4. Older(x.at, ActivityDays)
    BY <1>1, <1>2, <1>3, <2>1 DEF Older
  <2>5. SweptEntry(x).archived # 0
    BY <1>4, <2>3, <2>4 DEF SweptEntry
  <2> QED
    BY <2>2, <2>5 DEF PastGrace, Older
<1> QED
  BY <1>5, <1>6

\* A purge removes the trail of an incident from its beginning.
LEMMA IncidentToldPurge ==
  ASSUME Shape, TrailInv, PurgeCommits, NEW i \in DOMAIN rows' \ Alerts, NEW f \in TrailCols
  PROVE  IncidentTold(i, f)'
<1> DEFINE kind == TrailKind[f]
<1>1. kind \in TrailKinds /\ f \in Cols /\ f # "archived"
  BY DEF TrailCols, TrailKind, TrailKinds, Cols
<1>2. /\ now \in Nat /\ IsSeq(acts) /\ GraceDays \in Nat /\ DOMAIN rows \subseteq RowIds
      /\ rows' = [id \in DOMAIN rows \ Overdue |-> Swept(id)]
  BY RetentionAssumption DEF PurgeCommits, Shape, TablesOK, RowsOK
<1>3. i \in DOMAIN rows /\ i \notin Overdue /\ i # NoRow
  BY <1>2, IdAssumption
<1>4. rows'[i][f] = rows[i][f]
  <2> PICK r : r = rows[i]
    OBVIOUS
  <2>1. IsRow(r)
    BY <1>3 DEF Shape, TablesOK, RowsOK
  <2>2. [r EXCEPT !.archived = now][f] = r[f]
    BY <1>1, <2>1 DEF IsRow
  <2>3. rows'[i] = r \/ rows'[i] = [r EXCEPT !.archived = now]
    BY <1>2, <1>3 DEF Archive, Swept
  <2> QED
    BY <2>2, <2>3
<1>5. PICK h : Thinned(acts', acts, h)
  BY <1>2, PurgeThins
<1>6. ASSUME NEW k \in DOMAIN acts'
      PROVE  /\ h[k] \in DOMAIN acts /\ acts'[k].new = acts[h[k]].new
             /\ k \in SaidOf(acts', "incident", i, kind) <=> h[k] \in SaidOf(acts, "incident", i, kind)
  <2> PICK e : e = acts[h[k]]
    OBVIOUS
  <2>1. h[k] \in DOMAIN acts /\ acts'[k] \in {e, Archive(e)}
    BY <1>5 DEF Thinned, SweptEntry
  <2>2. IsEntry(e)
    BY <2>1 DEF Shape, TablesOK, EntryIn
  <2>3. Redated(Archive(e), e)
    BY <1>2, <2>2, ArchivedEntry
  <2>4. acts'[k].new = e.new /\ acts'[k].kind = e.kind /\ acts'[k].incident = e.incident
    BY <2>1, <2>3 DEF Redated
  <2> QED
    BY <2>1, <2>4 DEF SaidOf
<1>7. ASSUME NEW n \in SaidOf(acts, "incident", i, kind), ~PastGrace(SweptEntry(acts[n]))
      PROVE  \E k \in DOMAIN acts' : h[k] = n
  <2>1. n \in DOMAIN acts /\ acts[n].kind \in TrailKinds /\ acts[n].incident = i
    BY <1>1 DEF SaidOf
  <2>2. acts[n].alert = NoRow
    BY <1>3, <2>1 DEF Shape, TablesOK, EntryIn
  <2>3. Refers(acts[n]) \cap Overdue = {}
    BY <1>3, <2>1, <2>2 DEF Refers
  <2> QED
    BY <1>5, <1>7, <2>1, <2>3 DEF Thinned
<1>8. \A k, l \in DOMAIN acts' : k < l <=> h[k] < h[l]
  BY <1>5 DEF Thinned
<1>9. DOMAIN acts \subseteq Nat /\ DOMAIN acts' \subseteq Nat
  <2>1. IsSeq(acts')
    BY <1>5 DEF Thinned
  <2> QED
    BY <1>2, <2>1, SeqFacts
<1>10. CASE SaidOf(acts, "incident", i, kind) = {}
  <2>1. SaidOf(acts', "incident", i, kind) = {}
    BY <1>6, <1>10 DEF SaidOf
  <2> QED
    BY <2>1 DEF IncidentTold
<1>11. ASSUME NEW n \in SaidOf(acts, "incident", i, kind), acts[n].new = rows[i][f],
              \A m \in SaidOf(acts, "incident", i, kind) : m <= n
       PROVE  IncidentTold(i, f)'
  <2>1. n \in DOMAIN acts
    BY DEF SaidOf
  <2>2. CASE PastGrace(SweptEntry(acts[n]))
    \* Those before it were archived before it, so they go as well.
    <3>1. SaidOf(acts', "incident", i, kind) = {}
      <4> SUFFICES ASSUME NEW k \in SaidOf(acts', "incident", i, kind)
                   PROVE  FALSE
        OBVIOUS
      <4>1. k \in DOMAIN acts' /\ h[k] \in DOMAIN acts /\ h[k] <= n
        BY <1>6, <1>11 DEF SaidOf
      <4>2. ~PastGrace(SweptEntry(acts[h[k]]))
        BY <1>5, <4>1 DEF Thinned
      <4>3. h[k] # n /\ h[k] < n
        BY <1>9, <2>1, <2>2, <4>1, <4>2
      <4> QED
        BY <2>1, <2>2, <4>1, <4>2, <4>3, OlderGoFirst DEF TrailInv
    <3> QED
      BY <3>1 DEF IncidentTold
  <2>3. CASE ~PastGrace(SweptEntry(acts[n]))
    <3>1. PICK k \in DOMAIN acts' : h[k] = n
      BY <1>7, <2>3
    <3>2. k \in SaidOf(acts', "incident", i, kind) /\ acts'[k].new = rows'[i][f]
      BY <1>4, <1>6, <1>11, <3>1
    <3>3. ASSUME NEW m \in SaidOf(acts', "incident", i, kind)
          PROVE  m <= k
      <4>1. m \in DOMAIN acts' /\ h[m] <= h[k]
        BY <1>6, <1>11, <3>1 DEF SaidOf
      <4>2. ~(k < m)
        BY <1>6, <1>8, <1>9, <3>1, <4>1
      <4> QED
        BY <1>9, <3>1, <4>1, <4>2
    <3>4. EndsWith(acts', "incident", i, kind, rows'[i][f])
      BY <3>2, <3>3 DEF EndsWith
    <3> QED
      BY <3>4 DEF IncidentTold
  <2> QED
    BY <2>2, <2>3
<1> QED
  BY <1>3, <1>10, <1>11 DEF TrailInv, IncidentTold, EndsWith

LEMMA TrailStep ==
  ASSUME Shape, TrailInv, StepOK
  PROVE  TrailInv'
<1>1. desk' = desk
  BY DEF StepOK
<1>2. ASSUME UNCHANGED <<rows, acts>>, now' \in {now, now + 1}
      PROVE  TrailInv'
  <2>1. \A n \in DOMAIN acts : acts[n].at \in Nat /\ acts[n].archived \in Nat
    BY DEF Shape, TablesOK, EntryIn, IsEntry
  <2>2. Dated'
    BY <1>2, <2>1 DEF TrailInv, Dated
  <2>3. (\A i \in DOMAIN rows \ Alerts : \A f \in TrailCols : IncidentTold(i, f))'
    BY <1>2 DEF TrailInv, IncidentTold
  <2>4. ("purge" \notin desk => \A a \in Alerts \cap DOMAIN rows : AlertTold(a))'
    BY <1>1, <1>2 DEF TrailInv, AlertTold
  <2> QED
    BY <2>2, <2>3, <2>4 DEF TrailInv
<1>3. ASSUME NEW c, NEW s, Writes(c, s)
      PROVE  TrailInv'
  <2>1. Dated'
    BY <1>3, DatedWrites DEF TrailInv
  <2>2. (\A i \in DOMAIN rows \ Alerts : \A f \in TrailCols : IncidentTold(i, f))'
    BY <1>3, IncidentToldWrites
  <2>3. ("purge" \notin desk => \A a \in Alerts \cap DOMAIN rows : AlertTold(a))'
    BY <1>1, <1>3, AlertToldWrites
  <2> QED
    BY <2>1, <2>2, <2>3 DEF TrailInv
<1>4. ASSUME PurgeCommits, "purge" \in desk
      PROVE  TrailInv'
  <2>1. Dated'
    BY <1>4, DatedPurge DEF TrailInv
  <2>2. (\A i \in DOMAIN rows \ Alerts : \A f \in TrailCols : IncidentTold(i, f))'
    BY <1>4, IncidentToldPurge
  <2> QED
    BY <1>1, <1>4, <2>1, <2>2 DEF TrailInv
<1>5. ASSUME NEW c, NEW s, Opens(c, s) \/ Closes(c, s)
      PROVE  UNCHANGED <<rows, acts>> /\ now' \in {now, now + 1}
  BY <1>5 DEF Opens, Closes, Load
<1>6. Stays => UNCHANGED <<rows, acts>> /\ now' \in {now, now + 1}
  BY DEF Stays
<1>7. (\E c, t : Commits(c, t)) => \E c, s : Writes(c, s)
  BY Zenon DEF Commits
<1>8. (\E j \in Jobs : Ends(j)) => \E c, s : Writes(c, s)
  BY Zenon DEF Ends
<1> QED
  BY <1>2, <1>3, <1>4, <1>5, <1>6, <1>7, <1>8, Zenon DEF StepOK, RowStep

\* The trails of alerts and incidents tell their columns, and are purged from
\* their beginning only.
THEOREM TrailInvariance == Spec => []TrailInv
<1>1. Init => TrailInv
  BY TrailInit
<1>2. Shape /\ TrailInv /\ [Next]_vars => TrailInv'
  BY StepsOK, TrailStep
<1> QED
  BY <1>1, <1>2, ShapeInvariance, PTL DEF Spec

LEMMA LatestIs ==
  ASSUME NEW S, NEW n \in S, \A m \in S : m <= n, S \subseteq Nat
  PROVE  Latest(S) = n
<1>1. \A k \in S : (\A m \in S : m <= k) => k = n
  OBVIOUS
<1> QED
  BY <1>1 DEF Latest

LEMMA ToldSaid ==
  /\ \A a \in Alerts : \A k : Told(a, {k}) = SaidOf(acts, "alert", a, k)
  /\ \A i, k : i \notin Alerts => Told(i, {k}) = SaidOf(acts, "incident", i, k)
BY DEF Told, SaidOf

LEMMA LatestIn ==
  ASSUME NEW N \in Nat, NEW S \in SUBSET (1 .. N), S # {}
  PROVE  Latest(S) \in S
<1>1. PICK h : Order(h, S)
  BY Ranked
<1> PICK size : size = Cardinality(S)
  OBVIOUS
<1>2. /\ size \in Nat /\ h \in [1 .. size -> S]
      /\ \A n \in S : \E k \in 1 .. size : h[k] = n
      /\ \A k, l \in 1 .. size : k < l <=> h[k] < h[l]
  BY <1>1 DEF Order
<1>3. size \in 1 .. size /\ h[size] \in S
  <2>1. PICK n \in S : TRUE
    OBVIOUS
  <2>2. PICK k \in 1 .. size : h[k] = n
    BY <1>2
  <2> QED
    BY <1>2
<1>4. ASSUME NEW m \in S
      PROVE  m <= h[size]
  <2>1. PICK k \in 1 .. size : h[k] = m
    BY <1>2
  <2>2. k = size \/ k < size
    BY <1>2
  <2>3. h[k] \in 1 .. N /\ h[size] \in 1 .. N
    BY <1>2, <1>3
  <2> QED
    BY <1>2, <1>3, <2>1, <2>2, <2>3
<1> QED
  BY <1>3, <1>4 DEF Latest

\* The trail of an incident ends with its status, severity and assignee,
\* whatever updates overlapped and whatever of it was purged (update_incident).
THEOREM IncidentTrails == Spec => []IncidentTrail
<1>1. ASSUME Shape, TrailInv
      PROVE  IncidentTrail
  <2>1. ASSUME NEW i \in DOMAIN rows \ Alerts, NEW f \in TrailCols, Told(i, {TrailKind[f]}) # {}
        PROVE  rows[i][f] = acts[Latest(Told(i, {TrailKind[f]}))].new
    <3> DEFINE said == SaidOf(acts, "incident", i, TrailKind[f])
    <3>1. Told(i, {TrailKind[f]}) = said
      BY ToldSaid
    <3>2. PICK n \in said : acts[n].new = rows[i][f] /\ \A m \in said : m <= n
      BY <1>1, <2>1, <3>1 DEF TrailInv, IncidentTold, EndsWith
    <3>3. said \subseteq Nat
      <4>1. IsSeq(acts)
        BY <1>1 DEF Shape, TablesOK
      <4> QED
        BY <4>1, SeqFacts DEF SaidOf
    <3>4. Latest(said) = n
      BY <3>2, <3>3, LatestIs
    <3> QED
      BY <3>1, <3>2, <3>4
  <2>2. ASSUME NEW i \in DOMAIN rows \ Alerts,
               NEW fk \in {<<"status", "status_change">>, <<"severity", "severity_change">>, <<"assigned", "assigned">>}
        PROVE  fk[1] \in TrailCols /\ fk[2] = TrailKind[fk[1]]
    BY DEF TrailCols, TrailKind
  <2> QED
    BY <2>1, <2>2 DEF IncidentTrail
<1> QED
  BY <1>1, ShapeInvariance, TrailInvariance, PTL

\* The status of an alert is the one its trail ends with, or "in_progress" with
\* a later entry of one of the actions that do not log the status: update_alert,
\* claim_alert, bulk_update and the playbooks, whichever overlapped.
THEOREM AlertTrails == Spec => []AlertTrail
<1>1. ASSUME Shape, TrailInv
      PROVE  AlertTrail
  <2> SUFFICES ASSUME "purge" \notin desk, NEW a \in Alerts \cap DOMAIN rows
               PROVE  LET said == Told(a, {"status_change"})
                          end == IF said = {} THEN 0 ELSE Latest(said)
                      IN  \/ rows[a].status = IF said = {} THEN "new" ELSE acts[end].new
                          \/ /\ rows[a].status = "in_progress"
                             /\ \E n \in DOMAIN acts : n > end /\ acts[n].alert = a /\ Quiet(n)
    BY DEF AlertTrail
  <2> DEFINE said == Told(a, {"status_change"})
             end == IF said = {} THEN 0 ELSE Latest(said)
  <2>1. said = SaidOf(acts, "alert", a, "status_change")
    BY ToldSaid
  <2>2. IsSeq(acts)
    BY <1>1 DEF Shape, TablesOK
  <2>3. said \subseteq DOMAIN acts /\ DOMAIN acts \subseteq Nat \ {0}
    BY <2>1, <2>2, SeqFacts DEF SaidOf
  <2>4. AlertTold(a)
    BY <1>1 DEF TrailInv
  <2> HIDE DEF said
  <2>5. CASE said = {} /\ rows[a].status = "new"
    BY <2>5 DEF said
  <2>6. ASSUME NEW n \in said, acts[n].new = rows[a].status, \A m \in said : m <= n
        PROVE  rows[a].status = IF said = {} THEN "new" ELSE acts[end].new
    <3>1. Latest(said) = n
      BY <2>3, <2>6, LatestIs
    <3> QED
      BY <2>6, <3>1
  <2>7. ASSUME rows[a].status = "in_progress", NEW k \in DOMAIN acts, acts[k].alert = a, QuietEntry(acts[k]),
               \A m \in said : m < k
        PROVE  rows[a].status = "in_progress" /\ \E n \in DOMAIN acts : n > end /\ acts[n].alert = a /\ Quiet(n)
    <3>1. Quiet(k)
      BY <2>7 DEF Quiet, QuietEntry
    <3>2. k > end
      <4>1. CASE said = {}
        BY <2>3, <4>1
      <4>2. CASE said # {}
        <5>1. Latest(said) \in said
          BY <2>2, <2>3, <4>2, SeqFacts, LatestIn
        <5> QED
          BY <2>7, <4>2, <5>1
      <4> QED
        BY <4>1, <4>2
    <3> QED
      BY <2>7, <3>1, <3>2
  <2> QED
    BY <2>1, <2>4, <2>5, <2>6, <2>7 DEF AlertTold, EndsWith, said
<1> QED
  BY <1>1, ShapeInvariance, TrailInvariance, PTL

(***************************************************************************)
(* Determinations.                                                         *)
(***************************************************************************)
\* Somebody has set the determination back to unknown.
ResetEntry(e, a) == e.kind \in {"determination_set", "ai_escalated"} /\ e.alert = a /\ e.new = "unknown"

Reset(a) == \E n \in DOMAIN acts : ResetEntry(acts[n], a)

\* A determination that a session has loaded is still there.
Knows(s, a) ==
    a \in DOMAIN s.snap /\ s.snap[a].determination # "unknown" => rows[a].determination # "unknown"

Determined(a) ==
    /\ rows[a].determination = "unknown" => rows[a].status # "resolved"
    /\ \A c \in Calls \cup Jobs : Knows(call[c], a)
    /\ \A j \in Jobs : Knows(job[j].mine, a)

DeterminationInv ==
    "purge" \notin desk => \A a \in Alerts \cap DOMAIN rows : Reset(a) \/ Determined(a)

LEMMA DeterminationInit == Init => DeterminationInv
<1> SUFFICES ASSUME Init, NEW a \in Alerts \cap DOMAIN rows
             PROVE  Determined(a)
  BY DEF DeterminationInv
<1>1. rows[a] = NewAlert
  BY DEF Init, CaseInit
<1>2. \A c \in Calls \cup Jobs : call[c] = IdleCall
  BY DEF Init, CaseInit
<1>3. \A j \in Jobs : job[j] = Queued
  BY DEF Init, RespondersInit
<1>4. IdleCall.snap = Nothing /\ Queued.mine.snap = Nothing
  BY SessionEmpty, QueuedFacts DEF Empty
<1> QED
  BY <1>1, <1>2, <1>3, <1>4, RowFacts, NothingFacts DEF Determined, Knows

\* What a COMMIT does to an alert whose determination is not reset.
LEMMA DeterminationWrites ==
  ASSUME Shape, NEW c, NEW s, Writes(c, s), NEW a \in Alerts \cap DOMAIN rows', ~Reset(a)'
  PROVE  /\ a \in DOMAIN rows /\ ~Reset(a)
         /\ rows[a].determination # "unknown" => rows'[a].determination # "unknown"
         /\ Knows(s, a) /\ (rows[a].determination = "unknown" => rows[a].status # "resolved")
              => (rows'[a].determination = "unknown" => rows'[a].status # "resolved")
<1>1. /\ DOMAIN rows' = (DOMAIN rows \ s.drop) \cup DOMAIN s.fresh
      /\ DOMAIN s.fresh \subseteq Calls /\ Merges(s) /\ DOMAIN s.want = DOMAIN s.snap
  BY CommitRows
<1>2. a \in DOMAIN rows /\ a \in RowIds \ s.drop /\ a \notin DOMAIN s.fresh /\ s.drop \in SUBSET Alerts
  BY <1>1, IdAssumption DEF RowIds, Writes, SessionOK, WellFormed
<1>3. PICK h : Lands(s, h)
  BY Landed
<1>4. Lengths(s)
  BY Landed
<1>5. ~Reset(a)
  <2> SUFFICES ASSUME NEW n \in DOMAIN acts, ResetEntry(acts[n], a)
               PROVE  FALSE
    BY DEF Reset
  <2> PICK e : e = acts[n]
    OBVIOUS
  <2>1. Placed(e) /\ e["alert"] = a
    BY DEF Shape, TablesOK, EntryIn, ResetEntry
  <2>2. Refers(e) \cap s.drop = {}
    BY <1>2, <2>1, NotCascaded DEF Ways
  <2>3. PICK k \in DOMAIN acts' : h[k] = n
    BY <1>3, <2>2 DEF Lands
  <2>4. acts'[k] = acts[n]
    BY <1>3, <1>4, <2>3 DEF Lands, Lengths
  <2> QED
    BY <2>3, <2>4 DEF Reset
<1>6. \A n \in DOMAIN s.log : ~ResetEntry(s.log[n], a)
  <2> SUFFICES ASSUME NEW n \in DOMAIN s.log, ResetEntry(s.log[n], a)
               PROVE  FALSE
    OBVIOUS
  <2> PICK e : e = s.log[n]
    OBVIOUS
  <2>1. Placed(e) /\ e["alert"] = a
    BY DEF Writes, SessionOK, Addressed, ResetEntry
  <2>2. Refers(e) \cap s.drop = {}
    BY <1>2, <2>1, NotCascaded DEF Ways
  <2>3. PICK k \in DOMAIN acts' : h[k] = Len(acts) + n
    BY <1>3, <2>2 DEF Lands
  <2>4. ~(h[k] <= Len(acts)) /\ h[k] - Len(acts) = n
    BY <1>4, <2>3 DEF Lengths
  <2>5. Redated(acts'[k], e)
    BY <1>3, <2>4 DEF Lands
  <2>6. ResetEntry(acts'[k], a)
    BY <2>5 DEF Redated, ResetEntry
  <2> QED
    BY <2>3, <2>6 DEF Reset
<1>7. CASE a \notin DOMAIN s.want
  <2>1. rows'[a] = rows[a]
    BY <1>1, <1>2, <1>7 DEF Merges
  <2> QED
    BY <1>2, <1>5, <2>1
<1>8. CASE a \in DOMAIN s.want
  <2> PICK cur, new, snap, want : cur = rows[a] /\ new = rows'[a] /\ snap = s.snap[a] /\ want = s.want[a]
    OBVIOUS
  <2>1. \A f \in Cols : new[f] = IF want[f] # snap[f] THEN want[f] ELSE cur[f]
    BY <1>1, <1>2, <1>8 DEF Merges
  <2>2. /\ new.status = IF want.status # snap.status THEN want.status ELSE cur.status
        /\ new.determination = IF want.determination # snap.determination THEN want.determination
                               ELSE cur.determination
    BY <2>1 DEF Cols
  <2>3. /\ want.status = "resolved" /\ snap.status # "resolved" => want.determination # "unknown"
        /\ ~(want.determination = "unknown" /\ snap.determination # "unknown")
    BY <1>6, <1>8 DEF Writes, SessionOK, DeterminationSaid, ResetEntry
  <2>4. Knows(s, a) => (snap.determination # "unknown" => cur.determination # "unknown")
    BY <1>1, <1>8 DEF Knows
  <2> QED
    BY <1>2, <1>5, <2>2, <2>3, <2>4
<1> QED
  BY <1>7, <1>8

\* A determination that a session has written, or had loaded, is in the row
\* after the COMMIT.
LEMMA WrittenKnows ==
  ASSUME Shape, NEW c, NEW s, Writes(c, s), NEW a \in Alerts \cap DOMAIN rows', Knows(s, a)
  PROVE  a \in DOMAIN s.want => s.want[a].determination = "unknown" \/ rows'[a].determination # "unknown"
<1> SUFFICES ASSUME a \in DOMAIN s.want, s.want[a].determination # "unknown"
             PROVE  rows'[a].determination # "unknown"
  OBVIOUS
<1>1. DOMAIN s.fresh \subseteq Calls /\ Merges(s) /\ DOMAIN s.want = DOMAIN s.snap
  BY CommitRows
<1>2. a \notin DOMAIN s.fresh
  BY <1>1, IdAssumption DEF RowIds
<1> PICK cur, new, snap, want : cur = rows[a] /\ new = rows'[a] /\ snap = s.snap[a] /\ want = s.want[a]
  OBVIOUS
<1>3. \A f \in Cols : new[f] = IF want[f] # snap[f] THEN want[f] ELSE cur[f]
  BY <1>1, <1>2 DEF Merges
<1>4. new.determination = IF want.determination # snap.determination THEN want.determination ELSE cur.determination
  BY <1>3 DEF Cols
<1>5. snap.determination # "unknown" => cur.determination # "unknown"
  BY <1>1 DEF Knows
<1> QED
  BY <1>4, <1>5

\* A step and a session that was open, or is opened by it.
LEMMA KnowsKept ==
  ASSUME NEW a, NEW s, Knows(s, a), rows[a].determination # "unknown" => rows'[a].determination # "unknown"
  PROVE  Knows(s, a)'
BY DEF Knows

LEMMA FromRowsKnows ==
  ASSUME NEW a, NEW s, FromRows(s)
  PROVE  Knows(s, a)
BY DEF FromRows, Knows

LEMMA DeterminationStep ==
  ASSUME Shape, DeterminationInv, StepOK
  PROVE  DeterminationInv'
<1> SUFFICES ASSUME "purge" \notin desk, NEW a \in Alerts \cap DOMAIN rows', ~Reset(a)'
             PROVE  Determined(a)'
  BY DEF DeterminationInv, StepOK
<1>1. DOMAIN call = Calls \cup Jobs /\ DOMAIN job = Jobs
  BY DEF Shape, SessionsOK
<1> DEFINE R == rows[a].determination = "unknown" => rows[a].status # "resolved"
           Stands == /\ a \in DOMAIN rows /\ ~Reset(a)
                     /\ rows[a].determination # "unknown" => rows'[a].determination # "unknown"
<1>2. Determined(a) <=> R /\ (\A c \in Calls \cup Jobs : Knows(call[c], a)) /\ \A j \in Jobs : Knows(job[j].mine, a)
  BY DEF Determined
<1>3. a \in DOMAIN rows /\ ~Reset(a) => Determined(a)
  BY DEF DeterminationInv
<1>4. ASSUME UNCHANGED <<rows, acts>>
      PROVE  Stands /\ R'
  BY <1>2, <1>3, <1>4 DEF Reset
<1>5. ASSUME NEW c, NEW s, Writes(c, s), Knows(s, a) \/ a \notin DOMAIN rows \/ Reset(a)
      PROVE  Stands /\ R'
  BY <1>2, <1>3, <1>5, DeterminationWrites
<1>6. Stands /\ R'
  <2>1. ASSUME NEW c, NEW t, Commits(c, t)
        PROVE  Stands /\ R'
    <3>1. Writes(c, call[c]) /\ c \in Calls \cup Jobs
      BY <2>1 DEF Commits, Writes
    <3> QED
      BY <1>2, <1>3, <1>5, <3>1
  <2>2. ASSUME NEW j \in Jobs, Ends(j)
        PROVE  Stands /\ R'
    <3>1. Writes(j, job[j].mine)
      BY <2>2 DEF Ends
    <3> QED
      BY <1>2, <1>3, <1>5, <3>1
  <2>3. ASSUME NEW c, NEW s, Opens(c, s) \/ Closes(c, s)
        PROVE  UNCHANGED <<rows, acts>>
    BY <2>3 DEF Opens, Closes, Load
  <2>4. Stays => UNCHANGED <<rows, acts>>
    BY DEF Stays
  <2> HIDE DEF Stands, R
  <2> QED
    BY <1>4, <2>1, <2>2, <2>3, <2>4, Zenon DEF StepOK, RowStep
<1>7. /\ \A c \in Calls \cup Jobs : Knows(call[c], a)
      /\ \A j \in Jobs : Knows(job[j].mine, a)
  BY <1>2, <1>3, <1>6
<1>8. ASSUME NEW s, Knows(s, a)
      PROVE  Knows(s, a)'
  BY <1>6, <1>8, KnowsKept
<1>9. ASSUME NEW c \in Calls \cup Jobs
      PROVE  Knows(call[c], a)'
  <2>1. ASSUME NEW s, Knows(s, a), call'[c] = s
        PROVE  Knows(call[c], a)'
    <3>1. Knows(s, a)'
      BY <1>8, <2>1
    <3> QED
      BY <2>1, <3>1 DEF Knows
  <2>2. ASSUME NEW s, Empty(s)
        PROVE  Knows(s, a)
    BY <2>2, EmptyOK, FromRowsKnows
  <2>3. ASSUME NEW d, NEW s, call' = [call EXCEPT ![d] = s], Knows(s, a)
        PROVE  Knows(call[c], a)'
    <3>1. call'[c] = s \/ call'[c] = call[c]
      BY <1>1, <2>3
    <3> QED
      BY <1>7, <2>1, <2>3, <3>1
  <2>4. ASSUME NEW d, NEW s, Opens(d, s)
        PROVE  \E e, t : call' = [call EXCEPT ![e] = t] /\ Knows(t, a)
    BY <2>4, FromRowsKnows DEF Opens, Load
  <2>5. ASSUME NEW d, NEW s, Closes(d, s) \/ Commits(d, s)
        PROVE  \E e, t : call' = [call EXCEPT ![e] = t] /\ Knows(t, a)
    BY <2>2, <2>5 DEF Closes, Commits
  <2>6. Stays \/ (\E j \in Jobs : Ends(j)) => call' = call
    BY DEF Stays, Ends
  <2>7. CASE call' = call
    BY <1>7, <2>1, <2>7
  <2> QED
    BY <2>3, <2>4, <2>5, <2>6, <2>7, Zenon DEF StepOK, RowStep
<1>10. ASSUME NEW j \in Jobs
       PROVE  Knows(job[j].mine, a)'
  <2>1. ASSUME NEW s, Knows(s, a), job'[j].mine = s
        PROVE  Knows(job[j].mine, a)'
    <3>1. Knows(s, a)'
      BY <1>8, <2>1
    <3> QED
      BY <2>1, <3>1 DEF Knows
  <2>2. CASE job' = job
    BY <1>7, <2>1, <2>2
  <2>3. ASSUME NEW k \in Jobs, NEW x, Moves(k, x), Ends(k) \/ (job[k].pc # "end" /\ UNCHANGED rows)
        PROVE  Knows(job[j].mine, a)'
    <3>1. job' = [job EXCEPT ![k] = x]
      BY <2>3 DEF Moves, JobStepTo
    <3>2. CASE k # j
      <4>1. job'[j].mine = job[j].mine
        BY <1>1, <3>1, <3>2
      <4> QED
        BY <1>7, <2>1, <4>1
    <3>3. CASE k = j
      <4> PICK m : m = x.mine
        OBVIOUS
      <4>1. job'[j].mine = m
        BY <1>1, <3>1, <3>3
      <4>2. CASE m.snap = job[j].mine.snap
        <5>1. Knows(m, a)
          BY <1>7, <4>2 DEF Knows
        <5> QED
          BY <2>1, <4>1, <5>1
      <4>3. CASE FromRows(m)
        BY <2>1, <4>1, <4>3, FromRowsKnows
      <4>4. CASE job[j].pc = "end" /\ m.snap = job[j].mine.want
        <5> PICK s : s = job[j].mine
          OBVIOUS
        <5>1. Writes(j, s) /\ Knows(s, a)
          BY <1>7, <2>3, <3>3, <4>4 DEF Ends
        <5>2. a \in DOMAIN s.want => s.want[a].determination = "unknown" \/ rows'[a].determination # "unknown"
          BY <5>1, WrittenKnows
        <5>3. m.snap = s.want
          BY <4>4
        <5> QED
          BY <4>1, <5>2, <5>3 DEF Knows
      <4> QED
        BY <2>3, <3>3, <4>2, <4>3, <4>4 DEF Moves
    <3> QED
      BY <3>2, <3>3
  <2> QED
    BY <2>2, <2>3, Zenon DEF StepOK, JobsStep
<1> QED
  BY <1>6, <1>9, <1>10 DEF Determined

\* Unless somebody has set it back to unknown, a determination once loaded is
\* there for good, and only alerts with one are resolved.
THEOREM DeterminationInvariance == Spec => []DeterminationInv
<1>1. Init => DeterminationInv
  BY DeterminationInit
<1>2. Shape /\ DeterminationInv /\ [Next]_vars => DeterminationInv'
  BY StepsOK, DeterminationStep
<1> QED
  BY <1>1, <1>2, ShapeInvariance, PTL DEF Spec

\* A resolved alert of unknown determination is one that somebody has set back
\* to unknown, although update_alert, bulk_update and resolve_current_alert
\* check the determination of the row as they have loaded it.
THEOREM ResolvedAreDetermined == Spec => []ResolvedDetermined
<1>1. DeterminationInv => ResolvedDetermined
  <2> SUFFICES ASSUME DeterminationInv, "purge" \notin desk, NEW a \in Alerts \cap DOMAIN rows,
                      rows[a].status = "resolved", rows[a].determination = "unknown"
               PROVE  \E n \in Told(a, {"determination_set", "ai_escalated"}) : acts[n].new = "unknown"
    BY DEF ResolvedDetermined
  <2>1. Reset(a)
    BY DEF DeterminationInv, Determined
  <2>2. PICK n \in DOMAIN acts : ResetEntry(acts[n], a)
    BY <2>1 DEF Reset
  <2>3. n \in Told(a, {"determination_set", "ai_escalated"}) /\ acts[n].new = "unknown"
    BY <2>2 DEF Told, ResetEntry
  <2> QED
    BY <2>3
<1> QED
  BY <1>1, DeterminationInvariance, PTL

(***************************************************************************)
(* Links.                                                                  *)
(***************************************************************************)
Pairs(log, i, a, kinds) ==
    {n \in DOMAIN log : log[n].kind \in kinds /\ log[n].incident = i /\ log[n].alert = a}

LEMMA PairsFinite ==
  ASSUME NEW log, IsSeq(log), NEW i, NEW a, NEW kinds
  PROVE  IsFiniteSet(Pairs(log, i, a, kinds)) /\ Cardinality(Pairs(log, i, a, kinds)) \in Nat
<1>1. DOMAIN log = 1 .. Len(log) /\ Len(log) \in Nat
  BY SeqFacts
<1>2. IsFiniteSet(1 .. Len(log))
  BY <1>1, FS_Interval
<1>3. Pairs(log, i, a, kinds) \in SUBSET (1 .. Len(log))
  BY <1>1 DEF Pairs
<1>4. IsFiniteSet(Pairs(log, i, a, kinds))
  BY <1>2, <1>3, FS_Subset
<1> QED
  BY <1>4, FS_CardinalityType

\* A COMMIT adds the entries about a pair to those that are there.
LEMMA PairsLand ==
  ASSUME Shape, NEW c, NEW s, Writes(c, s), NEW i \in RowIds \ Alerts, NEW a \in Alerts \ s.drop, NEW kinds
  PROVE  Cardinality(Pairs(acts', i, a, kinds))
           = Cardinality(Pairs(acts, i, a, kinds)) + Cardinality(Pairs(s.log, i, a, kinds))
<1> DEFINE N == Pairs(acts', i, a, kinds)
           O == Pairs(acts, i, a, kinds)
           L == Pairs(s.log, i, a, kinds)
           M == {Len(acts) + n : n \in L}
<1>1. PICK h : Lands(s, h)
  BY Landed
<1>2. Lengths(s)
  BY Landed
<1>3. IsSeq(acts) /\ IsSeq(s.log) /\ s.drop \in SUBSET Alerts
  BY DEF Shape, TablesOK, Writes, SessionOK, WellFormed, IsLog
<1>4. IsFiniteSet(O) /\ IsFiniteSet(L) /\ Cardinality(O) \in Nat /\ Cardinality(L) \in Nat
  BY <1>3, PairsFinite
<1>5. IsFiniteSet(M) /\ Cardinality(M) = Cardinality(L)
  <2> DEFINE g == [n \in L |-> Len(acts) + n]
  <2>1. L \subseteq Nat /\ Len(acts) \in Nat
    BY <1>2 DEF Pairs, Lengths
  <2>2. g \in [L -> M] /\ \A n \in L : g[n] = Len(acts) + n
    OBVIOUS
  <2>3. \A m, n \in L : g[m] = g[n] => m = n
    BY <2>1, <2>2
  <2>4. \A m \in M : \E n \in L : g[n] = m
    BY <2>2
  <2> HIDE DEF g, M, L
  <2>5. g \in Bijection(L, M)
    BY <2>2, <2>3, <2>4 DEF Bijection, Injection, Surjection, IsInjective
  <2>6. ExistsBijection(L, M)
    BY <2>5 DEF ExistsBijection
  <2> QED
    BY <1>4, <2>6, FS_Bijection
<1>6. O \cap M = {}
  BY <1>2 DEF Pairs, Lengths
<1>7. IsFiniteSet(O \cup M) /\ Cardinality(O \cup M) = Cardinality(O) + Cardinality(L)
  <2>1. Cardinality(O \cap M) = 0
    BY <1>6, FS_EmptySet, Zenon
  <2>2. Cardinality(O \cup M) = Cardinality(O) + Cardinality(M) - Cardinality(O \cap M) /\ IsFiniteSet(O \cup M)
    BY <1>4, <1>5, FS_Union
  <2> HIDE DEF O, L, M
  <2> QED
    BY <1>4, <1>5, <2>1, <2>2
<1>8. ASSUME NEW k \in DOMAIN acts'
      PROVE  k \in N <=> h[k] \in O \cup M
  <2>1. h[k] \in 1 .. (Len(acts) + Len(s.log))
    BY <1>1 DEF Lands
  <2>2. CASE h[k] <= Len(acts)
    <3>1. acts'[k] = acts[h[k]] /\ h[k] \in DOMAIN acts /\ h[k] \notin M
      BY <1>1, <1>2, <2>1, <2>2 DEF Lands, Lengths, Pairs
    <3> QED
      BY <3>1 DEF Pairs
  <2>3. CASE ~(h[k] <= Len(acts))
    <3> DEFINE m == h[k] - Len(acts)
    <3>1. m \in DOMAIN s.log /\ Redated(acts'[k], s.log[m])
      BY <1>1, <1>2, <2>1, <2>3 DEF Lands, Lengths
    <3>2. k \in N <=> m \in L
      BY <3>1 DEF Redated, Pairs
    <3>3. m \in L <=> h[k] \in M
      BY <1>2, <2>1, <2>3 DEF Pairs, Lengths
    <3>4. h[k] \notin O
      BY <1>2, <2>1, <2>3 DEF Pairs, Lengths
    <3> QED
      BY <3>2, <3>3, <3>4
  <2> QED
    BY <2>2, <2>3
<1>9. ASSUME NEW m \in O \cup M
      PROVE  \E k \in N : h[k] = m
  <2>1. CASE m \in O
    <3> PICK e : e = acts[m]
      OBVIOUS
    <3>1. m \in DOMAIN acts /\ e["alert"] = a
      BY <2>1 DEF Pairs
    <3>2. Placed(e)
      BY <3>1 DEF Shape, TablesOK, EntryIn
    <3>3. Refers(e) \cap s.drop = {}
      BY <1>3, <3>1, <3>2, NotCascaded DEF Ways, RowIds
    <3>4. PICK k \in DOMAIN acts' : h[k] = m
      BY <1>1, <3>1, <3>3 DEF Lands
    <3> QED
      BY <1>8, <1>9, <3>4
  <2>2. CASE m \in M
    <3>1. PICK n \in L : m = Len(acts) + n
      BY <2>2
    <3> PICK e : e = s.log[n]
      OBVIOUS
    <3>2. n \in DOMAIN s.log /\ e["alert"] = a
      BY <3>1 DEF Pairs
    <3>3. Placed(e)
      BY <3>2 DEF Writes, SessionOK, Addressed
    <3>4. Refers(e) \cap s.drop = {}
      BY <1>3, <3>2, <3>3, NotCascaded DEF Ways, RowIds
    <3>5. PICK k \in DOMAIN acts' : h[k] = m
      BY <1>1, <3>1, <3>2, <3>4 DEF Lands
    <3> QED
      BY <1>8, <1>9, <3>5
  <2> QED
    BY <2>1, <2>2
<1>10. N \subseteq DOMAIN acts' /\ \A k, l \in DOMAIN acts' : k \in Nat /\ l \in Nat /\ (k < l <=> h[k] < h[l]) /\ h[k] \in Nat
  <2>1. DOMAIN acts' \subseteq Nat
    BY Landed, SeqFacts
  <2>2. N \subseteq DOMAIN acts'
    BY DEF Pairs
  <2> QED
    BY <1>1, <1>2, <2>1, <2>2 DEF Lands, Lengths
<1> DEFINE f == [k \in N |-> h[k]]
<1> HIDE DEF N, O, L, M
<1>11. f \in [N -> O \cup M] /\ \A k \in N : f[k] = h[k]
  BY <1>8, <1>10
<1>12. \A k, l \in N : f[k] = f[l] => k = l
  BY <1>10, <1>11
<1>13. \A m \in O \cup M : \E k \in N : f[k] = m
  BY <1>9, <1>11
<1> HIDE DEF f
<1>14. f \in Injection(N, O \cup M) /\ f \in Surjection(N, O \cup M)
  BY <1>11, <1>12, <1>13 DEF Injection, Surjection, IsInjective
<1>15. Cardinality(N) = Cardinality(O \cup M)
  BY <1>7, <1>14, FS_Injection
<1> QED
  BY <1>7, <1>15 DEF N, O, L

Counted(i, a) ==
    LET links0 == Cardinality(LinksOf(i, a))
        linked == Cardinality(Pairs(acts, i, a, LinkKinds))
        unlinked == Cardinality(Pairs(acts, i, a, {"alert_unlinked"}))
    IN  links0 <= linked /\ linked <= links0 + unlinked

\* A link has the id of a call that has committed it.
LinksInv ==
    /\ \A l \in links : l.by \in Born
    /\ "purge" \notin desk => \A i \in Incidents \cup Calls, a \in Alerts : Counted(i, a)

LEMMA LinksInit == Init => LinksInv
<1> SUFFICES ASSUME Init
             PROVE  LinksInv
  OBVIOUS
<1>1. links = {} /\ acts = <<>>
  BY DEF Init, CaseInit
<1>2. \A i, a : LinksOf(i, a) = {} /\ \A kinds : Pairs(acts, i, a, kinds) = {}
  BY <1>1, EmptyLog DEF LinksOf, Pairs
<1>3. Cardinality({}) = 0
  BY FS_EmptySet, Zenon
<1>4. \A i, a : Counted(i, a)
  BY <1>2, <1>3 DEF Counted
<1> QED
  BY <1>1, <1>4 DEF LinksInv

LEMMA LinksFinite ==
  ASSUME Shape, NEW i, NEW a
  PROVE  IsFiniteSet(LinksOf(i, a)) /\ Cardinality(LinksOf(i, a)) \in Nat
<1>1. LinksOf(i, a) \in SUBSET links /\ IsFiniteSet(links)
  BY DEF LinksOf, Shape, TablesOK
<1>2. IsFiniteSet(LinksOf(i, a))
  BY <1>1, FS_Subset
<1> QED
  BY <1>2, FS_CardinalityType

\* Entries and links about an alert that is gone are gone.
LEMMA NoneLeft ==
  ASSUME Shape, StepOK, NEW c, NEW s, Writes(c, s), NEW i \in Incidents \cup Calls, NEW a \in Alerts \cap s.drop
  PROVE  Counted(i, a)'
<1>1. a \notin DOMAIN rows' /\ a # NoRow
  <2>1. DOMAIN rows' = (DOMAIN rows \ s.drop) \cup DOMAIN s.fresh /\ DOMAIN s.fresh \subseteq Calls
    BY CommitRows
  <2> QED
    BY <2>1, IdAssumption DEF RowIds
<1>2. \A n \in DOMAIN acts' : Refers(acts'[n]) \subseteq DOMAIN rows'
  BY EntriesKept DEF EntryIn
<1>3. \A kinds : Pairs(acts', i, a, kinds) = {}
  BY <1>1, <1>2 DEF Pairs, Refers
<1>4. links' = LinksWithout((links \cup s.link) \ s.unlink, s.drop)
  BY DEF Writes, Apply
<1>5. LinksOf(i, a)' = {}
  BY <1>4 DEF LinksOf, LinksWithout
<1>6. Cardinality({}) = 0
  BY FS_EmptySet, Zenon
<1>7. Cardinality(LinksOf(i, a)') = 0
  BY <1>5, <1>6
<1>8. Cardinality(Pairs(acts', i, a, LinkKinds)) = 0 /\ Cardinality(Pairs(acts', i, a, {"alert_unlinked"})) = 0
  BY <1>3, <1>6
<1> QED
  BY <1>7, <1>8 DEF Counted

\* A COMMIT that inserts a link adds one to both counts; one that deletes a
\* link takes one away, with an entry.
LEMMA LinksCounted ==
  ASSUME Shape, NEW c, NEW s, Writes(c, s), NEW i \in Incidents \cup Calls, NEW a \in Alerts \ s.drop,
         Counted(i, a), \A l \in links : l.by \in Born, c \in Calls => c \notin Born
  PROVE  Counted(i, a)'
<1> DEFINE A == LinksOf(i, a)
           B == LinksOf(i, a)'
           link == Cardinality(Pairs(s.log, i, a, LinkKinds))
           undo == Cardinality(Pairs(s.log, i, a, {"alert_unlinked"}))
<1>1. i \in RowIds \ Alerts
  BY IdAssumption DEF RowIds
<1>2. IsFiniteSet(A) /\ Cardinality(A) \in Nat
  BY LinksFinite
<1>3. /\ Cardinality(Pairs(acts', i, a, LinkKinds)) = Cardinality(Pairs(acts, i, a, LinkKinds)) + link
      /\ Cardinality(Pairs(acts', i, a, {"alert_unlinked"})) = Cardinality(Pairs(acts, i, a, {"alert_unlinked"})) + undo
  BY <1>1, PairsLand
<1>4. /\ Cardinality(Pairs(acts, i, a, LinkKinds)) \in Nat /\ Cardinality(Pairs(acts, i, a, {"alert_unlinked"})) \in Nat
      /\ link \in Nat /\ undo \in Nat
  <2>1. IsSeq(acts) /\ IsSeq(s.log)
    BY DEF Shape, TablesOK, Writes, SessionOK, WellFormed, IsLog
  <2> QED
    BY <2>1, PairsFinite
<1>5. s.drop \in SUBSET Alerts /\ links' = LinksWithout((links \cup s.link) \ s.unlink, s.drop)
  BY DEF Writes, SessionOK, WellFormed, Apply
<1>6. B = {l \in (links \cup s.link) \ s.unlink : l.incident = i /\ l.alert = a}
  BY <1>1, <1>5 DEF LinksOf, LinksWithout
<1>7. Cardinality({}) = 0 /\ \A x : Cardinality({x}) = 1
  BY FS_EmptySet, FS_Singleton, Zenon
<1>8. ASSUME NEW n \in Nat, NEW m \in Nat, Cardinality(B) = n, link = m,
             n = Cardinality(A) + m \/ (m = 0 /\ undo = 1 /\ n \in {Cardinality(A), Cardinality(A) - 1})
      PROVE  Counted(i, a)'
  <2>1. /\ Cardinality(A) <= Cardinality(Pairs(acts, i, a, LinkKinds))
        /\ Cardinality(Pairs(acts, i, a, LinkKinds)) <= Cardinality(A) + Cardinality(Pairs(acts, i, a, {"alert_unlinked"}))
    BY DEF Counted
  <2>2. /\ n <= Cardinality(Pairs(acts', i, a, LinkKinds))
        /\ Cardinality(Pairs(acts', i, a, LinkKinds)) <= n + Cardinality(Pairs(acts', i, a, {"alert_unlinked"}))
    BY <1>2, <1>3, <1>4, <1>8, <2>1
  <2> QED
    BY <1>8, <2>2 DEF Counted
<1> HIDE DEF A, B, link, undo
<1>9. CASE /\ s.link = {} /\ s.unlink = {}
           /\ \A n \in DOMAIN s.log : s.log[n].kind \notin LinkKinds \cup {"alert_unlinked"}
  <2>1. B = A
    BY <1>6, <1>9 DEF A, LinksOf
  <2>2. Pairs(s.log, i, a, LinkKinds) = {}
    BY <1>9 DEF Pairs
  <2>3. link = 0
    BY <1>7, <2>2 DEF link
  <2> QED
    BY <1>2, <1>8, <2>1, <2>3
<1>10. ASSUME NEW j \in RowIds \ Alerts, NEW b \in Alerts, c \in Calls,
              s.link = {[by |-> c, incident |-> j, alert |-> b]}, s.unlink = {},
              NEW n \in DOMAIN s.log, s.log[n].incident = j, s.log[n].alert = b,
              \A m \in DOMAIN s.log : s.log[m].kind \in LinkKinds <=> m = n
       PROVE  Counted(i, a)'
  <2> PICK l : l = [by |-> c, incident |-> j, alert |-> b]
    OBVIOUS
  <2>1. s.link = {l} /\ l.by = c /\ l.incident = j /\ l.alert = b
    BY <1>10
  <2>2. CASE j = i /\ b = a
    <3>1. B = A \cup {l}
      BY <1>6, <1>10, <2>1, <2>2 DEF A, LinksOf
    <3>2. l \notin A
      BY <1>10, <2>1 DEF A, LinksOf
    <3>3. Cardinality(B) = Cardinality(A) + 1
      BY <1>2, <3>1, <3>2, FS_AddElement
    <3>4. Pairs(s.log, i, a, LinkKinds) = {n}
      BY <1>10, <2>2 DEF Pairs
    <3>5. link = 1
      BY <1>7, <3>4 DEF link
    <3> QED
      BY <1>2, <1>8, <3>3, <3>5
  <2>3. CASE ~(j = i /\ b = a)
    <3>1. B = A
      BY <1>6, <1>10, <2>1, <2>3 DEF A, LinksOf
    <3>2. Pairs(s.log, i, a, LinkKinds) = {}
      BY <1>10, <2>3 DEF Pairs
    <3>3. link = 0
      BY <1>7, <3>2 DEF link
    <3> QED
      BY <1>2, <1>8, <3>1, <3>3
  <2> QED
    BY <2>2, <2>3
<1>11. ASSUME NEW l, s.link = {}, s.unlink = {l}, \A n \in DOMAIN s.log : s.log[n].kind \notin LinkKinds,
              NEW n \in DOMAIN s.log, s.log[n].incident = l.incident, s.log[n].alert = l.alert,
              \A m \in DOMAIN s.log : s.log[m].kind = "alert_unlinked" <=> m = n
       PROVE  Counted(i, a)'
  <2>1. Pairs(s.log, i, a, LinkKinds) = {}
    BY <1>11 DEF Pairs
  <2>2. link = 0
    BY <1>7, <2>1 DEF link
  <2>3. B = A \ {l}
    BY <1>6, <1>11 DEF A, LinksOf
  <2>4. CASE l.incident = i /\ l.alert = a
    <3>1. Pairs(s.log, i, a, {"alert_unlinked"}) = {n}
      BY <1>11, <2>4 DEF Pairs
    <3>2. undo = 1
      BY <1>7, <3>1 DEF undo
    <3>3. IsFiniteSet(B) /\ Cardinality(B) \in {Cardinality(A), Cardinality(A) - 1}
      BY <1>2, <2>3, FS_RemoveElement
    <3>4. Cardinality(B) \in Nat
      BY <3>3, FS_CardinalityType
    <3> QED
      BY <1>8, <2>2, <3>2, <3>3, <3>4
  <2>5. CASE ~(l.incident = i /\ l.alert = a)
    <3>1. B = A
      BY <2>3, <2>5 DEF A, LinksOf
    <3> QED
      BY <1>2, <1>8, <2>2, <3>1
  <2> QED
    BY <2>4, <2>5
<1>12. LinksSaid(c, s)
  BY DEF Writes, SessionOK
<1> QED
  BY <1>9, <1>10, <1>11, <1>12 DEF LinksSaid

LEMMA LinksStep ==
  ASSUME Shape, LinksInv, StepOK
  PROVE  LinksInv'
<1>1. desk' = desk /\ Born \subseteq Born' /\ DOMAIN call = Calls \cup Jobs
  BY BornGrows DEF StepOK, Shape, SessionsOK
<1>2. ASSUME UNCHANGED <<links, acts>>
      PROVE  LinksInv'
  BY <1>1, <1>2 DEF LinksInv, Counted, LinksOf
<1>3. ASSUME NEW c, NEW s, Writes(c, s), c \in Calls => c \notin Born /\ c \in Born'
      PROVE  LinksInv'
  <2>1. links' = LinksWithout((links \cup s.link) \ s.unlink, s.drop) /\ LinksSaid(c, s)
    BY <1>3 DEF Writes, Apply, SessionOK
  <2>2. \A l \in s.link : l.by \in Born'
    BY <1>3, <2>1 DEF LinksSaid
  <2>3. \A l \in links' : l.by \in Born'
    BY <1>1, <2>1, <2>2 DEF LinksWithout, LinksInv
  <2>4. ASSUME "purge" \notin desk, NEW i \in Incidents \cup Calls, NEW a \in Alerts
        PROVE  Counted(i, a)'
    <3>1. CASE a \in s.drop
      BY <1>3, <3>1, NoneLeft
    <3>2. CASE a \notin s.drop
      <4>1. Counted(i, a) /\ \A l \in links : l.by \in Born
        BY <2>4 DEF LinksInv
      <4> QED
        BY <1>3, <3>2, <4>1, LinksCounted
    <3> QED
      BY <3>1, <3>2
  <2> QED
    BY <1>1, <2>3, <2>4 DEF LinksInv
<1>4. ASSUME PurgeCommits, "purge" \in desk
      PROVE  LinksInv'
  <2>1. \A l \in links' : l \in links
    BY <1>4 DEF PurgeCommits, LinksWithout
  <2> QED
    BY <1>1, <1>4, <2>1 DEF LinksInv
<1>5. ASSUME NEW c, NEW t, Commits(c, t)
      PROVE  LinksInv'
  <2>1. Writes(c, call[c]) /\ c \in Calls \cup Jobs /\ call[c].pc = "loaded" /\ call'[c].pc \in {"done", "after"}
    BY <1>1, <1>5 DEF Commits, Writes
  <2>2. c \in Calls => c \notin Born /\ c \in Born'
    BY <2>1, IdAssumption DEF Born
  <2> QED
    BY <1>3, <2>1, <2>2
<1>6. ASSUME NEW j \in Jobs, Ends(j)
      PROVE  LinksInv'
  <2>1. Writes(j, job[j].mine) /\ j \notin Calls
    BY <1>6, IdAssumption DEF Ends
  <2> QED
    BY <1>3, <2>1
<1>7. ASSUME NEW c, NEW s, Opens(c, s) \/ Closes(c, s)
      PROVE  UNCHANGED <<links, acts>>
  BY <1>7 DEF Opens, Closes, Load
<1>8. Stays => UNCHANGED <<links, acts>>
  BY DEF Stays
<1> QED
  BY <1>2, <1>4, <1>5, <1>6, <1>7, <1>8, Zenon DEF StepOK, RowStep

\* Each link of an alert and an incident was inserted by a call of its own,
\* with an entry, and each that is missing was deleted with one.
THEOREM LinksInvariance == Spec => []LinksInv
<1>1. Init => LinksInv
  BY LinksInit
<1>2. Shape /\ LinksInv /\ [Next]_vars => LinksInv'
  BY StepsOK, LinksStep
<1> QED
  BY <1>1, <1>2, ShapeInvariance, PTL DEF Spec

\* No link appears or vanishes without an entry, even when two calls link or
\* unlink the pair at once: link_alert, create_incident_for_alert and
\* unlink_alert check the link before they write.
THEOREM LinksAreAccounted == Spec => []LinksAccounted
<1>1. ASSUME Shape, LinksInv
      PROVE  LinksAccounted
  <2> SUFFICES ASSUME "purge" \notin desk, NEW i \in Incidents \cup Calls, NEW a \in Alerts
               PROVE  LET count(kinds) == Cardinality(Told(a, kinds) \cap Told(i, kinds))
                          linked == count({"incident_linked", "alert_linked"})
                      IN  /\ Cardinality(LinksOf(i, a)) <= linked
                          /\ Cardinality(LinksOf(i, a)) >= linked - count({"alert_unlinked"})
    BY DEF LinksAccounted
  <2>1. i \notin Alerts
    BY IdAssumption
  <2>2. \A kinds : Told(a, kinds) \cap Told(i, kinds) = Pairs(acts, i, a, kinds)
    BY <2>1 DEF Told, Pairs
  <2>3. Counted(i, a)
    BY <1>1 DEF LinksInv
  <2>4. /\ Cardinality(Pairs(acts, i, a, LinkKinds)) \in Nat /\ Cardinality(Pairs(acts, i, a, {"alert_unlinked"})) \in Nat
        /\ Cardinality(LinksOf(i, a)) \in Nat
    BY <1>1, PairsFinite, LinksFinite DEF Shape, TablesOK
  <2>5. PICK x \in Nat, y \in Nat, z \in Nat :
          /\ Cardinality(LinksOf(i, a)) = x
          /\ Cardinality(Pairs(acts, i, a, LinkKinds)) = y
          /\ Cardinality(Pairs(acts, i, a, {"alert_unlinked"})) = z
    BY <2>4
  <2>6. x <= y /\ y <= x + z
    BY <2>3, <2>5 DEF Counted
  <2>7. x <= y /\ x >= y - z
    BY <2>6
  <2>8. /\ Cardinality(Told(a, {"incident_linked", "alert_linked"}) \cap Told(i, {"incident_linked", "alert_linked"})) = y
        /\ Cardinality(Told(a, {"alert_unlinked"}) \cap Told(i, {"alert_unlinked"})) = z
    BY <2>2, <2>5, Zenon DEF LinkKinds
  <2> QED
    BY <2>5, <2>7, <2>8
<1> QED
  BY <1>1, ShapeInvariance, LinksInvariance, PTL
=============================================================================
