----------------------------- MODULE AccessProofs -----------------------------
(***************************************************************************)
(* Proofs about the accounts and the webhook gate, for any number of       *)
(* requests, accounts, keys, API processes and seconds.                    *)
(***************************************************************************)
EXTENDS Access, FiniteSetTheorems, TLAPS

-----------------------------------------------------------------------------
(* The inductive invariant of the accounts.                                *)

\* What a loaded request is about to write, by its kind.
Inserts(q) ==
    \E r \in Requests, role \in Roles :
       /\ q.snap = {} /\ q.want = {Account(r, role)}
       /\ q.kind = "register" => role = "analyst"
       /\ q.kind = "bootstrap" => role = "admin"

Updates(q) ==
    \E now \in q.snap, after \in q.want :
       /\ q.snap = {now} /\ q.want = {after} /\ Known(q.about)
       /\ IsAccount(now) /\ IsAccount(after)
       /\ after.by = now.by /\ after.first = now.first
       /\ q.kind = "update" => after.secret = now.secret
       /\ q.kind = "password" => after.role = now.role /\ after.active = now.active

Plan(q) == \/ q.kind \in {"register", "create", "bootstrap"} /\ Inserts(q)
           \/ q.kind \in {"update", "password"} /\ Updates(q)

Shaped(q) == q = [pc |-> q.pc, kind |-> q.kind, about |-> q.about,
                  snap |-> q.snap, want |-> q.want]

\* Rows have their shape, and a loaded request has something to write.
AccountsTyped ==
    /\ \A u \in DOMAIN accounts : IsAccount(accounts[u])
    /\ req = [r \in Requests |-> req[r]]
    /\ \A r \in Requests : /\ Shaped(req[r])
                           /\ req[r].pc = "idle" => req[r] = Waiting
                           /\ req[r].pc = "loaded" => Plan(req[r])

\* The loaded update of an account: it still is as loaded, but for its
\* secret, and without it an active admin is left unless it stays or
\* never was one.
UpdateCurrent(q) ==
    \A now \in q.snap, after \in q.want :
       /\ accounts[q.about].role = now.role /\ accounts[q.about].active = now.active
       /\ now.role # "admin" \/ (after.role = "admin" /\ after.active)
            \/ ActiveAdmins \ {q.about} # {}

Bootstrapped(r) == req[r].kind = "bootstrap" /\ req[r].pc = "done"

\* Requests that may change who is admin, when no two were open at once.
OneAtATime ==
    /\ \A r, s \in Requests : Open(r) /\ Open(s) => r = s
    /\ \A r \in Requests : Open(r) /\ req[r].kind = "update" => UpdateCurrent(req[r])
    /\ \A r, s \in Requests : Open(r) /\ req[r].kind = "bootstrap" => ~Bootstrapped(s)
    /\ \A r \in Requests : Bootstrapped(r) => Founded
    /\ \A r, s \in Requests : Bootstrapped(r) /\ Bootstrapped(s) => r = s
    /\ Founded => ActiveAdmins # {}

AccountsInv == AccountsTyped /\ (~overlapped => OneAtATime)

-----------------------------------------------------------------------------
(* The steps of the accounts.                                              *)

\* Rows and requests keep their shape when a request moves.
LEMMA RowShape ==
    ASSUME NEW r, NEW role \in Roles
    PROVE  /\ IsAccount(Account(r, role))
           /\ Account(r, role).first = role /\ Account(r, role).role = role
           /\ Account(r, role).active
BY DEF IsAccount, Account

\* The UPDATE changes the columns the request has changed, and no other.
LEMMA WrittenColumns ==
    ASSUME NEW cur, NEW now, NEW after, IsAccount(cur), IsAccount(now), IsAccount(after),
           after.by = now.by, after.first = now.first
    PROVE  LET new == Written(cur, now, after)
           IN  /\ IsAccount(new)
               /\ new.first = cur.first
               /\ new.role = IF after.role # now.role THEN after.role ELSE cur.role
               /\ new.active = IF after.active # now.active THEN after.active ELSE cur.active
<1> DEFINE new == Written(cur, now, after)
           col(f) == IF after[f] # now[f] THEN after[f] ELSE cur[f]
<1>1. DOMAIN cur = {"by", "first", "role", "active", "secret"}
  BY DEF IsAccount
<1>2. new = [f \in {"by", "first", "role", "active", "secret"} |-> col(f)]
  BY <1>1 DEF Written
<1>3. new = [by |-> new.by, first |-> new.first, role |-> new.role,
             active |-> new.active, secret |-> new.secret]
  BY <1>2
<1>4. /\ new.first = cur.first
      /\ new.role = IF after.role # now.role THEN after.role ELSE cur.role
      /\ new.active = IF after.active # now.active THEN after.active ELSE cur.active
  BY <1>2
<1>5. new.role \in Roles /\ new.active \in BOOLEAN
  BY <1>4 DEF IsAccount
<1> HIDE DEF new
<1>6. IsAccount(new)
  BY <1>3, <1>5 DEF IsAccount
<1> QED
  BY <1>4, <1>6 DEF new

\* The seeds satisfy the invariant.
LEMMA AccountsStart ==
    ASSUME AccountsInit
    PROVE  AccountsInv
<1>1. \A r \in Requests : req[r] = Waiting
  BY DEF AccountsInit
<1>2. AccountsTyped
  <2>1. Shaped(Waiting) /\ Waiting.pc = "idle"
    BY Zenon DEF Shaped, Waiting
  <2>2. \A u \in DOMAIN accounts : IsAccount(accounts[u])
    BY SeedsAssumption DEF AccountsInit
  <2>3. req = [r \in Requests |-> req[r]]
    BY DEF AccountsInit
  <2> QED
    BY <1>1, <2>1, <2>2, <2>3 DEF AccountsTyped
<1>3. Founded => ActiveAdmins # {}
  <2>1. accounts \in Seeds
    BY DEF AccountsInit
  <2>2. Founded => \E u \in DOMAIN accounts : accounts[u].role = "admin" /\ accounts[u].active
    BY <2>1, SeedsAssumption, Zenon DEF Founded
  <2> QED
    BY <2>2, Zenon DEF ActiveAdmins
<1>4. OneAtATime
  <2>1. \A r \in Requests : ~Open(r) /\ ~Bootstrapped(r)
    <3>1. Waiting.pc = "idle"
      BY DEF Waiting
    <3> QED
      BY <1>1, <3>1 DEF Open, Bootstrapped
  <2> QED
    BY <1>3, <2>1 DEF OneAtATime
<1> QED
  BY <1>2, <1>4 DEF AccountsInv

\* A request ends without writing: nothing of the invariant is about it.
LEMMA AnsweredInv ==
    ASSUME AccountsInv, NEW r \in Requests, NEW pc \in {"refused", "done", "failed"},
           req[r].pc \in {"idle", "loaded"},
           req' = [req EXCEPT ![r] = [Waiting EXCEPT !.pc = pc]],
           UNCHANGED <<accounts, overlapped>>
    PROVE  AccountsInv'
<1>1. /\ req'[r] = [Waiting EXCEPT !.pc = pc]
      /\ \A s \in Requests \ {r} : req'[s] = req[s]
      /\ req' = [s \in Requests |-> req'[s]]
  BY DEF AccountsInv, AccountsTyped
<1>2. AccountsTyped'
  <2>1. \A s \in Requests : Plan(req[s])' = Plan(req'[s])
    BY DEF Plan, Inserts, Updates, Known
  <2>2. \A s \in Requests : /\ Shaped(req'[s])
                            /\ req'[s].pc = "idle" => req'[s] = Waiting
                            /\ req'[s].pc = "loaded" => Plan(req'[s])
    BY <1>1 DEF AccountsInv, AccountsTyped, Waiting, Shaped
  <2> QED
    BY <1>1, <2>1, <2>2 DEF AccountsInv, AccountsTyped
<1>3. ~Open(r)' /\ ~Bootstrapped(r)' /\ ~Bootstrapped(r)
  BY <1>1 DEF Open, Bootstrapped, Waiting
<1>4. \A s \in Requests \ {r} : Open(s)' = Open(s) /\ Bootstrapped(s)' = Bootstrapped(s)
  BY <1>1 DEF Open, Bootstrapped
<1>5. Founded' = Founded /\ ActiveAdmins' = ActiveAdmins
  BY DEF Founded, ActiveAdmins
<1>6. OneAtATime => OneAtATime'
  BY <1>1, <1>3, <1>4, <1>5 DEF OneAtATime, UpdateCurrent
<1> QED
  BY <1>2, <1>6 DEF AccountsInv

\* A request has read and checked.  One that may change who is admin does
\* so alone, or the overlap is recorded.
LEMMA LoadInv ==
    ASSUME AccountsInv, NEW r \in Requests, NEW kind, NEW u, NEW snap, NEW want,
           Load(r, kind, u, snap, want),
           NEW q, q = [pc |-> "loaded", kind |-> kind, about |-> u, snap |-> snap, want |-> want],
           Plan(q), kind = "update" => UpdateCurrent(q),
           kind = "bootstrap" => ActiveAdmins = {}
    PROVE  AccountsInv'
<1>1. /\ req'[r] = q /\ q.pc = "loaded" /\ q.kind = kind
      /\ \A s \in Requests \ {r} : req'[s] = req[s]
      /\ req' = [s \in Requests |-> req'[s]]
  BY DEF AccountsInv, AccountsTyped, Load
<1>2. UNCHANGED accounts
  BY DEF Load
<1>3. AccountsTyped'
  <2>1. \A s \in Requests : Plan(req[s])' = Plan(req'[s])
    BY <1>2 DEF Plan, Inserts, Updates, Known
  <2>2. Shaped(q)
    BY Zenon DEF Shaped
  <2>3. \A s \in Requests : /\ Shaped(req'[s])
                            /\ req'[s].pc = "idle" => req'[s] = Waiting
                            /\ req'[s].pc = "loaded" => Plan(req'[s])
    BY <1>1, <2>2 DEF AccountsInv, AccountsTyped
  <2> QED
    BY <1>1, <1>2, <2>1, <2>3 DEF AccountsInv, AccountsTyped
<1>4. ~Open(r) /\ ~Bootstrapped(r) /\ ~Bootstrapped(r)'
  BY <1>1 DEF Load, Open, Bootstrapped
<1>5. \A s \in Requests \ {r} : Open(s)' = Open(s) /\ Bootstrapped(s)' = Bootstrapped(s)
  BY <1>1 DEF Open, Bootstrapped
<1>6. Founded' = Founded /\ ActiveAdmins' = ActiveAdmins
  BY <1>2 DEF Founded, ActiveAdmins
<1>7. ASSUME ~overlapped' PROVE OneAtATime'
  <2>1. ~overlapped /\ (Open(r)' => \A s \in Requests : ~Open(s))
    BY <1>1, <1>7 DEF Load, Open
  <2>2. OneAtATime
    BY <2>1 DEF AccountsInv
  <2>3. UpdateCurrent(q)' = UpdateCurrent(q)
    BY <1>2, <1>6 DEF UpdateCurrent
  <2>4. \A s, t \in Requests : Open(s)' /\ Open(t)' => s = t
    BY <1>5, <2>1, <2>2 DEF OneAtATime
  <2>5. \A s \in Requests : Open(s)' /\ req'[s].kind = "update" => UpdateCurrent(req[s])'
    <3>1. CASE kind = "update"
      BY <1>1, <1>5, <2>1, <2>3, <3>1 DEF UpdateCurrent, Rules, Open
    <3>2. CASE kind # "update"
      BY <1>1, <1>2, <1>5, <1>6, <2>2, <3>2 DEF OneAtATime, UpdateCurrent
    <3> QED BY <3>1, <3>2
  <2>6. \A s, t \in Requests : Open(s)' /\ req'[s].kind = "bootstrap" => ~Bootstrapped(t)'
    <3>1. kind = "bootstrap" => \A t \in Requests : ~Bootstrapped(t)
      BY <2>2 DEF OneAtATime
    <3> QED
      BY <1>1, <1>4, <1>5, <2>2, <3>1 DEF OneAtATime
  <2> QED
    BY <1>4, <1>5, <1>6, <2>2, <2>4, <2>5, <2>6 DEF OneAtATime
<1> QED
  BY <1>3, <1>7 DEF AccountsInv

\* What a COMMIT does to the table.  Only an update, and never one of a
\* password, takes the role or the activity of an admin away.
LEMMA CommitFacts ==
    ASSUME AccountsInv, NEW r \in Requests, CommitAccount(r)
    PROVE  LET u == req[r].about
               new == accounts'[u]
           IN  /\ DOMAIN accounts' = DOMAIN accounts \cup {u}
               /\ \A v \in DOMAIN accounts \ {u} : accounts'[v] = accounts[v]
               /\ IsAccount(new)
               /\ Known(u) => new.first = accounts[u].first
               /\ ~Known(u) => /\ req[r].kind \in {"register", "create", "bootstrap"}
                               /\ new.first = new.role /\ new.active
                               /\ req[r].kind = "register" => new.role = "analyst"
                               /\ req[r].kind = "bootstrap" => new.role = "admin"
               /\ Known(u) => req[r].kind \in {"update", "password"}
               /\ req[r].kind = "password" =>
                     new.role = accounts[u].role /\ new.active = accounts[u].active
               /\ req[r].kind = "update" /\ UpdateCurrent(req[r]) =>
                     \/ ActiveAdmins \ {u} # {}
                     \/ accounts[u].role # "admin"
                     \/ new.role = "admin" /\ new.active
<1> DEFINE q == req[r]
           u == q.about
<1>1. /\ q.pc = "loaded" /\ ~InsertFails(q) /\ Plan(q)
      /\ accounts' = [v \in DOMAIN accounts \cup {u} |->
                        IF v = u THEN Stored(q) ELSE accounts[v]]
  BY DEF CommitAccount, AccountsInv, AccountsTyped
<1>2. /\ DOMAIN accounts' = DOMAIN accounts \cup {u}
      /\ \A v \in DOMAIN accounts \ {u} : accounts'[v] = accounts[v]
      /\ accounts'[u] = Stored(q)
  BY <1>1
<1>3. CASE q.kind \in {"register", "create", "bootstrap"}
  <2>1. Inserts(q)
    BY <1>1, <1>3 DEF Plan
  <2>2. PICK by \in Requests, role \in Roles :
           /\ q.snap = {} /\ q.want = {Account(by, role)}
           /\ q.kind = "register" => role = "analyst"
           /\ q.kind = "bootstrap" => role = "admin"
    BY <2>1, Zenon DEF Inserts
  <2>3. Stored(q) = Account(by, role) /\ ~Known(u)
    BY <1>1, <2>2 DEF Stored, InsertFails
  <2> QED
    BY <1>2, <1>3, <2>2, <2>3, RowShape
<1>4. CASE q.kind \in {"update", "password"}
  <2>1. PICK now \in q.snap, after \in q.want :
           /\ q.snap = {now} /\ q.want = {after} /\ Known(u)
           /\ IsAccount(now) /\ IsAccount(after)
           /\ after.by = now.by /\ after.first = now.first
           /\ q.kind = "password" => after.role = now.role /\ after.active = now.active
    <3>1. Updates(q)
      BY <1>1, <1>4 DEF Plan
    <3> QED
      BY <3>1, Zenon DEF Updates
  <2>2. Stored(q) = Written(accounts[u], now, after)
    BY <2>1 DEF Stored
  <2>3. IsAccount(accounts[u])
    BY <2>1 DEF AccountsInv, AccountsTyped, Known
  <2>4. /\ IsAccount(Stored(q))
        /\ Stored(q).first = accounts[u].first
        /\ Stored(q).role = IF after.role # now.role THEN after.role ELSE accounts[u].role
        /\ Stored(q).active = IF after.active # now.active THEN after.active ELSE accounts[u].active
    BY <2>1, <2>2, <2>3, WrittenColumns
  <2>5. q.kind = "update" /\ UpdateCurrent(q) =>
            \/ ActiveAdmins \ {u} # {}
            \/ accounts[u].role # "admin"
            \/ Stored(q).role = "admin" /\ Stored(q).active
    BY <2>1, <2>4 DEF UpdateCurrent, IsAccount
  <2> QED
    BY <1>2, <1>4, <2>1, <2>4, <2>5
<1> QED
  BY <1>1, <1>3, <1>4 DEF Plan

\* A COMMIT keeps the invariant: it is the last step of a request whose
\* checks still hold, or two requests have overlapped.
LEMMA CommitInv ==
    ASSUME AccountsInv, NEW r \in Requests, CommitAccount(r)
    PROVE  AccountsInv'
<1> DEFINE u == req[r].about
           new == accounts'[u]
<1>1. /\ req[r].pc = "loaded"
      /\ req'[r] = [req[r] EXCEPT !.pc = "done", !.snap = {}, !.want = {}]
      /\ \A s \in Requests \ {r} : req'[s] = req[s]
      /\ req' = [s \in Requests |-> req'[s]]
      /\ overlapped' = overlapped
  BY DEF CommitAccount, AccountsInv, AccountsTyped
<1>2. /\ DOMAIN accounts' = DOMAIN accounts \cup {u}
      /\ \A v \in DOMAIN accounts \ {u} : accounts'[v] = accounts[v]
      /\ IsAccount(new)
      /\ Known(u) => new.first = accounts[u].first /\ req[r].kind \in {"update", "password"}
      /\ ~Known(u) => /\ req[r].kind \in {"register", "create", "bootstrap"}
                      /\ new.first = new.role /\ new.active
                      /\ req[r].kind = "register" => new.role = "analyst"
                      /\ req[r].kind = "bootstrap" => new.role = "admin"
      /\ req[r].kind = "password" =>
            new.role = accounts[u].role /\ new.active = accounts[u].active
      /\ req[r].kind = "update" /\ UpdateCurrent(req[r]) =>
            \/ ActiveAdmins \ {u} # {}
            \/ accounts[u].role # "admin"
            \/ new.role = "admin" /\ new.active
  BY CommitFacts
<1> HIDE DEF new, u
<1>3. req'[r].pc = "done" /\ req'[r].kind = req[r].kind
  <2>1. Shaped(req[r])
    BY DEF AccountsInv, AccountsTyped
  <2> QED
    BY <1>1, <2>1 DEF Shaped
<1>4. AccountsTyped'
  <2>1. \A v \in DOMAIN accounts' : IsAccount(accounts'[v])
    BY <1>2 DEF AccountsInv, AccountsTyped, new
  <2>2. ASSUME NEW s \in Requests, req'[s].pc \in {"idle", "loaded"}
        PROVE  /\ req'[s].pc = "idle" => req'[s] = Waiting
               /\ req'[s].pc = "loaded" => Plan(req[s])'
    <3>1. s # r /\ req'[s] = req[s]
      BY <1>1, <1>3, <2>2
    <3>2. req[s].pc = "loaded" => Plan(req[s])
      BY DEF AccountsInv, AccountsTyped
    <3>3. Inserts(req[s]) => Inserts(req[s])'
      BY <3>1 DEF Inserts
    <3>4. Updates(req[s]) => Updates(req[s])'
      BY <1>2, <3>1 DEF Updates, Known
    <3>5. req[s].pc = "idle" => req[s] = Waiting
      BY DEF AccountsInv, AccountsTyped
    <3>6. Plan(req[s]) => Plan(req[s])'
      BY <3>1, <3>3, <3>4 DEF Plan
    <3> QED
      BY <3>1, <3>2, <3>5, <3>6
  <2>3. \A s \in Requests : Shaped(req'[s])
    <3>1. Shaped(req[r])
      BY DEF AccountsInv, AccountsTyped
    <3>2. Shaped(req'[r])
      BY <1>1, <3>1 DEF Shaped
    <3> QED
      BY <1>1, <3>2 DEF AccountsInv, AccountsTyped
  <2> QED
    BY <1>1, <2>1, <2>2, <2>3 DEF AccountsTyped
<1>5. ASSUME ~overlapped' PROVE OneAtATime'
  <2>1. OneAtATime
    BY <1>1, <1>5 DEF AccountsInv
  <2>2. ~Open(r)' /\ \A s \in Requests \ {r} : Open(s)' = Open(s) /\ Bootstrapped(s)' = Bootstrapped(s)
    BY <1>1, <1>3 DEF Open, Bootstrapped
  <2>3. Bootstrapped(r)' <=> req[r].kind = "bootstrap"
    BY <1>3 DEF Bootstrapped
  <2>4. Open(r) <=> req[r].kind \in {"update", "bootstrap"}
    BY <1>1 DEF Open, Rules
  <2>5. Founded => Founded'
    BY <1>2 DEF Founded, Known, new
  <2>6. /\ ActiveAdmins \ {u} \subseteq ActiveAdmins'
        /\ new.role = "admin" /\ new.active => u \in ActiveAdmins'
    BY <1>2 DEF ActiveAdmins, new
  <2>7. req[r].kind # "update" => ActiveAdmins \subseteq ActiveAdmins'
    <3>1. CASE Known(u)
      BY <1>2, <2>6, <3>1 DEF ActiveAdmins
    <3>2. CASE ~Known(u)
      BY <2>6, <3>2 DEF ActiveAdmins, Known
    <3> QED BY <3>1, <3>2
  <2>8. \A s, t \in Requests : Open(s)' /\ Open(t)' => s = t
    BY <2>1, <2>2 DEF OneAtATime
  <2>9. ASSUME NEW s \in Requests, Open(s)', req'[s].kind = "update"
        PROVE  UpdateCurrent(req[s])'
    <3>1. s # r /\ Open(s) /\ req'[s] = req[s] /\ req[s].kind = "update" /\ UpdateCurrent(req[s])
      BY <1>1, <2>1, <2>2, <2>9 DEF OneAtATime
    <3>2. req[r].kind \notin {"update", "bootstrap"}
      BY <2>1, <2>4, <3>1 DEF OneAtATime
    <3>3. Known(req[s].about)
      <4>1. Plan(req[s])
        BY <3>1 DEF Open, AccountsInv, AccountsTyped
      <4> QED
        BY <3>1, <4>1 DEF Plan, Updates
    <3>4. /\ accounts'[req[s].about].role = accounts[req[s].about].role
          /\ accounts'[req[s].about].active = accounts[req[s].about].active
      BY <1>2, <3>2, <3>3 DEF Known, new
    <3>5. ActiveAdmins \subseteq ActiveAdmins'
      BY <2>7, <3>2
    <3> QED
      BY <3>1, <3>4, <3>5 DEF UpdateCurrent
  <2>10. \A s, t \in Requests : Open(s)' /\ req'[s].kind = "bootstrap" => ~Bootstrapped(t)'
    BY <1>1, <2>1, <2>2, <2>3, <2>4 DEF OneAtATime
  <2>11. \A s \in Requests : Bootstrapped(s)' => Founded'
    <3>1. ASSUME req[r].kind = "bootstrap" PROVE Founded'
      BY <1>2, <3>1 DEF Founded, new
    <3> QED
      BY <2>1, <2>2, <2>3, <2>5, <3>1 DEF OneAtATime
  <2>12. \A s, t \in Requests : Bootstrapped(s)' /\ Bootstrapped(t)' => s = t
    BY <2>1, <2>2, <2>3, <2>4 DEF OneAtATime
  <2>13. Founded' => ActiveAdmins' # {}
    <3>1. CASE req[r].kind = "update"
      <4>1. Known(u) /\ UpdateCurrent(req[r])
        BY <1>1, <1>2, <2>1, <2>4, <3>1 DEF OneAtATime
      <4>2. Founded' => Founded
        BY <1>2, <4>1 DEF Founded, Known, new
      <4>3. Founded => ActiveAdmins # {}
        BY <2>1 DEF OneAtATime
      <4>4. CASE accounts[u].role # "admin"
        BY <2>6, <4>2, <4>3, <4>4 DEF ActiveAdmins
      <4> QED
        BY <1>2, <2>6, <3>1, <4>1, <4>4
    <3>2. CASE req[r].kind # "update" /\ Known(u)
      <4>1. Founded' => Founded
        BY <1>2, <3>2 DEF Founded, Known, new
      <4> QED
        BY <2>1, <2>7, <3>2, <4>1 DEF OneAtATime
    <3>3. CASE ~Known(u)
      <4>1. Founded' => Founded \/ new.role = "admin"
        BY <1>2, <3>3 DEF Founded, new
      <4>2. req[r].kind # "update"
        BY <1>2, <3>3
      <4> QED
        BY <1>2, <2>1, <2>6, <2>7, <3>3, <4>1, <4>2 DEF OneAtATime
    <3> QED
      BY <3>1, <3>2, <3>3
  <2> QED
    BY <2>8, <2>9, <2>10, <2>11, <2>12, <2>13 DEF OneAtATime
<1> QED
  BY <1>4, <1>5 DEF AccountsInv

\* 409, 403 or the refusal of the command.
LEMMA RefuseInv ==
    ASSUME AccountsInv, NEW r \in Requests, Refuse(r)
    PROVE  AccountsInv'
<1>1. req[r].pc = "idle" /\ req[r] = Waiting
  BY DEF Refuse, AccountsInv, AccountsTyped
<1>2. req' = [req EXCEPT ![r] = [Waiting EXCEPT !.pc = "refused"]]
  BY <1>1 DEF Refuse
<1> QED
  BY <1>1, <1>2, AnsweredInv DEF Refuse

\* A SELECT finds the username free, and an INSERT is planned.
LEMMA InsertInv ==
    ASSUME AccountsInv, NEW r \in Requests, NEW u, NEW role \in Roles,
           NEW kind \in {"register", "create", "bootstrap"},
           kind = "register" => role = "analyst",
           kind = "bootstrap" => role = "admin" /\ ActiveAdmins = {},
           InsertNew(r, kind, u, role)
    PROVE  AccountsInv'
<1>1. CASE Known(u)
  BY <1>1, RefuseInv DEF InsertNew
<1>2. CASE ~Known(u)
  <2> DEFINE q == [pc |-> "loaded", kind |-> kind, about |-> u,
                   snap |-> {}, want |-> {Account(r, role)}]
  <2>1. Load(r, kind, u, {}, {Account(r, role)})
    BY <1>2 DEF InsertNew
  <2>2. Inserts(q)
    BY DEF Inserts
  <2>3. Plan(q)
    BY <2>2 DEF Plan
  <2> QED
    BY <2>1, <2>3, LoadInv
<1> QED
  BY <1>1, <1>2

\* What the invariant is about.
LEMMA AccountsFrame ==
    ASSUME AccountsInv, UNCHANGED <<accounts, req, overlapped>>
    PROVE  AccountsInv'
<1>1. AccountsTyped'
  BY DEF AccountsInv, AccountsTyped, Plan, Inserts, Updates, Known
<1>2. OneAtATime => OneAtATime'
  BY DEF OneAtATime, Open, Bootstrapped, UpdateCurrent, Founded, ActiveAdmins
<1> QED
  BY <1>1, <1>2 DEF AccountsInv

\* A step of a request to /auth, of the bootstrap command or of a token.
LEMMA AccountStepInv ==
    ASSUME AccountsInv, AccountStep
    PROVE  AccountsInv'
<1>1. ASSUME NEW r \in Requests, NEW u \in Usernames, Register(r, u)
      PROVE  AccountsInv'
  BY <1>1, InsertInv DEF Register, Roles
<1>2. ASSUME NEW r \in Requests, NEW u \in Usernames, CreateAnalyst(r, u)
      PROVE  AccountsInv'
  <2>1. PICK role \in Roles : InsertNew(r, "create", u, role)
    BY <1>2 DEF CreateAnalyst
  <2> QED
    BY <2>1, InsertInv
<1>3. ASSUME NEW r \in Requests, NEW u \in Usernames, Bootstrap(r, u)
      PROVE  AccountsInv'
  <2>1. CASE ActiveAdmins # {}
    BY <1>3, <2>1, RefuseInv DEF Bootstrap
  <2>2. CASE ActiveAdmins = {}
    BY <1>3, <2>2, InsertInv DEF Bootstrap, Roles
  <2> QED
    BY <2>1, <2>2
<1>4. ASSUME NEW r \in Requests, NEW u \in Usernames, UpdateAnalyst(r, u)
      PROVE  AccountsInv'
  <2> DEFINE now == accounts[u]
             after(role, active) == [now EXCEPT !.role = role, !.active = active]
  <2>1. PICK role \in Roles, active \in BOOLEAN :
           IF LastActiveAdmin(u, after(role, active)) THEN Refuse(r)
           ELSE Load(r, "update", u, {now}, {after(role, active)})
    BY <1>4 DEF UpdateAnalyst
  <2> DEFINE new == after(role, active)
             q == [pc |-> "loaded", kind |-> "update", about |-> u,
                   snap |-> {now}, want |-> {new}]
  <2>2. Known(u) /\ IsAccount(now)
    BY <1>4 DEF UpdateAnalyst, Known, AccountsInv, AccountsTyped
  <2>3. /\ IsAccount(new) /\ new.by = now.by /\ new.first = now.first
        /\ new.secret = now.secret
    <3> DEFINE mid == [now EXCEPT !.role = role]
    <3>1. IsAccount(mid) /\ mid.by = now.by /\ mid.first = now.first /\ mid.secret = now.secret
      BY <2>2 DEF IsAccount
    <3>2. new = [mid EXCEPT !.active = active]
      OBVIOUS
    <3> HIDE DEF mid, new, now
    <3> QED
      BY <3>1, <3>2 DEF IsAccount
  <2>4. Plan(q)
    <3> HIDE DEF new, now
    <3> QED
      BY <2>2, <2>3 DEF Plan, Updates
  <2>5. CASE LastActiveAdmin(u, new)
    BY <2>1, <2>5, RefuseInv
  <2>6. CASE ~LastActiveAdmin(u, new)
    <3> HIDE DEF new
    <3>1. UpdateCurrent(q)
      BY <2>6 DEF UpdateCurrent, LastActiveAdmin
    <3> QED
      BY <2>1, <2>4, <2>6, <3>1, LoadInv DEF new
  <2> QED
    BY <2>5, <2>6
<1>5. ASSUME NEW r \in Requests, NEW u \in Usernames, SetPassword(r, u)
      PROVE  AccountsInv'
  <2> DEFINE now == accounts[u]
             new == [now EXCEPT !.secret = r]
             q == [pc |-> "loaded", kind |-> "password", about |-> u,
                   snap |-> {now}, want |-> {new}]
  <2>1. Load(r, "password", u, {now}, {new})
    BY <1>5 DEF SetPassword
  <2>2. Known(u) /\ IsAccount(now)
    BY <1>5 DEF SetPassword, Known, AccountsInv, AccountsTyped
  <2>3. /\ IsAccount(new) /\ new.by = now.by /\ new.first = now.first
        /\ new.role = now.role /\ new.active = now.active
    BY <2>2 DEF IsAccount
  <2>4. Plan(q)
    <3> HIDE DEF new, now
    <3> QED
      BY <2>2, <2>3 DEF Plan, Updates
  <2> QED
    BY <2>1, <2>4, LoadInv
<1>6. ASSUME NEW r \in Requests, InsertRefused(r)
      PROVE  AccountsInv'
  BY <1>6, AnsweredInv DEF InsertRefused
<1>7. ASSUME NEW u \in Usernames, Login(u) \/ TokenExpires(u)
      PROVE  AccountsInv'
  <2>1. UNCHANGED <<accounts, req, overlapped>>
    BY <1>7 DEF Login, TokenExpires
  <2> QED
    BY <2>1, AccountsFrame
<1> QED
  BY <1>1, <1>2, <1>3, <1>4, <1>5, <1>6, <1>7, CommitInv DEF AccountStep

\* A request of an admin about API keys uses up a request of the model, and
\* nothing of an account.
LEMMA KeyRequestInv ==
    ASSUME AccountsInv, KeyRequest
    PROVE  AccountsInv'
<1>1. PICK r \in Requests, k \in Keys : CreateApiKey(r, k) \/ RevokeApiKey(r, k)
  BY DEF KeyRequest
<1>2. req[r].pc = "idle" /\ req[r] = Waiting
  BY <1>1 DEF CreateApiKey, RevokeApiKey, AccountsInv, AccountsTyped
<1>3. req' = [req EXCEPT ![r] = [Waiting EXCEPT !.pc = "done"]]
  BY <1>1, <1>2 DEF CreateApiKey, RevokeApiKey
<1> QED
  BY <1>1, <1>2, <1>3, AnsweredInv DEF CreateApiKey, RevokeApiKey

\* AccountsInv is an invariant of the accounts and the gate together.
THEOREM AccountsInvariance == Spec => []AccountsInv
<1>1. Init => AccountsInv
  BY AccountsStart DEF Init
<1>2. AccountsInv /\ [Next]_vars => AccountsInv'
  <2> SUFFICES ASSUME AccountsInv, [Next]_vars PROVE AccountsInv'
    OBVIOUS
  <2>1. CASE AccountStep
    BY <2>1, AccountStepInv
  <2>2. CASE UNCHANGED accountVars
    BY <2>2, AccountsFrame DEF accountVars
  <2>3. CASE KeyRequest
    BY <2>3, KeyRequestInv
  <2>4. CASE \E u \in Usernames : Login(u)
    BY <2>4, AccountStepInv DEF AccountStep
  <2>5. CASE UNCHANGED vars
    BY <2>5, AccountsFrame DEF vars, accountVars
  <2> QED
    BY <2>1, <2>2, <2>3, <2>4, <2>5 DEF Next
<1> QED
  BY <1>1, <1>2, PTL DEF Spec

\* A set has at most one element if any two of its elements are equal.
LEMMA AtMostOne ==
    ASSUME NEW S, \A x, y \in S : x = y
    PROVE  IsFiniteSet(S) /\ Cardinality(S) <= 1
<1>1. CASE S = {}
  BY <1>1, FS_EmptySet
<1>2. CASE S # {}
  <2>1. PICK x : S = {x}
    BY <1>2
  <2>2. IsFiniteSet(S) /\ Cardinality(S) = 1
    BY <2>1, FS_Singleton, Zenon
  <2> QED
    BY <2>2
<1> QED
  BY <1>1, <1>2

\* _assert_not_last_active_admin and bootstrap_local_admin: whatever the
\* accounts and the requests, once there is an admin an active one remains,
\* and the bootstrap command succeeds at most once, unless two requests
\* that may change who is admin were open at once.
THEOREM AdminsRemain == Spec => []LastAdminKept
<1>1. AccountsInv => LastAdminKept
  <2> SUFFICES ASSUME AccountsInv, ~overlapped
               PROVE  /\ Founded => ActiveAdmins # {}
                      /\ Cardinality({r \in Requests : req[r].kind = "bootstrap" /\ req[r].pc = "done"}) <= 1
    BY DEF LastAdminKept
  <2>1. OneAtATime
    BY DEF AccountsInv
  <2>2. \A r, s \in {q \in Requests : req[q].kind = "bootstrap" /\ req[q].pc = "done"} : r = s
    BY <2>1 DEF OneAtATime, Bootstrapped
  <2> QED
    BY <2>1, <2>2, AtMostOne DEF OneAtATime
<1> QED
  BY <1>1, AccountsInvariance, PTL

-----------------------------------------------------------------------------
(* The inductive invariant of the gate.                                    *)

KeyRow == [active : BOOLEAN, expired : BOOLEAN, used : BOOLEAN]

HookState == [pc : {"idle", "limited", "arrived", "checked", "admitted", "refused"},
              sent : SUBSET Keys, snap : SUBSET KeyRow, at : Nat, on : SUBSET Buckets]

GateTyped ==
    /\ keys \in [DOMAIN keys -> KeyRow] /\ DOMAIN keys \subseteq Keys
    /\ bucket \in [Buckets -> Seq(Nat)]
    /\ hook \in [Hooks -> HookState]
    /\ time \in Nat

\* The requests that bucket b let through after second t, and its entries of
\* that time.
After(b, t) == {h \in Hooks : b \in hook[h].on /\ hook[h].at > t}
Entries(b, t) == {i \in DOMAIN bucket[b] : bucket[b][i] > t}

Within(b, end) == {h \in Hooks : b \in hook[h].on /\ hook[h].at \in (end - Window + 1) .. end}

\* A bucket lists the requests let through in the current window, and maybe
\* older ones, in their order; no window has too many.
Counted(b) ==
    /\ IsFiniteSet({h \in Hooks : b \in hook[h].on})
    /\ \A i, j \in DOMAIN bucket[b] : i <= j => bucket[b][i] <= bucket[b][j]
    /\ \A i \in DOMAIN bucket[b] : bucket[b][i] <= time
    /\ \A t \in Int : t >= time - Window => Cardinality(After(b, t)) = Cardinality(Entries(b, t))
    /\ \A end \in Int : Cardinality(Within(b, end)) <= MaxRequests

GateInv ==
    /\ GateTyped
    /\ \A h \in Hooks : hook[h].pc = "idle" => hook[h] = Unsent
    /\ \A h \in Hooks : hook[h].at <= time
    /\ \A b \in Buckets : Counted(b)

-----------------------------------------------------------------------------
(* The steps of the gate.                                                  *)

\* The length of an interval, an empty one included.
LEMMA IntervalLength ==
    \A a, b \in Int : a <= b + 1 => IsFiniteSet(a .. b) /\ Cardinality(a .. b) = b - a + 1
<1> TAKE a, b \in Int
<1> HAVE a <= b + 1
<1>1. IsFiniteSet(a .. b) /\ Cardinality(a .. b) = IF a > b THEN 0 ELSE b - a + 1
  BY FS_Interval
<1> QED
  BY <1>1

\* In a bucket, which is in order, the entries after a second are the last.
LEMMA NewestLast ==
    ASSUME NEW n \in Nat, NEW times \in [1 .. n -> Nat], NEW t \in Int,
           \A i, j \in 1 .. n : i <= j => times[i] <= times[j]
    PROVE  LET later == {i \in 1 .. n : times[i] > t}
           IN  /\ Cardinality(later) \in 0 .. n
               /\ later = (n - Cardinality(later) + 1) .. n
<1> DEFINE later == {i \in 1 .. n : times[i] > t}
           k == Cardinality(later)
<1>1. IsFiniteSet(1 .. n) /\ Cardinality(1 .. n) = n
  BY FS_Interval
<1>2. IsFiniteSet(later) /\ k \in 0 .. n
  <2>1. later \in SUBSET (1 .. n)
    OBVIOUS
  <2> QED
    BY <1>1, <2>1, FS_Subset, FS_CardinalityType
<1>3. later \subseteq (n - k + 1) .. n
  <2> SUFFICES ASSUME NEW i \in later PROVE i \in (n - k + 1) .. n
    OBVIOUS
  <2>1. (i .. n) \in SUBSET later
    <3> SUFFICES ASSUME NEW j \in i .. n PROVE j \in later
      OBVIOUS
    <3>1. i \in 1 .. n /\ j \in 1 .. n /\ times[i] > t /\ times[i] \in Nat /\ times[j] \in Nat
      OBVIOUS
    <3>2. times[i] <= times[j]
      BY <3>1
    <3> QED
      BY <3>1, <3>2
  <2>2. i \in Int /\ i <= n /\ Cardinality(i .. n) = n - i + 1
    <3>1. i \in Int /\ i <= n
      OBVIOUS
    <3> QED
      BY <3>1, FS_Interval
  <2>3. n - i + 1 <= k
    BY <1>2, <2>1, <2>2, FS_Subset
  <2> HIDE DEF k
  <2> QED
    BY <1>2, <2>2, <2>3
<1>4. IsFiniteSet((n - k + 1) .. n) /\ Cardinality((n - k + 1) .. n) = k
  <2> HIDE DEF later, k
  <2>1. n - k + 1 \in Int /\ n \in Int /\ n - k + 1 <= n + 1 /\ n - (n - k + 1) + 1 = k
    BY <1>2
  <2> QED
    BY <2>1, IntervalLength
<1> HIDE DEF later
<1> QED
  BY <1>2, <1>3, <1>4, FS_Subset DEF later

\* What pruning leaves of an ordered bucket: its last entries, as many of
\* every second of the window as before.
LEMMA RecentFacts ==
    ASSUME NEW times \in Seq(Nat), time \in Nat,
           \A i, j \in DOMAIN times : i <= j => times[i] <= times[j]
    PROVE  LET recent == Recent(times)
           IN  /\ recent \in Seq(Nat)
               /\ \A i, j \in DOMAIN recent : i <= j => recent[i] <= recent[j]
               /\ \A i \in DOMAIN recent : \E j \in DOMAIN times : recent[i] = times[j]
               /\ Len(recent) = Cardinality({i \in DOMAIN recent : recent[i] > time - Window})
               /\ \A t \in Int : t >= time - Window =>
                     Cardinality({i \in DOMAIN recent : recent[i] > t})
                       = Cardinality({i \in DOMAIN times : times[i] > t})
<1> DEFINE n == Len(times)
           later(t) == {i \in 1 .. n : times[i] > t}
           k(t) == Cardinality(later(t))
           w == time - Window
           recent == Recent(times)
<1>1. n \in Nat /\ DOMAIN times = 1 .. n /\ times \in [1 .. n -> Nat] /\ Cardinality(1 .. n) = n
  <2>1. n \in Nat /\ DOMAIN times = 1 .. n /\ times \in [1 .. n -> Nat]
    OBVIOUS
  <2> HIDE DEF n
  <2>2. Cardinality(1 .. n) = n
    BY <2>1, IntervalLength
  <2> QED
    BY <2>1, <2>2
<1>w. w \in Int
  BY GateAssumption
<1>2. \A t \in Int : k(t) \in 0 .. n /\ later(t) = (n - k(t) + 1) .. n
  BY <1>1, NewestLast
<1> DEFINE c == k(w)
<1>3. recent = [i \in 1 .. c |-> times[n - c + i]]
  BY <1>1 DEF Recent
<1>4. c \in 0 .. n
  BY <1>2, <1>w
<1> HIDE DEF n, k, w, c, recent
<1>5. recent \in [1 .. c -> Nat] /\ recent \in Seq(Nat) /\ Len(recent) = c /\ DOMAIN recent = 1 .. c
  BY <1>1, <1>3, <1>4
<1>6. \A i \in 1 .. c : n - c + i \in 1 .. n /\ recent[i] = times[n - c + i]
  BY <1>1, <1>3, <1>4
<1>7. \A i, j \in 1 .. c : i <= j => recent[i] <= recent[j]
  BY <1>1, <1>4, <1>6
<1>8. ASSUME NEW t \in Int, t >= w
      PROVE  Cardinality({i \in 1 .. c : recent[i] > t}) = k(t)
  <2>1. k(t) \in 0 .. n /\ later(t) = (n - k(t) + 1) .. n
    BY <1>2
  <2>2. k(t) <= c
    <3>1. later(t) \in SUBSET later(w)
      BY <1>1, <1>8, <1>w
    <3>2. IsFiniteSet(later(w))
      <4>1. IsFiniteSet(1 .. n) /\ later(w) \in SUBSET (1 .. n)
        BY <1>1, FS_Interval
      <4> QED
        BY <4>1, FS_Subset
    <3> HIDE DEF later
    <3> QED
      BY <3>1, <3>2, FS_Subset DEF k, c
  <2>3. {i \in 1 .. c : recent[i] > t} = (c - k(t) + 1) .. c
    <3>1. \A i \in 1 .. c : recent[i] > t <=> n - c + i \in later(t)
      BY <1>6
    <3> HIDE DEF later
    <3> QED
      BY <1>1, <1>4, <2>1, <2>2, <3>1, SMTT(30)
  <2>4. /\ c - k(t) + 1 \in Int /\ c \in Int /\ c - k(t) + 1 <= c + 1
        /\ c - (c - k(t) + 1) + 1 = k(t)
    BY <1>1, <1>4, <2>1, <2>2
  <2>5. Cardinality((c - k(t) + 1) .. c) = k(t)
    BY <2>4, IntervalLength
  <2> QED
    BY <2>3, <2>5
<1>9. Len(recent) = Cardinality({i \in DOMAIN recent : recent[i] > w})
  BY <1>5, <1>8, <1>w DEF c
<1> QED
  BY <1>1, <1>5, <1>6, <1>7, <1>8, <1>9 DEF k, w, recent

\* The gate starts with nothing counted.
LEMMA GateStart ==
    ASSUME GateInit
    PROVE  GateInv
<1>0. MaxRequests \in Nat /\ Window \in Nat
  BY GateAssumption
<1>1. keys \in [DOMAIN keys -> KeyRow] /\ DOMAIN keys \subseteq Keys
  BY DEF GateInit, KeyRow, ApiKey
<1>2. bucket \in [Buckets -> Seq(Nat)] /\ time \in Nat /\ hook \in [Hooks -> HookState]
  BY DEF GateInit, HookState, Unsent
<1>3. \A h \in Hooks : hook[h] = Unsent /\ hook[h].at <= time /\ hook[h].on = {}
  BY DEF GateInit, Unsent
<1>4. ASSUME NEW b \in Buckets
      PROVE  Counted(b)
  <2>1. /\ {h \in Hooks : b \in hook[h].on} = {}
        /\ \A t \in Int : After(b, t) = {} /\ Entries(b, t) = {} /\ Within(b, t) = {}
    BY <1>3 DEF GateInit, After, Entries, Within
  <2>2. DOMAIN bucket[b] = {}
    BY DEF GateInit
  <2>3. IsFiniteSet({}) /\ Cardinality({}) = 0
    BY FS_EmptySet, Zenon
  <2>4. \A t \in Int : Cardinality(After(b, t)) = Cardinality(Entries(b, t))
    BY <2>1
  <2>5. \A end \in Int : Cardinality(Within(b, end)) <= MaxRequests
    <3>1. \A end \in Int : Cardinality(Within(b, end)) = 0
      BY <2>1, <2>3
    <3> QED
      BY <1>0, <3>1
  <2> QED
    BY <2>1, <2>2, <2>3, <2>4, <2>5 DEF Counted
<1> QED
  BY <1>1, <1>2, <1>3, <1>4 DEF GateInv, GateTyped

\* What a bucket counts depends on it, the clock and who was let through.
LEMMA CountedFrame ==
    ASSUME NEW b \in Buckets, Counted(b), bucket'[b] = bucket[b], time' = time,
           \A h \in Hooks : b \in hook'[h].on <=> b \in hook[h].on,
           \A h \in Hooks : b \in hook[h].on => hook'[h].at = hook[h].at
    PROVE  Counted(b)'
<1>1. /\ {h \in Hooks : b \in hook'[h].on} = {h \in Hooks : b \in hook[h].on}
      /\ \A t \in Int : /\ After(b, t)' = After(b, t)
                        /\ Entries(b, t)' = Entries(b, t)
                        /\ Within(b, t)' = Within(b, t)
  BY DEF After, Entries, Within
<1> QED
  BY <1>1 DEF Counted

\* An arriving request that the limiter turns away only prunes the bucket.
LEMMA LimitedInv ==
    ASSUME GateInv, NEW h \in Hooks, NEW b \in Buckets, hook[h].pc = "idle",
           bucket' = [bucket EXCEPT ![b] = Recent(bucket[b])],
           hook' = [hook EXCEPT ![h].pc = "limited"], UNCHANGED <<keys, time>>
    PROVE  GateInv'
<1> DEFINE recent == Recent(bucket[b])
<1>1. /\ hook[h] = Unsent /\ hook'[h] = [Unsent EXCEPT !.pc = "limited"]
      /\ \A g \in Hooks \ {h} : hook'[g] = hook[g]
      /\ hook' \in [Hooks -> HookState]
  <2>1. hook[h] = Unsent /\ hook \in [Hooks -> HookState]
    BY DEF GateInv, GateTyped
  <2> QED
    BY <2>1 DEF HookState
<1>2. \A g \in Hooks : hook'[g].on = hook[g].on /\ hook'[g].at = hook[g].at
  BY <1>1 DEF Unsent
<1>3. /\ recent \in Seq(Nat)
      /\ \A i, j \in DOMAIN recent : i <= j => recent[i] <= recent[j]
      /\ \A i \in DOMAIN recent : \E j \in DOMAIN bucket[b] : recent[i] = bucket[b][j]
      /\ \A t \in Int : t >= time - Window =>
            Cardinality({i \in DOMAIN recent : recent[i] > t}) = Cardinality(Entries(b, t))
  BY RecentFacts DEF GateInv, GateTyped, Counted, Entries
<1> HIDE DEF recent
<1>4. /\ bucket' \in [Buckets -> Seq(Nat)] /\ bucket'[b] = recent
      /\ \A q \in Buckets \ {b} : bucket'[q] = bucket[q]
  BY <1>3 DEF GateInv, GateTyped, recent
<1>5. GateTyped'
  BY <1>1, <1>4 DEF GateInv, GateTyped
<1>6. Counted(b)'
  <2>1. /\ {g \in Hooks : b \in hook'[g].on} = {g \in Hooks : b \in hook[g].on}
        /\ \A t \in Int : After(b, t)' = After(b, t) /\ Within(b, t)' = Within(b, t)
    BY <1>2 DEF After, Within
  <2>2. \A i \in DOMAIN bucket'[b] : bucket'[b][i] <= time'
    BY <1>3, <1>4, ZenonT(60) DEF GateInv, Counted
  <2>3. \A t \in Int : t >= time - Window => Cardinality(Entries(b, t))' = Cardinality(Entries(b, t))
    BY <1>3, <1>4 DEF Entries
  <2> QED
    BY <1>3, <1>4, <2>1, <2>2, <2>3, ZenonT(60) DEF GateInv, Counted
<1>7. \A q \in Buckets \ {b} : Counted(q)'
  BY <1>2, <1>4, CountedFrame DEF GateInv
<1>8. \A g \in Hooks : /\ hook'[g].pc = "idle" => hook'[g] = Unsent
                       /\ hook'[g].at <= time'
  BY <1>1, <1>2 DEF GateInv, Unsent
<1> QED
  BY <1>5, <1>6, <1>7, <1>8 DEF GateInv

\* A bucket that is not full is short.
LEMMA NotFull ==
    ASSUME NEW times \in Seq(Nat), ~Full(times)
    PROVE  Len(times) < MaxRequests
<1>1. Len(times) \in Nat /\ DOMAIN times = 1 .. Len(times)
  OBVIOUS
<1>2. Cardinality(1 .. Len(times)) = Len(times)
  BY <1>1, IntervalLength
<1>3. MaxRequests \in Nat
  BY GateAssumption
<1> QED
  BY <1>1, <1>2, <1>3 DEF Full

\* The record of a request that was let through.
LEMMA Arrived ==
    ASSUME NEW sent, NEW t, NEW b
    PROVE  [Unsent EXCEPT !.pc = "arrived", !.sent = sent, !.at = t, !.on = {b}]
             = [pc |-> "arrived", sent |-> sent, snap |-> {}, at |-> t, on |-> {b}]
<1> DEFINE a == [Unsent EXCEPT !.pc = "arrived"]
           d == [a EXCEPT !.sent = sent]
           e == [d EXCEPT !.at = t]
<1>1. Unsent = [pc |-> "idle", sent |-> {}, snap |-> {}, at |-> 0, on |-> {}]
  BY DEF Unsent
<1>2. a = [pc |-> "arrived", sent |-> {}, snap |-> {}, at |-> 0, on |-> {}]
  BY <1>1
<1>3. [Unsent EXCEPT !.pc = "arrived", !.sent = sent, !.at = t, !.on = {b}] = [e EXCEPT !.on = {b}]
  OBVIOUS
<1> HIDE DEF a
<1>4. d = [pc |-> "arrived", sent |-> sent, snap |-> {}, at |-> 0, on |-> {}]
  BY <1>2
<1> HIDE DEF d
<1>5. e = [pc |-> "arrived", sent |-> sent, snap |-> {}, at |-> t, on |-> {}]
  BY <1>4
<1> HIDE DEF e
<1> QED
  BY <1>3, <1>5

\* A request that the limiter lets through finds fewer than MaxRequests of
\* its client in the window that ends now.
LEMMA LetThroughInv ==
    ASSUME GateInv, NEW h \in Hooks, NEW b \in Buckets, hook[h].pc = "idle",
           NEW sent \in SUBSET Keys, ~Full(Recent(bucket[b])),
           bucket' = [bucket EXCEPT ![b] = Append(Recent(bucket[b]), time)],
           hook' = [hook EXCEPT ![h] = [Unsent EXCEPT !.pc = "arrived", !.sent = sent,
                                                      !.at = time, !.on = {b}]],
           UNCHANGED <<keys, time>>
    PROVE  GateInv'
<1> DEFINE recent == Recent(bucket[b])
           c == Len(recent)
           w == time - Window
<1>0. /\ hook[h] = Unsent /\ hook \in [Hooks -> HookState] /\ time \in Nat /\ w \in Int
      /\ MaxRequests \in Nat /\ Window \in Nat
  BY GateAssumption DEF GateInv, GateTyped
<1>1. /\ hook'[h].pc = "arrived" /\ hook'[h].on = {b} /\ hook'[h].at = time
      /\ \A g \in Hooks \ {h} : hook'[g] = hook[g]
      /\ hook[h].on = {}
      /\ hook' \in [Hooks -> HookState]
  <2> DEFINE new == [Unsent EXCEPT !.pc = "arrived", !.sent = sent, !.at = time, !.on = {b}]
  <2>1. new = [pc |-> "arrived", sent |-> sent, snap |-> {}, at |-> time, on |-> {b}]
    BY Arrived
  <2>2. hook' = [hook EXCEPT ![h] = new]
    OBVIOUS
  <2> HIDE DEF new
  <2>3. new \in HookState /\ new.pc = "arrived" /\ new.on = {b} /\ new.at = time
    BY <1>0, <2>1 DEF HookState
  <2>4. hook[h].on = {}
    BY <1>0 DEF Unsent
  <2> QED
    BY <1>0, <2>2, <2>3, <2>4
<1>2. /\ recent \in Seq(Nat) /\ c \in Nat /\ DOMAIN recent = 1 .. c
      /\ \A i, j \in DOMAIN recent : i <= j => recent[i] <= recent[j]
      /\ \A i \in DOMAIN recent : recent[i] \in Nat /\ recent[i] <= time
      /\ c = Cardinality(Entries(b, w))
      /\ \A t \in Int : t >= w =>
            Cardinality({i \in 1 .. c : recent[i] > t}) = Cardinality(Entries(b, t))
  <2>1. /\ recent \in Seq(Nat)
        /\ \A i, j \in DOMAIN recent : i <= j => recent[i] <= recent[j]
        /\ \A i \in DOMAIN recent : \E j \in DOMAIN bucket[b] : recent[i] = bucket[b][j]
        /\ c = Cardinality({i \in DOMAIN recent : recent[i] > w})
        /\ \A t \in Int : t >= w =>
              Cardinality({i \in DOMAIN recent : recent[i] > t}) = Cardinality(Entries(b, t))
    BY RecentFacts DEF GateInv, GateTyped, Counted, Entries
  <2>2. \A i \in DOMAIN recent : recent[i] <= time
    BY <2>1 DEF GateInv, Counted
  <2> HIDE DEF recent
  <2>3. c \in Nat /\ DOMAIN recent = 1 .. c /\ \A i \in DOMAIN recent : recent[i] \in Nat
    BY <2>1
  <2>4. \A t \in Int : {i \in DOMAIN recent : recent[i] > t} = {i \in 1 .. c : recent[i] > t}
    BY <2>3
  <2>5. c = Cardinality(Entries(b, w))
    BY <1>0, <2>1
  <2> HIDE DEF c, w
  <2> QED
    BY <2>1, <2>2, <2>3, <2>4, <2>5
<1> HIDE DEF recent, w
<1>3. c < MaxRequests
  BY <1>2, NotFull DEF recent
<1> HIDE DEF c
<1>4. /\ bucket' \in [Buckets -> Seq(Nat)] /\ bucket'[b] = Append(recent, time)
      /\ \A q \in Buckets \ {b} : bucket'[q] = bucket[q]
      /\ DOMAIN bucket'[b] = 1 .. (c + 1) /\ bucket'[b][c + 1] = time
      /\ \A i \in 1 .. c : bucket'[b][i] = recent[i]
  <2>1. Append(recent, time) \in Seq(Nat)
    BY <1>0, <1>2
  <2>2. bucket' \in [Buckets -> Seq(Nat)] /\ bucket'[b] = Append(recent, time)
          /\ \A q \in Buckets \ {b} : bucket'[q] = bucket[q]
    BY <2>1 DEF GateInv, GateTyped, recent
  <2> QED
    BY <1>0, <1>2, <2>2 DEF c
<1>5. GateTyped'
  BY <1>1, <1>4 DEF GateInv, GateTyped
<1>6. Counted(b)'
  <2>0. /\ IsFiniteSet({g \in Hooks : b \in hook[g].on})
        /\ \A t \in Int : t >= w => Cardinality(After(b, t)) = Cardinality(Entries(b, t))
        /\ \A end \in Int : Cardinality(Within(b, end)) <= MaxRequests
    BY DEF GateInv, Counted, w
  <2>1. IsFiniteSet({g \in Hooks : b \in hook'[g].on})
    <3> DEFINE old == {g \in Hooks : b \in hook[g].on}
    <3>1. {g \in Hooks : b \in hook'[g].on} = old \cup {h}
      BY <1>1
    <3>2. IsFiniteSet(old)
      BY <2>0
    <3> HIDE DEF old
    <3> QED
      BY <3>1, <3>2, FS_AddElement
  <2>2. /\ \A i, j \in DOMAIN bucket'[b] : i <= j => bucket'[b][i] <= bucket'[b][j]
        /\ \A i \in DOMAIN bucket'[b] : bucket'[b][i] <= time'
    <3> DEFINE new == bucket'[b]
    <3>1. /\ DOMAIN new = 1 .. (c + 1) /\ new[c + 1] = time
          /\ \A i \in 1 .. c : new[i] = recent[i] /\ recent[i] \in Nat /\ recent[i] <= time
          /\ \A i, j \in 1 .. c : i <= j => recent[i] <= recent[j]
      BY <1>2, <1>4
    <3> HIDE DEF new
    <3>2. \A i, j \in DOMAIN new : i <= j => new[i] <= new[j]
      BY <1>0, <1>2, <3>1
    <3>3. \A i \in DOMAIN new : new[i] <= time
      BY <1>0, <1>2, <3>1
    <3>4. time' = time
      OBVIOUS
    <3> USE DEF new
    <3> QED
      BY <3>2, <3>3, <3>4
  <2>f. \A t \in Int : IsFiniteSet(After(b, t)) /\ IsFiniteSet({i \in 1 .. c : recent[i] > t})
    <3> TAKE t \in Int
    <3>1. After(b, t) \in SUBSET {g \in Hooks : b \in hook[g].on}
      BY DEF After
    <3>2. IsFiniteSet(1 .. c) /\ {i \in 1 .. c : recent[i] > t} \in SUBSET (1 .. c)
      BY <1>2, FS_Interval
    <3> QED
      BY <2>0, <3>1, <3>2, FS_Subset
  <2>3. ASSUME NEW t \in Int, t >= w
        PROVE  Cardinality(After(b, t)') = Cardinality(Entries(b, t)')
    <3>1. CASE t < time
      <4> DEFINE old == {i \in 1 .. c : recent[i] > t}
      <4>1. After(b, t)' = After(b, t) \cup {h} /\ h \notin After(b, t)
        BY <1>0, <1>1, <3>1 DEF After
      <4>2. Entries(b, t)' = old \cup {c + 1} /\ c + 1 \notin old
        BY <1>0, <1>2, <1>4, <3>1, SMTT(30) DEF Entries
      <4>3. Cardinality(old) = Cardinality(After(b, t))
        BY <1>2, <2>0, <2>3
      <4> HIDE DEF old
      <4>4. /\ Cardinality(After(b, t) \cup {h}) = Cardinality(After(b, t)) + 1
            /\ Cardinality(old \cup {c + 1}) = Cardinality(old) + 1
        BY <2>f, <4>1, <4>2, FS_AddElement DEF old
      <4> QED
        BY <4>1, <4>2, <4>3, <4>4
    <3>2. CASE ~(t < time)
      <4>1. \A g \in Hooks : hook'[g].at <= time /\ hook'[g].at \in Nat
        BY <1>0, <1>1 DEF GateInv, HookState
      <4>2. After(b, t)' = {}
        BY <1>0, <3>2, <4>1 DEF After
      <4>3. Entries(b, t)' = {}
        BY <1>0, <1>2, <1>4, <3>2, SMTT(30) DEF Entries
      <4> QED
        BY <4>2, <4>3
    <3> QED
      BY <3>1, <3>2
  <2>4. ASSUME NEW end \in Int
        PROVE  Cardinality(Within(b, end)') <= MaxRequests
    <3>1. CASE time \in (end - Window + 1) .. end
      <4>1. Within(b, end)' \in SUBSET (After(b, w) \cup {h})
        BY <1>0, <1>1, <3>1 DEF Within, After, w, HookState
      <4>2. Cardinality(After(b, w)) = c
        BY <1>0, <1>2, <2>0
      <4>3. /\ IsFiniteSet(After(b, w) \cup {h})
            /\ Cardinality(After(b, w) \cup {h}) \in Nat
            /\ Cardinality(After(b, w) \cup {h}) <= c + 1
        <5>1. IsFiniteSet(After(b, w))
          BY <1>0, <2>f
        <5>2. /\ IsFiniteSet(After(b, w) \cup {h})
              /\ \/ Cardinality(After(b, w) \cup {h}) = Cardinality(After(b, w))
                 \/ Cardinality(After(b, w) \cup {h}) = Cardinality(After(b, w)) + 1
          BY <5>1, FS_AddElement
        <5> QED
          BY <1>2, <4>2, <5>2
      <4>4. /\ IsFiniteSet(Within(b, end)')
            /\ Cardinality(Within(b, end)') <= Cardinality(After(b, w) \cup {h})
        BY <4>1, <4>3, FS_Subset
      <4>5. Cardinality(Within(b, end)') \in Nat
        BY <4>4, FS_CardinalityType
      <4> QED
        BY <1>0, <1>2, <1>3, <4>3, <4>4, <4>5
    <3>2. CASE time \notin (end - Window + 1) .. end
      <4>1. Within(b, end)' = Within(b, end)
        BY <1>1, <3>2 DEF Within
      <4> QED
        BY <2>0, <4>1
    <3> QED
      BY <3>1, <3>2
  <2> QED
    BY <2>1, <2>2, <2>3, <2>4 DEF Counted, w
<1>7. \A q \in Buckets \ {b} : Counted(q)'
  <2>1. \A g \in Hooks : hook'[g].on \ {b} = hook[g].on \ {b}
    BY <1>1
  <2>2. \A q \in Buckets \ {b} : \A g \in Hooks :
            /\ q \in hook'[g].on <=> q \in hook[g].on
            /\ q \in hook[g].on => hook'[g].at = hook[g].at
    <3> TAKE q \in Buckets \ {b}
    <3> TAKE g \in Hooks
    <3>1. CASE g = h
      BY <1>1, <3>1
    <3>2. CASE g # h
      BY <1>1, <3>2
    <3> QED
      BY <3>1, <3>2
  <2> QED
    BY <1>4, <2>2, CountedFrame DEF GateInv
<1>8. \A g \in Hooks : /\ hook'[g].pc = "idle" => hook'[g] = Unsent
                       /\ hook'[g].at <= time'
  BY <1>0, <1>1 DEF GateInv
<1> QED
  BY <1>5, <1>6, <1>7, <1>8 DEF GateInv

\* A request of the limiter, either way.
LEMMA LimitInv ==
    ASSUME GateInv, NEW h \in Hooks, NEW b \in Buckets, NEW sent \in SUBSET Keys,
           hook[h].pc = "idle", Limit(h, b, sent), UNCHANGED <<keys, time>>
    PROVE  GateInv'
<1> DEFINE recent == Recent(bucket[b])
<1>1. IF Full(recent)
      THEN /\ bucket' = [bucket EXCEPT ![b] = recent]
           /\ hook' = [hook EXCEPT ![h].pc = "limited"]
      ELSE /\ bucket' = [bucket EXCEPT ![b] = Append(recent, time)]
           /\ hook' = [hook EXCEPT ![h] = [Unsent EXCEPT
                         !.pc = "arrived", !.sent = sent, !.at = time, !.on = {b}]]
  BY Zenon DEF Limit
<1> HIDE DEF recent
<1>3. CASE Full(recent)
  BY <1>1, <1>3, LimitedInv DEF recent
<1>4. CASE ~Full(recent)
  BY <1>1, <1>4, LetThroughInv DEF recent
<1> QED
  BY <1>3, <1>4

\* A request comes to the bucket of what it shows, in the process it reaches.
LEMMA ArriveInv ==
    ASSUME GateInv, NEW h \in Hooks, NEW p \in Procs, Arrive(h, p)
    PROVE  GateInv'
<1>1. PICK s \in Senders : Limit(h, <<p, s.client>>, s.sent)
  BY DEF Arrive
<1>2. s.sent \in SUBSET Keys
  BY DEF Senders
<1>3. <<p, s.client>> \in Buckets
  BY DEF Buckets
<1> QED
  BY <1>1, <1>2, <1>3, LimitInv DEF Arrive

\* A request that was let through goes on; who was let through stays.
LEMMA CheckedInv ==
    ASSUME GateInv, NEW h \in Hooks, NoKeySent(h) \/ CheckKey(h) \/ StampKey(h)
    PROVE  GateInv'
<1>0. hook \in [Hooks -> HookState] /\ keys \in [DOMAIN keys -> KeyRow] /\ DOMAIN keys \subseteq Keys
  BY DEF GateInv, GateTyped
<1>1. \E pc \in {"admitted", "refused", "checked"}, snap \in SUBSET KeyRow :
         hook' = [hook EXCEPT ![h].pc = pc, ![h].snap = snap]
  <2>1. CASE NoKeySent(h)
    <3>1. hook' = [hook EXCEPT ![h].pc = IF ActiveKeys = {} THEN "admitted" ELSE "refused",
                               ![h].snap = hook[h].snap]
      BY <1>0, <2>1 DEF NoKeySent, HookState
    <3> QED
      BY <1>0, <3>1 DEF HookState
  <2>2. CASE CheckKey(h)
    <3>1. ASSUME hook' = [hook EXCEPT ![h].pc = "refused"]
          PROVE  hook' = [hook EXCEPT ![h].pc = "refused", ![h].snap = hook[h].snap]
      BY <1>0, <3>1 DEF HookState
    <3>2. ASSUME \A k \in hook[h].sent : k \in ActiveKeys
          PROVE  {keys[k] : k \in hook[h].sent} \in SUBSET KeyRow
      BY <1>0, <3>2 DEF ActiveKeys
    <3> QED
      BY <1>0, <2>2, <3>1, <3>2 DEF CheckKey, HookState
  <2>3. CASE StampKey(h)
    BY <2>3 DEF StampKey
  <2> QED
    BY <2>1, <2>2, <2>3
<1>2. /\ hook' \in [Hooks -> HookState]
      /\ \A g \in Hooks : hook'[g].on = hook[g].on /\ hook'[g].at = hook[g].at
      /\ \A g \in Hooks \ {h} : hook'[g] = hook[g]
      /\ hook'[h].pc # "idle"
  <2>1. PICK pc \in {"admitted", "refused", "checked"}, snap \in SUBSET KeyRow :
           hook' = [hook EXCEPT ![h].pc = pc, ![h].snap = snap]
    BY <1>1
  <2> DEFINE old == hook[h]
             moved == [old EXCEPT !.pc = pc]
             new == [moved EXCEPT !.snap = snap]
  <2>2. hook' = [hook EXCEPT ![h] = new]
    BY <1>0, <2>1
  <2>3. old \in HookState
    BY <1>0
  <2> HIDE DEF old
  <2>4. moved \in HookState /\ moved.pc = pc /\ moved.on = old.on /\ moved.at = old.at
    BY <2>3 DEF HookState
  <2> HIDE DEF moved
  <2>5. new \in HookState /\ new.pc = pc /\ new.on = old.on /\ new.at = old.at
    BY <2>4 DEF HookState
  <2> HIDE DEF new
  <2> QED
    BY <1>0, <2>2, <2>5 DEF old
<1>3. keys' \in [DOMAIN keys' -> KeyRow] /\ DOMAIN keys' \subseteq Keys
  <2>1. CASE UNCHANGED keys
    BY <1>0, <2>1
  <2>2. CASE keys' = [k \in DOMAIN keys |->
                IF k \in hook[h].sent
                THEN Stamp(keys[k], CHOOSE s \in hook[h].snap : TRUE) ELSE keys[k]]
    <3>1. \A k \in DOMAIN keys : Stamp(keys[k], CHOOSE s \in hook[h].snap : TRUE) \in KeyRow
      BY <1>0 DEF Stamp, KeyRow
    <3> QED
      BY <1>0, <2>2, <3>1
  <2> QED
    BY <2>1, <2>2 DEF NoKeySent, CheckKey, StampKey
<1>4. UNCHANGED <<bucket, time>>
  BY DEF NoKeySent, CheckKey, StampKey
<1>5. \A b \in Buckets : Counted(b)'
  BY <1>2, <1>4, CountedFrame DEF GateInv
<1>6. GateTyped'
  BY <1>2, <1>3, <1>4 DEF GateInv, GateTyped
<1> QED
  BY <1>2, <1>4, <1>5, <1>6 DEF GateInv

\* The API keys change, and nothing the limiter looks at.
LEMMA KeysInv ==
    ASSUME GateInv, UNCHANGED <<bucket, hook, time>>,
           keys' \in [DOMAIN keys' -> KeyRow], DOMAIN keys' \subseteq Keys
    PROVE  GateInv'
<1>1. \A b \in Buckets : Counted(b)'
  BY CountedFrame DEF GateInv
<1> QED
  BY <1>1 DEF GateInv, GateTyped

\* A second passes.
LEMMA SecondInv ==
    ASSUME GateInv, Second
    PROVE  GateInv'
<1>1. time \in Nat /\ time' = time + 1 /\ UNCHANGED <<keys, bucket, hook>> /\ Window \in Nat
  BY GateAssumption DEF GateInv, GateTyped, Second
<1>2. ASSUME NEW b \in Buckets
      PROVE  Counted(b)'
  <2>1. \A t \in Int : /\ After(b, t)' = After(b, t)
                       /\ Entries(b, t)' = Entries(b, t)
                       /\ Within(b, t)' = Within(b, t)
    BY <1>1 DEF After, Entries, Within
  <2>2. \A i \in DOMAIN bucket[b] : bucket[b][i] \in Nat
    BY DEF GateInv, GateTyped
  <2>3. Counted(b)
    BY DEF GateInv
  <2> QED
    BY <1>1, <2>1, <2>2, <2>3 DEF Counted
<1>3. \A h \in Hooks : hook[h].at \in Nat
  BY DEF GateInv, GateTyped, HookState
<1> QED
  BY <1>1, <1>2, <1>3 DEF GateInv, GateTyped

\* GateInv does not look at the accounts.
LEMMA GateFrame ==
    ASSUME GateInv, UNCHANGED gateVars
    PROVE  GateInv'
<1>1. UNCHANGED <<keys, bucket, hook, time>>
  BY DEF gateVars
<1> QED
  BY <1>1, KeysInv DEF GateInv, GateTyped

\* The requests that create or revoke an API key keep the shape of its rows.
LEMMA KeyRequestKeys ==
    ASSUME GateInv, KeyRequest
    PROVE  GateInv'
<1>0. keys \in [DOMAIN keys -> KeyRow] /\ DOMAIN keys \subseteq Keys
  BY DEF GateInv, GateTyped
<1>1. PICK r \in Requests, k \in Keys : CreateApiKey(r, k) \/ RevokeApiKey(r, k)
  BY DEF KeyRequest
<1>2. UNCHANGED <<bucket, hook, time>>
  BY <1>1 DEF CreateApiKey, RevokeApiKey
<1>3. keys' \in [DOMAIN keys' -> KeyRow] /\ DOMAIN keys' \subseteq Keys
  <2>1. CASE CreateApiKey(r, k)
    BY <1>0, <2>1 DEF CreateApiKey, ApiKey, KeyRow
  <2>2. CASE RevokeApiKey(r, k)
    BY <1>0, <2>2 DEF RevokeApiKey, KeyRow
  <2> QED
    BY <1>1, <2>1, <2>2
<1> QED
  BY <1>2, <1>3, KeysInv

\* One lemma above for each step of the gate.
LEMMA GateStepInv ==
    ASSUME GateInv, GateStep
    PROVE  GateInv'
<1>1. ASSUME NEW h \in Hooks, NoKeySent(h) \/ CheckKey(h) \/ StampKey(h)
      PROVE  GateInv'
  BY <1>1, CheckedInv
<1>2. ASSUME NEW h \in Hooks, NEW p \in Procs, Arrive(h, p)
      PROVE  GateInv'
  BY <1>2, ArriveInv
<1>3. ASSUME NEW k \in Keys, KeyExpires(k)
      PROVE  GateInv'
  <2>1. keys' \in [DOMAIN keys' -> KeyRow] /\ DOMAIN keys' \subseteq Keys
    BY <1>3 DEF KeyExpires, GateInv, GateTyped, KeyRow
  <2> QED
    BY <1>3, <2>1, KeysInv DEF KeyExpires
<1> QED
  BY <1>1, <1>2, <1>3, SecondInv DEF GateStep

\* GateInv is an invariant of the accounts and the gate together.
THEOREM GateInvariance == Spec => []GateInv
<1>1. Init => GateInv
  BY GateStart DEF Init
<1>2. GateInv /\ [Next]_vars => GateInv'
  <2> SUFFICES ASSUME GateInv, [Next]_vars PROVE GateInv'
    OBVIOUS
  <2>1. CASE UNCHANGED gateVars
    BY <2>1, GateFrame
  <2>2. CASE GateStep
    BY <2>2, GateStepInv
  <2>3. CASE KeyRequest
    BY <2>3, KeyRequestKeys
  <2>4. CASE UNCHANGED vars
    BY <2>4, GateFrame DEF vars
  <2> QED
    BY <2>1, <2>2, <2>3, <2>4 DEF Next
<1> QED
  BY <1>1, <1>2, PTL DEF Spec

\* RateLimitMiddleware.dispatch: for any limit, window and number of API
\* processes, keys and addresses, no window of Window seconds holds more than
\* MaxRequests requests that one process let through for one client.
THEOREM RateLimited == Spec => []RateBound
<1>1. GateInv => RateBound
  <2> SUFFICES ASSUME GateInv, NEW b \in Buckets, NEW end \in 1 .. MaxTime
               PROVE  Cardinality(Within(b, end)) <= MaxRequests
    BY DEF RateBound, Within
  <2>1. end \in Int
    OBVIOUS
  <2> QED
    BY <2>1 DEF GateInv, Counted
<1> QED
  BY <1>1, GateInvariance, PTL

\* DELETE /api-keys/{} is final: no step of any request, a webhook's write
\* to the row included, makes a revoked key active again.
THEOREM RevokedForGood == Spec => RevokedStays
<1>1. GateInv /\ [Next]_vars => [\A k \in DOMAIN keys : ~keys[k].active => ~keys'[k].active]_vars
  <2> SUFFICES ASSUME GateInv, Next, NEW k \in DOMAIN keys, ~keys[k].active
               PROVE  ~keys'[k].active
    OBVIOUS
  <2>0. keys \in [DOMAIN keys -> KeyRow]
    BY DEF GateInv, GateTyped
  <2>1. CASE UNCHANGED keys
    BY <2>1
  <2>2. ASSUME NEW r \in Requests, NEW j \in Keys, CreateApiKey(r, j)
        PROVE  ~keys'[k].active
    BY <2>2 DEF CreateApiKey
  <2>3. ASSUME NEW r \in Requests, NEW j \in Keys, RevokeApiKey(r, j)
        PROVE  ~keys'[k].active
    BY <2>0, <2>3 DEF RevokeApiKey, KeyRow
  <2>4. ASSUME NEW h \in Hooks, StampKey(h)
        PROVE  ~keys'[k].active
    BY <2>0, <2>4 DEF StampKey, Stamp, KeyRow
  <2>5. ASSUME NEW j \in Keys, KeyExpires(j)
        PROVE  ~keys'[k].active
    BY <2>0, <2>5 DEF KeyExpires, KeyRow
  <2>6. ASSUME NEW h \in Hooks, NoKeySent(h) \/ CheckKey(h) \/ \E p \in Procs : Arrive(h, p)
        PROVE  UNCHANGED keys
    BY <2>6 DEF NoKeySent, CheckKey, Arrive
  <2>7. Second \/ UNCHANGED gateVars => UNCHANGED keys
    BY DEF Second, gateVars
  <2> QED
    BY <2>1, <2>2, <2>3, <2>4, <2>5, <2>6, <2>7 DEF Next, GateStep, KeyRequest
<1> QED
  BY <1>1, GateInvariance, PTL DEF Spec, RevokedStays
=============================================================================
