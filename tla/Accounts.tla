------------------------------- MODULE Accounts -------------------------------
(***************************************************************************)
(* Analyst accounts (api/auth.py, auth/jwt.py, auth/rbac.py,               *)
(* bootstrap_admin.py).  A request authenticates, reads and checks in one  *)
(* step and commits in another; other requests commit in between.          *)
(***************************************************************************)
EXTENDS Integers, FiniteSets

CONSTANTS
    Usernames,
    Requests,       \* requests to /auth, and runs of the bootstrap command
    Seeds,          \* tables of accounts a behaviour may start with
    Registration    \* local_registration_enabled

VARIABLES
    accounts,       \* committed rows of analysts, by username
    tokens,         \* usernames with an access token that is not expired
    req,            \* where a request is
    overlapped      \* two requests that may change who is admin were open at once

accountVars == <<accounts, tokens, req, overlapped>>

\* The roles other than admin differ in permissions, none of which is used here.
Roles == {"admin", "analyst"}

\* A row of analysts.  by: the request that inserted it; first: the role it
\* was inserted with; secret: the request that set its password.
Account(by, role) == [by |-> by, first |-> role, role |-> role, active |-> TRUE, secret |-> by]

IsAccount(a) ==
    /\ a = [by |-> a.by, first |-> a.first, role |-> a.role, active |-> a.active, secret |-> a.secret]
    /\ a.role \in Roles /\ a.active \in BOOLEAN

\* snap and want: the account as loaded and as set; about: its username.
Waiting == [pc |-> "idle", kind |-> "", about |-> "", snap |-> {}, want |-> {}]

\* Where an account was ever inserted as an admin, one admin is active.
ASSUME SeedsAssumption ==
    \A table \in Seeds :
       /\ \A u \in DOMAIN table : IsAccount(table[u])
       /\ (\E u \in DOMAIN table : table[u].first = "admin") =>
             \E u \in DOMAIN table : table[u].role = "admin" /\ table[u].active

AccountsInit ==
    /\ accounts \in Seeds
    /\ tokens = {}
    /\ req = [r \in Requests |-> Waiting]
    /\ overlapped = FALSE

Known(u) == u \in DOMAIN accounts

\* get_current_analyst: an unexpired token of an active account.
SignedIn(u) == Known(u) /\ u \in tokens /\ accounts[u].active

IsAdmin(u) == SignedIn(u) /\ accounts[u].role = "admin"

ActiveAdmins == {u \in DOMAIN accounts : accounts[u].role = "admin" /\ accounts[u].active}

\* A request that may change who is admin, between its checks and its COMMIT.
Rules == {"update", "bootstrap"}
Open(r) == req[r].pc = "loaded" /\ req[r].kind \in Rules

Load(r, kind, u, snap, want) ==
    /\ req[r].pc = "idle"
    /\ req' = [req EXCEPT ![r] = [pc |-> "loaded", kind |-> kind, about |-> u,
                                  snap |-> snap, want |-> want]]
    /\ overlapped' = (overlapped \/ (kind \in Rules /\ \E s \in Requests : Open(s)))
    /\ UNCHANGED <<accounts, tokens>>

Refuse(r) ==
    /\ req[r].pc = "idle"
    /\ req' = [req EXCEPT ![r].pc = "refused"]
    /\ UNCHANGED <<accounts, tokens, overlapped>>

\* SELECT by username, then INSERT: 409 if it is taken.
InsertNew(r, kind, u, role) ==
    IF Known(u) THEN Refuse(r) ELSE Load(r, kind, u, {}, {Account(r, role)})

\* POST /auth/register.
Register(r, u) == Registration /\ InsertNew(r, "register", u, "analyst")

\* POST /auth/analysts.
CreateAnalyst(r, u) ==
    /\ \E admin \in Usernames : IsAdmin(admin)
    /\ \E role \in Roles : InsertNew(r, "create", u, role)

\* bootstrap_local_admin: refused while there is an active admin.
Bootstrap(r, u) ==
    IF ActiveAdmins # {} THEN Refuse(r) ELSE InsertNew(r, "bootstrap", u, "admin")

\* POST /auth/login: passwords are not modelled beyond who set them.
Login(u) ==
    /\ Known(u) /\ accounts[u].active
    /\ tokens' = tokens \cup {u}
    /\ UNCHANGED <<accounts, req, overlapped>>

\* The exp of a token passes.
TokenExpires(u) ==
    /\ u \in tokens
    /\ tokens' = tokens \ {u}
    /\ UNCHANGED <<accounts, req, overlapped>>

\* Mutant: the account itself counts as an admin that remains.
LastActiveAdminSelf(u, after) ==
    /\ accounts[u].role = "admin" /\ ~(after.role = "admin" /\ after.active)
    /\ ActiveAdmins = {}

\* _assert_not_last_active_admin raises.
LastActiveAdmin(u, after) ==
    /\ accounts[u].role = "admin" /\ ~(after.role = "admin" /\ after.active)
    /\ ActiveAdmins \ {u} = {}

\* PATCH /auth/analysts/{}: role, is_active, or both.
UpdateAnalyst(r, u) ==
    /\ Known(u)
    /\ \E admin \in Usernames : IsAdmin(admin)
    /\ \E role \in Roles, active \in BOOLEAN :
          LET now == accounts[u]
              after == [now EXCEPT !.role = role, !.active = active]
          IN  IF LastActiveAdmin(u, after) THEN Refuse(r)
              ELSE Load(r, "update", u, {now}, {after})

\* POST /auth/change-password by the owner, who gives the current one, and
\* POST /auth/analysts/{}/reset-password by an admin, who does not.
SetPassword(r, u) ==
    /\ Known(u)
    /\ SignedIn(u) \/ \E admin \in Usernames : IsAdmin(admin)
    /\ Load(r, "password", u, {accounts[u]}, {[accounts[u] EXCEPT !.secret = r]})

\* The unique constraint on username.
InsertFails(q) == q.snap = {} /\ Known(q.about)

\* The UPDATE writes the columns whose value is not the loaded one.
Written(cur, snap, want) ==
    [f \in DOMAIN cur |-> IF want[f] # snap[f] THEN want[f] ELSE cur[f]]

Stored(q) ==
    LET want == CHOOSE w \in q.want : TRUE
        snap == CHOOSE s \in q.snap : TRUE
    IN  IF q.snap = {} THEN want ELSE Written(accounts[q.about], snap, want)

\* COMMIT; register answers with a token.
CommitAccount(r) ==
    LET q == req[r]
    IN  /\ q.pc = "loaded" /\ ~InsertFails(q)
        /\ accounts' = [u \in DOMAIN accounts \cup {q.about} |->
                          IF u = q.about THEN Stored(q) ELSE accounts[u]]
        /\ tokens' = IF q.kind = "register" THEN tokens \cup {q.about} ELSE tokens
        /\ req' = [req EXCEPT ![r] = [q EXCEPT !.pc = "done", !.snap = {}, !.want = {}]]
        /\ UNCHANGED overlapped

\* IntegrityError: rolled back, 500.
InsertRefused(r) ==
    /\ req[r].pc = "loaded" /\ InsertFails(req[r])
    /\ req' = [req EXCEPT ![r] = [Waiting EXCEPT !.pc = "failed"]]
    /\ UNCHANGED <<accounts, tokens, overlapped>>

AccountStep ==
    \/ \E r \in Requests, u \in Usernames :
          \/ Register(r, u) \/ CreateAnalyst(r, u) \/ Bootstrap(r, u)
          \/ UpdateAnalyst(r, u) \/ SetPassword(r, u)
    \/ \E r \in Requests : CommitAccount(r) \/ InsertRefused(r)
    \/ \E u \in Usernames : Login(u) \/ TokenExpires(u)
=============================================================================
