------------------------------- MODULE Comments -------------------------------
(***************************************************************************)
(* Comments on alerts and incidents: adding and editing them               *)
(* (api/activities.py, and the same in api/incidents.py), the mentions     *)
(* they resolve to (comments/) and the notifications sent after the        *)
(* COMMIT (notifications.py).                                              *)
(***************************************************************************)
EXTENDS CaseRows

CONSTANTS
    Texts,
    Tokens     \* Tokens[t]: usernames parse_mention_tokens finds in text t

VARIABLES
    active,    \* analysts with is_active
    talk,      \* where a call of the comment endpoints is
    notified   \* <<comment, analyst>>: a hook was called for the mention

talkVars == <<active, talk, notified>>

\* first is the text the comment was posted with.
Comment(on, author, text, mentions) ==
    [on |-> on, author |-> author, text |-> text, history |-> <<>>,
     mentions |-> mentions, first |-> text, at |-> now, archived |-> 0]

\* target: the comment written; snap and want: as loaded and as set; left:
\* the analysts still to be notified.
Silent == [pc |-> "idle", target |-> NoRow, snap |-> <<>>, want |-> <<>>, left |-> {}]

TalkInit ==
    /\ active = Analysts
    /\ talk = [w \in Writers |-> Silent]
    /\ notified = {}

\* resolve_mentions: active analysts of that name, each once.
Resolve(text) == Tokens[text] \cap active

\* POST .../comments, up to the COMMIT.
AddComment(w, id) ==
    /\ talk[w].pc = "idle" /\ Found(id)
    /\ \E author \in Analysts, text \in Texts :
          talk' = [talk EXCEPT ![w] = [Silent EXCEPT
             !.pc = "add", !.target = id,
             !.want = Comment(id, author, text, Resolve(text)), !.left = Resolve(text)]]
    /\ UNCHANGED <<caseVars, active, notified>>

\* Mutant: what is kept is the text that was sent.
HistoryAfterNew(snap, text) == IF snap.history = <<>> THEN <<text>> ELSE snap.history

\* The list of earlier texts is extended in place before the column is set:
\* a list that is there already is then equal to the loaded value, and the
\* column is not written.
HistoryAfter(snap, text) == IF snap.history = <<>> THEN <<snap.text>> ELSE snap.history

\* Mutant: the mentions are compared with themselves, after they were set.
NewMentionsNone(snap, text) == Resolve(text) \ Resolve(text)

\* Mentions that the version before the edit did not have.
NewMentions(snap, text) == Resolve(text) \ snap.mentions

\* PATCH .../comments/{}, up to the COMMIT: 403 for anyone but the author.
EditComment(w, v) ==
    /\ talk[w].pc = "idle" /\ v \in DOMAIN comments
    /\ LET snap == comments[v]
       IN  \E who \in Analysts, text \in Texts :
             talk' = [talk EXCEPT ![w] =
               IF who # snap.author THEN [Silent EXCEPT !.pc = "refused"]
               ELSE [Silent EXCEPT
                  !.pc = "edit", !.target = v, !.snap = snap,
                  !.want = [snap EXCEPT !.text = text, !.mentions = Resolve(text),
                                        !.history = HistoryAfter(snap, text)],
                  !.left = NewMentions(snap, text)]]
    /\ UNCHANGED <<caseVars, active, notified>>

\* COMMIT of a new comment; the alert or incident must still be there.
CommitAdd(w) ==
    /\ talk[w].pc = "add" /\ Found(talk[w].target)
    /\ comments' = [v \in DOMAIN comments \cup {w} |->
                      IF v = w THEN talk[w].want ELSE comments[v]]
    /\ talk' = [talk EXCEPT ![w] = [Silent EXCEPT
                  !.pc = "notify", !.target = w, !.left = talk[w].left]]
    /\ UNCHANGED <<rows, links, acts, runs, call, now, active, notified>>

\* COMMIT of an edit: the columns that differ from the loaded ones.
CommitEdit(w) ==
    LET v == talk[w].target
    IN  /\ talk[w].pc = "edit" /\ v \in DOMAIN comments
        /\ comments' = [comments EXCEPT ![v] = Merge(@, talk[w].snap, talk[w].want)]
        /\ talk' = [talk EXCEPT ![w] = [Silent EXCEPT
                      !.pc = "notify", !.target = v, !.left = talk[w].left]]
        /\ UNCHANGED <<rows, links, acts, runs, call, now, active, notified>>

\* Foreign key violation or StaleDataError.
CommentFails(w) ==
    /\ \/ talk[w].pc = "add" /\ ~Found(talk[w].target)
       \/ talk[w].pc = "edit" /\ talk[w].target \notin DOMAIN comments
    /\ talk' = [talk EXCEPT ![w] = [Silent EXCEPT !.pc = "failed"]]
    /\ UNCHANGED <<caseVars, active, notified>>

\* dispatch_mention_notifications calls the hooks, one mention after the other.
Notify(w) ==
    /\ talk[w].pc = "notify"
    /\ \/ \E u \in talk[w].left :
             /\ notified' = notified \cup {<<talk[w].target, u>>}
             /\ talk' = [talk EXCEPT ![w].left = @ \ {u}]
       \/ /\ talk[w].left = {}
          /\ talk' = [talk EXCEPT ![w].pc = "done"]
          /\ UNCHANGED notified
    /\ UNCHANGED <<caseVars, active>>

\* The process dies before it has called all hooks.
DieBeforeNotify(w) ==
    /\ talk[w].pc = "notify" /\ talk[w].left # {}
    /\ talk' = [talk EXCEPT ![w].pc = "died"]
    /\ UNCHANGED <<caseVars, active, notified>>

\* An admin deactivates an analyst or activates one again.
SetActive(u) ==
    /\ active' = IF u \in active THEN active \ {u} ELSE active \cup {u}
    /\ UNCHANGED <<caseVars, talk, notified>>

WriterStep(w) ==
    \/ \E id \in RowIds : AddComment(w, id)
    \/ \E v \in Writers : EditComment(w, v)
    \/ CommitAdd(w) \/ CommitEdit(w) \/ CommentFails(w)
    \/ Notify(w) \/ DieBeforeNotify(w)
=============================================================================
