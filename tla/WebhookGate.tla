------------------------------ MODULE WebhookGate ------------------------------
(***************************************************************************)
(* What a webhook request passes before its handler runs: the rate limiter *)
(* of the API process (middleware/rate_limit.py) and the API key           *)
(* (_validate_webhook_api_key of api/webhooks.py).                         *)
(***************************************************************************)
EXTENDS Integers, Sequences, FiniteSets

CONSTANTS
    Hooks,          \* webhook requests
    Procs,          \* API processes; a restarted one is another member
    Keys,           \* API keys that may be created
    Addresses,      \* client addresses
    PrefixOf,       \* PrefixOf[k]: the first 12 characters of key k
    MaxRequests, Window,
    MaxTime         \* bound: the last second

ASSUME GateAssumption == {MaxRequests, Window, MaxTime} \subseteq Nat

VARIABLES
    keys,       \* committed rows of api_keys
    bucket,     \* bucket[<<p, c>>]: times of the requests that process p let
                \* through for client c
    hook,       \* where a webhook request is
    time

gateVars == <<keys, bucket, hook, time>>

\* A row of api_keys.  expires_at is set by no endpoint; an expired key is
\* one whose row was changed in the database.
ApiKey == [active |-> TRUE, expired |-> FALSE, used |-> FALSE]

\* What identifies the client of a request to the limiter (_get_client_key):
\* the prefix of the key it sends, or else its address.
Senders == {[sent |-> {}, client |-> a] : a \in Addresses}
             \cup {[sent |-> {k}, client |-> PrefixOf[k]] : k \in Keys}

Buckets == Procs \X {s.client : s \in Senders}

\* sent: the keys in the X-API-Key header, none or one; at and on: when and
\* by which bucket the limiter let the request through.
Unsent == [pc |-> "idle", sent |-> {}, snap |-> {}, at |-> 0, on |-> {}]

GateInit ==
    /\ keys = [k \in {} |-> ApiKey]
    /\ bucket = [b \in Buckets |-> <<>>]
    /\ hook = [h \in Hooks |-> Unsent]
    /\ time = 1

Full(times) == Cardinality(DOMAIN times) >= MaxRequests

\* Mutant: the window slides a second too early.
RecentEarly(times) ==
    LET later == {i \in DOMAIN times : times[i] > time - Window + 1}
    IN  [i \in 1 .. Cardinality(later) |-> times[Cardinality(DOMAIN times) - Cardinality(later) + i]]

\* The entries of the last Window seconds, which are the newest ones.
Recent(times) ==
    LET later == {i \in DOMAIN times : times[i] > time - Window}
    IN  [i \in 1 .. Cardinality(later) |-> times[Cardinality(DOMAIN times) - Cardinality(later) + i]]

\* The limiter looks at bucket b for a request that sends these keys.
Limit(h, b, sent) ==
    LET recent == Recent(bucket[b])
    IN  IF Full(recent)
        THEN /\ bucket' = [bucket EXCEPT ![b] = recent]
             /\ hook' = [hook EXCEPT ![h].pc = "limited"]
        ELSE /\ bucket' = [bucket EXCEPT ![b] = Append(recent, time)]
             /\ hook' = [hook EXCEPT ![h] = [Unsent EXCEPT
                           !.pc = "arrived", !.sent = sent, !.at = time, !.on = {b}]]

\* RateLimitMiddleware.dispatch.  Nothing is awaited between reading the clock
\* and leaving the lock, which is always free: it is one step.
Arrive(h, p) ==
    /\ hook[h].pc = "idle"
    /\ \E s \in Senders : Limit(h, <<p, s.client>>, s.sent)
    /\ UNCHANGED <<keys, time>>

ActiveKeys == {k \in DOMAIN keys : keys[k].active}

\* Without a key: open mode while no key is active.
NoKeySent(h) ==
    /\ hook[h].pc = "arrived" /\ hook[h].sent = {}
    /\ hook' = [hook EXCEPT ![h].pc = IF ActiveKeys = {} THEN "admitted" ELSE "refused"]
    /\ UNCHANGED <<keys, bucket, time>>

\* With a key: it must be known, active and not expired, and a signature, if
\* one is sent, must be of this body; the row is loaded to be stamped.
CheckKey(h) ==
    /\ hook[h].pc = "arrived" /\ hook[h].sent # {}
    /\ \/ /\ \A k \in hook[h].sent : k \in ActiveKeys /\ ~keys[k].expired
          /\ hook' = [hook EXCEPT ![h].pc = "checked",
                                  ![h].snap = {keys[k] : k \in hook[h].sent}]
       \/ hook' = [hook EXCEPT ![h].pc = "refused"]
    /\ UNCHANGED <<keys, bucket, time>>

\* Mutant: the row is written back as it was loaded, with the new date.
StampAll(cur, snap) == [snap EXCEPT !.used = TRUE]

\* Only last_used_at has changed in the loaded row.
Stamp(cur, snap) == [cur EXCEPT !.used = TRUE]

\* The validators of plugins pass it and last_used_at is committed; or one
\* of them raises.
StampKey(h) ==
    /\ hook[h].pc = "checked"
    /\ \/ /\ keys' = [k \in DOMAIN keys |->
                        IF k \in hook[h].sent
                        THEN Stamp(keys[k], CHOOSE s \in hook[h].snap : TRUE) ELSE keys[k]]
          /\ hook' = [hook EXCEPT ![h].pc = "admitted", ![h].snap = {}]
       \/ /\ hook' = [hook EXCEPT ![h].pc = "refused", ![h].snap = {}]
          /\ UNCHANGED keys
    /\ UNCHANGED <<bucket, time>>

KeyExpires(k) ==
    /\ k \in DOMAIN keys /\ ~keys[k].expired
    /\ keys' = [keys EXCEPT ![k].expired = TRUE]
    /\ UNCHANGED <<bucket, hook, time>>

Second ==
    /\ time < MaxTime
    /\ time' = time + 1
    /\ UNCHANGED <<keys, bucket, hook>>

GateStep ==
    \/ \E h \in Hooks : NoKeySent(h) \/ CheckKey(h) \/ StampKey(h) \/ \E p \in Procs : Arrive(h, p)
    \/ \E k \in Keys : KeyExpires(k)
    \/ Second
=============================================================================
