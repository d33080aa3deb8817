-------------------------------- MODULE Access --------------------------------
(***************************************************************************)
(* Accounts and the webhook gate together: the API keys of the gate are    *)
(* created and revoked by admins (api/api_keys.py).                        *)
(***************************************************************************)
EXTENDS Accounts, WebhookGate

CONSTANT Scenes   \* which of "accounts" and "hooks" go on in a behaviour

VARIABLE scene

vars == <<accountVars, gateVars, scene>>

Init == AccountsInit /\ GateInit /\ scene \in Scenes

\* POST /api-keys.
CreateApiKey(r, k) ==
    /\ req[r].pc = "idle" /\ k \notin DOMAIN keys
    /\ \E admin \in Usernames : IsAdmin(admin)
    /\ keys' = [j \in DOMAIN keys \cup {k} |-> IF j = k THEN ApiKey ELSE keys[j]]
    /\ req' = [req EXCEPT ![r].pc = "done"]
    /\ UNCHANGED <<accounts, tokens, overlapped, bucket, hook, time>>

\* DELETE /api-keys/{}: is_active = False.
RevokeApiKey(r, k) ==
    /\ req[r].pc = "idle" /\ k \in DOMAIN keys
    /\ \E admin \in Usernames : IsAdmin(admin)
    /\ keys' = [keys EXCEPT ![k].active = FALSE]
    /\ req' = [req EXCEPT ![r].pc = "done"]
    /\ UNCHANGED <<accounts, tokens, overlapped, bucket, hook, time>>

KeyRequest == \E r \in Requests, k \in Keys : CreateApiKey(r, k) \/ RevokeApiKey(r, k)

Next ==
    /\ \/ "accounts" \in scene /\ AccountStep /\ UNCHANGED gateVars
       \/ "hooks" \in scene /\ GateStep /\ UNCHANGED accountVars
       \/ "keys" \in scene /\ KeyRequest
       \/ "keys" \in scene /\ (\E u \in Usernames : Login(u)) /\ UNCHANGED gateVars
    /\ UNCHANGED scene

Spec == Init /\ [][Next]_vars

(***************************************************************************)
(* Properties.                                                             *)
(***************************************************************************)
\* Somebody has been an admin: one was there from the start, or the
\* bootstrap command made one.
Founded == \E u \in DOMAIN accounts : accounts[u].first = "admin"

\* _assert_not_last_active_admin: once there is an admin there always is an
\* active one, whatever sequence of updates, promotions, deactivations,
\* bootstraps and expired tokens follows, as long as no two of these
\* requests were between their checks and their COMMIT at the same time.
\* It is why bootstrap_local_admin can run once at most.
LastAdminKept ==
    ~overlapped => /\ Founded => ActiveAdmins # {}
                   /\ Cardinality({r \in Requests : req[r].kind = "bootstrap" /\ req[r].pc = "done"}) <= 1

\* "Maximum requests per window": in every window one API process lets at most
\* MaxRequests requests of a client, which is a key's prefix or an address,
\* through, over any interleaving and however the window slides.
RateBound ==
    \A b \in Buckets : \A end \in 1 .. MaxTime :
        Cardinality({h \in Hooks : b \in hook[h].on /\ hook[h].at \in (end - Window + 1) .. end})
          <= MaxRequests

\* A revoked key stays revoked, though webhooks that had loaded it while it
\* was active still write its row (last_used_at).
RevokedStays ==
    [][\A k \in DOMAIN keys : ~keys[k].active => ~keys'[k].active]_vars
=============================================================================
