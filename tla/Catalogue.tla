------------------------------- MODULE Catalogue -------------------------------
(***************************************************************************)
(* What an installation runs: its playbooks (Registry) and the services it *)
(* is connected to (Integrations).  The two share no state, so a behaviour *)
(* is about one of them.                                                   *)
(***************************************************************************)
EXTENDS Registry, Integrations

CONSTANT Parts    \* "playbooks", "services" or both

VARIABLE part

vars == <<registryVars, integrationVars, part>>

Init ==
    /\ part \in Parts
    /\ RegistryInit
    /\ IntegrationsInit

Next ==
    \/ part = "playbooks" /\ RegistryNext /\ UNCHANGED <<integrationVars, part>>
    \/ part = "services" /\ IntegrationsNext /\ UNCHANGED <<registryVars, part>>

Spec == Init /\ [][Next]_vars

(***************************************************************************)
(* Properties.                                                             *)
(***************************************************************************)
\* A start or a reload that reports success has defined the playbook of
\* every file that was without an error when it scanned, whatever other
\* files raised and whatever other processes inserted meanwhile; only
\* another reload in the same process may have moved the dictionary under
\* its iterator (clear_and_reload, sync_to_db).
ReloadComplete ==
    \A s \in Scans :
        sync[s].pc = "done" /\ sync[s].proc \in ApiProcs /\ ~sync[s].overrun
          => sync[s].fine \subseteq DOMAIN defs

\* API processes that start or reload at the same time take the locks of the
\* definitions in one order: of two syncs that wait for each other, one is a
\* worker's, which discovers new files behind the ones it has, or has had its
\* dictionary filled again to the same size by another reload of its process.
ApiSyncsNeverDeadlock ==
    \A s, t \in Scans : WaitsFor(s, t) /\ WaitsFor(t, s) =>
        \E r \in {s, t} : sync[r].proc \in WorkerProcs \/ sync[r].overrun

\* An instance is shown healthy with a configuration that the service refuses
\* only because a check found it healthy and the configuration was changed
\* since its SELECT; and only as long as no check has had the row to itself:
\* after the SELECT of every finished check, the configuration was changed or
\* another check was saved.  (Of two checks that overlap, the one that has
\* loaded the status it finds writes nothing, and its verdict is lost.)
\* (check_integration_health, update_integration)
HealthyExplained ==
    \A i \in DOMAIN instances : instances[i].health = "healthy" /\ instances[i].config \notin Working =>
        LET finished == {c \in Checks : check[c].of = i /\ check[c].pc = "done"}
        IN  /\ \E c \in finished : check[c].result = "healthy" /\ check[c].moved
            /\ \A c \in finished : check[c].moved \/ check[c].met
=============================================================================
