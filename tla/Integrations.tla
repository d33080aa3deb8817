----------------------------- MODULE Integrations -----------------------------
(***************************************************************************)
(* Integration instances (api/integrations.py, integrations/loader.py,     *)
(* models/integration.py): the rows, the connectors the loader of a        *)
(* process knows, and the health check, which calls a third-party service  *)
(* between its SELECT and its COMMIT.                                      *)
(***************************************************************************)
EXTENDS Integers, FiniteSets

CONSTANTS
    Checks,        \* calls of POST /integrations/{}/health
    Editors,       \* calls of POST and PATCH /integrations/{}
    Configs,       \* configurations; the service accepts those in Working
    Working,
    Broken         \* built-in types whose module cannot be imported

Types == {"builtin", "unknown"}

VARIABLES
    instances,     \* committed rows, by the call that created them
    connectors,    \* the types the loader has
    check,         \* health checks
    editor         \* calls that write the other columns

integrationVars == <<instances, connectors, check, editor>>

NewInstance(type, config) == [type |-> type, config |-> config, enabled |-> TRUE, health |-> "none"]

\* of: the instance; snap: the row as it was loaded.  History, since that
\* SELECT: moved, its configuration was changed; met, another check was saved.
NoCheck == [pc |-> "idle", of |-> 0, snap |-> NewInstance("", 0), result |-> "none",
            moved |-> FALSE, met |-> FALSE]
NoEditor == [pc |-> "idle", of |-> 0, snap |-> NewInstance("", 0), want |-> NewInstance("", 0)]

IntegrationsInit ==
    /\ instances = [e \in {} |-> NewInstance("", 0)]
    /\ connectors = {}
    /\ check = [c \in Checks |-> NoCheck]
    /\ editor = [e \in Editors |-> NoEditor]

Stored(i) == i \in DOMAIN instances

\* POST /integrations: the type is not checked against the loader.
CreateIntegration(e) ==
    /\ editor[e].pc = "idle"
    /\ \E t \in Types, c \in Configs :
          instances' = [i \in DOMAIN instances \cup {e} |->
                          IF i = e THEN NewInstance(t, c) ELSE instances[i]]
    /\ editor' = [editor EXCEPT ![e].pc = "done"]
    /\ UNCHANGED <<connectors, check>>

\* PATCH /integrations/{} up to its COMMIT.
LoadIntegration(e, i) ==
    /\ editor[e].pc = "idle" /\ Stored(i)
    /\ \E want \in {[instances[i] EXCEPT !.enabled = ~@]}
                   \cup {[instances[i] EXCEPT !.config = c] : c \in Configs} :
          editor' = [editor EXCEPT ![e] =
             [pc |-> "loaded", of |-> i, snap |-> instances[i], want |-> want]]
    /\ UNCHANGED <<instances, connectors, check>>

\* Mutant: an UPDATE writes every column, as it was loaded or set.
ColumnsAll(cur, snap, want) == want

\* The columns an UPDATE writes: those that differ from the loaded values.
Columns(cur, snap, want) == [f \in DOMAIN cur |-> IF want[f] # snap[f] THEN want[f] ELSE cur[f]]

Moved(i) == [c \in Checks |-> [check[c] EXCEPT !.moved = @ \/ check[c].of = i]]

\* Its COMMIT; StaleDataError if there is something to write and no row.
SaveIntegration(e) ==
    LET x == editor[e]
    IN  /\ x.pc = "loaded"
        /\ \/ /\ Stored(x.of)
              /\ instances' = [instances EXCEPT ![x.of] = Columns(@, x.snap, x.want)]
              /\ check' = IF instances'[x.of].config # instances[x.of].config THEN Moved(x.of) ELSE check
              /\ editor' = [editor EXCEPT ![e].pc = "done"]
           \/ /\ ~Stored(x.of)
              /\ editor' = [editor EXCEPT ![e].pc = IF x.want = x.snap THEN "done" ELSE "failed"]
              /\ UNCHANGED <<instances, check>>
        /\ UNCHANGED connectors

\* DELETE /integrations/{}.
DeleteIntegration(i) ==
    /\ Stored(i)
    /\ instances' = [j \in DOMAIN instances \ {i} |-> instances[j]]
    /\ UNCHANGED <<connectors, check, editor>>

\* discover_builtin, when the loader has no type yet; a module that cannot
\* be imported is skipped.
Known == IF connectors = {} THEN {"builtin"} \ Broken ELSE connectors

\* The health check: SELECT, then the connector of the type, if there is one.
BeginCheck(c, i) ==
    /\ check[c].pc = "idle" /\ Stored(i)
    /\ connectors' = Known
    /\ check' = [check EXCEPT ![c] =
          [of |-> i, snap |-> instances[i], result |-> "unhealthy", moved |-> FALSE, met |-> FALSE,
           pc |-> IF instances[i].type \in Known THEN "calling" ELSE "saving"]]
    /\ UNCHANGED <<instances, editor>>

\* check.healthy of the connector, which the service decides.
Verdict(config) == IF config \in Working THEN "healthy" ELSE "unhealthy"

\* The service answers, for the configuration the check has loaded.
Answered(c) ==
    /\ check[c].pc = "calling"
    /\ check' = [check EXCEPT ![c].pc = "saving", ![c].result = Verdict(check[c].snap.config)]
    /\ UNCHANGED <<instances, connectors, editor>>

\* connect or health_check raises one of the listed exceptions: the check
\* is "unhealthy".
Raises(c) ==
    /\ check[c].pc = "calling"
    /\ check' = [check EXCEPT ![c].pc = "saving"]
    /\ UNCHANGED <<instances, connectors, editor>>

\* An exception that is not listed: 500, nothing is written.
RaisesOther(c) ==
    /\ check[c].pc = "calling"
    /\ check' = [check EXCEPT ![c].pc = "failed"]
    /\ UNCHANGED <<instances, connectors, editor>>

\* health_status and last_health_check are written, to a row that is there;
\* the status only if it is not the one the check has loaded.
SaveCheck(c) ==
    LET x == check[c]
    IN  /\ x.pc = "saving"
        /\ \/ /\ Stored(x.of)
              /\ instances' = [instances EXCEPT ![x.of] =
                                 Columns(@, x.snap, [x.snap EXCEPT !.health = x.result])]
              /\ check' = [d \in Checks |->
                    IF d = c THEN [x EXCEPT !.pc = "done"] ELSE [check[d] EXCEPT !.met = @ \/ check[d].of = x.of]]
           \/ /\ ~Stored(x.of)
              /\ check' = [check EXCEPT ![c].pc = "failed"]
              /\ UNCHANGED instances
        /\ UNCHANGED <<connectors, editor>>

IntegrationsNext ==
    \/ \E e \in Editors : CreateIntegration(e) \/ SaveIntegration(e) \/ \E i \in Editors : LoadIntegration(e, i)
    \/ \E i \in Editors : DeleteIntegration(i)
    \/ \E c \in Checks : Answered(c) \/ Raises(c) \/ RaisesOther(c) \/ SaveCheck(c) \/ \E i \in Editors : BeginCheck(c, i)
=============================================================================
