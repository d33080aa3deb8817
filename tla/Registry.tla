------------------------------- MODULE Registry -------------------------------
(***************************************************************************)
(* Playbook discovery, hot reload and the table of definitions:            *)
(* core/registry.py, @playbook, the lifespan of main.py, POST              *)
(* /playbooks/reload, PATCH /playbooks/{} and the discovery at the start   *)
(* of every worker task.  A scan of the directories is one step, since it  *)
(* awaits nothing; the loop of sync_to_db awaits the database at every     *)
(* playbook, on the live dictionary that another reload may change.        *)
(***************************************************************************)
EXTENDS Integers, Sequences, FiniteSets

CONSTANTS
    FileCount,      \* playbook files, numbered as sorted() orders their paths
    Contents,       \* what a file may hold
    Disks,          \* what the files hold at first
    ApiProcs,       \* API processes, which start once and reload
    WorkerProcs,    \* worker processes, which discover for every task
    Scans,          \* lifespans, reloads and tasks, each of which syncs once
    MaxEdits        \* bound: changes of files

Files == 1 .. FileCount

\* A file registers its playbook with code version `defines` (0: with none)
\* before it raises, if it does: an exception that _import_module catches
\* ("caught") or one it does not list ("uncaught").
Absent == [there |-> FALSE, defines |-> 0, raises |-> "no"]

ASSUME RegistryAssumption ==
    /\ FileCount \in Nat \ {0}
    /\ Contents \subseteq
         [there : {TRUE}, defines : Nat, raises : {"no", "caught", "uncaught"}] \cup {Absent}
    /\ Disks \subseteq [Files -> Contents]
    /\ ApiProcs \cap WorkerProcs = {}

Procs == ApiProcs \cup WorkerProcs

VARIABLES
    disk,        \* contents of the playbook directories
    modules,     \* modules[p]: the files that sys.modules of p has
    registry,    \* registry[p]: _PLAYBOOK_REGISTRY, <<name, version>> as inserted
    defs,        \* committed playbook_definitions, by name
    sync,        \* sync_to_db of each scan
    up,          \* the API processes that serve requests
    edits        \* how many files were changed so far

registryVars == <<disk, modules, registry, defs, sync, up, edits>>

(***************************************************************************)
(* sync_to_db as a record: the process; how many entries the dictionary    *)
(* had when its iterator was made and how many were taken; want, the       *)
(* column values set and not yet flushed; held, names flushed and locked   *)
(* by the transaction; fresh, those of them it inserts; fine, the files    *)
(* without an error when it scanned; overrun, a later scan of the process. *)
(***************************************************************************)
Unset == [n \in {} |-> 0]

Idle == [pc |-> "idle", proc |-> 0, size |-> 0, taken |-> 0, want |-> Unset,
         held |-> Unset, fresh |-> {}, fine |-> {}, overrun |-> FALSE]

Failed == [Idle EXCEPT !.pc = "failed"]

RegistryInit ==
    /\ disk \in Disks
    /\ modules = [p \in Procs |-> {}]
    /\ registry = [p \in Procs |-> <<>>]
    /\ defs = [n \in {} |-> [version |-> 0, enabled |-> TRUE]]
    /\ sync = [s \in Scans |-> Idle]
    /\ up = {}
    /\ edits = 0

Names(reg) == {reg[i][1] : i \in DOMAIN reg}

\* The paths in the order of sorted().
InOrder(F) ==
    CHOOSE q \in [1 .. Cardinality(F) -> F] : \A i, j \in DOMAIN q : i < j => q[i] < q[j]

\* _PLAYBOOK_REGISTRY[name] = ..., file after file: an entry keeps its place.
Register(reg, new) ==
    LET entry(f) == <<f, disk[f].defines>>
        added == InOrder(new \ Names(reg))
    IN  [i \in DOMAIN reg |-> IF reg[i][1] \in new THEN entry(reg[i][1]) ELSE reg[i]]
          \o [i \in DOMAIN added |-> entry(added[i])]

\* Importing the file raises what _import_module does not catch.
Fatal(f) == disk[f].there /\ disk[f].raises = "uncaught"

\* Mutant: a file that raises ends the loop over the files.
ReachedUpToBad(has) ==
    {f \in Files : disk[f].there /\ \A g \in 1 .. f - 1 : g \notin has => disk[g].raises = "no"}

\* The files a scan comes to: all, or up to the first that stops it.  Those
\* that sys.modules has are skipped, failed imports among them.
Reached(has) ==
    {f \in Files : disk[f].there /\ \A g \in 1 .. f - 1 : g \notin has => ~Fatal(g)}

Stopped(has) == \E f \in Reached(has) \ has : Fatal(f)

Imported(has) == Reached(has) \ has

\* discover(): imports in order; a module is in sys.modules even if it raised.
Discovered(reg, has) == Register(reg, {f \in Imported(has) : disk[f].defines # 0})

Fine == {f \in Files : disk[f].defines # 0 /\ disk[f].raises = "no"}

\* The scan of process p from `reg` and sys.modules `has`, and the sync that
\* follows it unless it was stopped.
Scan(s, p, reg, has) ==
    /\ sync[s].pc = "idle"
    /\ registry' = [registry EXCEPT ![p] = Discovered(reg, has)]
    /\ modules' = [modules EXCEPT ![p] = has \cup Imported(has)]
    /\ sync' = [t \in Scans |->
          IF t = s
          THEN IF Stopped(has) THEN Failed
               ELSE [Idle EXCEPT !.pc = "loop", !.proc = p,
                                 !.size = Len(registry'[p]), !.fine = Fine]
          ELSE [sync[t] EXCEPT !.overrun = @ \/ (sync[t].pc = "loop" /\ sync[t].proc = p)]]
    /\ UNCHANGED <<disk, defs, up, edits>>

Syncing(p) == \E s \in Scans : sync[s].proc = p /\ sync[s].pc = "loop"

\* The lifespan of an API process; it ends the process if a file stops it.
Start(s, p) ==
    /\ p \in ApiProcs \ up /\ ~Syncing(p) /\ ~Stopped({})
    /\ Scan(s, p, <<>>, {})

\* Mutant: the reload keeps the registry it finds.
ReloadOnTop(s, p) == p \in up /\ Scan(s, p, registry[p], {})

\* POST /playbooks/reload: clear_and_reload empties sys.modules of the
\* playbooks and the registry before it scans.
Reload(s, p) == p \in up /\ Scan(s, p, <<>>, {})

\* _execute and _execute_sequence discover on top of what is loaded; a
\* worker process has one task at a time.
TaskDiscovers(s, p) ==
    /\ p \in WorkerProcs /\ ~Syncing(p)
    /\ Scan(s, p, registry[p], modules[p])

(***************************************************************************)
(* The loop of sync_to_db.  The SELECT of an iteration flushes what the    *)
(* iteration before it has set: an INSERT or an UPDATE, which waits for    *)
(* another transaction that holds the name.                                *)
(***************************************************************************)
Pending(s) == DOMAIN sync[s].want

\* A name that s is about to write is held by the transaction of t.
WaitsFor(s, t) ==
    s # t /\ sync[t].pc = "loop" /\ Pending(s) \cap DOMAIN sync[t].held # {}

Blocked(s) == \E t \in Scans : WaitsFor(s, t)

\* The INSERT finds that the name is taken (unique constraint).
Taken(s) == Pending(s) \cap sync[s].fresh \cap DOMAIN defs # {}

\* The iterator finds that the size of the dictionary is not what it was.
Changed(s) == Len(registry[sync[s].proc]) # sync[s].size

Flushed(s) == [n \in Pending(s) \cup DOMAIN sync[s].held |->
                 IF n \in Pending(s) THEN sync[s].want[n] ELSE sync[s].held[n]]

\* The object the SELECT returns: one of this transaction, or a committed row.
Exists(s, n) == n \in DOMAIN Flushed(s) \/ n \in DOMAIN defs

\* Next entry: SELECT by name, then set the columns or add a new object.  An
\* object whose columns already have these values is not written.
SyncNext(s) ==
    LET x == sync[s]
        reg == registry[x.proc]
        n == reg[x.taken + 1][1]
        v == reg[x.taken + 1][2]
        cur == IF n \in DOMAIN Flushed(s) THEN Flushed(s)[n] ELSE defs[n].version
    IN  /\ x.pc = "loop" /\ ~Changed(s) /\ x.taken < Len(reg)
        /\ ~Blocked(s) /\ ~Taken(s)
        /\ sync' = [sync EXCEPT ![s] = [x EXCEPT
              !.taken = x.taken + 1, !.held = Flushed(s),
              !.want = IF Exists(s, n) /\ cur = v THEN Unset ELSE [m \in {n} |-> v],
              !.fresh = IF Exists(s, n) THEN x.fresh ELSE x.fresh \cup {n}]]
        /\ UNCHANGED <<disk, modules, registry, defs, up, edits>>

\* What the commit leaves in a row: `enabled` is set on INSERT only.
Written(n, v) ==
    [version |-> v, enabled |-> IF n \in DOMAIN defs THEN defs[n].enabled ELSE TRUE]

\* The COMMIT flushes the last playbook and makes all of them visible.
Committed(s) == Flushed(s)

SyncCommit(s) ==
    /\ sync[s].pc = "loop" /\ ~Changed(s)
    /\ sync[s].taken = Len(registry[sync[s].proc])
    /\ ~Blocked(s) /\ ~Taken(s)
    /\ defs' = [n \in DOMAIN defs \cup DOMAIN Committed(s) |->
                  IF n \in DOMAIN Committed(s) THEN Written(n, Committed(s)[n]) ELSE defs[n]]
    /\ sync' = [sync EXCEPT ![s] = [Idle EXCEPT !.pc = "done",
                   !.proc = sync[s].proc, !.fine = sync[s].fine, !.overrun = sync[s].overrun]]
    /\ up' = up \cup ({sync[s].proc} \cap ApiProcs)
    /\ UNCHANGED <<disk, modules, registry, edits>>

\* A transaction waits for one that waits for it: PostgreSQL ends one.
Deadlocked(s) == \E t \in Scans : WaitsFor(s, t) /\ WaitsFor(t, s)

\* "dictionary changed size during iteration", IntegrityError or deadlock:
\* nothing of the loop is kept.
SyncFail(s) ==
    /\ sync[s].pc = "loop"
    /\ Changed(s) \/ (~Blocked(s) /\ Taken(s)) \/ Deadlocked(s)
    /\ sync' = [sync EXCEPT ![s] = Failed]
    /\ UNCHANGED <<disk, modules, registry, defs, up, edits>>

\* The process ends, and with it its memory and its transactions.  An API
\* process whose lifespan has failed is one of these.
Die(p) ==
    /\ modules' = [modules EXCEPT ![p] = {}]
    /\ registry' = [registry EXCEPT ![p] = <<>>]
    /\ sync' = [s \in Scans |->
                  IF sync[s].proc = p /\ sync[s].pc = "loop" THEN Failed ELSE sync[s]]
    /\ up' = up \ {p}
    /\ UNCHANGED <<disk, defs, edits>>

\* PATCH /playbooks/{} with `enabled`, which waits for the row's lock.
UpdatePlaybook(n) ==
    /\ n \in DOMAIN defs
    /\ ~\E s \in Scans : sync[s].pc = "loop" /\ n \in DOMAIN sync[s].held
    /\ defs' = [defs EXCEPT ![n].enabled = ~@]
    /\ UNCHANGED <<disk, modules, registry, sync, up, edits>>

\* A playbook is written, changed or removed.
Edit(f) ==
    /\ edits < MaxEdits /\ edits' = edits + 1
    /\ \E c \in Contents \ {disk[f]} : disk' = [disk EXCEPT ![f] = c]
    /\ UNCHANGED <<modules, registry, defs, sync, up>>

RegistryNext ==
    \/ \E s \in Scans :
          \/ \E p \in Procs : Start(s, p) \/ Reload(s, p) \/ TaskDiscovers(s, p)
          \/ SyncNext(s) \/ SyncCommit(s) \/ SyncFail(s)
    \/ \E p \in Procs : Die(p)
    \/ \E n \in Files : UpdatePlaybook(n)
    \/ \E f \in Files : Edit(f)
=============================================================================
