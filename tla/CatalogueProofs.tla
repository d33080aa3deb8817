---------------------------- MODULE CatalogueProofs ----------------------------
(***************************************************************************)
(* Proofs about Catalogue: what a reload leaves in the table of            *)
(* definitions, the order in which syncs take their locks, and what a      *)
(* health check says of a configuration.                                   *)
(***************************************************************************)
EXTENDS Catalogue, FiniteSetTheorems, SequenceTheorems, TLAPS

(***************************************************************************)
(* Instances of integrations.                                              *)
(***************************************************************************)
IsInstance(x) == x = [type |-> x.type, config |-> x.config, enabled |-> x.enabled, health |-> x.health]
IsCheck(x) ==
    /\ x = [pc |-> x.pc, of |-> x.of, snap |-> x.snap, result |-> x.result, moved |-> x.moved, met |-> x.met]
    /\ IsInstance(x.snap)
\* A PATCH has no health in its body.
IsEditor(x) ==
    /\ x = [pc |-> x.pc, of |-> x.of, snap |-> x.snap, want |-> x.want]
    /\ IsInstance(x.snap) /\ IsInstance(x.want) /\ x.want.health = x.snap.health

ServiceTypes ==
    /\ instances = [i \in DOMAIN instances |-> instances[i]]
    /\ \A i \in DOMAIN instances : IsInstance(instances[i])
    /\ check = [c \in Checks |-> check[c]] /\ \A c \in Checks : IsCheck(check[c])
    /\ editor = [e \in Editors |-> editor[e]] /\ \A e \in Editors : IsEditor(editor[e])

Created(i) == i \in Editors /\ editor[i].pc = "done"

\* What a check knows of a row: its configuration, unless that was changed
\* since its SELECT, and its status, unless another check was saved.
Reads(x, row) ==
    /\ ~x.moved => row.config = x.snap.config
    /\ ~x.met => row.health = IF x.pc = "done" THEN x.result ELSE x.snap.health

\* An identifier is never used again, so that the row is the one a check has
\* loaded; it says "healthy" of a configuration that the service accepts.
Knows(x) ==
    x.pc \in {"calling", "saving", "done"} =>
        /\ Created(x.of)
        /\ Stored(x.of) => Reads(x, instances[x.of])
        /\ x.result = "healthy" => x.snap.config \in Working

CheckInv == \A c \in Checks : Knows(check[c])

\* A check has found it healthy.
Found(i) == \E c \in Checks : check[c].pc = "done" /\ check[c].of = i /\ check[c].result = "healthy"

InstanceInv ==
    \A i \in DOMAIN instances : Created(i) /\ (instances[i].health = "healthy" => Found(i))

ServiceInv == ServiceTypes /\ CheckInv /\ InstanceInv

LEMMA NewInstances ==
  ASSUME NEW t, NEW g
  PROVE  /\ IsInstance(NewInstance(t, g))
         /\ NewInstance(t, g).config = g /\ NewInstance(t, g).health = "none"
BY DEF IsInstance, NewInstance

LEMMA ServiceInit == IntegrationsInit => ServiceInv
<1> SUFFICES ASSUME IntegrationsInit
             PROVE  ServiceInv
  OBVIOUS
<1>1. IsCheck(NoCheck) /\ NoCheck.pc = "idle"
  BY NewInstances DEF NoCheck, IsCheck
<1>2. IsEditor(NoEditor)
  BY NewInstances DEF NoEditor, IsEditor
<1>3. /\ instances = [i \in DOMAIN instances |-> instances[i]] /\ DOMAIN instances = {}
      /\ check = [c \in Checks |-> check[c]] /\ \A c \in Checks : check[c] = NoCheck
      /\ editor = [e \in Editors |-> editor[e]] /\ \A e \in Editors : editor[e] = NoEditor
  BY DEF IntegrationsInit
<1> QED
  BY <1>1, <1>2, <1>3 DEF ServiceInv, ServiceTypes, CheckInv, InstanceInv, Knows

\* What the COMMIT of a PATCH leaves is a row of the same status; that of a
\* verdict leaves its configuration alone.
LEMMA ColumnsWritten ==
  ASSUME NEW row, NEW snap, IsInstance(row)
  PROVE  \A want : /\ IsInstance(Columns(row, snap, want))
                   /\ want.health = snap.health => Columns(row, snap, want).health = row.health
BY DEF IsInstance, Columns

LEMMA VerdictWritten ==
  ASSUME NEW row, NEW snap, NEW want, IsInstance(row), want.config = snap.config,
         NEW new, new = Columns(row, snap, want)
  PROVE  /\ IsInstance(new) /\ new.config = row.config
         /\ new.health = IF want.health # snap.health THEN want.health ELSE row.health
<1>1. DOMAIN row = {"type", "config", "enabled", "health"}
  BY DEF IsInstance
<1>2. new = [f \in DOMAIN row |-> IF want[f] # snap[f] THEN want[f] ELSE row[f]]
  BY DEF Columns
<1>3. new = [type |-> new.type, config |-> new.config, enabled |-> new.enabled, health |-> new.health]
  BY <1>1, <1>2
<1> QED
  BY <1>1, <1>2, <1>3 DEF IsInstance

\* Calls that were answered stay so.
EditorsKeep == \A i : Created(i) => Created(i)'

LEMMA CreateKeeps ==
  ASSUME ServiceInv, NEW e \in Editors, CreateIntegration(e)
  PROVE  ServiceInv'
<1>1. PICK t \in Types, g \in Configs :
        instances' = [i \in DOMAIN instances \cup {e} |->
                        IF i = e THEN NewInstance(t, g) ELSE instances[i]]
  BY DEF CreateIntegration
<1>2. /\ editor' = [editor EXCEPT ![e].pc = "done"] /\ UNCHANGED check
      /\ editor[e].pc = "idle"
  BY DEF CreateIntegration
<1>3. /\ e \notin DOMAIN instances
      /\ \A c \in Checks : check[c].pc \in {"calling", "saving", "done"} => check[c].of # e
  BY <1>2 DEF ServiceInv, InstanceInv, CheckInv, Knows, Created
<1>4. /\ editor' = [d \in Editors |-> editor'[d]]
      /\ \A d \in Editors : IsEditor(editor'[d])
      /\ \A d \in Editors : editor[d].pc = "done" => editor'[d].pc = "done"
      /\ editor'[e].pc = "done"
  BY <1>2 DEF ServiceInv, ServiceTypes, IsEditor
<1>5. \A i \in DOMAIN instances : i \in DOMAIN instances' /\ instances'[i] = instances[i]
  BY <1>1, <1>3
<1>6. instances'[e] = NewInstance(t, g) /\ DOMAIN instances' = DOMAIN instances \cup {e}
  BY <1>1
<1>7. ServiceTypes'
  BY <1>1, <1>2, <1>4, <1>5, <1>6, NewInstances DEF ServiceInv, ServiceTypes
<1>8. EditorsKeep
  BY <1>4 DEF EditorsKeep, Created
<1>9. CheckInv'
  <2> SUFFICES ASSUME NEW c \in Checks, check[c].pc \in {"calling", "saving", "done"}
               PROVE  Knows(check[c])'
    BY <1>2 DEF CheckInv, Knows
  <2>1. Knows(check[c]) /\ check[c].of # e /\ check'[c] = check[c]
    BY <1>2, <1>3 DEF ServiceInv, CheckInv
  <2>2. Stored(check[c].of)' => Stored(check[c].of) /\ instances'[check[c].of] = instances[check[c].of]
    BY <1>5, <1>6, <2>1 DEF Stored
  <2> QED
    BY <1>2, <1>8, <2>1, <2>2 DEF Knows, EditorsKeep, Reads
<1>10. InstanceInv'
  <2>1. \A i \in DOMAIN instances : instances'[i].health = "healthy" => Found(i)'
    BY <1>2, <1>5 DEF ServiceInv, InstanceInv, Found
  <2>2. \A i \in DOMAIN instances' : Created(i)'
    BY <1>4, <1>6, <1>8 DEF EditorsKeep, ServiceInv, InstanceInv, Created
  <2>3. instances'[e].health # "healthy"
    BY <1>6, NewInstances
  <2> QED
    BY <1>6, <2>1, <2>2, <2>3 DEF InstanceInv
<1> QED
  BY <1>7, <1>9, <1>10 DEF ServiceInv

\* The COMMIT of a PATCH: checks of the row learn whether it was changed.
LEMMA SaveKeeps ==
  ASSUME ServiceInv, NEW e \in Editors, SaveIntegration(e)
  PROVE  ServiceInv'
<1> PICK i : i = editor[e].of
  OBVIOUS
<1>1. /\ editor' = [d \in Editors |-> editor'[d]]
      /\ \A d \in Editors : IsEditor(editor'[d])
      /\ \A d \in Editors : editor[d].pc = "done" => editor'[d].pc = "done"
  BY DEF SaveIntegration, ServiceInv, ServiceTypes, IsEditor
<1>2. EditorsKeep
  BY <1>1 DEF EditorsKeep, Created
<1>4. CASE UNCHANGED <<instances, check>>
  <2>1. ServiceTypes'
    BY <1>1, <1>4 DEF ServiceInv, ServiceTypes
  <2>2. CheckInv'
    <3> SUFFICES ASSUME NEW c \in Checks
                 PROVE  Knows(check[c])'
      BY DEF CheckInv
    <3>1. Knows(check[c])
      BY DEF ServiceInv, CheckInv
    <3> QED
      BY <1>2, <1>4, <3>1 DEF Knows, EditorsKeep, Stored, Reads
  <2>3. InstanceInv'
    BY <1>2, <1>4 DEF ServiceInv, InstanceInv, EditorsKeep, Found
  <2> QED
    BY <2>1, <2>2, <2>3 DEF ServiceInv
<1>5. CASE /\ Stored(i)
           /\ instances' = [instances EXCEPT ![i] = Columns(instances[i], editor[e].snap, editor[e].want)]
           /\ check' = IF instances'[i].config # instances[i].config THEN Moved(i) ELSE check
  <2> PICK row, new, ed : row = instances[i] /\ new = instances'[i] /\ ed = editor[e]
    OBVIOUS
  <2>1. IsInstance(row) /\ IsEditor(ed)
    BY <1>5 DEF ServiceInv, ServiceTypes, Stored
  <2>2. /\ instances' = [j \in DOMAIN instances' |-> instances'[j]] /\ DOMAIN instances' = DOMAIN instances
        /\ new = Columns(row, ed.snap, ed.want)
        /\ \A j \in DOMAIN instances : j # i => instances'[j] = instances[j]
    BY <1>5 DEF ServiceInv, ServiceTypes, Stored
  <2>3. IsInstance(new) /\ new.health = row.health
    BY <2>1, <2>2, ColumnsWritten DEF IsEditor
  <2>4. ASSUME NEW c \in Checks
        PROVE  /\ IsCheck(check'[c])
               /\ \A f \in {"pc", "of", "snap", "result", "met"} : check'[c][f] = check[c][f]
               /\ ~check'[c].moved => ~check[c].moved /\ (check[c].of = i => new.config = row.config)
    <3> PICK x : x = check[c]
      OBVIOUS
    <3>1. IsCheck(x)
      BY DEF ServiceInv, ServiceTypes
    <3>2. CASE new.config # row.config
      <4>1. check'[c] = [x EXCEPT !.moved = x.moved \/ x.of = i]
        BY <1>5, <3>2 DEF Moved
      <4> QED
        BY <3>1, <4>1 DEF IsCheck
    <3>3. CASE new.config = row.config
      BY <1>5, <3>1, <3>3
    <3> QED
      BY <3>2, <3>3
  <2>5. check' = [c \in Checks |-> check'[c]]
    BY <1>5 DEF ServiceInv, ServiceTypes, Moved
  <2>6. ServiceTypes'
    BY <1>1, <2>2, <2>3, <2>4, <2>5 DEF ServiceInv, ServiceTypes
  <2>7. CheckInv'
    <3> SUFFICES ASSUME NEW c \in Checks
                 PROVE  Knows(check[c])'
      BY DEF CheckInv
    <3> PICK x, y : x = check[c] /\ y = check'[c]
      OBVIOUS
    <3>1. /\ y.pc = x.pc /\ y.of = x.of /\ y.snap = x.snap /\ y.result = x.result /\ y.met = x.met
          /\ ~y.moved => ~x.moved /\ (x.of = i => new.config = row.config)
      BY <2>4
    <3>2. Knows(x)
      BY DEF ServiceInv, CheckInv
    <3>3. Stored(x.of)' => Stored(x.of) /\ (x.of # i => instances'[x.of] = instances[x.of])
      BY <2>2 DEF Stored
    <3>4. Reads(x, instances[x.of]) /\ Stored(x.of)' => Reads(y, instances'[x.of])
      BY <2>3, <3>1, <3>3 DEF Reads
    <3> QED
      BY <1>2, <3>1, <3>2, <3>3, <3>4 DEF Knows, EditorsKeep
  <2>8. InstanceInv'
    <3>1. \A j : Found(j) => Found(j)'
      BY <2>4 DEF Found
    <3>2. \A j \in DOMAIN instances' : j \in DOMAIN instances /\ instances'[j].health = instances[j].health
      BY <2>2, <2>3
    <3> QED
      BY <1>2, <3>1, <3>2 DEF ServiceInv, InstanceInv, EditorsKeep
  <2> QED
    BY <2>6, <2>7, <2>8 DEF ServiceInv
<1> QED
  BY <1>4, <1>5 DEF SaveIntegration

\* Steps that leave the checks alone and change no row.
LEMMA RowsStay ==
  ASSUME CheckInv, InstanceInv, check' = check, EditorsKeep,
         \A i \in DOMAIN instances' : i \in DOMAIN instances /\ instances'[i] = instances[i]
  PROVE  CheckInv' /\ InstanceInv'
<1>1. ASSUME NEW c \in Checks
      PROVE  Knows(check[c])'
  <2>1. Knows(check[c])
    BY DEF CheckInv
  <2> QED
    BY <2>1 DEF Knows, EditorsKeep, Stored, Reads
<1>2. InstanceInv'
  BY DEF InstanceInv, EditorsKeep, Found
<1> QED
  BY <1>1, <1>2 DEF CheckInv

LEMMA LoadKeeps ==
  ASSUME ServiceInv, NEW e \in Editors, NEW i \in Editors, LoadIntegration(e, i)
  PROVE  ServiceInv'
<1>1. PICK want \in {[instances[i] EXCEPT !.enabled = ~@]}
                    \cup {[instances[i] EXCEPT !.config = g] : g \in Configs} :
        editor' = [editor EXCEPT ![e] = [pc |-> "loaded", of |-> i, snap |-> instances[i], want |-> want]]
  BY DEF LoadIntegration
<1>2. editor[e].pc = "idle" /\ Stored(i) /\ UNCHANGED <<instances, check>>
  BY DEF LoadIntegration
<1>3. IsInstance(instances[i]) /\ IsInstance(want) /\ want.health = instances[i].health
  BY <1>1, <1>2 DEF ServiceInv, ServiceTypes, Stored, IsInstance
<1>4. /\ editor' = [d \in Editors |-> editor'[d]]
      /\ \A d \in Editors : d # e => editor'[d] = editor[d]
      /\ editor'[e].pc = "loaded" /\ IsEditor(editor'[e])
  BY <1>1, <1>3 DEF ServiceInv, ServiceTypes, IsEditor
<1>5. ServiceTypes'
  BY <1>2, <1>4 DEF ServiceInv, ServiceTypes
<1>6. EditorsKeep
  BY <1>2, <1>4 DEF EditorsKeep, Created
<1> QED
  BY <1>2, <1>5, <1>6, RowsStay DEF ServiceInv

LEMMA DeleteKeeps ==
  ASSUME ServiceInv, NEW i \in Editors, DeleteIntegration(i)
  PROVE  ServiceInv'
<1>1. /\ DOMAIN instances' = DOMAIN instances \ {i}
      /\ instances' = [j \in DOMAIN instances' |-> instances'[j]]
      /\ \A j \in DOMAIN instances' : instances'[j] = instances[j]
      /\ UNCHANGED <<check, editor>>
  BY DEF DeleteIntegration
<1>2. ServiceTypes'
  BY <1>1 DEF ServiceInv, ServiceTypes
<1>3. EditorsKeep
  BY <1>1 DEF EditorsKeep, Created
<1> QED
  BY <1>1, <1>2, <1>3, RowsStay DEF ServiceInv

\* What a step of a check does to the checks, the rows unchanged.
LEMMA ChecksKeep ==
  ASSUME ServiceInv, NEW c \in Checks, UNCHANGED <<instances, editor>>,
         NEW x, IsCheck(x), check' = [check EXCEPT ![c] = x], x.pc # "done", check[c].pc # "done", Knows(x)
  PROVE  ServiceInv'
<1>1. /\ check' = [d \in Checks |-> check'[d]] /\ check'[c] = x
      /\ \A d \in Checks : d # c => check'[d] = check[d]
  BY DEF ServiceInv, ServiceTypes
<1>2. ServiceTypes'
  BY <1>1 DEF ServiceInv, ServiceTypes
<1>3. EditorsKeep /\ \A j : Stored(j)' <=> Stored(j)
  BY DEF EditorsKeep, Created, Stored
<1>4. CheckInv'
  <2> SUFFICES ASSUME NEW d \in Checks
               PROVE  Knows(check[d])'
    BY DEF CheckInv
  <2> PICK y : y = check'[d]
    OBVIOUS
  <2>1. Knows(y)
    BY <1>1 DEF ServiceInv, CheckInv
  <2> QED
    BY <1>3, <2>1 DEF Knows, EditorsKeep, Reads
<1>5. InstanceInv'
  <2>1. \A j : Found(j) => Found(j)'
    BY <1>1 DEF Found
  <2> QED
    BY <1>3, <2>1 DEF ServiceInv, InstanceInv, EditorsKeep
<1> QED
  BY <1>2, <1>4, <1>5 DEF ServiceInv

LEMMA BeginKeeps ==
  ASSUME ServiceInv, NEW c \in Checks, NEW i \in Editors, BeginCheck(c, i)
  PROVE  ServiceInv'
<1> DEFINE x == [of |-> i, snap |-> instances[i], result |-> "unhealthy", moved |-> FALSE, met |-> FALSE,
                 pc |-> IF instances[i].type \in Known THEN "calling" ELSE "saving"]
<1>1. Stored(i) /\ check' = [check EXCEPT ![c] = x] /\ UNCHANGED <<instances, editor>> /\ check[c].pc = "idle"
  BY DEF BeginCheck
<1>2. IsInstance(instances[i]) /\ Created(i)
  BY <1>1 DEF ServiceInv, ServiceTypes, InstanceInv, Stored
<1>3. IsCheck(x) /\ x.of = i /\ x.snap = instances[i] /\ x.result # "healthy" /\ x.pc # "done"
  BY <1>2 DEF IsCheck
<1> HIDE DEF x
<1>4. Knows(x)
  BY <1>2, <1>3 DEF Knows, Reads
<1> QED
  BY <1>1, <1>3, <1>4, ChecksKeep

\* The answer of the service, and the ways of having none.
LEMMA CallKeeps ==
  ASSUME ServiceInv, NEW c \in Checks, Answered(c) \/ Raises(c) \/ RaisesOther(c)
  PROVE  ServiceInv'
<1>1. IsCheck(check[c]) /\ check[c].pc = "calling" /\ Knows(check[c])
  BY DEF ServiceInv, ServiceTypes, CheckInv, Answered, Raises, RaisesOther
<1> PICK x, y : x = check'[c] /\ y = check[c]
  OBVIOUS
<1>2. check = [d \in Checks |-> check[d]] /\ IsCheck(y) /\ y.pc = "calling" /\ Knows(y)
  BY <1>1 DEF ServiceInv, ServiceTypes
<1>3. /\ check' = [check EXCEPT ![c] = x] /\ UNCHANGED <<instances, editor>>
      /\ x.pc \in {"saving", "failed"} /\ IsCheck(x)
      /\ x.of = y.of /\ x.snap = y.snap /\ x.moved = y.moved /\ x.met = y.met
      /\ x.result \in {y.result, Verdict(y.snap.config)}
  <2>1. CASE Answered(c)
    <3>1. x = [y EXCEPT !.pc = "saving", !.result = Verdict(y.snap.config)] /\ check' = [check EXCEPT ![c] = x]
      BY <1>2, <2>1 DEF Answered, IsCheck
    <3> QED
      BY <1>2, <2>1, <3>1 DEF Answered, IsCheck
  <2>2. CASE Raises(c)
    <3>1. x = [y EXCEPT !.pc = "saving"] /\ check' = [check EXCEPT ![c] = x]
      BY <1>2, <2>2 DEF Raises
    <3> QED
      BY <1>2, <2>2, <3>1 DEF Raises, IsCheck
  <2>3. CASE RaisesOther(c)
    <3>1. x = [y EXCEPT !.pc = "failed"] /\ check' = [check EXCEPT ![c] = x]
      BY <1>2, <2>3 DEF RaisesOther
    <3> QED
      BY <1>2, <2>3, <3>1 DEF RaisesOther, IsCheck
  <2> QED
    BY <2>1, <2>2, <2>3
<1>4. x.result = "healthy" => y.snap.config \in Working
  BY <1>2, <1>3 DEF Knows, Verdict
<1>5. Knows(x)
  BY <1>2, <1>3, <1>4 DEF Knows, Reads
<1>6. x.pc # "done" /\ check[c].pc # "done"
  BY <1>2, <1>3
<1> QED
  BY <1>3, <1>5, <1>6, ChecksKeep

\* The verdict is written to a row that may have changed, and the other checks
\* of the row have met it.
LEMMA VerdictKeeps ==
  ASSUME ServiceInv, NEW c \in Checks, SaveCheck(c)
  PROVE  ServiceInv'
<1> PICK x, i : x = check[c] /\ i = check[c].of
  OBVIOUS
<1>1. /\ UNCHANGED editor /\ x.pc = "saving" /\ x.of = i /\ Knows(x) /\ IsCheck(x) /\ check = [d \in Checks |-> check[d]]
  BY DEF SaveCheck, ServiceInv, ServiceTypes, CheckInv
<1>2. EditorsKeep
  BY <1>1 DEF EditorsKeep, Created
<1>3. CASE instances' = instances /\ check' = [check EXCEPT ![c].pc = "failed"]
  <2> PICK y : y = [x EXCEPT !.pc = "failed"]
    OBVIOUS
  <2>1. check' = [check EXCEPT ![c] = y]
    BY <1>3
  <2>2. IsCheck(y) /\ y.pc = "failed"
    BY <1>1 DEF IsCheck
  <2>3. Knows(y) /\ y.pc # "done" /\ check[c].pc # "done"
    BY <1>1, <2>2 DEF Knows
  <2> QED
    BY <1>1, <1>3, <2>1, <2>2, <2>3, ChecksKeep
<1>4. CASE /\ Stored(i)
           /\ instances' = [instances EXCEPT ![i] = Columns(instances[i], x.snap, [x.snap EXCEPT !.health = x.result])]
           /\ check' = [d \in Checks |->
                 IF d = c THEN [x EXCEPT !.pc = "done"] ELSE [check[d] EXCEPT !.met = check[d].met \/ check[d].of = i]]
  <2> PICK row, new : row = instances[i] /\ new = instances'[i]
    OBVIOUS
  <2>1. IsInstance(row) /\ IsInstance(x.snap)
    BY <1>1, <1>4 DEF ServiceInv, ServiceTypes, IsCheck, Stored
  <2>2. /\ instances' = [j \in DOMAIN instances' |-> instances'[j]] /\ DOMAIN instances' = DOMAIN instances
        /\ new = Columns(row, x.snap, [x.snap EXCEPT !.health = x.result])
        /\ \A j \in DOMAIN instances : j # i => instances'[j] = instances[j]
    BY <1>4 DEF ServiceInv, ServiceTypes, Stored
  <2>3. /\ IsInstance(new) /\ new.config = row.config
        /\ new.health = IF x.result # x.snap.health THEN x.result ELSE row.health
    <3> PICK snap, want : snap = x.snap /\ want = [snap EXCEPT !.health = x.result]
      OBVIOUS
    <3>1. new = Columns(row, snap, want)
      BY <2>2
    <3>2. want.config = snap.config /\ want.health = x.result
      BY <2>1 DEF IsInstance
    <3>3. IsInstance(row)
      BY <2>1
    <3>4. /\ IsInstance(new) /\ new.config = row.config
          /\ new.health = IF want.health # snap.health THEN want.health ELSE row.health
      BY ONLY <3>1, <3>2, <3>3, VerdictWritten
    <3> QED
      BY <3>2, <3>4
  <2>4. ASSUME NEW d \in Checks, d # c
        PROVE  /\ IsCheck(check'[d])
               /\ \A f \in {"pc", "of", "snap", "result", "moved"} : check'[d][f] = check[d][f]
               /\ ~check'[d].met => ~check[d].met /\ check[d].of # i
    <3> PICK y : y = check[d]
      OBVIOUS
    <3>1. IsCheck(y) /\ check'[d] = [y EXCEPT !.met = y.met \/ y.of = i]
      BY <1>4, <2>4 DEF ServiceInv, ServiceTypes
    <3> QED
      BY <3>1 DEF IsCheck
  <2> PICK z : z = check'[c]
    OBVIOUS
  <2>5. /\ IsCheck(z) /\ z.pc = "done" /\ z.of = i /\ z.snap = x.snap /\ z.result = x.result
        /\ z.moved = x.moved /\ z.met = x.met
    <3>1. z = [x EXCEPT !.pc = "done"]
      BY <1>4
    <3> QED
      BY <1>1, <3>1 DEF IsCheck
  <2>6. ServiceTypes'
    BY <1>1, <1>4, <2>2, <2>3, <2>4, <2>5 DEF ServiceInv, ServiceTypes
  <2>7. ASSUME NEW d \in Checks
        PROVE  Knows(check[d])'
    <3>1. CASE d # c
      <4> PICK y, y2 : y = check[d] /\ y2 = check'[d]
        OBVIOUS
      <4>1. /\ y2.pc = y.pc /\ y2.of = y.of /\ y2.snap = y.snap /\ y2.result = y.result /\ y2.moved = y.moved
            /\ ~y2.met => ~y.met /\ y.of # i
        BY <2>4, <3>1
      <4>2. Knows(y)
        BY DEF ServiceInv, CheckInv
      <4>3. Stored(y.of)' => Stored(y.of) /\ (y.of # i => instances'[y.of] = instances[y.of])
        BY <2>2 DEF Stored
      <4>4. Reads(y, instances[y.of]) /\ Stored(y.of)' => Reads(y2, instances'[y.of])
        BY <2>3, <4>1, <4>3 DEF Reads
      <4> QED
        BY <1>2, <4>1, <4>2, <4>3, <4>4 DEF Knows, EditorsKeep
    <3>2. CASE d = c
      <4>1. Created(i) /\ Reads(x, row) /\ (x.result = "healthy" => x.snap.config \in Working)
        BY <1>1, <1>4 DEF Knows
      <4>2. Reads(z, new)
        BY <1>1, <2>3, <2>5, <4>1 DEF Reads
      <4> QED
        BY <1>2, <2>5, <3>2, <4>1, <4>2 DEF Knows, EditorsKeep
    <3> QED
      BY <3>1, <3>2
  <2>8. InstanceInv'
    <3>1. \A j : Found(j) => Found(j)'
      <4> SUFFICES ASSUME NEW j, NEW d \in Checks, check[d].pc = "done", check[d].of = j, check[d].result = "healthy"
                   PROVE  Found(j)'
        BY DEF Found
      <4>1. d # c
        BY <1>1
      <4> QED
        BY <2>4, <4>1 DEF Found
    <3>2. new.health = "healthy" => Found(i)'
      <4>1. CASE x.result = "healthy"
        BY <2>5, <4>1 DEF Found
      <4>2. CASE x.result # "healthy"
        <5>1. new.health = "healthy" => row.health = "healthy"
          BY <2>3, <4>2
        <5> QED
          BY <1>4, <3>1, <5>1 DEF ServiceInv, InstanceInv, Stored
      <4> QED
        BY <4>1, <4>2
    <3>3. \A j \in DOMAIN instances' : j \in DOMAIN instances /\ (j # i => instances'[j] = instances[j])
      BY <2>2
    <3> QED
      BY <1>2, <3>1, <3>2, <3>3 DEF ServiceInv, InstanceInv, EditorsKeep
  <2> QED
    BY <2>6, <2>7, <2>8 DEF ServiceInv, CheckInv
<1> QED
  BY <1>3, <1>4 DEF SaveCheck

\* Types of the rows and calls of integrations, and what a check in progress
\* knows: see CheckInv.
THEOREM ServiceInvariance == Spec => []ServiceInv
<1>1. Init => ServiceInv
  BY ServiceInit DEF Init
<1>2. ServiceInv /\ UNCHANGED integrationVars => ServiceInv'
  <2> SUFFICES ASSUME ServiceInv, UNCHANGED integrationVars
               PROVE  ServiceInv'
    OBVIOUS
  <2>1. ServiceTypes' /\ EditorsKeep /\ check' = check /\ instances' = instances
    BY DEF ServiceInv, ServiceTypes, EditorsKeep, Created, integrationVars
  <2> QED
    BY <2>1, RowsStay DEF ServiceInv
<1>3. ServiceInv /\ IntegrationsNext => ServiceInv'
  <2> SUFFICES ASSUME ServiceInv, IntegrationsNext
               PROVE  ServiceInv'
    OBVIOUS
  <2>1. ASSUME NEW e \in Editors, CreateIntegration(e) \/ SaveIntegration(e) \/ \E i \in Editors : LoadIntegration(e, i)
        PROVE  ServiceInv'
    BY <2>1, CreateKeeps, SaveKeeps, LoadKeeps
  <2>2. ASSUME NEW i \in Editors, DeleteIntegration(i)
        PROVE  ServiceInv'
    BY <2>2, DeleteKeeps
  <2>3. ASSUME NEW c \in Checks,
               Answered(c) \/ Raises(c) \/ RaisesOther(c) \/ SaveCheck(c) \/ \E i \in Editors : BeginCheck(c, i)
        PROVE  ServiceInv'
    BY <2>3, CallKeeps, VerdictKeeps, BeginKeeps
  <2> QED
    BY <2>1, <2>2, <2>3, Zenon DEF IntegrationsNext
<1>4. ServiceInv /\ [Next]_vars => ServiceInv'
  BY <1>2, <1>3 DEF Next, vars
<1> QED
  BY <1>1, <1>4, PTL DEF Spec

\* An instance shown healthy with a configuration the service refuses was
\* found healthy by a check whose configuration was changed after its SELECT,
\* and no finished check of it was undisturbed since: each has its
\* configuration changed, or another check saved, after its own SELECT
\* (check_integration_health, update_integration).
THEOREM HealthIsExplained == Spec => []HealthyExplained
<1>1. ASSUME ServiceInv
      PROVE  HealthyExplained
  <2> SUFFICES ASSUME NEW i \in DOMAIN instances, instances[i].health = "healthy", instances[i].config \notin Working
               PROVE  LET finished == {c \in Checks : check[c].of = i /\ check[c].pc = "done"}
                      IN  /\ \E c \in finished : check[c].result = "healthy" /\ check[c].moved
                          /\ \A c \in finished : check[c].moved \/ check[c].met
    BY DEF HealthyExplained
  <2>1. ASSUME NEW c \in Checks, check[c].of = i, check[c].pc = "done"
        PROVE  /\ check[c].result = "healthy" => check[c].moved
               /\ check[c].moved \/ check[c].met
    <3> PICK x : x = check[c]
      OBVIOUS
    <3>1. Knows(x) /\ IsCheck(x) /\ Stored(i) /\ x.pc = "done" /\ x.of = i
      BY <1>1, <2>1 DEF ServiceInv, ServiceTypes, CheckInv, Stored
    <3>2. Reads(x, instances[i]) /\ (x.result = "healthy" => x.snap.config \in Working)
      BY <3>1 DEF Knows
    <3>3. CASE x.moved
      BY <3>3
    <3>4. CASE ~x.moved
      <4>1. x.result # "healthy"
        BY <3>2, <3>4 DEF Reads
      <4>2. x.met
        BY <3>1, <3>2, <4>1 DEF Reads
      <4> QED
        BY <4>1, <4>2
    <3> QED
      BY <3>3, <3>4
  <2>2. Found(i)
    BY <1>1 DEF ServiceInv, InstanceInv
  <2> QED
    BY <2>1, <2>2 DEF Found
<1> QED
  BY <1>1, ServiceInvariance, PTL

(***************************************************************************)
(* The order of files.                                                     *)
(***************************************************************************)
\* Induction on an interval, as a fact about finite sets: the numbers from
\* the first exception on would be a finite set with all its successors.
LEMMA Climb ==
  ASSUME NEW N \in Nat, NEW S, 0 \in S,
         \A n \in 0 .. N : n \in S /\ n < N => n + 1 \in S
  PROVE  \A n \in 0 .. N : n \in S
<1> SUFFICES ASSUME NEW c \in 0 .. N, c \notin S
             PROVE  FALSE
  OBVIOUS
<1> DEFINE V == {x \in 0 .. N : \E b \in 0 .. N : b \notin S /\ b <= x}
<1>1. N \in V /\ \A x \in V : x \in 0 .. N
  OBVIOUS
<1>2. \A x \in V : x - 1 \in V
  <2> SUFFICES ASSUME NEW x \in V
               PROVE  x - 1 \in V
    OBVIOUS
  <2>1. PICK b \in 0 .. N : b \notin S /\ b <= x
    OBVIOUS
  <2>2. b # 0 /\ x \in 0 .. N /\ x - 1 \in 0 .. N
    BY <2>1
  <2>3. CASE b = x
    <3>1. x - 1 \notin S
      BY <2>1, <2>2, <2>3
    <3> QED
      BY <2>2, <3>1
  <2>4. CASE b <= x - 1
    BY <2>1, <2>2, <2>4
  <2> QED
    BY <2>1, <2>2, <2>3, <2>4
<1> DEFINE f == [x \in V |-> x - 1]
<1>3. IsFiniteSet(V)
  <2>1. V \in SUBSET (0 .. N) /\ IsFiniteSet(0 .. N)
    BY FS_Interval
  <2> QED
    BY <2>1, FS_Subset
<1> HIDE DEF V
<1>4. f \in Injection(V, V)
  BY <1>1, <1>2 DEF Injection, IsInjective
<1>5. f \in Surjection(V, V)
  BY <1>3, <1>4, FS_Injection
<1>6. PICK x \in V : f[x] = N
  BY <1>1, <1>5 DEF Surjection
<1> QED
  BY <1>1, <1>6

\* Sorted, and with every file.
Enumerates(q, F) ==
    /\ q \in [1 .. Cardinality(F) -> F] /\ Cardinality(F) \in Nat
    /\ \A i, j \in 1 .. Cardinality(F) : i < j => q[i] < q[j]
    /\ \A f \in F : \E i \in 1 .. Cardinality(F) : q[i] = f

LEMMA FilesFinite ==
  ASSUME NEW F \in SUBSET Files
  PROVE  IsFiniteSet(F) /\ Cardinality(F) \in Nat
<1>1. IsFiniteSet(Files)
  BY RegistryAssumption, FS_Interval DEF Files
<1>2. IsFiniteSet(F)
  BY <1>1, FS_Subset
<1> QED
  BY <1>2, FS_CardinalityType

\* What is sorted has every file, and there is such a sequence: each file at
\* the place that the number of those before it gives.
LEMMA InOrderEnumerates ==
  ASSUME NEW F \in SUBSET Files
  PROVE  Enumerates(InOrder(F), F)
<1> DEFINE upTo(f) == {g \in F : g <= f}
           n == Cardinality(F)
           r == [f \in F |-> Cardinality(upTo(f))]
<1>1. IsFiniteSet(F) /\ n \in Nat /\ \A f \in F : f \in Int
  BY FilesFinite DEF Files
<1>2. \A f \in F : /\ IsFiniteSet(upTo(f)) /\ r[f] \in 1 .. n
  <2> SUFFICES ASSUME NEW f \in F
               PROVE  IsFiniteSet(upTo(f)) /\ r[f] \in 1 .. n
    OBVIOUS
  <2>1. upTo(f) \in SUBSET F /\ f \in upTo(f)
    BY <1>1
  <2>2. IsFiniteSet(upTo(f)) /\ Cardinality(upTo(f)) <= n
    BY <1>1, <2>1, FS_Subset
  <2>3. Cardinality(upTo(f)) \in Nat
    BY <2>2, FS_CardinalityType
  <2>4. Cardinality(upTo(f)) # 0
    BY <2>1, <2>2, FS_EmptySet
  <2> QED
    BY <1>1, <2>2, <2>3, <2>4
<1>3. \A f, g \in F : f < g => r[f] < r[g]
  <2> SUFFICES ASSUME NEW f \in F, NEW g \in F, f < g
               PROVE  r[f] < r[g]
    OBVIOUS
  <2>1. upTo(f) \in SUBSET upTo(g) /\ g \in upTo(g) /\ g \notin upTo(f)
    BY <1>1
  <2>2. upTo(f) # upTo(g)
    BY <2>1
  <2> HIDE DEF upTo
  <2>3. Cardinality(upTo(f)) <= Cardinality(upTo(g)) /\ Cardinality(upTo(f)) # Cardinality(upTo(g))
    BY <1>2, <2>1, <2>2, FS_Subset
  <2>4. r[f] \in Nat /\ r[g] \in Nat /\ r[f] = Cardinality(upTo(f)) /\ r[g] = Cardinality(upTo(g))
    BY <1>1, <1>2
  <2> QED
    BY <2>3, <2>4
<1>4. IsFiniteSet(1 .. n) /\ Cardinality(1 .. n) = n
  BY <1>1, FS_Interval
<1> HIDE DEF upTo, n
<1>5. r \in [F -> 1 .. n]
  BY <1>2
<1> HIDE DEF r
<1>6. \A f, g \in F : r[f] = r[g] => f = g
  BY <1>1, <1>3, <1>5
<1>7. r \in Injection(F, 1 .. n)
  BY <1>5, <1>6 DEF Injection, IsInjective
<1>8. r \in Surjection(F, 1 .. n)
  BY <1>4, <1>7, FS_Injection DEF n
<1>9. \A k \in 1 .. n : \E f \in F : r[f] = k
  BY <1>8 DEF Surjection
<1> DEFINE q == [k \in 1 .. n |-> CHOOSE f \in F : r[f] = k]
<1>10. q \in [1 .. n -> F] /\ \A k \in 1 .. n : r[q[k]] = k
  BY <1>9
<1> HIDE DEF q
<1>11. \A i, j \in 1 .. n : i < j => q[i] < q[j]
  <2> SUFFICES ASSUME NEW i \in 1 .. n, NEW j \in 1 .. n, i < j
               PROVE  q[i] < q[j]
    OBVIOUS
  <2>1. q[i] \in F /\ q[j] \in F /\ r[q[i]] = i /\ r[q[j]] = j
    BY <1>10
  <2> QED
    BY <1>1, <1>3, <2>1
<1> PICK p : p = InOrder(F)
  OBVIOUS
<1>12. p \in [1 .. n -> F] /\ \A i, j \in 1 .. n : i < j => p[i] < p[j]
  <2>1. q \in [1 .. n -> F] /\ \A i, j \in DOMAIN q : i < j => q[i] < q[j]
    BY <1>10, <1>11
  <2>2. p = CHOOSE s \in [1 .. n -> F] : \A i, j \in DOMAIN s : i < j => s[i] < s[j]
    BY DEF InOrder, n
  <2>3. p \in [1 .. n -> F] /\ \A i, j \in DOMAIN p : i < j => p[i] < p[j]
    BY <2>1, <2>2, Zenon
  <2> QED
    BY <2>3
<1>13. \A i, j \in 1 .. n : p[i] = p[j] => i = j
  <2> SUFFICES ASSUME NEW i \in 1 .. n, NEW j \in 1 .. n, p[i] = p[j]
               PROVE  i = j
    OBVIOUS
  <2>1. p[i] \in Int /\ p[j] \in Int /\ i \in Int /\ j \in Int
    BY <1>1, <1>12
  <2> QED
    BY <1>12, <2>1
<1>14. p \in Injection(1 .. n, F)
  BY <1>12, <1>13 DEF Injection, IsInjective
<1>15. p \in Surjection(1 .. n, F)
  BY <1>1, <1>4, <1>14, FS_Injection DEF n
<1>16. \A f \in F : \E i \in 1 .. n : p[i] = f
  BY <1>15 DEF Surjection
<1> QED
  BY <1>1, <1>12, <1>16 DEF Enumerates, n

(***************************************************************************)
(* Dictionaries of playbooks.                                              *)
(***************************************************************************)
Entries == Files \X Nat

DiskOK == disk \in [Files -> Contents]

\* The names of a dictionary that a scan has filled from nothing.
Ascends(reg) == \A i, j \in 1 .. Len(reg) : i < j => reg[i][1] < reg[j][1]

LEMMA ContentsKnown ==
  ASSUME DiskOK, NEW f \in Files
  PROVE  /\ disk[f].defines \in Nat /\ <<f, disk[f].defines>> \in Entries
         /\ disk[f].defines # 0 => disk[f].there
<1>1. disk[f] \in [there : {TRUE}, defines : Nat, raises : {"no", "caught", "uncaught"}] \/ disk[f] = Absent
  BY RegistryAssumption DEF DiskOK
<1>2. CASE disk[f] = Absent
  <2>1. Absent.defines = 0
    BY DEF Absent
  <2>2. disk[f].defines = 0 /\ 0 \in Nat
    BY <1>2, <2>1
  <2> QED
    BY <2>2, Zenon DEF Entries
<1>3. CASE disk[f] \in [there : {TRUE}, defines : Nat, raises : {"no", "caught", "uncaught"}]
  <2>1. disk[f].defines \in Nat /\ disk[f].there = TRUE
    BY <1>3
  <2> QED
    BY <2>1, Zenon DEF Entries
<1> QED
  BY <1>1, <1>2, <1>3

LEMMA RegisterType ==
  ASSUME DiskOK, NEW reg \in Seq(Entries), NEW new \in SUBSET Files
  PROVE  Register(reg, new) \in Seq(Entries)
<1> DEFINE kept == [i \in DOMAIN reg |-> IF reg[i][1] \in new THEN <<reg[i][1], disk[reg[i][1]].defines>> ELSE reg[i]]
           order == InOrder(new \ Names(reg))
           added == [i \in DOMAIN order |-> <<order[i], disk[order[i]].defines>>]
<1>1. kept \in Seq(Entries)
  <2>1. \A i \in DOMAIN reg : kept[i] \in Entries
    BY ContentsKnown
  <2> QED
    BY <2>1
<1>2. Enumerates(order, new \ Names(reg))
  BY InOrderEnumerates
<1>3. added \in Seq(Entries)
  <2> PICK n : n = Cardinality(new \ Names(reg))
    OBVIOUS
  <2>1. n \in Nat /\ order \in [1 .. n -> new \ Names(reg)]
    BY <1>2 DEF Enumerates
  <2> HIDE DEF order
  <2>2. DOMAIN added = 1 .. n /\ \A i \in 1 .. n : added[i] \in Entries
    <3>1. \A i \in 1 .. n : order[i] \in Files
      BY <2>1
    <3>2. \A i \in 1 .. n : <<order[i], disk[order[i]].defines>> \in Entries
      BY <3>1, ContentsKnown
    <3> QED
      BY <2>1, <3>2
  <2>3. added \in [1 .. n -> Entries]
    BY <2>2
  <2>4. n \in Nat
    BY <2>1
  <2> HIDE DEF added
  <2> QED
    BY <2>3, <2>4, SeqDef
<1> HIDE DEF kept, added, order
<1>4. kept \o added \in Seq(Entries)
  BY <1>1, <1>3
<1> QED
  BY <1>4 DEF kept, added, order, Register

LEMMA FreshDictionary ==
  ASSUME DiskOK, NEW new \in SUBSET Files, NEW reg, reg = Register(<<>>, new)
  PROVE  Ascends(reg) /\ \A f \in new : f \in Names(reg)
<1> DEFINE kept == [i \in DOMAIN <<>> |-> IF <<>>[i][1] \in new THEN <<<<>>[i][1], disk[<<>>[i][1]].defines>> ELSE <<>>[i]]
           order == InOrder(new \ Names(<<>>))
           added == [i \in DOMAIN order |-> <<order[i], disk[order[i]].defines>>]
<1>1. Names(<<>>) = {} /\ new \ Names(<<>>) = new
  BY DEF Names
<1>2. Enumerates(order, new)
  BY <1>1, InOrderEnumerates
<1> PICK n : n = Cardinality(new)
  OBVIOUS
<1>3. n \in Nat /\ order \in [1 .. n -> new] /\ \A i, j \in 1 .. n : i < j => order[i] < order[j]
  BY <1>2 DEF Enumerates
<1>4. \A f \in new : \E i \in 1 .. n : order[i] = f
  BY <1>2 DEF Enumerates
<1> HIDE DEF order
<1>5. kept = <<>>
  OBVIOUS
<1>6. added \in Seq(Entries) /\ Len(added) = n /\ \A i \in 1 .. n : added[i][1] = order[i]
  <2>1. DOMAIN added = 1 .. n /\ \A i \in 1 .. n : added[i] \in Entries /\ added[i][1] = order[i]
    BY <1>3, ContentsKnown
  <2>2. added \in [1 .. n -> Entries]
    BY <2>1
  <2> QED
    BY <1>3, <2>1, <2>2
<1> HIDE DEF kept, added
<1>7. reg = kept \o added
  BY DEF kept, added, order, Register
<1>8. reg = added
  BY <1>5, <1>6, <1>7
<1>9. DOMAIN reg = 1 .. n /\ Len(reg) = n
  BY <1>3, <1>6, <1>8
<1> QED
  BY <1>3, <1>4, <1>6, <1>8, <1>9 DEF Ascends, Names

\* A scan from nothing that no file stops has come to every file.
LEMMA AllReached ==
  ASSUME DiskOK, ~Stopped({})
  PROVE  \A f \in Fine : f \in Imported({}) /\ disk[f].defines # 0
<1> DEFINE S == {f \in 0 .. FileCount : \A g \in 1 .. f : ~Fatal(g)}
<1>1. FileCount \in Nat
  BY RegistryAssumption
<1>2. \A f \in 0 .. FileCount : f \in S /\ f < FileCount => f + 1 \in S
  <2> SUFFICES ASSUME NEW f \in 0 .. FileCount, f \in S, f < FileCount
               PROVE  f + 1 \in S
    OBVIOUS
  <2>1. f + 1 \in Files /\ f + 1 \in 0 .. FileCount
    BY <1>1 DEF Files
  <2>2. ~Fatal(f + 1)
    <3> SUFFICES ASSUME Fatal(f + 1)
                 PROVE  FALSE
      OBVIOUS
    <3>1. \A g \in 1 .. (f + 1) - 1 : ~Fatal(g)
      BY <1>1
    <3>2. f + 1 \in Reached({})
      BY <2>1, <3>1 DEF Reached, Fatal
    <3> QED
      BY <3>2 DEF Stopped
  <2>3. \A g \in 1 .. f + 1 : g \in 1 .. f \/ g = f + 1
    BY <1>1
  <2> QED
    BY <2>1, <2>2, <2>3
<1>3. 0 \in S
  BY <1>1
<1> HIDE DEF S
<1>4. \A f \in 0 .. FileCount : f \in S
  BY <1>1, <1>2, <1>3, Climb
<1>5. \A f \in Files : ~Fatal(f)
  <2> SUFFICES ASSUME NEW f \in Files
               PROVE  ~Fatal(f)
    OBVIOUS
  <2>1. f \in 0 .. FileCount /\ f \in 1 .. f
    BY <1>1 DEF Files
  <2> QED
    BY <1>4, <2>1 DEF S
<1>6. \A f \in Files : \A g \in 1 .. f - 1 : g \in Files
  BY <1>1 DEF Files
<1>7. \A f \in Fine : f \in Files /\ disk[f].defines # 0 /\ disk[f].there
  BY ContentsKnown DEF Fine
<1> QED
  BY <1>5, <1>6, <1>7 DEF Imported, Reached

(***************************************************************************)
(* Syncs.                                                                  *)
(***************************************************************************)
\* Names of playbooks with a version each.
Maps == UNION {[X -> Nat] : X \in SUBSET Files}

Syncs == [pc : {"idle", "loop", "done", "failed"}, proc : Procs \cup {0}, size : Nat,
          taken : Nat, want : Maps, held : Maps, fresh : SUBSET Files,
          fine : SUBSET Files, overrun : BOOLEAN]

RegistryTypes ==
    /\ DiskOK
    /\ modules \in [Procs -> SUBSET Files]
    /\ registry \in [Procs -> Seq(Entries)]
    /\ DOMAIN defs \subseteq Files
    /\ sync \in [Scans -> Syncs]
    /\ up \subseteq ApiProcs

\* A sync whose dictionary nobody has filled again: it has a definition for
\* each playbook it has come to, and locks in the order of the files.
Orderly(x, reg, known) ==
    /\ Ascends(reg) /\ x.fine \subseteq Names(reg) /\ x.taken <= Len(reg)
    /\ \A k \in 1 .. x.taken : reg[k][1] \in DOMAIN x.held \cup DOMAIN x.want \cup known
    /\ \A n \in DOMAIN x.want : x.taken # 0 /\ n = reg[x.taken][1]
    /\ \A n \in DOMAIN x.held : \E k \in 1 .. x.taken - 1 : n = reg[k][1]

SyncOK(x, reg, known) ==
    /\ x.pc = "loop" => x.proc \in Procs
    /\ x.pc # "loop" => DOMAIN x.want = {}
    /\ x.pc = "done" /\ x.proc \in ApiProcs /\ ~x.overrun => x.fine \subseteq known
    /\ x.pc = "loop" /\ x.proc \in ApiProcs /\ ~x.overrun => Orderly(x, reg, known)

SyncInv == \A s \in Scans : SyncOK(sync[s], registry[sync[s].proc], DOMAIN defs)

RegistryInv == RegistryTypes /\ SyncInv

LEMMA IdleSync ==
  /\ Unset \in Maps /\ DOMAIN Unset = {}
  /\ Idle \in Syncs /\ Idle.pc = "idle" /\ Idle.want = Unset /\ Idle.held = Unset /\ Idle.taken = 0
  /\ Failed \in Syncs /\ Failed.pc = "failed" /\ Failed.want = Unset
<1>1. Unset \in Maps /\ DOMAIN Unset = {}
  <2>1. Unset \in [{} -> Nat] /\ DOMAIN Unset = {}
    BY DEF Unset
  <2> QED
    BY <2>1 DEF Maps
<1>2. /\ Idle \in Syncs /\ Idle.pc = "idle" /\ Idle.want = Unset /\ Idle.held = Unset /\ Idle.taken = 0
  BY <1>1 DEF Idle, Syncs
<1>3. Failed \in Syncs /\ Failed.pc = "failed" /\ Failed.want = Unset
  BY <1>1, <1>2 DEF Failed, Syncs
<1> QED
  BY <1>1, <1>2, <1>3

LEMMA NotStarted ==
  ASSUME NEW reg, NEW known
  PROVE  SyncOK(Idle, reg, known) /\ SyncOK(Failed, reg, known)
BY IdleSync DEF SyncOK

LEMMA RegistryStarts == RegistryInit => RegistryInv
<1> SUFFICES ASSUME RegistryInit
             PROVE  RegistryInv
  OBVIOUS
<1>1. RegistryTypes
  <2>1. <<>> \in Seq(Entries)
    OBVIOUS
  <2> QED
    BY <2>1, IdleSync, RegistryAssumption DEF RegistryInit, RegistryTypes, DiskOK
<1>2. SyncInv
  BY NotStarted DEF RegistryInit, SyncInv
<1> QED
  BY <1>1, <1>2 DEF RegistryInv

\* A sync that does not move keeps what it has while its dictionary stays
\* and definitions are only added.
LEMMA Resting ==
  ASSUME NEW x, NEW reg, NEW known, SyncOK(x, reg, known),
         NEW reg2, x.pc = "loop" => reg2 = reg, NEW known2, known \subseteq known2
  PROVE  SyncOK(x, reg2, known2)
<1>1. Orderly(x, reg, known) => Orderly(x, reg, known2)
  BY DEF Orderly
<1> QED
  BY <1>1 DEF SyncOK

\* Another scan of the process p.
After(x, p) == [x EXCEPT !.overrun = x.overrun \/ (x.pc = "loop" /\ x.proc = p)]

LEMMA Overtaken ==
  ASSUME NEW x \in Syncs, NEW reg, NEW known, SyncOK(x, reg, known), NEW p,
         NEW y, y = After(x, p),
         NEW reg2, x.pc = "loop" /\ x.proc # p => reg2 = reg
  PROVE  y \in Syncs /\ SyncOK(y, reg2, known)
<1>1. /\ y \in Syncs /\ y.pc = x.pc /\ y.proc = x.proc /\ y.want = x.want /\ y.fine = x.fine
      /\ y.held = x.held /\ y.taken = x.taken
      /\ ~y.overrun => ~x.overrun /\ ~(x.pc = "loop" /\ x.proc = p)
  BY DEF Syncs, After
<1>2. Orderly(x, reg, known) => Orderly(y, reg, known)
  BY <1>1 DEF Orderly
<1> QED
  BY <1>1, <1>2 DEF SyncOK

LEMMA ScanKeeps ==
  ASSUME RegistryInv, NEW s \in Scans, NEW p \in Procs, NEW reg \in Seq(Entries), NEW has \in SUBSET Files,
         Scan(s, p, reg, has), p \in ApiProcs => reg = <<>> /\ has = {}
  PROVE  RegistryInv'
<1> PICK reg2 : reg2 = Discovered(reg, has)
  OBVIOUS
<1> DEFINE new == {f \in Imported(has) : disk[f].defines # 0}
           y == [Idle EXCEPT !.pc = "loop", !.proc = p, !.size = Len(reg2), !.fine = Fine]
<1>1. new \in SUBSET Files /\ Imported(has) \in SUBSET Files /\ Fine \in SUBSET Files
  BY DEF Imported, Reached, Fine
<1>2. reg2 = Register(reg, new) /\ reg2 \in Seq(Entries)
  BY <1>1, RegisterType DEF Discovered, RegistryInv, RegistryTypes
<1> HIDE DEF new
<1>3. registry' = [registry EXCEPT ![p] = reg2] /\ registry'[p] = reg2
  BY DEF Scan, RegistryInv, RegistryTypes
<1>4. /\ DOMAIN sync' = Scans /\ sync' = [t \in Scans |-> sync'[t]]
      /\ sync'[s] = IF Stopped(has) THEN Failed ELSE y
      /\ \A t \in Scans \ {s} : sync'[t] = [sync[t] EXCEPT !.overrun = sync[t].overrun \/ (sync[t].pc = "loop" /\ sync[t].proc = p)]
  BY <1>3 DEF Scan
<1>5. /\ y \in Syncs /\ y.pc = "loop" /\ y.proc = p /\ y.fine = Fine /\ y.taken = 0
      /\ y.want = Unset /\ y.held = Unset
  <2>1. Len(reg2) \in Nat
    BY <1>2
  <2> QED
    BY <1>1, <2>1, IdleSync DEF Syncs
<1>6. ~Stopped(has) => SyncOK(y, reg2, DOMAIN defs)
  <2>1. ASSUME p \in ApiProcs, ~Stopped(has)
        PROVE  Orderly(y, reg2, DOMAIN defs)
    <3>1. reg = <<>> /\ has = {}
      BY <2>1
    <3>2. Ascends(reg2) /\ \A f \in new : f \in Names(reg2)
      BY <1>1, <1>2, <3>1, FreshDictionary DEF RegistryInv, RegistryTypes, new
    <3>3. \A f \in Fine : f \in new
      BY <2>1, <3>1, AllReached DEF RegistryInv, RegistryTypes, new
    <3> HIDE DEF y
    <3>4. 0 <= Len(reg2) /\ 1 .. 0 = {}
      BY <1>2
    <3> QED
      BY <1>5, <3>2, <3>3, <3>4, IdleSync DEF Orderly
  <2> HIDE DEF y
  <2> QED
    BY <1>5, <2>1, IdleSync DEF SyncOK
<1> HIDE DEF y
<1>7. sync'[s] \in Syncs /\ SyncOK(sync'[s], registry'[sync'[s].proc], DOMAIN defs)
  BY <1>3, <1>4, <1>5, <1>6, IdleSync, NotStarted
<1>8. ASSUME NEW t \in Scans \ {s}
      PROVE  sync'[t] \in Syncs /\ SyncOK(sync'[t], registry'[sync'[t].proc], DOMAIN defs)
  <2> PICK x : x = sync[t]
    OBVIOUS
  <2> PICK z : z = sync'[t]
    OBVIOUS
  <2>1. x \in Syncs /\ SyncOK(x, registry[x.proc], DOMAIN defs)
    BY DEF RegistryInv, RegistryTypes, SyncInv
  <2>2. z = After(x, p)
    BY <1>4 DEF After
  <2>3. z.proc = x.proc
    BY <2>1, <2>2 DEF Syncs, After
  <2>4. x.pc = "loop" /\ x.proc # p => registry'[x.proc] = registry[x.proc]
    BY <1>3, <2>1 DEF RegistryInv, RegistryTypes, SyncOK
  <2> PICK r, r2 : r = registry[x.proc] /\ r2 = registry'[x.proc]
    OBVIOUS
  <2> PICK known : known = DOMAIN defs
    OBVIOUS
  <2>5. z \in Syncs /\ SyncOK(z, r2, known)
    <3>1. x \in Syncs /\ SyncOK(x, r, known) /\ (x.pc = "loop" /\ x.proc # p => r2 = r)
      BY <2>1, <2>4
    <3> QED
      BY <2>2, <3>1, Overtaken
  <2> QED
    BY <2>3, <2>5
<1>9. UNCHANGED <<disk, defs, up>> /\ modules' = [modules EXCEPT ![p] = has \cup Imported(has)]
  BY DEF Scan
<1>10. RegistryTypes'
  BY <1>1, <1>2, <1>3, <1>4, <1>7, <1>8, <1>9 DEF RegistryInv, RegistryTypes, DiskOK
<1>11. SyncInv'
  BY <1>7, <1>8, <1>9 DEF SyncInv
<1> QED
  BY <1>10, <1>11 DEF RegistryInv

\* A step of one sync, which leaves the dictionaries alone.
LEMMA SyncMoves ==
  ASSUME RegistryInv, NEW s \in Scans, UNCHANGED <<disk, modules, registry>>,
         DOMAIN defs \subseteq DOMAIN defs', DOMAIN defs' \subseteq Files, up' \subseteq ApiProcs,
         NEW y \in Syncs, sync' = [sync EXCEPT ![s] = y],
         NEW reg, reg = registry[y.proc], NEW known, known = DOMAIN defs', SyncOK(y, reg, known)
  PROVE  RegistryInv'
<1>1. sync' \in [Scans -> Syncs] /\ sync'[s] = y /\ \A t \in Scans \ {s} : sync'[t] = sync[t]
  BY DEF RegistryInv, RegistryTypes
<1>2. RegistryTypes'
  BY <1>1 DEF RegistryInv, RegistryTypes, DiskOK
<1>3. ASSUME NEW t \in Scans \ {s}
      PROVE  SyncOK(sync'[t], registry'[sync'[t].proc], DOMAIN defs')
  <2> PICK x, r, old : x = sync[t] /\ r = registry[x.proc] /\ old = DOMAIN defs
    OBVIOUS
  <2>1. SyncOK(x, r, old) /\ old \subseteq known
    BY DEF RegistryInv, SyncInv
  <2>2. SyncOK(x, r, known)
    BY <2>1, Resting
  <2> QED
    BY <1>1, <2>2
<1>4. SyncInv'
  BY <1>1, <1>3 DEF SyncInv
<1> QED
  BY <1>2, <1>4 DEF RegistryInv

\* What is flushed: one name more than what is held.
LEMMA FlushedNames ==
  ASSUME RegistryTypes, NEW s \in Scans
  PROVE  /\ DOMAIN Flushed(s) = DOMAIN sync[s].want \cup DOMAIN sync[s].held
         /\ Flushed(s) \in Maps
<1> PICK want, held : want = sync[s].want /\ held = sync[s].held
  OBVIOUS
<1>1. want \in Maps /\ held \in Maps
  BY DEF RegistryTypes, Syncs
<1>2. PICK W \in SUBSET Files, H \in SUBSET Files : want \in [W -> Nat] /\ held \in [H -> Nat]
  BY <1>1 DEF Maps
<1>3. Flushed(s) = [n \in W \cup H |-> IF n \in W THEN want[n] ELSE held[n]]
  BY <1>2 DEF Flushed, Pending
<1>4. Flushed(s) \in [W \cup H -> Nat] /\ W \cup H \in SUBSET Files
  BY <1>2, <1>3
<1>5. Flushed(s) \in Maps
  BY <1>4 DEF Maps
<1> QED
  BY <1>2, <1>3, <1>5

\* Another playbook: its name is after those that are held.
LEMMA NextKeeps ==
  ASSUME RegistryInv, NEW s \in Scans, SyncNext(s)
  PROVE  RegistryInv'
<1> PICK x, reg, flushed : x = sync[s] /\ reg = registry[x.proc] /\ flushed = Flushed(s)
  OBVIOUS
<1> PICK n, v : n = reg[x.taken + 1][1] /\ v = reg[x.taken + 1][2]
  OBVIOUS
<1> PICK known : known = DOMAIN defs
  OBVIOUS
<1>1. x \in Syncs /\ SyncOK(x, reg, known) /\ x.pc = "loop" /\ x.taken < Len(reg)
  BY DEF SyncNext, RegistryInv, RegistryTypes, SyncInv
<1>2. x.taken \in Nat /\ x.proc \in Procs /\ reg \in Seq(Entries)
  BY <1>1 DEF RegistryInv, RegistryTypes, Syncs, SyncOK
<1>3. reg[x.taken + 1] \in Entries
  BY <1>1, <1>2
<1>4. n \in Files /\ v \in Nat
  BY <1>3 DEF Entries
<1>5. PICK want, fresh :
         /\ sync' = [sync EXCEPT ![s] = [sync[s] EXCEPT !.taken = sync[s].taken + 1, !.held = Flushed(s),
                                                        !.want = want, !.fresh = fresh]]
         /\ (want = Unset /\ Exists(s, n)) \/ want = [m \in {n} |-> v]
         /\ fresh \in {sync[s].fresh, sync[s].fresh \cup {n}}
  <2> DEFINE entry == registry[sync[s].proc][sync[s].taken + 1]
             cur == IF entry[1] \in DOMAIN Flushed(s) THEN Flushed(s)[entry[1]] ELSE defs[entry[1]].version
             W == IF Exists(s, entry[1]) /\ cur = entry[2] THEN Unset ELSE [m \in {entry[1]} |-> entry[2]]
             F == IF Exists(s, entry[1]) THEN sync[s].fresh ELSE sync[s].fresh \cup {entry[1]}
  <2>1. sync' = [sync EXCEPT ![s] = [sync[s] EXCEPT !.taken = sync[s].taken + 1, !.held = Flushed(s),
                                                    !.want = W, !.fresh = F]]
    BY Zenon DEF SyncNext
  <2>2. n = entry[1] /\ v = entry[2]
    OBVIOUS
  <2> HIDE DEF entry
  <2>3. (W = Unset /\ Exists(s, n)) \/ W = [m \in {n} |-> v]
    BY <2>2
  <2>4. F \in {sync[s].fresh, sync[s].fresh \cup {n}}
    BY <2>2
  <2> HIDE DEF W, F
  <2> QED
    BY <2>1, <2>3, <2>4, Zenon
<1> DEFINE y == [x EXCEPT !.taken = x.taken + 1, !.held = flushed, !.want = want, !.fresh = fresh]
<1>6. flushed \in Maps /\ DOMAIN flushed = DOMAIN x.want \cup DOMAIN x.held
  BY FlushedNames DEF RegistryInv
<1>7. want \in Maps /\ (n \in DOMAIN want \/ Exists(s, n)) /\ \A m \in DOMAIN want : m = n
  <2>1. CASE want = Unset /\ Exists(s, n)
    BY <2>1, IdleSync
  <2>2. CASE want = [m \in {n} |-> v]
    <3>1. want \in [{n} -> Nat] /\ {n} \in SUBSET Files
      BY <1>4, <2>2
    <3> QED
      BY <2>2, <3>1 DEF Maps
  <2> QED
    BY <1>5, <2>1, <2>2
<1>8. fresh \in SUBSET Files
  <2>1. x.fresh \in SUBSET Files /\ fresh \in {x.fresh, x.fresh \cup {n}}
    BY <1>1, <1>5 DEF Syncs
  <2> QED
    BY <1>4, <2>1
<1>9. /\ y \in Syncs /\ y.pc = "loop" /\ y.proc = x.proc /\ y.taken = x.taken + 1 /\ y.held = flushed
      /\ y.want = want /\ y.fine = x.fine /\ y.overrun = x.overrun
  <2>1. x \in Syncs /\ x.taken + 1 \in Nat /\ flushed \in Maps /\ want \in Maps /\ fresh \in SUBSET Files
        /\ x.pc = "loop"
    BY <1>1, <1>2, <1>6, <1>7, <1>8
  <2> PICK k \in Nat : k = x.taken + 1
    BY <2>1
  <2>2. y = [x EXCEPT !.taken = k, !.held = flushed, !.want = want, !.fresh = fresh]
    OBVIOUS
  <2> HIDE DEF y
  <2> QED
    BY <2>1, <2>2 DEF Syncs
<1>10. sync' = [sync EXCEPT ![s] = y]
  BY <1>5
<1> HIDE DEF y
<1>11. Exists(s, n) => n \in DOMAIN flushed \/ n \in known
  BY DEF Exists
<1>12. Orderly(x, reg, known) => Orderly(y, reg, known)
  <2> SUFFICES ASSUME Orderly(x, reg, known)
               PROVE  Orderly(y, reg, known)
    OBVIOUS
  <2>1. Ascends(reg) /\ y.fine \subseteq Names(reg)
    BY <1>9 DEF Orderly
  <2>2. Len(reg) \in Nat /\ y.taken \in Nat /\ y.taken <= Len(reg) /\ y.taken # 0 /\ y.taken - 1 = x.taken
    BY <1>1, <1>2, <1>9, SMTT(30)
  <2>3. ASSUME NEW k \in 1 .. y.taken
        PROVE  reg[k][1] \in DOMAIN y.held \cup DOMAIN y.want \cup known
    <3>1. CASE k \in 1 .. x.taken
      <4>1. reg[k][1] \in DOMAIN x.held \cup DOMAIN x.want \cup known
        BY <3>1 DEF Orderly
      <4> QED
        BY <1>6, <1>9, <4>1
    <3>2. CASE k = x.taken + 1
      BY <1>7, <1>9, <1>11, <3>2
    <3> QED
      BY <1>2, <1>9, <3>1, <3>2
  <2>4. \A m \in DOMAIN y.want : y.taken # 0 /\ m = reg[y.taken][1]
    BY <1>7, <1>9, <2>2
  <2>5. ASSUME NEW m \in DOMAIN y.held
        PROVE  \E k \in 1 .. y.taken - 1 : m = reg[k][1]
    <3>1. CASE m \in DOMAIN x.want
      <4>1. x.taken # 0 /\ m = reg[x.taken][1]
        BY <3>1 DEF Orderly
      <4> QED
        BY <1>2, <2>2, <4>1, SMTT(30)
    <3>2. CASE m \in DOMAIN x.held
      <4>1. PICK k \in 1 .. x.taken - 1 : m = reg[k][1]
        BY <3>2 DEF Orderly
      <4>2. k \in 1 .. y.taken - 1
        BY <1>2, <2>2
      <4> QED
        BY <4>1, <4>2
    <3> QED
      BY <1>6, <1>9, <3>1, <3>2
  <2> QED
    BY <2>1, <2>2, <2>3, <2>4, <2>5 DEF Orderly
<1>13. SyncOK(y, reg, known)
  BY <1>1, <1>9, <1>12 DEF SyncOK
<1>14. UNCHANGED <<disk, modules, registry, defs, up>> /\ up \subseteq ApiProcs /\ DOMAIN defs \subseteq Files
  BY DEF SyncNext, RegistryInv, RegistryTypes
<1>15. reg = registry[y.proc] /\ known = DOMAIN defs'
  BY <1>9, <1>14
<1> QED
  BY <1>9, <1>10, <1>13, <1>14, <1>15, SyncMoves

\* The COMMIT: every playbook of the dictionary has its definition.
LEMMA CommitKeeps ==
  ASSUME RegistryInv, NEW s \in Scans, SyncCommit(s)
  PROVE  RegistryInv'
<1> PICK x, reg, known : x = sync[s] /\ reg = registry[x.proc] /\ known = DOMAIN defs'
  OBVIOUS
<1> DEFINE y == [Idle EXCEPT !.pc = "done", !.proc = x.proc, !.fine = x.fine, !.overrun = x.overrun]
<1>1. /\ x \in Syncs /\ SyncOK(x, reg, DOMAIN defs) /\ x.pc = "loop" /\ x.taken = Len(reg)
      /\ sync' = [sync EXCEPT ![s] = y] /\ UNCHANGED <<disk, modules, registry>>
      /\ up' = up \cup ({x.proc} \cap ApiProcs)
  BY DEF SyncCommit, RegistryInv, RegistryTypes, SyncInv
<1>2. /\ known = DOMAIN defs \cup DOMAIN x.want \cup DOMAIN x.held
      /\ known \subseteq Files
  <2>1. DOMAIN defs' = DOMAIN defs \cup DOMAIN Flushed(s)
    BY DEF SyncCommit, Committed
  <2>2. Flushed(s) \in Maps /\ DOMAIN Flushed(s) = DOMAIN x.want \cup DOMAIN x.held
    BY FlushedNames DEF RegistryInv
  <2>3. DOMAIN Flushed(s) \subseteq Files
    BY <2>2 DEF Maps
  <2> QED
    BY <2>1, <2>2, <2>3 DEF RegistryInv, RegistryTypes
<1>3. /\ y \in Syncs /\ y.pc = "done" /\ y.proc = x.proc /\ y.fine = x.fine /\ y.overrun = x.overrun
      /\ y.want = Unset
  BY <1>1, IdleSync DEF Syncs
<1> HIDE DEF y
<1>4. Orderly(x, reg, DOMAIN defs) => x.fine \subseteq known
  <2> SUFFICES ASSUME Orderly(x, reg, DOMAIN defs), NEW f \in x.fine
               PROVE  f \in known
    OBVIOUS
  <2>1. reg \in Seq(Entries)
    BY <1>1 DEF RegistryInv, RegistryTypes, SyncOK
  <2>2. PICK k \in DOMAIN reg : f = reg[k][1]
    BY DEF Orderly, Names
  <2>3. k \in 1 .. x.taken
    BY <1>1, <2>1, <2>2
  <2> QED
    BY <1>2, <2>2, <2>3 DEF Orderly
<1>5. SyncOK(y, registry[y.proc], known)
  BY <1>1, <1>3, <1>4, IdleSync DEF SyncOK
<1>6. DOMAIN defs \subseteq DOMAIN defs' /\ DOMAIN defs' \subseteq Files /\ up' \subseteq ApiProcs
  BY <1>1, <1>2 DEF RegistryInv, RegistryTypes
<1> PICK r : r = registry[y.proc]
  OBVIOUS
<1> QED
  BY <1>1, <1>3, <1>5, <1>6, SyncMoves

LEMMA FailKeeps ==
  ASSUME RegistryInv, NEW s \in Scans, SyncFail(s)
  PROVE  RegistryInv'
<1>1. sync' = [sync EXCEPT ![s] = Failed] /\ UNCHANGED <<disk, modules, registry, defs, up>>
  BY DEF SyncFail
<1>2. DOMAIN defs \subseteq DOMAIN defs' /\ DOMAIN defs' \subseteq Files /\ up' \subseteq ApiProcs
  BY <1>1 DEF RegistryInv, RegistryTypes
<1> PICK r, known : r = registry[Failed.proc] /\ known = DOMAIN defs'
  OBVIOUS
<1>3. SyncOK(Failed, r, known) /\ Failed \in Syncs
  BY NotStarted, IdleSync
<1> QED
  BY <1>1, <1>2, <1>3, SyncMoves

\* The end of a process ends its sync.
LEMMA DieKeeps ==
  ASSUME RegistryInv, NEW p \in Procs, Die(p)
  PROVE  RegistryInv'
<1>1. /\ modules' = [modules EXCEPT ![p] = {}] /\ registry' = [registry EXCEPT ![p] = <<>>]
      /\ up' = up \ {p} /\ UNCHANGED <<disk, defs>> /\ sync' = [s \in Scans |-> sync'[s]]
      /\ \A s \in Scans : sync'[s] = IF sync[s].proc = p /\ sync[s].pc = "loop" THEN Failed ELSE sync[s]
  BY DEF Die
<1>2. ASSUME NEW s \in Scans
      PROVE  sync'[s] \in Syncs /\ SyncOK(sync'[s], registry'[sync'[s].proc], DOMAIN defs')
  <2> PICK x, r, r2, known : /\ x = sync[s] /\ r = registry[x.proc] /\ r2 = registry'[x.proc]
                             /\ known = DOMAIN defs
    OBVIOUS
  <2>1. x \in Syncs /\ SyncOK(x, r, known)
    BY DEF RegistryInv, RegistryTypes, SyncInv
  <2>2. CASE x.proc = p /\ x.pc = "loop"
    <3>1. sync'[s] = Failed
      BY <1>1, <2>2
    <3> QED
      BY <1>1, <3>1, NotStarted, IdleSync
  <2>3. CASE ~(x.proc = p /\ x.pc = "loop")
    <3>1. x.pc = "loop" => r2 = r
      BY <1>1, <2>1, <2>3 DEF RegistryInv, RegistryTypes, SyncOK
    <3>2. SyncOK(x, r2, known)
      BY <2>1, <3>1, Resting
    <3>3. sync'[s] = x
      BY <1>1, <2>3
    <3> QED
      BY <1>1, <2>1, <3>2, <3>3
  <2> QED
    BY <2>2, <2>3
<1>3. RegistryTypes'
  <2>1. <<>> \in Seq(Entries)
    OBVIOUS
  <2> QED
    BY <1>1, <1>2, <2>1 DEF RegistryInv, RegistryTypes, DiskOK
<1>4. SyncInv'
  BY <1>2 DEF SyncInv
<1> QED
  BY <1>3, <1>4 DEF RegistryInv

\* Steps that leave the dictionaries and the syncs as they are.
LEMMA OthersKeep ==
  ASSUME RegistryInv, UNCHANGED <<modules, registry, sync, up>>, DOMAIN defs' = DOMAIN defs, DiskOK'
  PROVE  RegistryInv'
<1>1. RegistryTypes'
  BY DEF RegistryInv, RegistryTypes
<1>2. SyncInv'
  BY DEF RegistryInv, SyncInv
<1> QED
  BY <1>1, <1>2 DEF RegistryInv

LEMMA EditKeeps ==
  ASSUME RegistryInv, NEW f \in Files, Edit(f)
  PROVE  RegistryInv'
<1>1. PICK c \in Contents \ {disk[f]} : disk' = [disk EXCEPT ![f] = c]
  BY DEF Edit
<1>2. DiskOK'
  BY <1>1 DEF RegistryInv, RegistryTypes, DiskOK
<1> QED
  BY <1>2, OthersKeep DEF Edit

LEMMA UpdateKeeps ==
  ASSUME RegistryInv, NEW n \in Files, UpdatePlaybook(n)
  PROVE  RegistryInv'
<1>1. DOMAIN defs' = DOMAIN defs /\ DiskOK'
  BY DEF UpdatePlaybook, RegistryInv, RegistryTypes, DiskOK
<1> QED
  BY <1>1, OthersKeep DEF UpdatePlaybook

LEMMA ScansKeep ==
  ASSUME RegistryInv, NEW s \in Scans, NEW p \in Procs, Start(s, p) \/ Reload(s, p) \/ TaskDiscovers(s, p)
  PROVE  RegistryInv'
<1>1. <<>> \in Seq(Entries) /\ {} \in SUBSET Files
  OBVIOUS
<1>2. CASE Start(s, p) \/ Reload(s, p)
  <2>1. Scan(s, p, <<>>, {})
    BY <1>2 DEF Start, Reload
  <2> QED
    BY <1>1, <2>1, ScanKeeps
<1>3. CASE TaskDiscovers(s, p)
  <2> PICK reg, has : reg = registry[p] /\ has = modules[p]
    OBVIOUS
  <2>1. Scan(s, p, reg, has) /\ p \in WorkerProcs
    BY <1>3 DEF TaskDiscovers
  <2>2. reg \in Seq(Entries) /\ has \in SUBSET Files
    BY DEF RegistryInv, RegistryTypes
  <2>3. p \notin ApiProcs
    BY <2>1, RegistryAssumption
  <2> QED
    BY <2>1, <2>2, <2>3, ScanKeeps
<1> QED
  BY <1>2, <1>3

\* Types of the dictionaries, the definitions and the syncs, and how far a
\* sync has come: see Orderly.
THEOREM RegistryInvariance == Spec => []RegistryInv
<1>1. Init => RegistryInv
  BY RegistryStarts DEF Init
<1>2. RegistryInv /\ UNCHANGED registryVars => RegistryInv'
  BY OthersKeep DEF registryVars, RegistryInv, RegistryTypes, DiskOK
<1>3. RegistryInv /\ RegistryNext => RegistryInv'
  <2> SUFFICES ASSUME RegistryInv, RegistryNext
               PROVE  RegistryInv'
    OBVIOUS
  <2>1. ASSUME NEW s \in Scans, NEW p \in Procs, Start(s, p) \/ Reload(s, p) \/ TaskDiscovers(s, p)
        PROVE  RegistryInv'
    BY <2>1, ScansKeep
  <2>2. ASSUME NEW s \in Scans, SyncNext(s) \/ SyncCommit(s) \/ SyncFail(s)
        PROVE  RegistryInv'
    BY <2>2, NextKeeps, CommitKeeps, FailKeeps
  <2>3. ASSUME NEW p \in Procs, Die(p)
        PROVE  RegistryInv'
    BY <2>3, DieKeeps
  <2>4. ASSUME NEW n \in Files, UpdatePlaybook(n) \/ Edit(n)
        PROVE  RegistryInv'
    BY <2>4, UpdateKeeps, EditKeeps
  <2> QED
    BY <2>1, <2>2, <2>3, <2>4, Zenon DEF RegistryNext
<1>4. RegistryInv /\ [Next]_vars => RegistryInv'
  BY <1>2, <1>3 DEF Next, vars
<1> QED
  BY <1>1, <1>4, PTL DEF Spec

\* A start or a reload that has ended well has defined every playbook whose
\* file was without an error, however its loop was interleaved with other
\* processes, with PATCH and with edits of the files (clear_and_reload,
\* sync_to_db).
THEOREM ReloadsAreComplete == Spec => []ReloadComplete
<1>1. RegistryInv => ReloadComplete
  BY DEF RegistryInv, SyncInv, SyncOK, ReloadComplete
<1> QED
  BY <1>1, RegistryInvariance, PTL

\* Syncs of API processes take their locks in the order of the files, so
\* that two of them never wait for each other: one of the two is a worker's,
\* or had its dictionary filled again under its iterator (sync_to_db,
\* _execute).
THEOREM ApiSyncsAreOrdered == Spec => []ApiSyncsNeverDeadlock
<1>1. ASSUME RegistryInv
      PROVE  ApiSyncsNeverDeadlock
  <2> SUFFICES ASSUME NEW s \in Scans, NEW t \in Scans, WaitsFor(s, t), WaitsFor(t, s),
                      \A r \in {s, t} : sync[r].proc \notin WorkerProcs /\ ~sync[r].overrun
               PROVE  FALSE
    BY DEF ApiSyncsNeverDeadlock
  <2>1. PICK n \in Pending(s) : n \in DOMAIN sync[t].held
    BY DEF WaitsFor
  <2>2. PICK m \in Pending(t) : m \in DOMAIN sync[s].held
    BY DEF WaitsFor
  <2>3. \A r \in {s, t} : \A a \in DOMAIN sync[r].held, b \in Pending(r) :
           a \in Int /\ b \in Int /\ a < b
    <3> SUFFICES ASSUME NEW r \in {s, t}, NEW a, NEW b,
                        a \in DOMAIN sync[r].held, b \in DOMAIN sync[r].want
                 PROVE  a \in Int /\ b \in Int /\ a < b
      BY DEF Pending
    <3> PICK x, reg, known : x = sync[r] /\ reg = registry[x.proc] /\ known = DOMAIN defs
      OBVIOUS
    <3>1. x \in Syncs /\ SyncOK(x, reg, known) /\ b \in DOMAIN x.want /\ a \in DOMAIN x.held
      BY <1>1 DEF RegistryInv, RegistryTypes, SyncInv
    <3>2. x.pc = "loop" /\ x.proc \in Procs
      BY <3>1 DEF SyncOK, WaitsFor
    <3>3. x.proc \in ApiProcs /\ ~x.overrun
      BY <3>2 DEF Procs
    <3>4. Orderly(x, reg, known)
      BY <3>1, <3>2, <3>3 DEF SyncOK
    <3>5. x.taken \in Nat /\ reg \in Seq(Entries)
      BY <1>1, <3>1, <3>2 DEF RegistryInv, RegistryTypes, Syncs
    <3>6. x.taken # 0 /\ b = reg[x.taken][1] /\ x.taken <= Len(reg)
      BY <3>1, <3>4 DEF Orderly
    <3>7. PICK k \in 1 .. x.taken - 1 : a = reg[k][1]
      BY <3>1, <3>4 DEF Orderly
    <3>8. k \in 1 .. Len(reg) /\ x.taken \in 1 .. Len(reg) /\ k < x.taken
      BY <3>5, <3>6, <3>7
    <3>9. a < b
      BY <3>4, <3>6, <3>7, <3>8 DEF Orderly, Ascends
    <3>10. reg[k] \in Entries /\ reg[x.taken] \in Entries
      BY <3>5, <3>8
    <3>11. a \in Files /\ b \in Files
      BY <3>6, <3>7, <3>10 DEF Entries
    <3> QED
      BY <3>9, <3>11 DEF Files
  <2>4. m \in Int /\ n \in Int /\ m < n /\ n < m
    BY <2>1, <2>2, <2>3
  <2> QED
    BY <2>4
<1> QED
  BY <1>1, RegistryInvariance, PTL
=============================================================================
