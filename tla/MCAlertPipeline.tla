--------------------------- MODULE MCAlertPipeline ---------------------------
(***************************************************************************)
(* Instances of AlertPipeline for TLC: which request carries which key and *)
(* which playbooks it triggers.                                            *)
(***************************************************************************)
EXTENDS PipelineLedger, TLC

CONSTANTS r1, r2, r3, r4, m1, w1, w2, pa, pb, k1

\* Every webhook request carries the key k1.
SameKey == [r \in Requests |-> k1]
\* The first delivery carries no source_id.
MixedKeys == [r \in Requests |-> IF r = r1 THEN NoKey ELSE k1]

\* No trigger matches; two playbooks match the first delivery only.
NoNames == [t \in Tasks |-> <<>>]
FirstNames == [t \in Tasks |-> IF t = r1 THEN <<pa, pb>> ELSE <<>>]
\* The playbook the older image lacks.
NewName == [t \in Tasks |-> <<pb>>]

\* Every worker has all playbooks on its disk; w2 runs on an older image.
AllRegistered == [w \in Workers |-> Playbooks]
OldImage == [w \in Workers |-> IF w = w2 THEN {pa} ELSE Playbooks]

\* Either the first delivery arrives, and workers execute its task, or the
\* others do, and meet in the alerts table.
Arrived(r) == req[r].pc # "idle"
OneScene == Arrived(r1) => \A r \in Requests \ {r1} : ~ Arrived(r)
SceneSpec == Init /\ [][Next /\ OneScene']_vars

SceneSymmetry == Permutations(Workers) \cup Permutations({r2, r3, r4})
=============================================================================
