----------------------------- MODULE MCEnrichment -----------------------------
(***************************************************************************)
(* An instance of Enrichment for TLC: two alerts with one IOC and two      *)
(* workers; two alerts next to a row posted to an incident; an alert next  *)
(* to a post and a call that adds or drops an enrichment.                  *)
(***************************************************************************)
EXTENDS Enrichment, TLC

CONSTANTS r1, r2, r3, r4, p1, e1, w1, w2, w3, v1, v2, acme, api1, vt

OneValue == [r \in Requests |-> IF r \in {r1, r2} THEN {v1} ELSE {v2}]
OneTenant == [r \in Requests |-> acme]
Posted == [p \in Posts |-> v2]
Served == [r \in Requests |-> api1]

\* should_enrich consults VirusTotal's cache for v2, none for v1.
VirusTotal == [v \in Values |-> IF v = v2 THEN {vt} ELSE {}]

\* One integration looks up v2; none is configured for v1.
Configured == VirusTotal

\* Claims of v1 may be lost or bypassed once.
OneSlip == [v \in Values |-> IF v = v1 THEN 1 ELSE 0]

ThreeScenes == {{r1, r2, w1, w2}, {r3, r4, p1, w3, v2}, {r3, p1, e1, w3, v2}}

Symmetry == UNION {Permutations(s) : s \in {{w1, w2}, {r1, r2}}}
=============================================================================
