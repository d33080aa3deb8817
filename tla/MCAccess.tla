------------------------------- MODULE MCAccess -------------------------------
(* Instances of Access for TLC.                                            *)
EXTENDS Access, TLC

CONSTANTS root, eve, r1, r2, r3, h1, h2, h3, p1, p2, k1, ip, install

Admin == [by |-> install, first |-> "admin", role |-> "admin", active |-> TRUE, secret |-> install]

\* An empty table, one admin, and two.
Tables == {[u \in {} |-> Admin], [u \in {root} |-> Admin], [u \in {root, eve} |-> Admin]}

TwoScenes == {{"accounts"}, {"hooks", "keys"}}

OwnPrefix == [k \in Keys |-> k]

RequestSymmetry == Permutations(Requests) \cup Permutations(Hooks) \cup Permutations(Procs)
=============================================================================
