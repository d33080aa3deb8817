---------------------------- MODULE MCActionRetry ----------------------------
(* Instances of ActionRetry for TLC.                                       *)
EXTENDS ActionRetry, TLC

CONSTANTS lookup, block, notify

\* Two actions retry once; a third not at all.
SomeRetries == [a \in Actions |-> IF a = notify THEN 0 ELSE 1]
=============================================================================
