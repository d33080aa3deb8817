------------------------- MODULE MCPeriodicDetection -------------------------
(* Instances of PeriodicDetection for TLC.                                 *)
EXTENDS PeriodicDetection, TLC

CONSTANTS i1, i2, near, far

\* One alert on the first day of the window, and one on the next day or none.
\* The first leaves the window within the day.
SomePasts == {<<>>} \cup {[n \in 1 .. k |-> [ip |-> near, rank |-> 1, at |-> DayLength * (n - 1)]] :
                             k \in 1 .. 2}

\* Either no alert at all, and clocks are as they like; or alerts, and all
\* instances are due at once, on clocks that nobody sets, for a shorter time.
Quiet == log = <<>>
SceneInit == Init /\ (Quiet \/ \A i \in Instances : lastRun[i] = -Interval)
SceneNext == Next /\ (IF Quiet THEN UNCHANGED log ELSE UNCHANGED skew /\ clock' < MaxClock)

SceneSpec == SceneInit /\ [][SceneNext]_vars

InstanceSymmetry == Permutations(Instances)
=============================================================================
