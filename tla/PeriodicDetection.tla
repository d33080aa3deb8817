--------------------------- MODULE PeriodicDetection ---------------------------
(***************************************************************************)
(* The anomaly detection as the job of the scheduler, in several processes *)
(* (worker/anomaly.py: "safe to schedule via celery beat or to drive       *)
(* directly from the in-process Scheduler").                               *)
(***************************************************************************)
EXTENDS Scheduler, Detection

ASSUME InstancesAssumption == Detectors = Instances

vars == <<tickVars, detectVars>>

\* The wall clock of an instance, from the start of the first window.
Now(i) == BaselineDays * DayLength + Wall(i)

Init == SchedulerInit /\ DetectionInit

\* The scheduler of an instance up to the callback.
Schedule(i) == (Due(i) \/ Acquire(i) \/ Skip(i) \/ SetClock(i)) /\ UNCHANGED detectVars

\* The callback reads, and ends with its COMMIT or by raising.
Detect(i) ==
    \/ /\ inst[i].pc = "running"
       /\ DetectAlerts(i, Now(i)) \/ DetectExisting(i)
       /\ UNCHANGED tickVars
    \/ DetectCommit(i, Now(i)) /\ Ran(i)
    \/ DetectFails(i) /\ (Raised(i) \/ Restart(i))

\* A process is started again while no detection runs in it.
RestartIdle(i) == det[i].pc = "idle" /\ inst[i].pc # "idle" /\ Restart(i) /\ UNCHANGED detectVars

\* Some API process stores an alert, on a clock of its own.
Store == \E s \in 0 .. MaxSkew : Ingest(BaselineDays * DayLength + clock + s)

Next ==
    \/ \E i \in Instances : Schedule(i) \/ Detect(i) \/ RestartIdle(i)
    \/ Tick /\ UNCHANGED detectVars
    \/ Store /\ UNCHANGED tickVars

Spec == Init /\ [][Next]_vars

(***************************************************************************)
(* Properties.                                                             *)
(***************************************************************************)
\* Two starts of one bucket, by any instances, are never within the TTL of
\* each other, however far their wall clocks are apart and whatever fails, is
\* restarted or waits for Redis in between.  A TTL shorter than the interval
\* lets a bucket start again (DistributedLock.acquire).
StartsApart ==
    \A m, n \in DOMAIN starts :
        m < n /\ starts[m].bucket = starts[n].bucket => starts[n].at - starts[m].at >= LockTtl

\* An instance asks for a bucket that it has started before only if the
\* callback raised, the process was started again or its wall clock was set
\* back since, whatever the TTL: the monotonic clock that decides when the
\* job is due and the wall clock that names the bucket move together
\* (Scheduler.tick, _tick_bucket).
TickNotRepeated ==
    \A i \in Instances : inst[i].pc = "locking" => inst[i].bucket \notin own[i]

\* run_anomaly_detection stores a signal once a day, over runs that fail,
\* are repeated, or commit after midnight, as long as no two of them are open
\* at the same time.
IdempotentAlone ==
    ~overlapped => \A row \in DOMAIN anomalies : anomalies[row] = 1

\* An address that the window has not seen is reported once a detection that
\* has read its alert as one of the day has finished, though alerts keep
\* coming and detections of several processes, each on its own wall clock,
\* interleave.
FirstSeenReported ==
    \A n \in DOMAIN log, now \in {c[2] : c \in covered} : <<n, now>> \in covered =>
        \/ \E m \in DOMAIN log : /\ log[m].ip = log[n].ip
                                 /\ log[m].at >= now - BaselineDays * DayLength
                                 /\ log[m].at < DayStart(now)
        \/ \E row \in DOMAIN anomalies :
              row.kind = "first_seen_ip" /\ row.ip = log[n].ip /\ row.day >= DayOf(now)
=============================================================================
