------------------------------- MODULE Scheduler -------------------------------
(***************************************************************************)
(* One recurring job in the schedulers of several processes                *)
(* (core/scheduler.py): each decides on its monotonic clock whether the    *)
(* job is due, computes the tick bucket from its wall clock, and the Redis *)
(* key of the bucket decides who runs it.                                  *)
(***************************************************************************)
EXTENDS Integers, Sequences, FiniteSets

CONSTANTS
    Instances,
    Interval,     \* interval_seconds of the job
    LockTtl,      \* lock_ttl_seconds
    MaxClock,     \* bound: the last second
    MaxSkew       \* bound: how far two wall clocks are apart

ASSUME SchedulerAssumption ==
    /\ Interval \in Nat \ {0} /\ LockTtl \in Nat \ {0}
    /\ MaxClock \in Nat /\ MaxSkew \in Nat

VARIABLES
    clock,       \* seconds that have passed: for time.monotonic() and for Redis
    skew,        \* how far the wall clock of an instance is ahead of the slowest
    lastRun,     \* job["last_run"] of each instance
    inst,        \* where the tick of an instance is, and its bucket
    expiry,      \* expiry[b]: when the key of bucket b expires; 0: not set
    starts,      \* starts of the callback: [bucket, at]
    own          \* buckets an instance has started since it last failed, was
                 \* started again, or had its wall clock set back

tickVars == <<clock, skew, lastRun, inst, expiry, starts, own>>

Wall(i) == clock + skew[i]

Buckets == 0 .. (MaxClock + MaxSkew) \div Interval

Resting == [pc |-> "idle", bucket |-> 0]

\* time.monotonic() is any number when the process starts: the job is due at
\* once, or at most one interval later.
SchedulerInit ==
    /\ clock = 0
    /\ skew \in [Instances -> 0 .. MaxSkew]
    /\ lastRun \in [Instances -> -Interval .. 0]
    /\ inst = [i \in Instances |-> Resting]
    /\ expiry = [b \in Buckets |-> 0]
    /\ starts = <<>> /\ own = [i \in Instances |-> {}]

\* tick() finds the job due and computes the bucket from the wall clock.
Due(i) ==
    /\ inst[i].pc = "idle"
    /\ clock - lastRun[i] >= Interval
    /\ inst' = [inst EXCEPT ![i] = [pc |-> "locking", bucket |-> Wall(i) \div Interval]]
    /\ UNCHANGED <<clock, skew, lastRun, expiry, starts, own>>

\* Mutant: SET without NX.
KeyFreeAlways(b) == TRUE

\* SET NX finds no key, or one that has expired.
KeyFree(b) == expiry[b] <= clock

\* DistributedLock.acquire returns True.
Acquire(i) ==
    LET b == inst[i].bucket
    IN  /\ inst[i].pc = "locking" /\ KeyFree(b)
        /\ expiry' = [expiry EXCEPT ![b] = clock + LockTtl]
        /\ inst' = [inst EXCEPT ![i].pc = "running"]
        /\ starts' = Append(starts, [bucket |-> b, at |-> clock])
        /\ own' = [own EXCEPT ![i] = @ \cup {b}]
        /\ UNCHANGED <<clock, skew, lastRun>>

\* It returns False: the key is there, or Redis raised.  The instance waits
\* for its next interval.
Skip(i) ==
    /\ inst[i].pc = "locking"
    /\ lastRun' = [lastRun EXCEPT ![i] = clock]
    /\ inst' = [inst EXCEPT ![i] = Resting]
    /\ UNCHANGED <<clock, skew, expiry, starts, own>>

\* Mutant: last_run is not advanced.
RanUnmarked(i) ==
    /\ inst[i].pc = "running"
    /\ inst' = [inst EXCEPT ![i] = Resting]
    /\ UNCHANGED <<clock, skew, lastRun, expiry, starts, own>>

\* The callback returns.
Ran(i) ==
    /\ inst[i].pc = "running"
    /\ lastRun' = [lastRun EXCEPT ![i] = clock]
    /\ inst' = [inst EXCEPT ![i] = Resting]
    /\ UNCHANGED <<clock, skew, expiry, starts, own>>

\* The callback raises: last_run is not advanced, so the next call of tick()
\* tries the bucket again, against the key of this very execution.
Raised(i) ==
    /\ inst[i].pc = "running"
    /\ inst' = [inst EXCEPT ![i] = Resting]
    /\ own' = [own EXCEPT ![i] = {}]
    /\ UNCHANGED <<clock, skew, lastRun, expiry, starts>>

\* The process dies and is started again: register() sets last_run to 0.
Restart(i) ==
    /\ inst' = [inst EXCEPT ![i] = Resting]
    /\ lastRun' = [lastRun EXCEPT ![i] = clock - Interval]
    /\ own' = [own EXCEPT ![i] = {}]
    /\ UNCHANGED <<clock, skew, expiry, starts>>

\* Between two ticks the wall clock of an instance is set, forward or back.
SetClock(i) ==
    /\ inst[i].pc = "idle"
    /\ \E s \in 0 .. MaxSkew :
          /\ skew' = [skew EXCEPT ![i] = s]
          /\ own' = IF s < skew[i] THEN [own EXCEPT ![i] = {}] ELSE own
    /\ UNCHANGED <<clock, lastRun, inst, expiry, starts>>

Tick ==
    /\ clock < MaxClock
    /\ clock' = clock + 1
    /\ UNCHANGED <<skew, lastRun, inst, expiry, starts, own>>
=============================================================================
