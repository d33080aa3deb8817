----------------------- MODULE PeriodicDetectionProofs -----------------------
(***************************************************************************)
(* Proofs about PeriodicDetection: how often the job of the scheduler      *)
(* starts, and what the detections it runs store.                          *)
(***************************************************************************)
EXTENDS PeriodicDetection, FiniteSetTheorems, TLAPS

(***************************************************************************)
(* Division and cardinality.                                               *)
(***************************************************************************)
\* The quotient of a division, by its remainder.
LEMMA DivFacts ==
    ASSUME NEW a \in Nat, NEW n \in Nat \ {0}
    PROVE  /\ a \div n \in Nat
           /\ n * (a \div n) <= a /\ a < n * ((a \div n) + 1)
  OBVIOUS

\* Division by a positive number is monotonic.
LEMMA DivMonotone ==
    ASSUME NEW a \in Nat, NEW b \in Nat, NEW n \in Nat \ {0}, a <= b
    PROVE  a \div n <= b \div n
<1> DEFINE q == a \div n
           r == b \div n
<1>1. /\ q \in Nat /\ n * q <= a
      /\ r \in Nat /\ b < n * (r + 1)
  BY DivFacts
<1> HIDE DEF q, r
<1>2. n * q < n * (r + 1)
  BY <1>1
<1>3. ASSUME r + 1 <= q PROVE FALSE
  <2>1. PICK k \in Nat : q = r + 1 + k
    <3>1. q - (r + 1) \in Nat /\ q = r + 1 + (q - (r + 1))
      BY <1>1, <1>3
    <3> QED
      BY <3>1
  <2>2. n * q = n * (r + 1) + n * k /\ n * k >= 0
    BY <1>1, <2>1
  <2>3. n * q \in Int /\ n * (r + 1) \in Int /\ n * k \in Int
    BY <1>1, <2>1
  <2> QED
    BY <1>2, <2>2, <2>3
<1>4. q <= r
  BY <1>1, <1>3
<1> QED
  BY <1>4 DEF q, r

(***************************************************************************)
(* The scheduler.                                                          *)
(***************************************************************************)
InstState == [pc : {"idle", "locking", "running"}, bucket : Buckets]
Start == [bucket : Buckets, at : Nat]

SchedulerTyped ==
    /\ clock \in Nat /\ clock <= MaxClock
    /\ skew \in [Instances -> 0 .. MaxSkew]
    /\ lastRun \in [Instances -> Int]
    /\ inst \in [Instances -> InstState]
    /\ expiry \in [Buckets -> Nat]
    /\ starts \in Seq(Start)
    /\ own \in [Instances -> SUBSET Buckets]

\* The key that a start has set is there for LockTtl seconds at least.
Keyed ==
    \A n \in DOMAIN starts :
        starts[n].at <= clock /\ starts[n].at + LockTtl <= expiry[starts[n].bucket]

\* The wall clock has reached every bucket an instance has started, or asks
\* for; while it runs none, it had reached them when last_run was advanced.
Reached(i, b, time) == b * Interval <= time + skew[i]
OwnReached(i) ==
    /\ \A b \in own[i] : Reached(i, b, clock)
    /\ inst[i].pc # "idle" => Reached(i, inst[i].bucket, clock)
    /\ inst[i].pc = "idle" => \A b \in own[i] : Reached(i, b, lastRun[i])
    /\ inst[i].pc = "locking" => \A b \in own[i] : b < inst[i].bucket

SchedulerInv ==
    /\ SchedulerTyped /\ Keyed /\ StartsApart
    /\ \A i \in Instances : OwnReached(i)

\* The wall clocks only read buckets that there are.
LEMMA BucketOfClock ==
    ASSUME SchedulerTyped, NEW i \in Instances
    PROVE  /\ Wall(i) \in Nat /\ Wall(i) \div Interval \in Buckets
           /\ Reached(i, Wall(i) \div Interval, clock)
<1>1. /\ Wall(i) \in Nat /\ MaxClock + MaxSkew \in Nat /\ Interval \in Nat \ {0}
      /\ Wall(i) <= MaxClock + MaxSkew /\ Wall(i) = clock + skew[i]
  BY SchedulerAssumption DEF SchedulerTyped, Wall
<1>2. /\ Wall(i) \div Interval \in Nat /\ (MaxClock + MaxSkew) \div Interval \in Nat
      /\ Wall(i) \div Interval <= (MaxClock + MaxSkew) \div Interval
      /\ Interval * (Wall(i) \div Interval) <= Wall(i)
  BY <1>1, DivFacts, DivMonotone
<1>3. (Wall(i) \div Interval) * Interval = Interval * (Wall(i) \div Interval)
  BY <1>1, <1>2
<1> QED
  BY <1>1, <1>2, <1>3 DEF Buckets, Reached

\* The bucket of a job that is due, an interval after last_run, is a later one
\* than those the wall clock had reached by then.
LEMMA DueLater ==
    ASSUME SchedulerTyped, NEW i \in Instances, clock - lastRun[i] >= Interval,
           NEW b \in Buckets, Reached(i, b, lastRun[i])
    PROVE  b < Wall(i) \div Interval
<1> DEFINE q == Wall(i) \div Interval
<1>1. /\ Interval \in Nat \ {0} /\ Wall(i) \in Nat /\ b \in Nat /\ lastRun[i] \in Int
      /\ Wall(i) = clock + skew[i] /\ skew[i] \in Nat /\ clock \in Nat
  BY SchedulerAssumption, BucketOfClock DEF SchedulerTyped, Wall, Buckets
<1>2. q \in Nat /\ Wall(i) < Interval * (q + 1)
  BY <1>1, DivFacts
<1>3. b * Interval + Interval <= Wall(i)
  <2>1. b * Interval \in Int
    BY <1>1
  <2> QED
    BY <1>1, <2>1 DEF Reached
<1> HIDE DEF q
<1>4. ASSUME q <= b PROVE FALSE
  <2>1. PICK k \in Nat : b = q + k
    <3>1. b - q \in Nat /\ b = q + (b - q)
      BY <1>1, <1>2, <1>4
    <3> QED
      BY <3>1
  <2>2. b * Interval + Interval = Interval * (q + 1) + k * Interval /\ k * Interval >= 0
    BY <1>1, <1>2, <2>1
  <2>3. b * Interval \in Int /\ Interval * (q + 1) \in Int /\ k * Interval \in Int
    BY <1>1, <1>2, <2>1
  <2> QED
    BY <1>1, <1>2, <1>3, <2>2, <2>3
<1> QED
  BY <1>1, <1>2, <1>4 DEF q

\* What does not look at an instance leaves what it has reached alone, and a
\* clock that goes on or is set forward reaches no less.
LEMMA ReachedFrame ==
    ASSUME SchedulerTyped, NEW i \in Instances, OwnReached(i),
           inst'[i] = inst[i], lastRun'[i] = lastRun[i], own'[i] = own[i],
           skew'[i] \in Nat, skew[i] <= skew'[i], clock' \in Nat, clock <= clock'
    PROVE  OwnReached(i)'
<1>1. /\ clock \in Nat /\ skew[i] \in Nat /\ lastRun[i] \in Int /\ Interval \in Nat
      /\ own[i] \subseteq Buckets /\ inst[i].bucket \in Buckets
  BY SchedulerAssumption DEF SchedulerTyped, InstState
<1>2. \A b \in Buckets : /\ Reached(i, b, clock) => b * Interval <= clock' + skew'[i]
                         /\ Reached(i, b, lastRun[i]) => b * Interval <= lastRun[i] + skew'[i]
  <2>1. \A b \in Buckets : b * Interval \in Int
    BY <1>1 DEF Buckets
  <2> QED
    BY <1>1, <2>1 DEF Reached
<1>3. \A b \in own[i] : b * Interval <= clock' + skew'[i]
  BY <1>1, <1>2 DEF OwnReached
<1>4. inst[i].pc # "idle" => inst[i].bucket * Interval <= clock' + skew'[i]
  BY <1>1, <1>2 DEF OwnReached
<1>5. inst[i].pc = "idle" => \A b \in own[i] : b * Interval <= lastRun[i] + skew'[i]
  BY <1>1, <1>2 DEF OwnReached
<1>6. inst[i].pc = "locking" => \A b \in own[i] : b < inst[i].bucket
  BY DEF OwnReached
<1> QED
  BY <1>3, <1>4, <1>5, <1>6 DEF OwnReached, Reached

\* The other instances do not notice a step of one.
LEMMA OthersReached ==
    ASSUME SchedulerTyped, \A j \in Instances : OwnReached(j), NEW i \in Instances,
           clock' = clock, skew' = skew,
           \A j \in Instances \ {i} :
              inst'[j] = inst[j] /\ lastRun'[j] = lastRun[j] /\ own'[j] = own[j]
    PROVE  \A j \in Instances \ {i} : OwnReached(j)'
<1> TAKE j \in Instances \ {i}
<1>1. clock \in Nat /\ skew[j] \in Nat /\ skew'[j] = skew[j]
  BY DEF SchedulerTyped
<1>2. inst'[j] = inst[j] /\ lastRun'[j] = lastRun[j] /\ own'[j] = own[j]
  OBVIOUS
<1> QED
  BY <1>1, <1>2, ReachedFrame

\* tick() finds the job due.
LEMMA DueInv ==
    ASSUME SchedulerInv, NEW i \in Instances, Due(i)
    PROVE  SchedulerInv'
<1> DEFINE b == Wall(i) \div Interval
           new == [pc |-> "locking", bucket |-> b]
<1>1. b \in Buckets /\ Reached(i, b, clock)
  BY BucketOfClock DEF SchedulerInv
<1>2. /\ inst' = [inst EXCEPT ![i] = new] /\ inst[i].pc = "idle" /\ clock - lastRun[i] >= Interval
      /\ UNCHANGED <<clock, skew, lastRun, expiry, starts, own>>
  BY DEF Due
<1>3. \A c \in own[i] : c < b
  <2>1. \A c \in own[i] : c \in Buckets /\ Reached(i, c, lastRun[i])
    BY <1>2 DEF SchedulerInv, OwnReached, SchedulerTyped
  <2> QED
    BY <1>2, <2>1, DueLater DEF SchedulerInv
<1> HIDE DEF b
<1>4. new \in InstState /\ new.pc = "locking" /\ new.bucket = b
  BY <1>1 DEF InstState
<1> HIDE DEF new
<1>5. inst \in [Instances -> InstState]
  BY DEF SchedulerInv, SchedulerTyped
<1>6. /\ inst' \in [Instances -> InstState] /\ inst'[i] = new
      /\ \A j \in Instances \ {i} : inst'[j] = inst[j]
  BY <1>2, <1>4, <1>5
<1>7. OwnReached(i)'
  <2>1. /\ inst'[i].pc = "locking" /\ inst'[i].bucket = b
        /\ \A c \in own[i] : Reached(i, c, clock)
    BY <1>4, <1>6 DEF SchedulerInv, OwnReached
  <2> QED
    BY <1>1, <1>2, <1>3, <2>1 DEF OwnReached, Reached
<1>8. \A j \in Instances \ {i} : OwnReached(j)'
  BY <1>2, <1>6, OthersReached DEF SchedulerInv
<1>9. SchedulerTyped' /\ Keyed' /\ StartsApart'
  BY <1>2, <1>6 DEF SchedulerInv, SchedulerTyped, Keyed, StartsApart
<1> QED
  BY <1>7, <1>8, <1>9 DEF SchedulerInv

\* The key is free and is set, and the start is recorded.
LEMMA AcquireInv ==
    ASSUME SchedulerInv, NEW i \in Instances, Acquire(i)
    PROVE  SchedulerInv'
<1> DEFINE b == inst[i].bucket
           new == [inst[i] EXCEPT !.pc = "running"]
           start == [bucket |-> b, at |-> clock]
<1>1. /\ inst \in [Instances -> InstState] /\ inst[i] \in InstState
      /\ own \in [Instances -> SUBSET Buckets] /\ starts \in Seq(Start)
      /\ clock \in Nat /\ LockTtl \in Nat \ {0} /\ expiry \in [Buckets -> Nat]
  BY SchedulerAssumption DEF SchedulerInv, SchedulerTyped
<1>2. b \in Buckets /\ inst[i].pc = "locking" /\ expiry[b] <= clock
      /\ expiry' = [expiry EXCEPT ![b] = clock + LockTtl]
      /\ inst' = [inst EXCEPT ![i] = new] /\ starts' = Append(starts, start)
      /\ own' = [own EXCEPT ![i] = own[i] \cup {b}]
      /\ UNCHANGED <<clock, skew, lastRun>>
  BY <1>1 DEF Acquire, KeyFree, InstState
<1>3. new \in InstState /\ new.pc = "running" /\ new.bucket = b
  BY <1>1 DEF InstState
<1>4. start \in Start /\ start.bucket = b /\ start.at = clock
  BY <1>1, <1>2 DEF Start
<1> HIDE DEF b, new, start
<1>5. /\ inst' \in [Instances -> InstState] /\ inst'[i] = new
      /\ \A j \in Instances \ {i} : inst'[j] = inst[j]
      /\ own' \in [Instances -> SUBSET Buckets] /\ own'[i] = own[i] \cup {b}
      /\ \A j \in Instances \ {i} : own'[j] = own[j]
      /\ expiry' \in [Buckets -> Nat] /\ expiry'[b] = clock + LockTtl
      /\ \A c \in Buckets \ {b} : expiry'[c] = expiry[c]
  BY <1>1, <1>2, <1>3
<1>6. /\ starts' \in Seq(Start) /\ DOMAIN starts = 1 .. Len(starts) /\ Len(starts) \in Nat
      /\ DOMAIN starts' = 1 .. (Len(starts) + 1) /\ starts'[Len(starts) + 1] = start
      /\ \A n \in 1 .. Len(starts) : starts'[n] = starts[n] /\ starts[n] \in Start
  BY <1>1, <1>2, <1>4
<1>7. SchedulerTyped'
  BY <1>2, <1>5, <1>6 DEF SchedulerInv, SchedulerTyped
<1>8. Keyed'
  <2> SUFFICES ASSUME NEW n \in DOMAIN starts'
               PROVE  starts'[n].at <= clock /\ starts'[n].at + LockTtl <= expiry'[starts'[n].bucket]
    BY <1>2 DEF Keyed
  <2>1. CASE n = Len(starts) + 1
    BY <1>1, <1>4, <1>5, <1>6, <2>1
  <2>2. CASE n \in 1 .. Len(starts)
    <3>1. starts'[n] = starts[n] /\ starts[n].bucket \in Buckets /\ starts[n].at \in Nat
          /\ starts[n].at <= clock /\ starts[n].at + LockTtl <= expiry[starts[n].bucket]
      BY <1>6, <2>2 DEF Start, SchedulerInv, Keyed
    <3>2. CASE starts[n].bucket = b
      BY <1>1, <1>5, <3>1, <3>2
    <3>3. CASE starts[n].bucket # b
      BY <1>5, <3>1, <3>3
    <3> QED
      BY <3>2, <3>3
  <2> QED
    BY <1>6, <2>1, <2>2
<1>9. StartsApart'
  <2> SUFFICES ASSUME NEW m \in DOMAIN starts', NEW n \in DOMAIN starts', m < n,
                      starts'[m].bucket = starts'[n].bucket
               PROVE  starts'[n].at - starts'[m].at >= LockTtl
    BY DEF StartsApart
  <2>1. m \in 1 .. Len(starts) /\ starts'[m] = starts[m] /\ starts[m].at \in Nat
    BY <1>6 DEF Start
  <2>2. CASE n = Len(starts) + 1
    <3>1. starts[m].at + LockTtl <= expiry[b]
      BY <1>4, <1>6, <2>1, <2>2 DEF SchedulerInv, Keyed
    <3>2. starts'[n].at = clock /\ expiry[b] \in Nat
      BY <1>1, <1>2, <1>4, <1>6, <2>2
    <3> QED
      BY <1>1, <1>2, <2>1, <3>1, <3>2
  <2>3. CASE n \in 1 .. Len(starts)
    BY <1>6, <2>1, <2>3 DEF SchedulerInv, StartsApart
  <2> QED
    BY <1>6, <2>2, <2>3
<1>10. OwnReached(i)'
  <2>1. Reached(i, b, clock) /\ \A c \in own[i] : Reached(i, c, clock)
    BY <1>2 DEF SchedulerInv, OwnReached, b
  <2>2. inst'[i].pc = "running" /\ inst'[i].bucket = b
    BY <1>3, <1>5
  <2> QED
    BY <1>2, <1>5, <2>1, <2>2 DEF OwnReached, Reached
<1>11. \A j \in Instances \ {i} : OwnReached(j)'
  BY <1>2, <1>5, OthersReached DEF SchedulerInv
<1> QED
  BY <1>7, <1>8, <1>9, <1>10, <1>11 DEF SchedulerInv

\* A tick that ends after it has advanced last_run, or forgets what the
\* instance has started.
LEMMA EndInv ==
    ASSUME SchedulerInv, NEW i \in Instances,
           Skip(i) \/ Ran(i) \/ Raised(i) \/ Restart(i)
    PROVE  SchedulerInv'
<1>1. Resting \in InstState /\ Resting.pc = "idle"
  <2>1. MaxClock + MaxSkew \in Nat /\ Interval \in Nat \ {0}
    BY SchedulerAssumption
  <2>2. 0 \in Buckets
    BY <2>1, DivFacts DEF Buckets
  <2> QED
    BY <2>2 DEF Resting, InstState
<1>2. /\ inst' = [inst EXCEPT ![i] = Resting] /\ UNCHANGED <<clock, skew, expiry, starts>>
      /\ \/ inst[i].pc # "idle" /\ own' = own /\ lastRun' = [lastRun EXCEPT ![i] = clock]
         \/ /\ own' = [own EXCEPT ![i] = {}]
            /\ lastRun' = lastRun \/ lastRun' = [lastRun EXCEPT ![i] = clock - Interval]
  BY DEF Skip, Ran, Raised, Restart
<1>3. /\ inst \in [Instances -> InstState] /\ own \in [Instances -> SUBSET Buckets]
      /\ lastRun \in [Instances -> Int] /\ clock \in Int /\ clock - Interval \in Int
  BY SchedulerAssumption DEF SchedulerInv, SchedulerTyped
<1>4. /\ inst' \in [Instances -> InstState] /\ inst'[i].pc = "idle"
      /\ \A j \in Instances \ {i} : inst'[j] = inst[j]
  BY <1>1, <1>2, <1>3
<1>5. /\ own' \in [Instances -> SUBSET Buckets] /\ lastRun' \in [Instances -> Int]
      /\ \A j \in Instances \ {i} : own'[j] = own[j] /\ lastRun'[j] = lastRun[j]
      /\ \/ inst[i].pc # "idle" /\ own'[i] = own[i] /\ lastRun'[i] = clock
         \/ own'[i] = {}
  BY <1>2, <1>3
<1>6. OwnReached(i)'
  <2>1. \A b \in own'[i] : Reached(i, b, clock) /\ lastRun'[i] = clock
    BY <1>5 DEF SchedulerInv, OwnReached
  <2>2. \A b \in own'[i] : b * Interval <= clock + skew[i] /\ lastRun'[i] = clock
    BY <2>1 DEF Reached
  <2> QED
    BY <1>2, <1>4, <2>2 DEF OwnReached, Reached
<1>7. \A j \in Instances \ {i} : OwnReached(j)'
  BY <1>2, <1>4, <1>5, OthersReached DEF SchedulerInv
<1>8. SchedulerTyped' /\ Keyed' /\ StartsApart'
  BY <1>2, <1>4, <1>5 DEF SchedulerInv, SchedulerTyped, Keyed, StartsApart
<1> QED
  BY <1>6, <1>7, <1>8 DEF SchedulerInv

\* A wall clock that is set forward has reached as much; one that is set back
\* starts anew.
LEMMA SetClockInv ==
    ASSUME SchedulerInv, NEW i \in Instances, SetClock(i)
    PROVE  SchedulerInv'
<1>1. PICK s \in 0 .. MaxSkew :
         /\ skew' = [skew EXCEPT ![i] = s]
         /\ own' = IF s < skew[i] THEN [own EXCEPT ![i] = {}] ELSE own
  BY DEF SetClock
<1>2. inst[i].pc = "idle" /\ UNCHANGED <<clock, lastRun, inst, expiry, starts>>
  BY DEF SetClock
<1>3. /\ skew \in [Instances -> 0 .. MaxSkew] /\ own \in [Instances -> SUBSET Buckets]
      /\ skew[i] \in Nat /\ s \in Nat /\ clock \in Nat /\ MaxSkew \in Nat
  BY SchedulerAssumption DEF SchedulerInv, SchedulerTyped
<1>4. /\ skew' \in [Instances -> 0 .. MaxSkew] /\ skew'[i] = s
      /\ own' \in [Instances -> SUBSET Buckets]
      /\ \A j \in Instances \ {i} : skew'[j] = skew[j] /\ own'[j] = own[j]
      /\ own'[i] = IF s < skew[i] THEN {} ELSE own[i]
  BY <1>1, <1>3
<1>5. OwnReached(i)'
  <2>1. CASE s < skew[i]
    BY <1>2, <1>4, <2>1 DEF OwnReached
  <2>2. CASE ~(s < skew[i])
    BY <1>2, <1>3, <1>4, <2>2, ReachedFrame DEF SchedulerInv
  <2> QED
    BY <2>1, <2>2
<1>6. ASSUME NEW j \in Instances \ {i}
      PROVE  OwnReached(j)'
  <2>1. skew'[j] = skew[j] /\ skew[j] \in Nat /\ own'[j] = own[j]
    BY <1>3, <1>4
  <2> QED
    BY <1>2, <1>3, <2>1, ReachedFrame DEF SchedulerInv
<1>7. SchedulerTyped' /\ Keyed' /\ StartsApart'
  BY <1>2, <1>4 DEF SchedulerInv, SchedulerTyped, Keyed, StartsApart
<1> QED
  BY <1>5, <1>6, <1>7 DEF SchedulerInv

\* One case for each step of the scheduler.
LEMMA TickVarsInv ==
    ASSUME SchedulerInv,
           \/ \E i \in Instances : \/ Due(i) \/ Acquire(i) \/ Skip(i) \/ SetClock(i)
                                   \/ Ran(i) \/ Raised(i) \/ Restart(i)
           \/ Tick
           \/ UNCHANGED tickVars
    PROVE  SchedulerInv'
<1>1. ASSUME clock' \in Nat, clock' <= MaxClock, clock <= clock',
             UNCHANGED <<skew, lastRun, inst, expiry, starts, own>>
      PROVE  SchedulerInv'
  <2>1. clock \in Nat /\ \A n \in DOMAIN starts : starts[n].at \in Nat
    <3>1. \A n \in DOMAIN starts : starts[n] \in Start
      BY DEF SchedulerInv, SchedulerTyped
    <3> QED
      BY <3>1 DEF SchedulerInv, SchedulerTyped, Start
  <2>2. \A j \in Instances : OwnReached(j)'
    <3> TAKE j \in Instances
    <3>1. skew[j] \in Nat
      BY DEF SchedulerInv, SchedulerTyped
    <3> QED
      BY <1>1, <2>1, <3>1, ReachedFrame DEF SchedulerInv
  <2>3. Keyed'
    BY <1>1, <2>1 DEF SchedulerInv, Keyed
  <2>4. SchedulerTyped' /\ StartsApart'
    BY <1>1 DEF SchedulerInv, SchedulerTyped, StartsApart
  <2> QED
    BY <2>2, <2>3, <2>4 DEF SchedulerInv
<1>2. clock \in Nat /\ MaxClock \in Nat /\ clock <= MaxClock
  BY SchedulerAssumption DEF SchedulerInv, SchedulerTyped
<1>3. CASE Tick
  BY <1>1, <1>2, <1>3 DEF Tick
<1>4. CASE UNCHANGED tickVars
  BY <1>1, <1>2, <1>4 DEF tickVars
<1> QED
  BY <1>3, <1>4, DueInv, AcquireInv, EndInv, SetClockInv

\* What a step does to the scheduler, and what to the detection: it works with
\* the time of an instance, and its wall clock goes on until it ends.
LEMMA NextSplit ==
    ASSUME SchedulerTyped, [Next]_vars
    PROVE  /\ \/ \E i \in Instances : \/ Due(i) \/ Acquire(i) \/ Skip(i) \/ SetClock(i)
                                      \/ Ran(i) \/ Raised(i) \/ Restart(i)
              \/ Tick
              \/ UNCHANGED tickVars
           /\ \/ \E d \in Detectors :
                    \/ DetectAlerts(d, Now(d)) /\ inst[d].pc = "running" /\ UNCHANGED tickVars
                    \/ DetectExisting(d) /\ UNCHANGED tickVars
                    \/ DetectCommit(d, Now(d)) /\ Ran(d)
                    \/ DetectFails(d) /\ (Raised(d) \/ Restart(d))
              \/ \E now : Ingest(now) /\ now \in Nat /\ UNCHANGED tickVars
              \/ UNCHANGED detectVars
<1>1. ASSUME NEW i \in Instances, Schedule(i) \/ Detect(i) \/ RestartIdle(i)
      PROVE  /\ \/ Due(i) \/ Acquire(i) \/ Skip(i) \/ SetClock(i)
                \/ Ran(i) \/ Raised(i) \/ Restart(i)
                \/ UNCHANGED tickVars
             /\ \/ DetectAlerts(i, Now(i)) /\ inst[i].pc = "running" /\ UNCHANGED tickVars
                \/ DetectExisting(i) /\ UNCHANGED tickVars
                \/ DetectCommit(i, Now(i)) /\ Ran(i)
                \/ DetectFails(i) /\ (Raised(i) \/ Restart(i))
                \/ UNCHANGED detectVars
  BY <1>1 DEF Schedule, Detect, RestartIdle
<1>2. CASE Store /\ UNCHANGED tickVars
  <2>1. PICK s \in 0 .. MaxSkew : Ingest(BaselineDays * DayLength + clock + s)
    BY <1>2 DEF Store
  <2>2. BaselineDays * DayLength + clock + s \in Nat
    <3>1. BaselineDays \in Nat /\ DayLength \in Nat /\ clock \in Nat /\ s \in Nat
      BY SchedulerAssumption, DetectionAssumption DEF SchedulerTyped
    <3>2. BaselineDays * DayLength \in Nat
      BY <3>1
    <3> QED
      BY <3>1, <3>2
  <2> QED
    BY <1>2, <2>1, <2>2
<1>3. CASE Tick /\ UNCHANGED detectVars
  BY <1>3
<1>4. CASE UNCHANGED vars
  BY <1>4 DEF vars
<1> QED
  BY <1>1, <1>2, <1>3, <1>4, InstancesAssumption DEF Next

\* SchedulerInv is an invariant of the scheduler with its job.
THEOREM SchedulerInvariance == Spec => []SchedulerInv
<1>1. Init => SchedulerInv
  <2> SUFFICES ASSUME Init PROVE SchedulerInv
    OBVIOUS
  <2>1. MaxClock + MaxSkew \in Nat /\ Interval \in Nat \ {0} /\ MaxClock \in Nat
    BY SchedulerAssumption
  <2>2. Resting \in InstState /\ Resting.pc = "idle"
    BY <2>1, DivFacts DEF Resting, InstState, Buckets
  <2> QED
    BY <2>1, <2>2 DEF Init, SchedulerInit, SchedulerInv, SchedulerTyped, Keyed, StartsApart,
                      OwnReached, Start
<1>2. SchedulerInv /\ [Next]_vars => SchedulerInv'
  BY NextSplit, TickVarsInv DEF SchedulerInv
<1> QED
  BY <1>1, <1>2, PTL DEF Spec

\* DistributedLock.acquire: for any number of processes, however far their
\* wall clocks are apart, two starts of one bucket are at least the TTL apart.
THEOREM StartsAreApart == Spec => []StartsApart
<1>1. SchedulerInv => StartsApart
  BY DEF SchedulerInv
<1> QED
  BY <1>1, SchedulerInvariance, PTL

\* Scheduler.tick, _tick_bucket: for any TTL, an instance asks for a bucket it
\* has started only after a failure, a restart or a clock that was set back.
THEOREM TicksNotRepeated == Spec => []TickNotRepeated
<1>1. SchedulerInv => TickNotRepeated
  <2> SUFFICES ASSUME SchedulerInv, NEW i \in Instances, inst[i].pc = "locking"
               PROVE  inst[i].bucket \notin own[i]
    BY DEF TickNotRepeated
  <2>1. /\ \A b \in own[i] : b < inst[i].bucket
        /\ inst[i].bucket \in Buckets
    BY DEF SchedulerInv, OwnReached, SchedulerTyped, InstState
  <2> QED
    BY <2>1 DEF Buckets
<1> QED
  BY <1>1, SchedulerInvariance, PTL

(***************************************************************************)
(* The detection.                                                          *)
(***************************************************************************)
Open(d) == det[d].pc # "idle"

DetState == [pc : {"idle", "none", "computed", "read"}, now : Nat,
             signals : SUBSET [kind : {"first_seen_ip", "new_severity", "count_spike"}, ip : Ips],
             read : SUBSET Nat]

\* A detection runs in a tick, whose wall clock goes on.
DetectionTyped ==
    /\ log \in Seq(Alert)
    /\ det \in [Detectors -> DetState]
    /\ \A d \in Detectors : Open(d) => inst[d].pc = "running" /\ det[d].now <= Now(d)

\* What a detection that has read the anomalies is going to store is not
\* there for its day or a later one; one that found no signal stores nothing.
NotStored(d) ==
    /\ det[d].pc = "none" => det[d].signals = {}
    /\ det[d].pc = "read" =>
          \A s \in det[d].signals, row \in DOMAIN anomalies :
              ~(SameSignal(row, s) /\ OfTheDay(row, det[d].now))

\* While no two detections have been open at once this stays so, and each
\* anomaly was stored once.
StoredOnce ==
    /\ \A d, e \in Detectors : Open(d) /\ Open(e) => d = e
    /\ \A d \in Detectors : NotStored(d)
    /\ \A row \in DOMAIN anomalies : anomalies[row] = 1

\* The window of a detection of time now has seen the address of alert n, or
\* it has been reported.
Seen(n, now) ==
    \E m \in DOMAIN log : /\ log[m].ip = log[n].ip
                          /\ log[m].at >= now - BaselineDays * DayLength
                          /\ log[m].at < DayStart(now)
Reported(n, now) ==
    \E row \in DOMAIN anomalies :
        row.kind = "first_seen_ip" /\ row.ip = log[n].ip /\ row.day >= DayOf(now)

\* The detection is going to report the address of an alert it has read if
\* nothing else accounts for it.
Promised(d) ==
    Open(d) => \A n \in det[d].read :
        /\ n \in DOMAIN log
        /\ \/ Seen(n, det[d].now) \/ Reported(n, det[d].now)
           \/ \E s \in det[d].signals : s.kind = "first_seen_ip" /\ s.ip = log[n].ip

FirstSeenInv ==
    /\ \A d \in Detectors : Promised(d)
    /\ \A n, now : <<n, now>> \in covered => n \in DOMAIN log /\ (Seen(n, now) \/ Reported(n, now))

DetectionInv == DetectionTyped /\ (~overlapped => StoredOnce)

\* The wall clock of an instance goes on while the callback runs.
LEMMA NowForward ==
    ASSUME SchedulerInv, [Next]_vars, NEW d \in Detectors
    PROVE  /\ Now(d) \in Nat /\ (inst[d].pc = "running" => Now(d) <= Now(d)')
           /\ SchedulerTyped /\ SchedulerInv'
<1>1. SchedulerTyped /\ SchedulerInv' /\ d \in Instances
  BY NextSplit, TickVarsInv, InstancesAssumption DEF SchedulerInv
<1>2. BaselineDays * DayLength \in Nat
  <2>1. BaselineDays \in Nat /\ DayLength \in Nat
    BY DetectionAssumption
  <2> QED
    BY <2>1
<1>3. Now(d) \in Nat
  BY <1>1, <1>2, BucketOfClock DEF Now
<1>4. ASSUME inst[d].pc = "running"
      PROVE  clock <= clock' /\ skew'[d] = skew[d]
  <2>1. ASSUME NEW i \in Instances, SetClock(i)
        PROVE  clock' = clock /\ skew'[d] = skew[d]
    <3>1. i # d /\ clock' = clock
      BY <1>4, <2>1 DEF SetClock
    <3>2. PICK t \in 0 .. MaxSkew : skew' = [skew EXCEPT ![i] = t]
      BY <2>1 DEF SetClock
    <3> QED
      BY <1>1, <3>1, <3>2 DEF SchedulerTyped
  <2>2. ASSUME NEW i \in Instances,
               Due(i) \/ Acquire(i) \/ Skip(i) \/ Ran(i) \/ Raised(i) \/ Restart(i)
        PROVE  clock' = clock /\ skew' = skew
    BY <2>2 DEF Due, Acquire, Skip, Ran, Raised, Restart
  <2>3. CASE Tick
    BY <1>1, <2>3 DEF Tick, SchedulerTyped
  <2>4. CASE UNCHANGED tickVars
    BY <1>1, <2>4 DEF tickVars, SchedulerTyped
  <2>5. clock \in Nat
    BY <1>1 DEF SchedulerTyped
  <2> QED
    BY <1>1, <2>1, <2>2, <2>3, <2>4, <2>5, NextSplit
<1>5. clock \in Nat /\ clock' \in Nat /\ skew[d] \in Nat
  BY <1>1 DEF SchedulerInv, SchedulerTyped
<1> QED
  BY <1>1, <1>2, <1>3, <1>4, <1>5 DEF Now, Wall

\* The record of a detection that has read the alerts of its day.
LEMMA Awake ==
    ASSUME NEW pc, NEW now, NEW signals, NEW read
    PROVE  [Asleep EXCEPT !.pc = pc, !.now = now, !.signals = signals, !.read = read]
             = [pc |-> pc, now |-> now, signals |-> signals, read |-> read]
<1> DEFINE a == [Asleep EXCEPT !.pc = pc]
           b == [a EXCEPT !.now = now]
           c == [b EXCEPT !.signals = signals]
<1>1. Asleep = [pc |-> "idle", now |-> 0, signals |-> {}, read |-> {}]
  BY DEF Asleep
<1>2. a = [pc |-> pc, now |-> 0, signals |-> {}, read |-> {}]
  BY <1>1
<1>3. [Asleep EXCEPT !.pc = pc, !.now = now, !.signals = signals, !.read = read]
        = [c EXCEPT !.read = read]
  OBVIOUS
<1> HIDE DEF a
<1>4. b = [pc |-> pc, now |-> now, signals |-> {}, read |-> {}]
  BY <1>2
<1> HIDE DEF b
<1>5. c = [pc |-> pc, now |-> now, signals |-> signals, read |-> {}]
  BY <1>4
<1> HIDE DEF c
<1> QED
  BY <1>3, <1>5

\* Signals are of addresses of alerts.
LEMMA SignalsTyped ==
    ASSUME DetectionTyped, NEW now, NEW place
    PROVE  /\ Signals(now, place) \in
                  SUBSET [kind : {"first_seen_ip", "new_severity", "count_spike"}, ip : Ips]
           /\ Current(now) \in SUBSET Nat /\ Current(now) \subseteq DOMAIN log
           /\ \A ip \in FirstSeen(now) : [kind |-> "first_seen_ip", ip |-> ip] \in Signals(now, place)
<1>1. \A n \in DOMAIN log : log[n].ip \in Ips /\ n \in Nat
  <2>1. DOMAIN log = 1 .. Len(log) /\ Len(log) \in Nat /\ \A n \in 1 .. Len(log) : log[n] \in Alert
    BY DEF DetectionTyped
  <2> QED
    BY <2>1 DEF Alert
<1>2. FirstSeen(now) \subseteq Ips /\ NewSeverity(now, place) \subseteq Ips /\ CountSpike(now) \subseteq Ips
  BY <1>1 DEF FirstSeen, NewSeverity, CountSpike, Current, Raising
<1>3. Current(now) \in SUBSET Nat /\ Current(now) \subseteq DOMAIN log
  BY <1>1 DEF Current
<1> QED
  BY <1>2, <1>3 DEF Signals

\* DetectAlerts puts a detection to where it has computed its signals.
LEMMA DetectAlertsFacts ==
    ASSUME DetectionTyped, NEW d \in Detectors, NEW now \in Nat, DetectAlerts(d, now)
    PROVE  /\ det[d].pc = "idle" /\ UNCHANGED <<log, anomalies, covered>>
           /\ overlapped' = (overlapped \/ \E e \in Detectors : Open(e))
           /\ det' \in [Detectors -> DetState]
           /\ \A e \in Detectors \ {d} : det'[e] = det[e]
           /\ det'[d].pc \in {"none", "computed"} /\ det'[d].now = now
           /\ det'[d].pc = "none" => det'[d].signals = {}
           /\ det'[d].read = Current(now)
           /\ \A ip \in FirstSeen(now) : [kind |-> "first_seen_ip", ip |-> ip] \in det'[d].signals
<1>1. PICK place \in Orders(now) :
         det' = [det EXCEPT ![d] = [Asleep EXCEPT
                  !.pc = IF Signals(now, place) = {} THEN "none" ELSE "computed",
                  !.now = now, !.signals = Signals(now, place), !.read = Current(now)]]
  BY DEF DetectAlerts
<1> DEFINE signals == Signals(now, place)
           pc == IF signals = {} THEN "none" ELSE "computed"
           new == [Asleep EXCEPT !.pc = pc, !.now = now, !.signals = signals,
                                 !.read = Current(now)]
<1>3. det' = [det EXCEPT ![d] = new]
  BY <1>1
<1>4. /\ signals \in SUBSET [kind : {"first_seen_ip", "new_severity", "count_spike"}, ip : Ips]
      /\ Current(now) \in SUBSET Nat
      /\ \A ip \in FirstSeen(now) : [kind |-> "first_seen_ip", ip |-> ip] \in signals
  BY SignalsTyped
<1>5. pc \in {"none", "computed"} /\ (pc = "none" => signals = {})
  OBVIOUS
<1> HIDE DEF signals, pc
<1>2. new = [pc |-> pc, now |-> now, signals |-> signals, read |-> Current(now)]
  <2> DEFINE read == Current(now)
  <2>1. new = [Asleep EXCEPT !.pc = pc, !.now = now, !.signals = signals, !.read = read]
    OBVIOUS
  <2> HIDE DEF new, read
  <2>2. new = [pc |-> pc, now |-> now, signals |-> signals, read |-> read]
    BY <2>1, Awake
  <2> QED
    BY <2>2 DEF read
<1> HIDE DEF new
<1>6. new \in DetState /\ new.pc = pc /\ new.now = now /\ new.signals = signals
      /\ new.read = Current(now)
  BY <1>2, <1>4, <1>5 DEF DetState, DetectionTyped
<1>7. det \in [Detectors -> DetState]
  BY DEF DetectionTyped
<1>8. det' \in [Detectors -> DetState] /\ det'[d] = new /\ \A e \in Detectors \ {d} : det'[e] = det[e]
  BY <1>3, <1>6, <1>7
<1>9. /\ det[d].pc = "idle" /\ UNCHANGED <<log, anomalies, covered>>
      /\ overlapped' = (overlapped \/ \E e \in Detectors : Open(e))
  BY DEF DetectAlerts, Open
<1> QED
  BY <1>4, <1>5, <1>6, <1>8, <1>9

\* DetectExisting drops the signals of which the day has an anomaly.
LEMMA DetectExistingFacts ==
    ASSUME DetectionTyped, NEW d \in Detectors, DetectExisting(d)
    PROVE  /\ det[d].pc = "computed" /\ UNCHANGED <<log, anomalies, overlapped, covered>>
           /\ det' \in [Detectors -> DetState]
           /\ \A e \in Detectors \ {d} : det'[e] = det[e]
           /\ det'[d].pc = "read" /\ det'[d].now = det[d].now /\ det'[d].read = det[d].read
           /\ det'[d].signals = {s \in det[d].signals : ~\E row \in DOMAIN anomalies :
                                   SameSignal(row, s) /\ OfTheDay(row, det[d].now)}
<1> DEFINE old == det[d]
           kept == {s \in old.signals : ~\E row \in DOMAIN anomalies :
                      SameSignal(row, s) /\ OfTheDay(row, old.now)}
           moved == [old EXCEPT !.pc = "read"]
           new == [moved EXCEPT !.signals = kept]
<1>0. det \in [Detectors -> DetState] /\ old \in DetState
  BY DEF DetectionTyped
<1>1. moved.signals = old.signals
  BY <1>0 DEF DetState
<1>2. det' = [det EXCEPT ![d] = new]
  BY <1>0, <1>1 DEF DetectExisting
<1>3. kept \in SUBSET old.signals
  OBVIOUS
<1> HIDE DEF kept
<1>4. moved \in DetState /\ moved.pc = "read" /\ moved.now = old.now /\ moved.read = old.read
      /\ kept \in SUBSET [kind : {"first_seen_ip", "new_severity", "count_spike"}, ip : Ips]
  BY <1>0, <1>3 DEF DetState
<1> HIDE DEF moved
<1>5. new \in DetState /\ new.pc = "read" /\ new.now = old.now /\ new.read = old.read
      /\ new.signals = kept
  BY <1>4 DEF DetState
<1> HIDE DEF new
<1>6. /\ det' \in [Detectors -> DetState] /\ det'[d] = new
      /\ \A e \in Detectors \ {d} : det'[e] = det[e]
  BY <1>0, <1>2, <1>5
<1>7. det[d].pc = "computed" /\ UNCHANGED <<log, anomalies, overlapped, covered>>
  BY DEF DetectExisting
<1> QED
  BY <1>5, <1>6, <1>7 DEF kept

\* A detection that ends is as it was before it started.
LEMMA DetectEndFacts ==
    ASSUME DetectionTyped, NEW d \in Detectors, NEW now, DetectCommit(d, now) \/ DetectFails(d)
    PROVE  /\ Open(d) /\ UNCHANGED <<log, overlapped>>
           /\ det' \in [Detectors -> DetState]
           /\ ~Open(d)' /\ \A e \in Detectors \ {d} : det'[e] = det[e]
<1>1. Asleep \in DetState /\ Asleep.pc = "idle"
  BY DEF Asleep, DetState
<1>2. det' = [det EXCEPT ![d] = Asleep] /\ det \in [Detectors -> DetState]
  BY DEF DetectCommit, DetectFails, DetectionTyped
<1>3. Open(d) /\ UNCHANGED <<log, overlapped>>
  BY DEF DetectCommit, DetectFails, Open
<1> QED
  BY <1>1, <1>2, <1>3 DEF Open

\* What a COMMIT adds.
LEMMA CommitRows ==
    ASSUME NEW d \in Detectors, NEW now, DetectCommit(d, now)
    PROVE  /\ det[d].pc \in {"read", "none"} /\ covered' = covered \cup {<<n, det[d].now>> : n \in det[d].read}
           /\ \A row : row \in DOMAIN anomalies'
                 <=> row \in DOMAIN anomalies \/ \E s \in det[d].signals : row = Row(s, now)
           /\ \A row \in DOMAIN anomalies' : anomalies'[row] =
                  (IF row \in DOMAIN anomalies THEN anomalies[row] ELSE 0)
                    + (IF \E s \in det[d].signals : row = Row(s, now) THEN 1 ELSE 0)
<1> DEFINE rows == {Row(s, now) : s \in det[d].signals}
<1>1. anomalies' = [row \in DOMAIN anomalies \cup rows |->
                      (IF row \in DOMAIN anomalies THEN anomalies[row] ELSE 0)
                        + (IF row \in rows THEN 1 ELSE 0)]
  BY DEF DetectCommit
<1>2. \A row : row \in rows <=> \E s \in det[d].signals : row = Row(s, now)
  OBVIOUS
<1> HIDE DEF rows
<1>3. det[d].pc \in {"read", "none"} /\ covered' = covered \cup {<<n, det[d].now>> : n \in det[d].read}
  BY DEF DetectCommit
<1> QED
  BY <1>1, <1>2, <1>3

\* Nothing but its end touches the tick a detection runs in.
LEMMA TickKept ==
    ASSUME SchedulerTyped, DetectionTyped, [Next]_vars, NEW e \in Detectors, Open(e), Open(e)'
    PROVE  inst'[e] = inst[e] /\ inst[e].pc = "running"
<1>1. inst[e].pc = "running" /\ e \in Instances /\ inst \in [Instances -> InstState]
  BY InstancesAssumption DEF DetectionTyped, SchedulerTyped
<1>2. ASSUME NEW i \in Instances, Schedule(i) \/ RestartIdle(i)
      PROVE  inst'[e] = inst[e]
  <2>1. CASE SetClock(i)
    BY <2>1 DEF SetClock
  <2>2. CASE Due(i) \/ Acquire(i) \/ Skip(i) \/ RestartIdle(i)
    <3>1. i # e
      BY <1>1, <2>2 DEF Due, Acquire, Skip, RestartIdle, Open
    <3>2. \E new : inst' = [inst EXCEPT ![i] = new]
      BY <2>2, Zenon DEF Due, Acquire, Skip, RestartIdle, Restart
    <3> QED
      BY <1>1, <3>1, <3>2
  <2> QED
    BY <1>2, <2>1, <2>2 DEF Schedule
<1>3. ASSUME NEW i \in Instances, Detect(i)
      PROVE  inst'[e] = inst[e]
  <2>1. CASE UNCHANGED tickVars
    BY <2>1 DEF tickVars
  <2>2. CASE \/ DetectCommit(i, Now(i)) /\ Ran(i)
             \/ DetectFails(i) /\ (Raised(i) \/ Restart(i))
    <3>1. det' = [det EXCEPT ![i] = Asleep] /\ inst' = [inst EXCEPT ![i] = Resting]
      BY <2>2 DEF DetectCommit, DetectFails, Ran, Raised, Restart
    <3>2. i # e
      BY <3>1 DEF DetectionTyped, Open, Asleep
    <3> QED
      BY <1>1, <3>1, <3>2
  <2> QED
    BY <1>3, <2>1, <2>2 DEF Detect
<1>4. CASE Tick
  BY <1>1, <1>4 DEF Tick
<1>5. CASE UNCHANGED tickVars
  BY <1>1, <1>5 DEF tickVars
<1>6. UNCHANGED vars => UNCHANGED tickVars
  BY DEF vars
<1> QED
  BY <1>1, <1>2, <1>3, <1>4, <1>5, <1>6 DEF Next

\* The types, whatever step is taken.
LEMMA DetectionTypedInv ==
    ASSUME SchedulerInv, DetectionTyped, [Next]_vars
    PROVE  DetectionTyped'
<1>1. \A d \in Detectors : Now(d) \in Nat /\ (inst[d].pc = "running" => Now(d) <= Now(d)')
  BY NowForward
<1>2. \A d \in Detectors : det[d].now \in Nat
  BY DEF DetectionTyped, DetState
<1>3. \A d \in Detectors : Now(d)' \in Nat
  <2>1. BaselineDays * DayLength \in Nat
    <3>1. BaselineDays \in Nat /\ DayLength \in Nat
      BY DetectionAssumption
    <3> QED
      BY <3>1
  <2>2. SchedulerTyped'
    BY NextSplit, TickVarsInv DEF SchedulerInv
  <2>3. \A d \in Detectors : clock' \in Nat /\ skew'[d] \in Nat
    BY <2>2, SchedulerAssumption, InstancesAssumption DEF SchedulerTyped
  <2> QED
    BY <2>1, <2>3 DEF Now, Wall
<1>4. ASSUME NEW e \in Detectors, Open(e), Open(e)', det'[e].now = det[e].now
      PROVE  inst'[e].pc = "running" /\ det'[e].now <= Now(e)'
  <2>1. inst'[e].pc = "running" /\ inst[e].pc = "running"
    BY <1>4, TickKept DEF SchedulerInv
  <2>2. det[e].now <= Now(e)
    BY <1>4 DEF DetectionTyped
  <2> QED
    BY <1>1, <1>2, <1>3, <1>4, <2>1, <2>2
<1>5. ASSUME UNCHANGED det, log' \in Seq(Alert)
      PROVE  DetectionTyped'
  <2>1. \A e \in Detectors : Open(e)' => inst'[e].pc = "running" /\ det'[e].now <= Now(e)'
    BY <1>4, <1>5 DEF Open
  <2> QED
    BY <1>5, <2>1 DEF DetectionTyped
<1>6. CASE UNCHANGED detectVars
  BY <1>5, <1>6 DEF detectVars, DetectionTyped
<1>7. ASSUME NEW now \in Nat, Ingest(now)
      PROVE  DetectionTyped'
  <2>1. log' \in Seq(Alert)
    <3>1. PICK ip \in Ips, rank \in Ranks : log' = Append(log, [ip |-> ip, rank |-> rank, at |-> now])
      BY <1>7 DEF Ingest
    <3>2. [ip |-> ip, rank |-> rank, at |-> now] \in Alert
      BY DEF Alert
    <3> QED
      BY <3>1, <3>2 DEF DetectionTyped
  <2> QED
    BY <1>5, <1>7, <2>1 DEF Ingest
<1>8. ASSUME NEW d \in Detectors,
             \/ DetectAlerts(d, Now(d)) /\ inst[d].pc = "running" /\ UNCHANGED tickVars
             \/ DetectExisting(d) /\ UNCHANGED tickVars
             \/ DetectCommit(d, Now(d)) /\ Ran(d)
             \/ DetectFails(d) /\ (Raised(d) \/ Restart(d))
      PROVE  DetectionTyped'
  <2>1. /\ det' \in [Detectors -> DetState] /\ log' = log
        /\ \A e \in Detectors \ {d} : det'[e] = det[e]
        /\ \/ ~Open(d)'
           \/ det'[d].now = Now(d) /\ inst[d].pc = "running" /\ inst'[d] = inst[d]
           \/ Open(d) /\ det'[d].now = det[d].now
    <3>1. PICK now \in Nat : now = Now(d)
      BY <1>1
    <3>2. CASE DetectAlerts(d, now) /\ inst[d].pc = "running" /\ UNCHANGED tickVars
      BY <3>1, <3>2, DetectAlertsFacts DEF tickVars
    <3>3. CASE DetectExisting(d)
      BY <3>3, DetectExistingFacts DEF Open
    <3>4. CASE DetectCommit(d, now) \/ DetectFails(d)
      BY <3>4, DetectEndFacts
    <3> QED
      BY <1>8, <3>1, <3>2, <3>3, <3>4
  <2>2. ASSUME NEW e \in Detectors, Open(e)'
        PROVE  inst'[e].pc = "running" /\ det'[e].now <= Now(e)'
    <3>1. CASE Open(e) /\ det'[e].now = det[e].now
      BY <1>4, <2>2, <3>1
    <3>2. CASE ~(Open(e) /\ det'[e].now = det[e].now)
      <4>1. e = d /\ det'[d].now = Now(d) /\ inst[d].pc = "running" /\ inst'[d] = inst[d]
        BY <2>1, <2>2, <3>2 DEF Open
      <4> QED
        BY <1>1, <4>1
    <3> QED
      BY <3>1, <3>2
  <2>3. log' \in Seq(Alert)
    BY <2>1 DEF DetectionTyped
  <2> QED
    BY <2>1, <2>2, <2>3 DEF DetectionTyped
<1> QED
  BY <1>6, <1>7, <1>8, NextSplit DEF SchedulerInv

\* As long as no two detections overlap, a COMMIT stores only what is new.
LEMMA StoredOnceInv ==
    ASSUME SchedulerInv, DetectionTyped, StoredOnce, [Next]_vars, ~overlapped'
    PROVE  StoredOnce'
<1>1. CASE UNCHANGED <<det, anomalies>>
  BY <1>1 DEF StoredOnce, Open, NotStored
<1>2. ASSUME NEW d \in Detectors, NEW now \in Nat, DetectAlerts(d, now)
      PROVE  StoredOnce'
  <2>1. \A e \in Detectors : ~Open(e)
    BY <1>2, DetectAlertsFacts
  <2>2. \A e, f \in Detectors : Open(e)' /\ Open(f)' => e = f
    BY <1>2, <2>1, DetectAlertsFacts DEF Open
  <2>3. \A e \in Detectors : NotStored(e)'
    BY <1>2, <2>1, DetectAlertsFacts DEF NotStored, StoredOnce
  <2> QED
    BY <1>2, <2>2, <2>3, DetectAlertsFacts DEF StoredOnce
<1>3. ASSUME NEW d \in Detectors, DetectExisting(d)
      PROVE  StoredOnce'
  <2>1. \A e \in Detectors : Open(e)' => Open(e)
    BY <1>3, DetectExistingFacts DEF Open
  <2>2. NotStored(d)'
    BY <1>3, DetectExistingFacts DEF NotStored
  <2>3. \A e \in Detectors \ {d} : NotStored(e)'
    BY <1>3, DetectExistingFacts DEF NotStored, StoredOnce
  <2> QED
    BY <1>3, <2>1, <2>2, <2>3, DetectExistingFacts DEF StoredOnce
<1>4. ASSUME NEW d \in Detectors, DetectFails(d)
      PROVE  StoredOnce'
  <2>1. \A e \in Detectors : Open(e)' => Open(e) /\ e # d
    BY <1>4, DetectEndFacts DEF Open
  <2>2. \A e \in Detectors : NotStored(e)'
    <3>1. \A e \in Detectors \ {d} : det'[e] = det[e]
      BY <1>4, DetectEndFacts
    <3> QED
      BY <1>4, <3>1, DetectEndFacts DEF NotStored, StoredOnce, Open, DetectFails
  <2> QED
    BY <1>4, <2>1, <2>2 DEF StoredOnce, DetectFails
<1>5. ASSUME NEW d \in Detectors, NEW now \in Nat, now = Now(d), DetectCommit(d, now)
      PROVE  StoredOnce'
  <2>1. \A e \in Detectors : ~Open(e)'
    BY <1>5, DetectEndFacts DEF StoredOnce, Open
  <2>2. \A s \in det[d].signals : Row(s, now) \notin DOMAIN anomalies
    <3> SUFFICES ASSUME NEW s \in det[d].signals, Row(s, now) \in DOMAIN anomalies
                 PROVE  FALSE
      OBVIOUS
    <3>1. det[d].pc = "read" /\ NotStored(d) /\ Open(d)
      BY <1>5, CommitRows DEF StoredOnce, NotStored, Open
    <3>2. SameSignal(Row(s, now), s) /\ Row(s, now).day = DayOf(now)
      BY DEF SameSignal, Row
    <3>3. OfTheDay(Row(s, now), det[d].now)
      <4>1. det[d].now \in Nat /\ det[d].now <= now /\ DayLength \in Nat \ {0}
        BY <1>5, <3>1, DetectionAssumption DEF DetectionTyped, DetState
      <4>2. DayOf(det[d].now) <= DayOf(now)
        BY <4>1, DivMonotone DEF DayOf
      <4> QED
        BY <3>2, <4>2 DEF OfTheDay
    <3> QED
      BY <3>1, <3>2, <3>3 DEF NotStored
  <2>3. \A row \in DOMAIN anomalies' : anomalies'[row] = 1
    <3> TAKE row \in DOMAIN anomalies'
    <3>1. CASE row \in DOMAIN anomalies
      <4>1. anomalies[row] = 1 /\ ~\E s \in det[d].signals : row = Row(s, now)
        BY <2>2, <3>1 DEF StoredOnce
      <4> QED
        BY <1>5, <3>1, <4>1, CommitRows
    <3>2. CASE row \notin DOMAIN anomalies
      BY <1>5, <3>2, CommitRows
    <3> QED
      BY <3>1, <3>2
  <2>4. \A e \in Detectors : NotStored(e)'
    BY <2>1 DEF NotStored, Open
  <2> QED
    BY <2>1, <2>3, <2>4 DEF StoredOnce
<1> QED
  <2>1. \A d \in Detectors : \E now \in Nat : now = Now(d)
    BY NowForward
  <2> QED
    BY <1>1, <1>2, <1>3, <1>4, <1>5, <2>1, NextSplit DEF Ingest, detectVars, SchedulerInv

\* Alerts and anomalies are only added, so what accounts for an alert stays.
LEMMA GrowingTables ==
    ASSUME SchedulerTyped, DetectionTyped, [Next]_vars
    PROVE  /\ DOMAIN log \subseteq DOMAIN log' /\ \A n \in DOMAIN log : log'[n] = log[n]
           /\ DOMAIN anomalies \subseteq DOMAIN anomalies'
<1>1. DOMAIN log \subseteq DOMAIN log' /\ \A n \in DOMAIN log : log'[n] = log[n]
  <2>1. ASSUME NEW now, Ingest(now)
        PROVE  DOMAIN log \subseteq DOMAIN log' /\ \A n \in DOMAIN log : log'[n] = log[n]
    <3>1. PICK new : log' = Append(log, new)
      BY <2>1 DEF Ingest
    <3>2. log \in Seq(Alert)
      BY DEF DetectionTyped
    <3> QED
      BY <3>1, <3>2
  <2>2. CASE UNCHANGED log
    BY <2>2
  <2> QED
    BY <2>1, <2>2, NextSplit DEF detectVars, DetectAlerts, DetectExisting, DetectCommit, DetectFails
<1>2. DOMAIN anomalies \subseteq DOMAIN anomalies'
  <2>1. ASSUME NEW d \in Detectors, NEW now, DetectCommit(d, now)
        PROVE  DOMAIN anomalies \subseteq DOMAIN anomalies'
    BY <2>1, CommitRows
  <2> QED
    BY <2>1, NextSplit DEF detectVars, DetectAlerts, DetectExisting, DetectFails, Ingest
<1> QED
  BY <1>1, <1>2

\* An alert that is accounted for remains so.
LEMMA Remembered ==
    ASSUME SchedulerTyped, DetectionTyped, [Next]_vars, NEW n \in DOMAIN log, NEW now
    PROVE  /\ n \in DOMAIN log' /\ log'[n] = log[n]
           /\ Seen(n, now) => Seen(n, now)'
           /\ Reported(n, now) => Reported(n, now)'
  BY GrowingTables DEF Seen, Reported

\* The first SELECT: the window has seen the address of an alert of the day,
\* or it is a first-seen signal.
LEMMA SelectPromises ==
    ASSUME SchedulerTyped, DetectionTyped, [Next]_vars, NEW d \in Detectors,
           NEW now \in Nat, DetectAlerts(d, now)
    PROVE  Promised(d)'
<1> SUFFICES ASSUME NEW n \in det'[d].read
             PROVE  /\ n \in DOMAIN log'
                    /\ \/ Seen(n, now)'
                       \/ \E s \in det'[d].signals : s.kind = "first_seen_ip" /\ s.ip = log'[n].ip
  <2>1. det'[d].now = now
    BY DetectAlertsFacts
  <2> QED
    BY <2>1 DEF Promised, Seen
<1>1. n \in Current(now) /\ n \in DOMAIN log /\ UNCHANGED log
  BY DetectAlertsFacts DEF Current
<1>2. CASE log[n].ip \in FirstSeen(now)
  <2>1. [kind |-> "first_seen_ip", ip |-> log[n].ip] \in det'[d].signals
    BY <1>2, DetectAlertsFacts
  <2> QED
    BY <1>1, <2>1
<1>3. CASE log[n].ip \notin FirstSeen(now)
  <2>1. PICK m \in History(now) : log[m].ip = log[n].ip
    BY <1>1, <1>3 DEF FirstSeen
  <2>2. Seen(n, now)
    BY <2>1 DEF Seen, History, WindowStart
  <2> QED
    BY <1>1, <2>2, Remembered
<1> QED
  BY <1>1, <1>2, <1>3

\* The second SELECT drops only signals of which there is an anomaly.
LEMMA ExistingPromises ==
    ASSUME DetectionTyped, NEW d \in Detectors, Promised(d), DetectExisting(d)
    PROVE  Promised(d)'
<1>1. Open(d) /\ UNCHANGED <<log, anomalies>>
      /\ det'[d].read = det[d].read /\ det'[d].now = det[d].now
  BY DetectExistingFacts DEF Open
<1> SUFFICES ASSUME NEW n \in det[d].read, ~Seen(n, det[d].now), ~Reported(n, det[d].now)
             PROVE  \E s \in det'[d].signals : s.kind = "first_seen_ip" /\ s.ip = log[n].ip
  BY <1>1 DEF Promised, Seen, Reported
<1>2. PICK s \in det[d].signals : s.kind = "first_seen_ip" /\ s.ip = log[n].ip
  BY <1>1 DEF Promised
<1>4. ~\E row \in DOMAIN anomalies : SameSignal(row, s) /\ OfTheDay(row, det[d].now)
  BY <1>2 DEF Reported, SameSignal, OfTheDay
<1> QED
  BY <1>2, <1>4, DetectExistingFacts

\* The COMMIT reports what was promised.
LEMMA CommitReports ==
    ASSUME DetectionTyped, NEW d \in Detectors, NEW now \in Nat, now = Now(d), Promised(d),
           DetectCommit(d, now), NEW start, start = det[d].now,
           NEW n \in det[d].read, ~Seen(n, start), ~Reported(n, start)
    PROVE  Reported(n, start)'
<1>1. Open(d) /\ UNCHANGED log
  BY DetectEndFacts
<1>2. PICK s \in det[d].signals : s.kind = "first_seen_ip" /\ s.ip = log[n].ip
  BY <1>1 DEF Promised
<1>3. DayOf(start) <= DayOf(now)
  <2>1. start \in Nat /\ start <= now /\ DayLength \in Nat \ {0}
    BY <1>1, DetectionAssumption DEF DetectionTyped, DetState
  <2> QED
    BY <2>1, DivMonotone DEF DayOf
<1>4. Row(s, now) \in DOMAIN anomalies'
  BY CommitRows
<1>5. Row(s, now).kind = "first_seen_ip" /\ Row(s, now).ip = log[n].ip /\ Row(s, now).day = DayOf(now)
  BY <1>2 DEF Row
<1> QED
  BY <1>1, <1>3, <1>4, <1>5 DEF Reported

\* Every step keeps the promises of the detections that are open, and what is
\* covered is accounted for.
LEMMA FirstSeenStep ==
    ASSUME SchedulerInv, DetectionTyped, FirstSeenInv, [Next]_vars
    PROVE  FirstSeenInv'
<1>0. SchedulerTyped
  BY DEF SchedulerInv
<1>1. ASSUME NEW d \in Detectors, Promised(d), det'[d] = det[d] \/ ~Open(d)'
      PROVE  Promised(d)'
  <2> SUFFICES ASSUME det'[d] = det[d], Open(d), NEW n \in det[d].read
               PROVE  /\ n \in DOMAIN log'
                      /\ \/ Seen(n, det[d].now)' \/ Reported(n, det[d].now)'
                         \/ \E s \in det'[d].signals : s.kind = "first_seen_ip" /\ s.ip = log'[n].ip
    BY <1>1 DEF Promised, Open
  <2>1. PICK now : now = det[d].now /\ now = det'[d].now
    OBVIOUS
  <2>2. /\ n \in DOMAIN log
        /\ \/ Seen(n, now) \/ Reported(n, now)
           \/ \E s \in det[d].signals : s.kind = "first_seen_ip" /\ s.ip = log[n].ip
    BY <1>1, <2>1 DEF Promised
  <2>3. /\ n \in DOMAIN log' /\ log'[n] = log[n]
        /\ Seen(n, now) => Seen(n, now)'
        /\ Reported(n, now) => Reported(n, now)'
    BY <1>0, <2>2, Remembered
  <2>4. /\ Seen(n, now)' => Seen(n, det[d].now)'
        /\ Reported(n, now)' => Reported(n, det[d].now)'
    BY <2>1 DEF Seen, Reported
  <2> QED
    BY <2>2, <2>3, <2>4
<1>2. ASSUME NEW n, NEW now, <<n, now>> \in covered
      PROVE  n \in DOMAIN log' /\ (Seen(n, now)' \/ Reported(n, now)')
  BY <1>0, <1>2, Remembered DEF FirstSeenInv
<1>3. CASE UNCHANGED <<det, covered>>
  BY <1>1, <1>2, <1>3 DEF FirstSeenInv
<1>4. ASSUME NEW d \in Detectors, NEW now \in Nat, DetectAlerts(d, now)
      PROVE  FirstSeenInv'
  <2>1. Promised(d)' /\ UNCHANGED covered /\ \A e \in Detectors \ {d} : det'[e] = det[e]
    BY <1>0, <1>4, SelectPromises, DetectAlertsFacts
  <2> QED
    BY <1>1, <1>2, <2>1 DEF FirstSeenInv
<1>5. ASSUME NEW d \in Detectors, DetectExisting(d)
      PROVE  FirstSeenInv'
  <2>1. Promised(d)' /\ UNCHANGED covered /\ \A e \in Detectors \ {d} : det'[e] = det[e]
    BY <1>5, ExistingPromises, DetectExistingFacts DEF FirstSeenInv
  <2> QED
    BY <1>1, <1>2, <2>1 DEF FirstSeenInv
<1>6. ASSUME NEW d \in Detectors, NEW now \in Nat, now = Now(d),
             DetectFails(d) \/ DetectCommit(d, now)
      PROVE  FirstSeenInv'
  <2>1. ~Open(d)' /\ Open(d) /\ \A e \in Detectors \ {d} : det'[e] = det[e]
    BY <1>6, DetectEndFacts
  <2>2. \A e \in Detectors : Promised(e)'
    BY <1>1, <2>1 DEF FirstSeenInv
  <2>3. CASE UNCHANGED covered
    BY <1>2, <2>2, <2>3 DEF FirstSeenInv
  <2>4. CASE DetectCommit(d, now)
    <3>0. PICK start : start = det[d].now
      OBVIOUS
    <3>1. ASSUME NEW n \in det[d].read
          PROVE  n \in DOMAIN log' /\ (Seen(n, start)' \/ Reported(n, start)')
      <4>1. Promised(d) /\ n \in DOMAIN log
        BY <2>1 DEF FirstSeenInv, Promised
      <4> QED
        BY <1>0, <1>6, <2>4, <3>0, <4>1, CommitReports, Remembered
    <3>2. covered' = covered \cup {<<n, start>> : n \in det[d].read}
      BY <2>4, <3>0, CommitRows
    <3>3. ASSUME NEW n, NEW t, <<n, t>> \in covered'
          PROVE  n \in DOMAIN log' /\ (Seen(n, t)' \/ Reported(n, t)')
      <4>1. CASE <<n, t>> \in covered
        BY <1>2, <4>1
      <4>2. CASE n \in det[d].read /\ t = start
        BY <3>1, <4>2
      <4> QED
        BY <3>2, <3>3, <4>1, <4>2
    <3> QED
      BY <2>2, <3>3 DEF FirstSeenInv
  <2> QED
    BY <1>6, <2>3, <2>4 DEF DetectFails
<1>7. \A d \in Detectors : \E now \in Nat : now = Now(d)
  BY NowForward
<1> QED
  BY <1>0, <1>3, <1>4, <1>5, <1>6, <1>7, NextSplit DEF Ingest, detectVars

\* Where the detections start.
LEMMA DetectionStart ==
    ASSUME Init
    PROVE  DetectionInv /\ FirstSeenInv
<1>1. log \in Seq(Alert) /\ det = [d \in Detectors |-> Asleep] /\ covered = {}
      /\ DOMAIN anomalies = {}
  BY PastsAssumption DEF Init, DetectionInit
<1>2. Asleep \in DetState /\ Asleep.pc = "idle"
  BY DEF Asleep, DetState
<1>5. \A d \in Detectors : det[d] = Asleep /\ ~Open(d)
  BY <1>1, <1>2 DEF Open
<1> QED
  BY <1>1, <1>2, <1>5
     DEF DetectionInv, DetectionTyped, StoredOnce, NotStored, FirstSeenInv, Promised, Open

\* DetectionInv and FirstSeenInv are invariants of the scheduled detections.
THEOREM DetectionInvariance == Spec => [](SchedulerInv /\ DetectionInv /\ FirstSeenInv)
<1>1. Init => DetectionInv /\ FirstSeenInv
  BY DetectionStart
<1>2. SchedulerInv /\ DetectionInv /\ FirstSeenInv /\ [Next]_vars => DetectionInv' /\ FirstSeenInv'
  <2> SUFFICES ASSUME SchedulerInv, DetectionInv, FirstSeenInv, [Next]_vars
               PROVE  DetectionInv' /\ FirstSeenInv'
    OBVIOUS
  <2>1. DetectionTyped' /\ FirstSeenInv'
    BY DetectionTypedInv, FirstSeenStep DEF DetectionInv
  <2>2. ~overlapped' => ~overlapped
    BY NextSplit DEF SchedulerInv, DetectAlerts, DetectExisting, DetectCommit, DetectFails, Ingest, detectVars
  <2> QED
    BY <2>1, <2>2, StoredOnceInv DEF DetectionInv
<1> QED
  BY <1>1, <1>2, SchedulerInvariance, PTL DEF Spec

\* run_anomaly_detection: for any alerts, processes and clock, a signal is
\* stored once a day as long as no two detections are open at once.
THEOREM StoredOncePerDay == Spec => []IdempotentAlone
<1>1. DetectionInv => IdempotentAlone
  BY DEF DetectionInv, IdempotentAlone, StoredOnce
<1> QED
  BY <1>1, DetectionInvariance, PTL

\* run_anomaly_detection: whatever is ingested meanwhile, and however many
\* detections interleave, fail or commit after midnight, an alert that a
\* finished detection has read is of an address the window had seen, or the
\* address has been reported.
THEOREM FirstSeenIsReported == Spec => []FirstSeenReported
<1>1. FirstSeenInv => FirstSeenReported
  BY DEF FirstSeenInv, FirstSeenReported, Seen, Reported
<1> QED
  BY <1>1, DetectionInvariance, PTL
=============================================================================
