------------------------------- MODULE Detection -------------------------------
(***************************************************************************)
(* run_anomaly_detection (ai/anomaly.py) for the alerts of one partner and *)
(* rule: SELECT the alerts of the window, compute the signals, SELECT the  *)
(* anomalies of the day, INSERT the others.                                *)
(***************************************************************************)
EXTENDS Integers, Sequences, FiniteSets

CONSTANTS
    Detectors,      \* processes that run the detection
    Ips,            \* source addresses
    Ranks,          \* severity ranks of SEVERITY_ORDER
    BaselineDays,
    DayLength,      \* seconds of a day
    Threshold,      \* zscore_threshold, squared
    Pasts,          \* alerts of the days before, one of these sequences
    MaxAlerts       \* bound: alerts that are ingested

ASSUME DetectionAssumption ==
    /\ Ranks \subseteq Nat
    /\ BaselineDays \in Nat \ {0, 1} /\ DayLength \in Nat \ {0}
    /\ Threshold \in Nat /\ MaxAlerts \in Nat

\* A row of alerts as far as the detection reads it.  Its time is of the wall
\* clock of the process that stored it.
Alert == [ip : Ips, rank : Ranks, at : Nat]

ASSUME PastsAssumption == Pasts \subseteq Seq(Alert)

VARIABLES
    log,          \* alerts in the order of their INSERT: [ip, rank, at]
    anomalies,    \* committed anomalies [kind, ip, day], with their number
    det,          \* where a detection is
    overlapped,   \* two detections were open at the same time
    covered       \* <<n, now>>: a detection of time now that has finished has
                  \* read alert n as current

detectVars == <<log, anomalies, det, overlapped, covered>>

Asleep == [pc |-> "idle", now |-> 0, signals |-> {}, read |-> {}]

DetectionInit ==
    /\ log \in Pasts /\ anomalies = [row \in {} |-> 0]
    /\ det = [d \in Detectors |-> Asleep]
    /\ overlapped = FALSE /\ covered = {}

\* _day_bucket, as a number and as the first second of the day.
DayOf(time) == time \div DayLength
DayStart(time) == DayLength * DayOf(time)

WindowStart(now) == now - BaselineDays * DayLength

\* Mutant: the alerts of the day are history as well.
HistoryToday(now) == {n \in DOMAIN log : log[n].at >= WindowStart(now)}

\* Positions of the alerts of the window before the day of now, whose first
\* day is cut at the hour of now, and of those since.
History(now) == {n \in DOMAIN log : /\ log[n].at >= WindowStart(now)
                                    /\ log[n].at < DayStart(now)}
Current(now) == {n \in DOMAIN log : log[n].at >= DayStart(now)}

\* Addresses of the day that the window has not seen.
FirstSeen(now) ==
    {log[n].ip : n \in Current(now)} \ {log[n].ip : n \in History(now)}

Highest(S) == CHOOSE r \in S : \A q \in S : q <= r

\* The SELECT returns the alerts of the day in any order.
Orders(now) ==
    LET today == Current(now)
    IN  {place \in [today -> 1 .. Cardinality(today)] :
            \A n, m \in today : place[n] = place[m] => n = m}

\* Alerts above every earlier rank.  Without history the first alert sets
\* the mark and is not reported.
Raising(now, place) ==
    LET before(n) == History(now) \cup {m \in Current(now) : place[m] < place[n]}
    IN  {n \in Current(now) : /\ before(n) # {}
                              /\ log[n].rank > Highest({log[m].rank : m \in before(n)})}

NewSeverity(now, place) == {log[n].ip : n \in Raising(now, place)}

CountIn(ip, alerts) == Cardinality({n \in alerts : log[n].ip = ip})

\* Sums of the daily counts of the baseline and of their squares.
Total(ip, now) == CountIn(ip, History(now))
Squares(ip, now) ==
    LET onDay(k) == CountIn(ip, {n \in History(now) : DayOf(log[n].at) = DayOf(now) - k})
        upTo[k \in 0 .. BaselineDays] ==
            IF k = 0 THEN 0 ELSE upTo[k - 1] + onDay(k) * onDay(k)
    IN  upTo[BaselineDays]

\* (count - mean) / stdev above the threshold, over integers.  A baseline
\* without variance counts as infinitely far from any other count, lower
\* ones too.
Spikes(ip, now) ==
    LET n == BaselineDays
        total == Total(ip, now)
        count == CountIn(ip, Current(now))
        away == n * count - total
        spread == n * Squares(ip, now) - total * total
    IN  /\ total > 0 /\ count > 0
        /\ IF spread = 0 THEN away # 0
           ELSE away > 0 /\ away * away * (n - 1) > Threshold * n * spread

CountSpike(now) == {ip \in Ips : Spikes(ip, now)}

\* compute_anomaly_signals: each signal once.
Signals(now, place) ==
    [kind : {"first_seen_ip"}, ip : FirstSeen(now)]
      \cup [kind : {"new_severity"}, ip : NewSeverity(now, place)]
      \cup [kind : {"count_spike"}, ip : CountSpike(now)]

\* The first SELECT; nothing more to do without signals.
DetectAlerts(d, now) ==
    /\ det[d].pc = "idle"
    /\ \E place \in Orders(now) :
          LET signals == Signals(now, place)
          IN  det' = [det EXCEPT ![d] = [Asleep EXCEPT
                 !.pc = IF signals = {} THEN "none" ELSE "computed",
                 !.now = now, !.signals = signals, !.read = Current(now)]]
    /\ overlapped' = (overlapped \/ \E e \in Detectors : det[e].pc # "idle")
    /\ UNCHANGED <<log, anomalies, covered>>

SameSignal(row, s) == row.kind = s.kind /\ row.ip = s.ip

\* Mutant: the anomalies of the day before count, and today's do not.
OfTheDayLate(row, now) == row.day < DayOf(now)

OfTheDay(row, now) == row.day >= DayOf(now)

\* The SELECT of the anomalies of the day.
DetectExisting(d) ==
    /\ det[d].pc = "computed"
    /\ det' = [det EXCEPT ![d].pc = "read", ![d].signals =
                 {s \in @ : ~\E row \in DOMAIN anomalies :
                     SameSignal(row, s) /\ OfTheDay(row, det[d].now)}]
    /\ UNCHANGED <<log, anomalies, overlapped, covered>>

\* created_at is of the process that stores the row.
Row(s, now) == [kind |-> s.kind, ip |-> s.ip, day |-> DayOf(now)]

\* The COMMIT, on the same day or on the next.
DetectCommit(d, now) ==
    LET rows == {Row(s, now) : s \in det[d].signals}
    IN  /\ det[d].pc \in {"read", "none"}
        /\ anomalies' = [row \in DOMAIN anomalies \cup rows |->
                           (IF row \in DOMAIN anomalies THEN anomalies[row] ELSE 0)
                             + (IF row \in rows THEN 1 ELSE 0)]
        /\ covered' = covered \cup {<<n, det[d].now>> : n \in det[d].read}
        /\ det' = [det EXCEPT ![d] = Asleep]
        /\ UNCHANGED <<log, overlapped>>

\* The database raises, or the process dies: nothing was written.
DetectFails(d) ==
    /\ det[d].pc # "idle"
    /\ det' = [det EXCEPT ![d] = Asleep]
    /\ UNCHANGED <<log, anomalies, overlapped, covered>>

\* An alert is ingested.  The first window starts at second 0.
Ingest(now) ==
    /\ Cardinality({n \in DOMAIN log : log[n].at >= BaselineDays * DayLength}) < MaxAlerts
    /\ \E ip \in Ips, rank \in Ranks :
          log' = Append(log, [ip |-> ip, rank |-> rank, at |-> now])
    /\ UNCHANGED <<anomalies, det, overlapped, covered>>
=============================================================================
