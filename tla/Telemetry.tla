----------------------------- MODULE Telemetry -----------------------------
(***************************************************************************)
(* rmm-evidence's record of one miner (internal/evidence/telemetry) and of *)
(* the network (internal/evidence/network, expected), as `ingest` of       *)
(* cmd/rmm-evidence writes it and as it is aggregated and pruned.  Miners  *)
(* share nothing here.                                                     *)
(*                                                                         *)
(* Time is counted in half seconds: an even one prints as a whole second,  *)
(* an odd one with a fraction.  Hours, days and poll intervals are scaled  *)
(* down to a few of them.                                                  *)
(*                                                                         *)
(* Every statement to the database stands for itself, but for the samples  *)
(* of one ingest.  An ingest may fail or be killed between any two.        *)
(***************************************************************************)
EXTENDS Integers, FiniteSetsExt, Functions

CONSTANTS
    Ingests,        \* processes that run `ingest`
    Interval,       \* pollInterval
    Hour, Day,      \* how long they are
    Retention,      \* age at which raw samples are pruned
    None,           \* nothing recorded
    MaxTime,        \* bound on the time
    MaxSamples,     \* bound on the samples
    MaxShares       \* bound on the shares

ASSUME TelemetryAssumption ==
    /\ {Interval, Hour, Day} \subseteq Nat \ {0}
    /\ Interval % 2 = 0 /\ Hour % Interval = 0 /\ Day % Hour = 0
    /\ {Retention, MaxTime, MaxSamples, MaxShares} \subseteq Nat
    /\ None \notin Int

Times == 0..MaxTime
Hours == 0..(MaxTime \div Hour)
Days == 0..(MaxTime \div Day)

VARIABLES
    now,        \* the time
    accepted,   \* how many shares the miner has had accepted, ever
    counter,    \* how many it reports: since it was started
    raw,        \* telemetry_raw: the number of a row -> the sample
    taken,      \* how many answers `ingest` got from the monitor, so far
    network,    \* day -> the answer its snapshot is from
    expected,   \* day -> the answer its expected value is from
    hourly,     \* hour -> its aggregate
    job,        \* process -> what it is doing
    lastSecond  \* that of the last sample, None once two were not apart

miner == <<accepted, counter>>
vars == <<now, miner, raw, taken, network, expected, hourly, job, lastSecond>>

Idle == [at |-> "idle"]

Init ==
    /\ now = 0
    /\ accepted = 0
    /\ counter = 0
    /\ raw = <<>>
    /\ taken = 0
    /\ network = [d \in Days |-> None]
    /\ expected = [d \in Days |-> None]
    /\ hourly = [h \in Hours |-> None]
    /\ job = [j \in Ingests |-> Idle]
    /\ lastSecond = -1

Tick ==
    /\ now < MaxTime
    /\ now' = now + 1
    /\ UNCHANGED <<miner, raw, taken, network, expected, hourly, job, lastSecond>>

ShareAccepted ==
    /\ accepted < MaxShares
    /\ accepted' = accepted + 1
    /\ counter' = counter + 1
    /\ UNCHANGED <<now, raw, taken, network, expected, hourly, job, lastSecond>>

MinerRestarts ==
    /\ counter' = 0
    /\ UNCHANGED <<now, accepted, raw, taken, network, expected, hourly, job, lastSecond>>

-----------------------------------------------------------------------------
(* ingest.                                                                 *)

Goto(j, from, to) ==
    /\ job[j].at = from
    /\ job' = [job EXCEPT ![j] = to]

(* The monitor answers with what it polled last. *)
Fetch(j) ==
    /\ taken < MaxSamples
    /\ lastSecond' = IF \E k \in Ingests \ {j} : job[k].at # "idle" THEN None ELSE lastSecond
    /\ taken' = taken + 1
    /\ Goto(j, "idle", [at |-> "fetched", acc |-> counter, doc |-> taken'])
    /\ UNCHANGED <<now, miner, raw, network, expected, hourly>>

Stamp(j) ==
    /\ lastSecond' = IF lastSecond \in {None, now \div 2} THEN None ELSE now \div 2
    /\ Goto(j, "fetched",
            [at |-> "raw", acc |-> job[j].acc, doc |-> job[j].doc, ts |-> now])
    /\ UNCHANGED <<now, miner, raw, taken, network, expected, hourly>>

(* AUTOINCREMENT; only the order of the numbers counts.                    *)
NextRow == 1 + Max(DOMAIN raw \cup {0})

RecordRaw(j) ==
    /\ Goto(j, "raw", [job[j] EXCEPT !.at = "network"])
    /\ raw' = [i \in DOMAIN raw \cup {NextRow} |->
                  IF i = NextRow THEN [ts |-> job[j].ts, acc |-> job[j].acc] ELSE raw[i]]
    /\ UNCHANGED <<now, miner, taken, network, expected, hourly, lastSecond>>

DayOf(j) == job[j].ts \div Day

InsertOrIgnore(table, d, doc) ==
    IF table[d] = None THEN [table EXCEPT ![d] = doc] ELSE table

RecordNetwork(j) ==
    /\ Goto(j, "network", [job[j] EXCEPT !.at = "expected"])
    /\ network' = InsertOrIgnore(network, DayOf(j), job[j].doc)
    /\ UNCHANGED <<now, miner, raw, taken, expected, hourly, lastSecond>>

RecordExpected(j) ==
    /\ Goto(j, "expected", Idle)
    /\ expected' = InsertOrIgnore(expected, DayOf(j), job[j].doc)
    /\ UNCHANGED <<now, miner, raw, taken, network, hourly, lastSecond>>

(* It fails or is killed. *)
IngestStops(j) ==
    /\ job[j].at # "idle"
    /\ job' = [job EXCEPT ![j] = Idle]
    /\ UNCHANGED <<now, miner, raw, taken, network, expected, hourly, lastSecond>>

-----------------------------------------------------------------------------
(* AggregateHour.                                                          *)

(* Time stamps are compared as RFC3339Nano text, in which a whole second   *)
(* comes after its own fractions: '.' is before 'Z'.                       *)
Text(t) == IF t % 2 = 0 THEN t + 1 ELSE t - 1

Start(h) == h * Hour
End(h) == Start(h) + Hour

(* Mutant: the end of an hour belongs to it as well. *)
RowsUpToEnd(h) ==
    {i \in DOMAIN raw : Text(raw[i].ts) >= Text(Start(h)) /\ Text(raw[i].ts) <= Text(End(h))}

Rows(h) ==
    {i \in DOMAIN raw : Text(raw[i].ts) >= Text(Start(h)) /\ Text(raw[i].ts) < Text(End(h))}

(* ORDER BY ts_utc, from an index that ends in the row's number. *)
Before(i, k) ==
    \/ Text(raw[i].ts) < Text(raw[k].ts)
    \/ raw[i].ts = raw[k].ts /\ i < k

(* A jump of more than two poll intervals from one row to the next. *)
GapsIn(rows) ==
    {<<raw[pair[1]].ts, raw[pair[2]].ts>> : pair \in
        {pair \in rows \X rows :
            /\ Before(pair[1], pair[2])
            /\ ~ \E k \in rows : Before(pair[1], k) /\ Before(k, pair[2])
            /\ raw[pair[2]].ts - raw[pair[1]].ts > 2 * Interval}}

(* Mutant: all that the miner reports counts for this hour. *)
LastCounter(first, last) == last

(* The miner may have been restarted: never less than nothing. *)
counterDelta(first, last) == Max({0, last - first})

AcceptedDelta(rows) ==
    LET first == CHOOSE i \in rows : \A k \in rows \ {i} : Before(i, k)
        last == CHOOSE i \in rows : \A k \in rows \ {i} : Before(k, i)
    IN  IF rows = {} THEN 0 ELSE counterDelta(raw[first].acc, raw[last].acc)

(* Mutant: a sample in every two intervals will do, as for the gaps. *)
ExpectedInTwo == Hour \div (2 * Interval)

ExpectedSamples == Hour \div Interval

(* CompletenessPct is cut off at 100. *)
Aggregate(rows) ==
    [seen          |-> {raw[i].ts : i \in rows},
     received      |-> Cardinality(rows),
     complete      |-> Cardinality(rows) >= ExpectedSamples,
     gaps          |-> GapsIn(rows),
     acceptedDelta |-> AcceptedDelta(rows)]

(* It reads, then writes, and nobody else reads what it writes: with one   *)
(* of them at a time, it may as well be one step.                          *)
AggregateHour(h) ==
    /\ hourly' = [hourly EXCEPT ![h] = Aggregate(Rows(h))]
    /\ UNCHANGED <<now, miner, raw, taken, network, expected, job, lastSecond>>

PruneRaw ==
    /\ raw' = Restrict(raw, {i \in DOMAIN raw : Text(raw[i].ts) >= Text(now - Retention)})
    /\ raw' # raw
    /\ UNCHANGED <<now, miner, taken, network, expected, hourly, job, lastSecond>>

-----------------------------------------------------------------------------
Ingest(j) ==
    \/ Fetch(j) \/ Stamp(j)
    \/ RecordRaw(j) \/ RecordNetwork(j) \/ RecordExpected(j)
    \/ IngestStops(j)

Next ==
    \/ Tick
    \/ ShareAccepted \/ MinerRestarts
    \/ \E j \in Ingests : Ingest(j)
    \/ \E h \in Hours : AggregateHour(h)
    \/ PruneRaw

Spec == Init /\ [][Next]_vars

-----------------------------------------------------------------------------
TypeOK ==
    /\ now \in Times
    /\ accepted \in 0..MaxShares /\ counter \in 0..accepted
    /\ IsFiniteSet(DOMAIN raw) /\ DOMAIN raw \subseteq Nat \ {0}
    /\ \A i \in DOMAIN raw : raw[i] \in [ts : Times, acc : 0..MaxShares]
    /\ taken \in 0..MaxSamples
    /\ network \in [Days -> 1..MaxSamples \cup {None}]
    /\ expected \in [Days -> 1..MaxSamples \cup {None}]
    /\ \A h \in Hours : hourly[h] # None => hourly[h].acceptedDelta \in 0..MaxShares
    /\ lastSecond \in -1..MaxTime \cup {None}

(* Every sample is counted in one hour and in no other, whatever its       *)
(* fraction of a second (telemetry.go:134-137).                            *)
CountedOnce ==
    \A i \in DOMAIN raw :
        Cardinality({h \in (-1)..(MaxTime \div Hour + 1) : i \in Rows(h)}) = 1

(* The hours together claim no share that was not accepted, though the     *)
(* miner restarts, samples come late, and hours are aggregated again       *)
(* (telemetry.go:257-268).  As long as one ingest ends before the next,    *)
(* in another second: they are "every few minutes"                         *)
(* (docs/EVIDENCE-OPERATIONS.md:101).                                      *)
NoShareTwice ==
    lastSecond # None =>
        MapThenSumSet(LAMBDA h : hourly[h].acceptedDelta,
                      {h \in Hours : hourly[h] # None}) <= accepted

(* "Missing samples are surfaced as a lower completeness percentage and    *)
(* listed gaps" (telemetry.go:5-6): an hour is not complete, or lists      *)
(* every stretch of more than two intervals without a sample.  As long as  *)
(* no interval has two samples, which would make up for a missing one.     *)
OneAnInterval(times) ==
    \A t, u \in times : t \div Interval = u \div Interval => t = u

Stretches(h, times) ==
    {s \in (times \cup {Start(h)}) \X (times \cup {End(h)}) :
        s[2] - s[1] > 2 * Interval /\ ~ \E v \in times : s[1] < v /\ v < s[2]}

HolesAreSurfaced ==
    \A h \in Hours :
        LET agg == hourly[h] IN
        /\ agg # None
        /\ Cardinality(agg.seen) = agg.received
        /\ OneAnInterval(agg.seen)
        => ~agg.complete \/ Stretches(h, agg.seen) \subseteq agg.gaps

(* "The aggregate for [hourStart, hourStart+1h)" (telemetry.go:127).       *)
(* It does not hold.                                                       *)
HourCountsItsOwn ==
    \A h \in Hours :
        hourly[h] # None => hourly[h].seen \subseteq Start(h)..(End(h) - 1)

(* "Contemporaneous expected value for the fleet, tied to the day's        *)
(* snapshot" (ingest.go:107): both are from one answer.  It does not hold. *)
ExpectedFitsSnapshot ==
    \A d \in Days : expected[d] # None => expected[d] = network[d]
=============================================================================
